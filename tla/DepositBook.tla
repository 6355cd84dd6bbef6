---------------------------- MODULE DepositBook ----------------------------
(***************************************************************************)
(* What becomes of a deposit, whoever looks at it and how often: it is     *)
(* asked for, it may be held for a decision, and it is either closed or    *)
(* confirmed, for good.  A confirmed deposit pays its player once: in the  *)
(* same piece when it is approved, later or never when it was claimed.     *)
(***************************************************************************)
EXTENDS Integers, Sequences

CONSTANTS Players, Asks  \* who may ask for a deposit, and for how much

VARIABLES
  stage,  \* deposits in order: who asked, for how much, and what became of it
  funds   \* player -> what the deposits have paid

book == <<stage, funds>>

Init == stage = <<>> /\ funds = [u \in Players |-> 0]

In(i, at) == i \in DOMAIN stage /\ stage[i].at = at
Move(i, at) == stage' = [stage EXCEPT ![i].at = at]
Pays(i) == funds' = [funds EXCEPT ![stage[i].user] = @ + stage[i].usd]

Ask(u, usd) ==
  /\ stage' = Append(stage, [user |-> u, usd |-> usd, at |-> "open"])
  /\ UNCHANGED funds

Hold(i)    == In(i, "open") /\ Move(i, "held") /\ UNCHANGED funds
Close(i)   == (In(i, "open") \/ In(i, "held")) /\ Move(i, "closed") /\ UNCHANGED funds
Claim(i)   == (In(i, "open") \/ In(i, "held")) /\ Move(i, "claimed") /\ UNCHANGED funds
Pay(i)     == In(i, "claimed") /\ Move(i, "paid") /\ Pays(i)
Approve(i) == In(i, "held") /\ Move(i, "paid") /\ Pays(i)

Next ==
  \/ \E u \in Players, usd \in Asks : Ask(u, usd)
  \/ \E i \in DOMAIN stage : Hold(i) \/ Close(i) \/ Claim(i) \/ Pay(i) \/ Approve(i)

Spec == Init /\ [][Next]_book
=============================================================================

------------------------------- MODULE Quotes -------------------------------
(***************************************************************************)
(* The pure functions of coins.ts: what a deposit is quoted, and how an    *)
(* amount that arrives on chain compares with the quote.  Amounts are in   *)
(* the coin's smallest unit; a window is in hundredths of it, so that the  *)
(* products of coins.ts stay whole numbers.                                *)
(***************************************************************************)
EXTENDS Integers, FiniteSets

CONSTANTS
  Tolerance,  \* COIN_QUOTE[coin].tolerance, in percent
  Floor       \* COIN_QUOTE[coin].floor

ASSUME QuotesAssumption == Tolerance \in 1..100 /\ Floor \in Nat \ {0}

Larger(x, y) == IF x >= y THEN x ELSE y
Distance(x, y) == IF x >= y THEN x - y ELSE y - x

MatchWindowFor(expected) == Larger(100 * Floor, expected * Tolerance)

InWindow(expected, received) == 100 * Distance(expected, received) <= MatchWindowFor(expected)

ClassifyReceived(expected, received) ==
  IF InWindow(expected, received) THEN "match"
  ELSE IF 2 * Distance(expected, received) <= expected THEN "review"
  ELSE "ignore"

\* roundCrypto(window * 2.2)
UniquenessStepFor(expected) == (22 * MatchWindowFor(expected) + 500) \div 1000

\* Mutant of AllocateUniqueAmount: the amounts in use are not looked at.
AllocateBase(base, used, step) == Larger(step, base)

\* The first amount of base, base + step, ... that no other quote has.
AllocateUniqueAmount(base, used, step) ==
  LET amount(k) == Larger(step, base) + k * step
      free == {k \in 0..Cardinality(used) : amount(k) \notin used}
  IN amount(CHOOSE k \in free : \A j \in free : k <= j)

QuoteCryptoAmount(base, used) == AllocateUniqueAmount(base, used, UniquenessStepFor(base))
=============================================================================

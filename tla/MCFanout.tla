------------------------------ MODULE MCFanout ------------------------------
(***************************************************************************)
(* Small instances of the fan-out for TLC.                                 *)
(***************************************************************************)
EXTENDS FanoutProperties

Only(kind, n) == [k \in FaultKinds |-> IF k = kind THEN n ELSE 0]

OneFault == {Only(k, 1) : k \in FaultKinds}
TwoLostPublications ==
  OneFault \cup {Only("publish", 2), [Only("publish", 1) EXCEPT !["worker"] = 1]}
=============================================================================

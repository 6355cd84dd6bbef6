----------------------------- MODULE MCDeposits -----------------------------
(***************************************************************************)
(* Small instances of the deposit watcher for TLC.                         *)
(***************************************************************************)
EXTENDS DepositProperties

OneWorker  == {<<"w1", "chain">>, <<"w1", "simulate">>}
TwoWorkers == {<<"w1", "chain">>, <<"w2", "chain">>}
ChainTimer == {<<"w1", "chain">>}
=============================================================================

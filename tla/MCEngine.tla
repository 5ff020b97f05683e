------------------------------ MODULE MCEngine ------------------------------
(***************************************************************************)
(* Engine for TLC: three orders: the first by hash has a permit and comes  *)
(* after the second, the third nobody takes; a tick evaluates one.         *)
(***************************************************************************)
EXTENDS Engine, TLC

MCSize == <<1, 2, 1>>
MCValue == <<2, 1, 1>>
MCAddedAt == <<2, 1, 3>>
Weather(restarts, rivals, failures, unpriced) ==
    [restarts |-> restarts, rivals |-> rivals, failures |-> failures, unpriced |-> unpriced]
MCWeathers == {Weather(1, 0, 0, 1), Weather(0, 1, 1, 0)}
=============================================================================

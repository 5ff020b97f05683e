---------------------------- MODULE MCFillerGuard ----------------------------
(***************************************************************************)
(* FillerGuard for TLC: a fill that reserves outflow and a rebalancer step *)
(* that does not, in budgets that hold one of the first and two of either. *)
(***************************************************************************)
EXTENDS FillerGuard, TLC

CONSTANTS tick, admin, fill, swap

Limits == fill :> 2 @@ swap :> 1
Reserves == fill :> 1 @@ swap :> 0
TickOnly == tick :> {fill, swap}
WithAdmin == tick :> {fill, swap} @@ admin :> {swap}
=============================================================================

---------------------------- MODULE MCFillIndex ----------------------------
(***************************************************************************)
(* FillIndex for TLC: four transactions of one order, of which the last    *)
(* reports nothing, in a ring of two records; a backfill that fails once   *)
(* beside the live feed, or two reorganisations.                           *)
(***************************************************************************)
EXTENDS FillIndex, TLC

CONSTANTS o1

MCTxs == 1 :> [order |-> o1, amount |-> 1] @@ 2 :> [order |-> o1, amount |-> 2]
         @@ 3 :> [order |-> o1, amount |-> 3] @@ 4 :> [order |-> o1, amount |-> 0]
MCWeathers == {[backfills |-> 1, reorgs |-> 0, failures |-> 1],
               [backfills |-> 0, reorgs |-> 2, failures |-> 1]}
=============================================================================

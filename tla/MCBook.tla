------------------------------- MODULE MCBook -------------------------------
(***************************************************************************)
(* Book for TLC: two makers, an order and its fill-once replacement, a     *)
(* cancel that names an order of another maker, room for two orders.       *)
(***************************************************************************)
EXTENDS Book, TLC
CONSTANTS op, or, os, oq, ann, bob, t1, t2

MCMaker == op :> ann @@ or :> ann @@ os :> ann @@ oq :> bob
MCExpiry == op :> 2 @@ or :> 3 @@ os :> 2 @@ oq :> 2
MCNonce == op :> 1 @@ or :> 1 @@ os :> 2 @@ oq :> 1
MCFillOnce == op :> TRUE @@ or :> TRUE @@ os :> FALSE @@ oq :> FALSE
Drop(m, S, expiry) == [maker |-> m, orders |-> S, expiry |-> expiry]
MCCancels == {Drop(ann, {op, oq}, 3), Drop(ann, {os}, 1)}
MCReplaces == {[old |-> op, new |-> or, cancel |-> Drop(ann, {op}, 3)]}
Weather(sends, moves, faults, boots, ticks, perMaker) ==
    [sends |-> sends, moves |-> moves, faults |-> faults, boots |-> boots, ticks |-> ticks, perMaker |-> perMaker]
MCWeathers == {Weather(5, 0, 0, 0, 1, 2), Weather(3, 0, 0, 0, 3, 2), Weather(2, 1, 0, 0, 1, 1),
               Weather(1, 1, 1, 0, 1, 2), Weather(3, 0, 0, 1, 1, 2), Weather(2, 0, 0, 1, 3, 2)}
=============================================================================

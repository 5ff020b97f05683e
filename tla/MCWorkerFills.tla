--------------------------- MODULE MCWorkerFills ---------------------------
(***************************************************************************)
(* WorkerFills for TLC: an order filled in two parts, and a fill-once order*)
(* sharing its nonce with a third.                                         *)
(***************************************************************************)
EXTENDS WorkerFills, TLC
CONSTANTS a, b, c, r1

MCOrders == a :> [anchor |-> 3, once |-> FALSE, mates |-> {}]
         @@ b :> [anchor |-> 1, once |-> TRUE, mates |-> {c}]
         @@ c :> [anchor |-> 1, once |-> FALSE, mates |-> {b}]
Fill(o, n) == [kind |-> "fill", order |-> o, amount |-> n]
Cancel(S, byHash) == [kind |-> "cancel", kills |-> S, byHash |-> byHash]
MCEvents == 1 :> Fill(a, 1) @@ 2 :> Fill(a, 2) @@ 3 :> Fill(b, 1) @@ 4 :> Cancel({a}, TRUE)
Weather(events, posts, reports, reorgs, failures, crashes, expiries) ==
    [events |-> events, posts |-> posts, reports |-> reports, reorgs |-> reorgs,
     failures |-> failures, crashes |-> crashes, expiries |-> expiries]
MCWeathers == {Weather({1, 2, 4}, 1, 0, 0, 1, 0, 0), Weather({3}, 2, 0, 0, 1, 0, 1),
               Weather({1}, 1, 2, 0, 0, 0, 0), Weather({1}, 1, 0, 0, 0, 1, 1), Weather({1, 2}, 1, 0, 1, 1, 0, 0),
               Weather({1, 2}, 0, 1, 0, 0, 1, 0), Weather({2}, 0, 1, 1, 0, 0, 0)}
=============================================================================

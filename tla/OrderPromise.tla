---------------------------- MODULE OrderPromise ----------------------------
(***************************************************************************)
(* What the Settlement contract promises the makers of orders, seen at the *)
(* granularity of committed transactions: nothing of how a fill is gated,  *)
(* opened, paid and closed, of locks, or of reverts.                       *)
(***************************************************************************)
EXTENDS Naturals

CONSTANTS
    Orders,
    Total,      \* Orders -> the most anchor units an order may ever settle
    Whole,      \* orders that settle in a single fill or not at all
    Rivals      \* Orders -> orders that die when this one settles

VARIABLES
    settled,    \* anchor units settled so far, per order
    granted,    \* orders whose maker's authority has been presented
    dead        \* orders that will never settle another unit

vars == <<settled, granted, dead>>

Init == settled = [o \in Orders |-> 0] /\ granted = {} /\ dead = {}

(* One transaction: it may settle some live orders, and may kill some.     *)
Transact ==
    /\ settled' \in [Orders -> Nat]
    /\ granted' \in SUBSET Orders
    /\ dead' \in SUBSET Orders
    /\ granted \subseteq granted'
    /\ dead \subseteq dead'
    /\ \A o \in Orders : settled'[o] # settled[o] =>
         /\ o \notin dead
         /\ o \in granted'
         /\ settled[o] < settled'[o] /\ settled'[o] <= Total[o]
         /\ o \in Whole => settled[o] = 0
         /\ Rivals[o] \subseteq dead'

Spec == Init /\ [][Transact]_vars
=============================================================================

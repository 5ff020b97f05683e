------------------------ MODULE MCBridgedOrderInbox ------------------------
(* Small instances of BridgedOrderInbox.  `swap` is an order the inbox can  *)
(* make, `odd` one of a shape it never approves; a stranger may write a     *)
(* commitment naming the user's order.                                      *)
EXTENDS BridgedOrderInbox, TLC

CONSTANTS tA, swap, odd, user, stranger, pool

Book ==
       swap :> [anchor |-> 2, token |-> tA, expiry |-> 2, shape |-> TRUE]
    @@ odd :> [anchor |-> 1, token |-> tA, expiry |-> 2, shape |-> FALSE]

BookTerms == [o \in Orders |-> Book[o]]

Names(o, b, e) == [order |-> o, beneficiary |-> b, expiry |-> e]

Rivals == {Names(swap, user, 0), Names(swap, stranger, 1)}
Contested == Rivals \cup {Names(odd, user, 1)}
OneSource == [s \in Sources |-> tA]
=============================================================================

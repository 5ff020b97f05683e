---------------------------- MODULE MCOrderFills ----------------------------
(* Small instances of OrderFills.  Each kind of order appears once; a .cfg  *)
(* picks the orders and the calls one question needs.                       *)
EXTENDS OrderFills, TLC

CONSTANTS alice, desk, desked, onceA, onceB, drawn

Base == [maker |-> alice, nonce |-> 1, total |-> 3, minFill |-> 1, once |-> FALSE,
         sized |-> FALSE, module |-> FALSE, expiry |-> 2, signedBy |-> {alice},
         batchSigned |-> FALSE, take |-> 0]

Book ==
       desked :> [Base EXCEPT !.total = 2, !.module = TRUE, !.signedBy = {desk}]
    @@ onceA :> [Base EXCEPT !.once = TRUE, !.total = 2]
    @@ onceB :> [Base EXCEPT !.once = TRUE, !.sized = TRUE, !.total = 2, !.signedBy = {}, !.batchSigned = TRUE]
    @@ drawn :> [Base EXCEPT !.nonce = 2, !.sized = TRUE, !.total = 2, !.signedBy = {}, !.take = 1]

BookTerms == [o \in Orders |-> Book[o]]

DeskId == [s \in Signers |-> 1]

None == {}
EachOrder == {{o} : o \in Orders}
OneList == {{1}}
=============================================================================

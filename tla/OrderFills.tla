----------------------------- MODULE OrderFills -----------------------------
(***************************************************************************)
(* The order-fill state machine of the Settlement contract: every entry    *)
(* that opens a fill, the window in which the fill's external calls run,   *)
(* how it closes or reverts, and every call a maker or a relayer may make  *)
(* at rest or from inside that window.                                     *)
(*                                                                         *)
(* A fill is a frame.  Opening it is one atomic step: between the read of  *)
(* `filled` and its write the code makes static calls only.  Then comes a  *)
(* window of deliveries, module calls, token hooks and the filler's        *)
(* callback, from which any function that does not take the lock can be    *)
(* called; then the frame closes, or reverts to the storage it saved.      *)
(***************************************************************************)
EXTENDS OrderState

CONSTANTS
    MaxTime,        \* bound: the clock stops here
    Amounts,        \* fillAmount arguments tried
    Approvals,      \* approveOrders arguments tried
    NonceLists,     \* cancelOrders arguments tried
    WordIndexes,    \* invalidateNonceWord arguments tried
    Floors,         \* rollbackNonces arguments tried
    Expiries,       \* setOrderSigner expiries tried, and permit expiries
    PermitNonces,   \* nonces of nomination permits tried
    Deadlines,      \* deadlines of nomination permits tried
    MaxPermits,     \* bound: nomination permits signed
    MaxBatch,       \* bound: entries of a batchFill
    MaxMatch        \* bound: orders of a matchSettle

ASSUME InputAssumption ==
    /\ Amounts \subseteq Nat
    /\ Approvals \subseteq SUBSET Orders
    /\ \A S \in NonceLists : S \subseteq Nat
    /\ WordIndexes \subseteq Nat
    /\ Floors \subseteq Nat
    /\ Expiries \subseteq Nat
    /\ PermitNonces \subseteq Nat
    /\ Deadlines \subseteq Nat
    /\ MaxTime \in Nat /\ MaxPermits \in Nat /\ MaxBatch \in Nat /\ MaxMatch \in Nat

VARIABLES
    st,         \* the contract's storage, a record of Ledgers
    now,        \* block.timestamp
    locked,     \* the reentrancy lock, _locked = 2
    frame,      \* the fill in progress
    batch,      \* the batchFill in progress
    permits     \* nomination permits makers have signed, off chain

vars == <<st, now, locked, frame, batch, permits>>

(* stage   "idle" no fill, "opening" matchSettle is opening its orders,    *)
(*         "window" external calls may run                                 *)
(* owes    orders opened before their authority was checked                *)
(* ragged  a sized order was opened for less than its denominator          *)
(* open    anchor units opened and not yet closed                          *)
(* left    orders matchSettle may still open                               *)
(* saved   the storage a revert goes back to                               *)
Frames == [stage : {"idle", "opening", "window"}, owes : SUBSET Orders,
           ragged : BOOLEAN, open : [Orders -> Nat], left : Nat, saved : Ledgers]

Batches == [on : BOOLEAN, strict : BOOLEAN, left : Nat, saved : Ledgers]

Permits == [maker : Makers, signer : Signers, nonce : Nat, expiry : Nat, deadline : Nat]

Nothing == [o \in Orders |-> 0]

NoFrame == [stage |-> "idle", owes |-> {}, ragged |-> FALSE, open |-> Nothing,
            left |-> 0, saved |-> Genesis]

NoBatch == [on |-> FALSE, strict |-> FALSE, left |-> 0, saved |-> Genesis]

Init ==
    /\ st = Genesis
    /\ now = 0
    /\ locked = FALSE
    /\ frame = NoFrame
    /\ batch = NoBatch
    /\ permits = {}

AtRest == frame.stage = "idle" /\ ~batch.on

(* Where a function that does not take the lock can be called from.        *)
CanCall == AtRest \/ frame.stage = "window"

Filling == UNCHANGED <<now, permits>>
Calling == UNCHANGED <<now, locked, frame, batch, permits>>

-----------------------------------------------------------------------------
(* Calls that do not take the lock: at rest, or from inside a window       *)

CancelOrderCall(o) ==
    /\ CanCall
    /\ st' = CancelOrder(st, o)
    /\ Calling

CancelOrdersCall(m, S) ==
    /\ CanCall
    /\ st' = BurnNonces(st, m, S)
    /\ Calling

InvalidateNonceWord(m, w) ==
    /\ CanCall
    /\ st' = BurnNonces(st, m, Word(w))
    /\ Calling

RollbackNoncesCall(m, floor) ==
    /\ CanCall
    /\ floor >= st.minValidNonce[m]
    /\ st' = RollbackNonces(st, m, floor)
    /\ Calling

(* approveOrder and approveOrders: only the maker's own orders.            *)
ApproveOrdersCall(m, S) ==
    /\ CanCall
    /\ \A o \in S : Terms[o].maker = m
    /\ st' = ApproveOrders(st, m, S)
    /\ Calling

(* revokeOrderApproval takes a bare hash: any caller, any order.           *)
RevokeOrderApprovalCall(m, o) ==
    /\ CanCall
    /\ st' = RevokeOrderApproval(st, m, o)
    /\ Calling

SetOrderSignerCall(m, s, expiry) ==
    /\ CanCall
    /\ st' = SetOrderSigner(st, m, s, expiry, now)
    /\ Calling

SetOrderSignerWithSig(p) ==
    /\ CanCall
    /\ Relayable(st, p, now)
    /\ st' = RelaySigner(st, p)
    /\ Calling

(* The maker burns the Permit3 nonce of a signed PermitTake.               *)
InvalidateTake(o) ==
    /\ CanCall
    /\ st' = [st EXCEPT !.takeSpent = @ \cup {o}]
    /\ Calling

-----------------------------------------------------------------------------
(* Opening a fill                                                          *)

(* One more order in a frame, after its gates.  The filler is already      *)
(* authorised, or owes the authority (fillWithPermitTake).                 *)
Extend(f, L, o, delta, total) ==
    [f EXCEPT !.open[o] = @ + delta,
              !.ragged = @ \/ (Terms[o].sized /\ ~IsFullFill(L, o, delta, total))]

Opened(o, delta, total, owes) ==
    [Extend([NoFrame EXCEPT !.stage = "window", !.saved = st], st, o, delta, total)
        EXCEPT !.owes = owes]

(* The gates of a fill on a signature, the signature gate, and the write.  *)
OpenSigned(o, sig, delta, total) ==
    /\ CanOpen(st, o, delta, total, now)
    /\ Verified(st, o, sig, now)
    /\ st' = OpenFill(Grant(st, o, sig, now), o, delta)

(* fill, fillWithCallback: gate, lock, verify, open.                       *)
Fill(o, sig, fillAmount) ==
    /\ ~locked
    /\ fillAmount # 0
    /\ \E total \in Denominators(o) : \E delta \in Deltas(st, o, fillAmount, total) :
         /\ OpenSigned(o, sig, delta, total)
         /\ frame' = Opened(o, delta, total, {})
    /\ locked' = TRUE
    /\ Filling /\ UNCHANGED batch

(* fillUpTo: the same, on the clamped amount.                              *)
FillUpTo(o, sig, fillAmount) ==
    /\ ~locked
    /\ \E total \in Denominators(o) :
         /\ FillStateOpen(st, o, total)
         /\ LET amount == Clamp(st, o, fillAmount, total)
            IN  /\ amount # 0
                /\ \E delta \in Deltas(st, o, amount, total) :
                     /\ OpenSigned(o, sig, delta, total)
                     /\ frame' = Opened(o, delta, total, {})
    /\ locked' = TRUE
    /\ Filling /\ UNCHANGED batch

(* fillWithPermit: the signed PermitBatch names the order.  A spent permit *)
(* nonce is skipped, its signature is still checked.                       *)
FillWithPermit(o, fillAmount) ==
    /\ ~locked
    /\ fillAmount # 0
    /\ Terms[o].batchSigned
    /\ \E total \in Denominators(o) : \E delta \in Deltas(st, o, fillAmount, total) :
         /\ CanOpen(st, o, delta, total, now)
         /\ st' = OpenFill(GrantSigned(st, o), o, delta)
         /\ frame' = Opened(o, delta, total, {})
    /\ locked' = TRUE
    /\ Filling /\ UNCHANGED batch

(* fillWithPermitTake: opens on nobody's authority, and owes it.           *)
FillWithPermitTake(o, fillAmount) ==
    /\ ~locked
    /\ fillAmount # 0
    /\ \E total \in Denominators(o) : \E delta \in Deltas(st, o, fillAmount, total) :
         /\ CanOpen(st, o, delta, total, now)
         /\ st' = OpenFill(st, o, delta)
         /\ frame' = Opened(o, delta, total, {o})
    /\ locked' = TRUE
    /\ Filling /\ UNCHANGED batch

(* _takeByPermit: the TAKE item whose slice is the permit's amount spends  *)
(* the signed PermitTake, and with it shows the maker's authority.         *)
TakeByPermit(o) ==
    /\ frame.stage = "window"
    /\ o \in frame.owes
    /\ Terms[o].take # 0 /\ frame.open[o] = Terms[o].take
    /\ o \notin st.takeSpent
    /\ st' = [GrantSigned(st, o) EXCEPT !.takeSpent = @ \cup {o}]
    /\ frame' = [frame EXCEPT !.owes = @ \ {o}]
    /\ Filling /\ UNCHANGED <<locked, batch>>

-----------------------------------------------------------------------------
(* batchFill: a list of fills under one lock, each in its own try/catch    *)

BatchFill(n, strict) ==
    /\ ~locked
    /\ batch' = [on |-> TRUE, strict |-> strict, left |-> n, saved |-> st]
    /\ locked' = TRUE
    /\ Filling /\ UNCHANGED <<st, frame>>

(* fillSelf: no lock of its own, only Settlement may call it.              *)
FillSelf(o, sig, fillAmount) ==
    /\ batch.on /\ batch.left > 0 /\ frame.stage = "idle"
    /\ fillAmount # 0
    /\ \E total \in Denominators(o) : \E delta \in Deltas(st, o, fillAmount, total) :
         /\ OpenSigned(o, sig, delta, total)
         /\ frame' = Opened(o, delta, total, {})
    /\ Filling /\ UNCHANGED <<locked, batch>>

(* An entry reverts, at a gate or inside its window, and is caught.        *)
EntryCaught ==
    /\ batch.on /\ batch.left > 0 /\ ~batch.strict
    /\ st' = IF frame.stage = "idle" THEN st ELSE frame.saved
    /\ frame' = NoFrame
    /\ batch' = [batch EXCEPT !.left = @ - 1]
    /\ Filling /\ UNCHANGED locked

BatchReturn ==
    /\ batch.on /\ batch.left = 0
    /\ batch' = NoBatch
    /\ locked' = FALSE
    /\ Filling /\ UNCHANGED <<st, frame>>

(* revertIfIncomplete, or any other revert of the whole batch.             *)
BatchRevert ==
    /\ batch.on
    /\ st' = batch.saved
    /\ frame' = NoFrame
    /\ batch' = NoBatch
    /\ locked' = FALSE
    /\ Filling

-----------------------------------------------------------------------------
(* matchSettle: several orders opened in one frame, then one schedule      *)

MatchSettle ==
    /\ ~locked
    /\ frame' = [NoFrame EXCEPT !.stage = "opening", !.left = MaxMatch, !.saved = st]
    /\ locked' = TRUE
    /\ Filling /\ UNCHANGED <<st, batch>>

OpenGated(o, sig, fillAmount) ==
    /\ frame.stage = "opening" /\ frame.left > 0
    /\ fillAmount # 0
    /\ \E total \in Denominators(o) : \E delta \in Deltas(st, o, fillAmount, total) :
         /\ OpenSigned(o, sig, delta, total)
         /\ frame' = [Extend(frame, st, o, delta, total) EXCEPT !.left = @ - 1]
    /\ Filling /\ UNCHANGED <<locked, batch>>

RunSchedule ==
    /\ frame.stage = "opening"
    /\ frame' = [frame EXCEPT !.stage = "window"]
    /\ Filling /\ UNCHANGED <<st, locked, batch>>

-----------------------------------------------------------------------------
(* Closing a frame                                                         *)

Settle(L, open) ==
    [L EXCEPT !.moved = [o \in Orders |-> @[o] + open[o]],
              !.fills = [o \in Orders |-> IF open[o] > 0 THEN @[o] + 1 ELSE @[o]]]

(* Mutant: an unconsumed PermitTake does not revert.                       *)
CloseOwing ==
    /\ frame.stage = "window"
    /\ ~frame.ragged
    /\ st' = Settle(st, frame.open)
    /\ frame' = NoFrame
    /\ IF batch.on
       THEN batch' = [batch EXCEPT !.left = @ - 1] /\ UNCHANGED locked
       ELSE locked' = FALSE /\ UNCHANGED batch
    /\ Filling

(* Mutant: a sized order may be paid in part.                              *)
CloseRagged ==
    /\ frame.stage = "window"
    /\ frame.owes = {}
    /\ st' = Settle(st, frame.open)
    /\ frame' = NoFrame
    /\ IF batch.on
       THEN batch' = [batch EXCEPT !.left = @ - 1] /\ UNCHANGED locked
       ELSE locked' = FALSE /\ UNCHANGED batch
    /\ Filling

(* The permit was consumed (PermitTakeNotConsumed) and no sized order is   *)
(* paid in part (ProportionalNeedsFullFill); the inputs are paid out.      *)
Close ==
    /\ frame.stage = "window"
    /\ frame.owes = {}
    /\ ~frame.ragged
    /\ st' = Settle(st, frame.open)
    /\ frame' = NoFrame
    /\ IF batch.on
       THEN batch' = [batch EXCEPT !.left = @ - 1] /\ UNCHANGED locked
       ELSE locked' = FALSE /\ UNCHANGED batch
    /\ Filling

(* Mutant: a failed fill keeps what it wrote.                              *)
RevertKeepsWrites ==
    /\ frame.stage # "idle" /\ ~batch.on
    /\ frame' = NoFrame
    /\ locked' = FALSE
    /\ Filling /\ UNCHANGED <<st, batch>>

(* The fill reverts, whatever the reason.                                  *)
Revert ==
    /\ frame.stage # "idle" /\ ~batch.on
    /\ st' = frame.saved
    /\ frame' = NoFrame
    /\ locked' = FALSE
    /\ Filling /\ UNCHANGED batch

-----------------------------------------------------------------------------
(* Outside the contract: time between transactions, makers signing permits *)

Tick ==
    /\ AtRest
    /\ now < MaxTime
    /\ now' = now + 1
    /\ UNCHANGED <<st, locked, frame, batch, permits>>

SignNomination(p) ==
    /\ AtRest
    /\ p \notin permits /\ Cardinality(permits) < MaxPermits
    /\ permits' = permits \cup {p}
    /\ UNCHANGED <<st, now, locked, frame, batch>>

-----------------------------------------------------------------------------
Registry ==
    \/ \E o \in Orders : CancelOrderCall(o) \/ InvalidateTake(o)
    \/ \E m \in Makers :
         \/ \E S \in NonceLists : CancelOrdersCall(m, S)
         \/ \E w \in WordIndexes : InvalidateNonceWord(m, w)
         \/ \E floor \in Floors : RollbackNoncesCall(m, floor)
         \/ \E S \in Approvals : ApproveOrdersCall(m, S)
         \/ \E o \in Orders : RevokeOrderApprovalCall(m, o)
         \/ \E s \in Signers, expiry \in Expiries : SetOrderSignerCall(m, s, expiry)
    \/ \E p \in permits : SetOrderSignerWithSig(p)

Opening ==
    \/ \E o \in Orders, fillAmount \in Amounts :
         \/ FillWithPermit(o, fillAmount)
         \/ FillWithPermitTake(o, fillAmount)
         \/ \E sig \in Sigs :
              \/ Fill(o, sig, fillAmount)
              \/ FillUpTo(o, sig, fillAmount)
              \/ FillSelf(o, sig, fillAmount)
              \/ OpenGated(o, sig, fillAmount)
    \/ \E o \in Orders : TakeByPermit(o)
    \/ \E n \in 1..MaxBatch, strict \in BOOLEAN : BatchFill(n, strict)
    \/ MatchSettle
    \/ RunSchedule

Closing == Close \/ Revert \/ EntryCaught \/ BatchReturn \/ BatchRevert

World ==
    \/ Tick
    \/ \E m \in Makers, s \in Signers, n \in PermitNonces, e \in Expiries, d \in Deadlines :
         SignNomination([maker |-> m, signer |-> s, nonce |-> n, expiry |-> e, deadline |-> d])

Next == Registry \/ Opening \/ Closing \/ World

Spec == Init /\ [][Next]_vars

-----------------------------------------------------------------------------
(* What must hold                                                          *)

(* Every slot of storage and every frame has its type; in particular no    *)
(* counter ever exceeds a uint256 (OrderState.sol: filled).                *)
TypeOK ==
    /\ st \in Ledgers
    /\ now \in 0..MaxTime
    /\ locked \in BOOLEAN
    /\ frame \in Frames
    /\ batch \in Batches
    /\ permits \subseteq Permits

(* Orders that settle whole or not at all.                                 *)
Whole == {o \in Orders : Terms[o].once \/ Terms[o].sized}

(* `filled` counts exactly the units paid out plus the units of the frame  *)
(* in progress, until a cancel parks the sentinel; with or without the     *)
(* sentinel an order never pays out more than its total.  A revert, a      *)
(* caught batch entry or a cancel from inside a callback must not lose or  *)
(* double a unit (OrderState._openFill writes before the external calls).  *)
LedgerExact ==
    \A o \in Orders :
      /\ st.moved[o] + frame.open[o] <= Terms[o].total
      /\ ~Terms[o].once => st.filled[o] \in {MaxUint, st.moved[o] + frame.open[o]}

(* The claim the first-fill signature skip rests on (Signatures.sol): a    *)
(* part-filled counter that survives was authorised by a signature, or by  *)
(* an approval that still stands, unless the frame still owes the proof.   *)
PartialFillAuthorised ==
    \A o \in Orders : st.filled[o] \notin {0, MaxUint} =>
        o \in st.signed \cup st.orderApproved[Terms[o].maker] \cup frame.owes

(* No order pays out, by any entry, on nobody's authority: not by a caught *)
(* or failed permit, not by arbitrary bytes after another order's fill.    *)
EveryFillAuthorised ==
    \A o \in Orders : st.fills[o] > 0 => o \in st.granted

(* A fill-once or balance-sized order pays out once, and of fill-once      *)
(* orders on one nonce (a bracket) at most one ever does.                  *)
OnceOnly ==
    /\ \A o \in Whole : st.fills[o] <= 1
    /\ \A o, p \in Orders :
         /\ o # p /\ Terms[o].once /\ Terms[p].once
         /\ Terms[o].maker = Terms[p].maker /\ Terms[o].nonce = Terms[p].nonce
         => st.fills[o] = 0 \/ st.fills[p] = 0

(* Whatever killed an order, one of the two marks every fill reads is on.  *)
DeadIsMarked ==
    \A o \in st.dead :
        \/ st.filled[o] = MaxUint
        \/ NonceCancelled(st, Terms[o].maker, Terms[o].nonce)

(* A killed order is never opened again: no later call of its maker, of a  *)
(* relayer or of a filler revives it, and no signature already out helps.  *)
DeadStaysDead ==
    [][\A o \in st.dead : frame'.open[o] <= frame.open[o]]_vars

(* Once a maker has shortened or revoked a delegate, no nomination permit  *)
(* for it, signed before or after, can be relayed (setOrderSignerWithSig). *)
WindDownIsFinal ==
    [][\A p \in permits :
         SetOrderSignerWithSig(p) => <<p.maker, p.signer>> \notin st.wound]_vars

(* A relayed nomination is a third party's choice of moment: it must not   *)
(* shorten a delegate the maker has extended, nor touch any order's nonce. *)
RelayOnlyExtends ==
    [][\A p \in permits : SetOrderSignerWithSig(p) /\ p.expiry # 0 =>
         /\ st'.orderSignerExpiry[p.maker][p.signer] >= st.orderSignerExpiry[p.maker][p.signer]
         /\ \A o \in Orders : NonceOpen(st, o) => NonceOpen(st', o)]_vars

(* The lock is held exactly while a fill or a batch is in progress.        *)
LockHeld == locked <=> ~AtRest

(* Storage as the last committed transaction left it.                      *)
Committed ==
    IF batch.on THEN batch.saved
    ELSE IF frame.stage # "idle" THEN frame.saved ELSE st

Promise == INSTANCE OrderPromise WITH
    Total <- [o \in Orders |-> Terms[o].total],
    Rivals <- [o \in Orders |-> IF Terms[o].once
                               THEN OnNonces(Terms[o].maker, {Terms[o].nonce}) ELSE {}],
    settled <- Committed.moved,
    granted <- Committed.granted,
    dead <- Committed.dead

(* Transaction by transaction the contract keeps the abstract promise.     *)
KeepsPromise == Promise!Spec
=============================================================================

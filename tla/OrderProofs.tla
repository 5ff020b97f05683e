----------------------------- MODULE OrderProofs ----------------------------
(***************************************************************************)
(* Theorems about OrderFills, for every set of makers, delegates and       *)
(* orders, every clock bound and every set of arguments: the types, the    *)
(* safety of the ledger, and the refinement of OrderPromise.               *)
(***************************************************************************)
EXTENDS OrderFills, TLAPS

-----------------------------------------------------------------------------
(* Types of the storage operators                                          *)

(* The signed fields of an order have their types.                         *)
LEMMA TermsType ==
    ASSUME NEW o \in Orders
    PROVE  /\ Terms[o].maker \in Makers
           /\ Terms[o].nonce \in Nat
           /\ Terms[o].total \in 0..MaxUint
           /\ Terms[o].minFill \in Nat
           /\ Terms[o].once \in BOOLEAN
           /\ Terms[o].sized \in BOOLEAN
           /\ Terms[o].module \in BOOLEAN
           /\ Terms[o].expiry \in Nat
           /\ Terms[o].take \in Nat
           /\ MaxUint \in Nat
BY TermsAssumption, WidthAssumption DEF TermsOK

(* A fresh contract is a ledger.                                           *)
LEMMA GenesisType == Genesis \in Ledgers
BY WidthAssumption DEF Genesis, Ledgers

LEMMA SentinelType == MaxUint \in 0..MaxUint
BY WidthAssumption

LEMMA CancelNoncesType ==
    ASSUME NEW L \in Ledgers, NEW m \in Makers, NEW S \in SUBSET Nat
    PROVE  CancelNonces(L, m, S) \in Ledgers
BY DEF CancelNonces, Ledgers

LEMMA KillType ==
    ASSUME NEW L \in Ledgers, NEW S \in SUBSET Orders
    PROVE  Kill(L, S) \in Ledgers
BY DEF Kill, Ledgers

LEMMA BurnNoncesType ==
    ASSUME NEW L \in Ledgers, NEW m \in Makers, NEW S \in SUBSET Nat
    PROVE  BurnNonces(L, m, S) \in Ledgers
BY CancelNoncesType, KillType DEF BurnNonces, OnNonces

LEMMA RollbackNoncesType ==
    ASSUME NEW L \in Ledgers, NEW m \in Makers, NEW floor \in Nat
    PROVE  RollbackNonces(L, m, floor) \in Ledgers
<1>1. [L EXCEPT !.minValidNonce[m] = floor] \in Ledgers
  BY DEF Ledgers
<1> QED
  BY <1>1, KillType DEF RollbackNonces

LEMMA CancelOrderType ==
    ASSUME NEW L \in Ledgers, NEW o \in Orders
    PROVE  CancelOrder(L, o) \in Ledgers
<1>1. [L EXCEPT !.filled[o] = MaxUint] \in Ledgers
  BY SentinelType DEF Ledgers
<1> QED
  BY <1>1, KillType DEF CancelOrder

LEMMA ApproveOrdersType ==
    ASSUME NEW L \in Ledgers, NEW m \in Makers, NEW S \in SUBSET Orders
    PROVE  ApproveOrders(L, m, S) \in Ledgers
BY DEF ApproveOrders, Ledgers

LEMMA RevokeOrderApprovalType ==
    ASSUME NEW L \in Ledgers, NEW m \in Makers, NEW o \in Orders
    PROVE  RevokeOrderApproval(L, m, o) \in Ledgers
<1> DEFINE cleared == [L EXCEPT !.orderApproved[m] = @ \ {o}]
<1>1. cleared \in Ledgers
  BY DEF Ledgers
<1>2. [cleared EXCEPT !.filled[o] = MaxUint] \in Ledgers
  <2> HIDE DEF cleared
  <2> QED BY <1>1, SentinelType DEF Ledgers
<1> QED
  BY <1>1, <1>2, KillType DEF RevokeOrderApproval

LEMMA SignerWordType ==
    ASSUME NEW s \in Signers
    PROVE  SignerWord(s) \in SUBSET Nat
BY NonceAssumption DEF SignerWord, Reserved, Word

LEMMA SetSignerType ==
    ASSUME NEW L \in Ledgers, NEW m \in Makers, NEW s \in Signers, NEW expiry \in Nat
    PROVE  SetSigner(L, m, s, expiry) \in Ledgers
<1> DEFINE written == [L EXCEPT !.orderSignerExpiry[m][s] = expiry]
           burnt == CancelNonces(written, m, SignerWord(s))
<1>1. written \in Ledgers
  BY DEF Ledgers
<1>2. burnt \in Ledgers
  <2> HIDE DEF written
  <2> QED BY <1>1, SignerWordType, CancelNoncesType
<1>3. [burnt EXCEPT !.wound = @ \cup {<<m, s>>}] \in Ledgers
  <2> HIDE DEF burnt
  <2>1. <<m, s>> \in Makers \X Signers
    OBVIOUS
  <2>2. burnt.wound \cup {<<m, s>>} \in SUBSET (Makers \X Signers)
    BY <1>2, <2>1 DEF Ledgers
  <2> QED BY <1>2, <2>2 DEF Ledgers
<1> QED
  BY <1>1, <1>3 DEF SetSigner

LEMMA RelaySignerType ==
    ASSUME NEW L \in Ledgers, NEW p \in Permits
    PROVE  RelaySigner(L, p) \in Ledgers
<1>1. {Reserved(p.nonce)} \in SUBSET Nat
  BY NonceAssumption DEF Reserved, Permits
<1>2. BurnNonces(L, p.maker, {Reserved(p.nonce)}) \in Ledgers
  BY <1>1, BurnNoncesType DEF Permits
<1> QED
  BY <1>2, SetSignerType DEF RelaySigner, Permits

LEMMA GrantType ==
    ASSUME NEW L \in Ledgers, NEW o \in Orders, NEW sig, NEW time
    PROVE  Grant(L, o, sig, time) \in Ledgers /\ GrantSigned(L, o) \in Ledgers
BY DEF Grant, GrantSigned, Ledgers

LEMMA GrantFilled ==
    ASSUME NEW L \in Ledgers, NEW o \in Orders, NEW sig, NEW time
    PROVE  Grant(L, o, sig, time).filled = L.filled /\ GrantSigned(L, o).filled = L.filled
BY DEF Grant, GrantSigned, Ledgers

(* What a fill may be opened for is positive and fits the order: an        *)
(* oversized amount never reaches the write.                               *)
LEMMA DeltaType ==
    ASSUME NEW L \in Ledgers, NEW o \in Orders, NEW fillAmount \in Nat \ {0},
           NEW total \in Denominators(o), NEW delta \in Deltas(L, o, fillAmount, total),
           FillStateOpen(L, o, total), FillFits(L, o, delta, total)
    PROVE  /\ delta \in Nat \ {0}
           /\ total \in Nat /\ total <= Terms[o].total
           /\ L.filled[o] \in Nat
           /\ L.filled[o] + delta <= total
           /\ L.filled[o] + delta \in 0..MaxUint
<1>1. total \in Nat /\ total <= Terms[o].total
  BY TermsType DEF Denominators
<1>2. L.filled[o] \in Nat /\ L.filled[o] < total
  BY TermsType DEF Ledgers, FillStateOpen
<1>3. delta \in Nat \ {0}
  BY <1>1, <1>2 DEF Deltas
<1> QED
  BY <1>1, <1>2, <1>3, TermsType DEF FillFits

LEMMA OpenFillType ==
    ASSUME NEW L \in Ledgers, NEW o \in Orders, NEW delta \in Nat,
           L.filled[o] + delta \in 0..MaxUint
    PROVE  OpenFill(L, o, delta) \in Ledgers
<1>1. CASE Terms[o].once
  BY <1>1, TermsType, BurnNoncesType DEF OpenFill
<1>2. CASE ~Terms[o].once
  BY <1>2 DEF OpenFill, Ledgers
<1> QED
  BY <1>1, <1>2

LEMMA SettleType ==
    ASSUME NEW L \in Ledgers, NEW open \in [Orders -> Nat]
    PROVE  Settle(L, open) \in Ledgers
<1>1. [o \in Orders |-> L.moved[o] + open[o]] \in [Orders -> Nat]
  BY DEF Ledgers
<1>2. [o \in Orders |-> IF open[o] > 0 THEN L.fills[o] + 1 ELSE L.fills[o]] \in [Orders -> Nat]
  BY DEF Ledgers
<1> QED
  BY <1>1, <1>2 DEF Settle, Ledgers

-----------------------------------------------------------------------------
(* Types of frames                                                         *)

LEMMA NoFrameType == NoFrame \in Frames /\ NoBatch \in Batches
BY GenesisType DEF NoFrame, NoBatch, Frames, Batches, Nothing

LEMMA ExtendType ==
    ASSUME NEW f \in Frames, NEW L, NEW o \in Orders, NEW delta \in Nat, NEW total
    PROVE  Extend(f, L, o, delta, total) \in Frames
<1> DEFINE r == f.ragged \/ (Terms[o].sized /\ ~IsFullFill(L, o, delta, total))
<1>1. r \in BOOLEAN
  OBVIOUS
<1>2. [f.open EXCEPT ![o] = @ + delta] \in [Orders -> Nat]
  <2>1. f.open \in [Orders -> Nat]
    BY DEF Frames
  <2> QED BY <2>1
<1>3. \A g \in [Orders -> Nat] : [f EXCEPT !.open = g, !.ragged = TRUE] \in Frames
  BY DEF Frames
<1>4. \A g \in [Orders -> Nat] : [f EXCEPT !.open = g, !.ragged = FALSE] \in Frames
  BY DEF Frames
<1>5. \A g \in [Orders -> Nat] : [f EXCEPT !.open = g, !.ragged = r] \in Frames
  <2> HIDE DEF r
  <2>1. CASE r = TRUE
    BY <1>3, <2>1
  <2>2. CASE r = FALSE
    BY <1>4, <2>2
  <2> QED BY <1>1, <2>1, <2>2
<1>6. Extend(f, L, o, delta, total)
        = [f EXCEPT !.open = [f.open EXCEPT ![o] = @ + delta], !.ragged = r]
  BY DEF Extend
<1> QED
  <2> HIDE DEF r
  <2> QED BY <1>2, <1>5, <1>6

LEMMA OpenedType ==
    ASSUME st \in Ledgers, NEW o \in Orders, NEW delta \in Nat, NEW total,
           NEW owes \in SUBSET Orders
    PROVE  Opened(o, delta, total, owes) \in Frames
<1> DEFINE f == [NoFrame EXCEPT !.stage = "window", !.saved = st]
<1>1. f \in Frames
  BY NoFrameType DEF Frames
<1>2. Extend(f, st, o, delta, total) \in Frames
  <2> HIDE DEF f
  <2> QED BY <1>1, ExtendType
<1> QED
  BY <1>2 DEF Opened, Frames

(* One order passing its gates and the signature gate.                     *)
LEMMA OpenSignedType ==
    ASSUME st \in Ledgers, NEW o \in Orders, NEW sig, NEW fillAmount \in Nat \ {0},
           NEW total \in Denominators(o), NEW delta \in Deltas(st, o, fillAmount, total),
           OpenSigned(o, sig, delta, total)
    PROVE  st' \in Ledgers /\ delta \in Nat \ {0}
<1>1. /\ FillStateOpen(st, o, total) /\ FillFits(st, o, delta, total)
      /\ st' = OpenFill(Grant(st, o, sig, now), o, delta)
  BY DEF OpenSigned, CanOpen
<1>2. delta \in Nat \ {0} /\ st.filled[o] + delta \in 0..MaxUint
  BY <1>1, DeltaType
<1>3. Grant(st, o, sig, now) \in Ledgers /\ Grant(st, o, sig, now).filled = st.filled
  BY GrantType, GrantFilled
<1> QED
  BY <1>1, <1>2, <1>3, OpenFillType

(* The same on a permit's authority (GrantSigned) or on none.              *)
LEMMA OpenPermitType ==
    ASSUME st \in Ledgers, NEW o \in Orders, NEW fillAmount \in Nat \ {0},
           NEW total \in Denominators(o), NEW delta \in Deltas(st, o, fillAmount, total),
           CanOpen(st, o, delta, total, now)
    PROVE  /\ delta \in Nat \ {0}
           /\ OpenFill(st, o, delta) \in Ledgers
           /\ OpenFill(GrantSigned(st, o), o, delta) \in Ledgers
<1>1. delta \in Nat \ {0} /\ st.filled[o] + delta \in 0..MaxUint
  BY DeltaType DEF CanOpen
<1>2. GrantSigned(st, o) \in Ledgers /\ GrantSigned(st, o).filled = st.filled
  BY GrantType, GrantFilled
<1> QED
  BY <1>1, <1>2, OpenFillType

LEMMA ClampType ==
    ASSUME NEW L \in Ledgers, NEW o \in Orders, NEW fillAmount \in Nat,
           NEW total \in Denominators(o), FillStateOpen(L, o, total)
    PROVE  Clamp(L, o, fillAmount, total) \in Nat
<1>1. total \in Nat /\ L.filled[o] \in Nat /\ L.filled[o] < total
  BY TermsType DEF Denominators, Ledgers, FillStateOpen
<1> QED
  BY <1>1 DEF Clamp

-----------------------------------------------------------------------------
(* The shape of the frame, the batch and the lock                          *)

(* A frame that is not in progress holds nothing, a batch runs one entry   *)
(* at a time, matchSettle owes nothing, and the lock is held throughout:   *)
(* what type correctness, and every theorem below, rests on.               *)
Shape ==
    /\ frame.stage = "idle" => frame = NoFrame
    /\ frame.stage = "opening" => frame.owes = {}
    /\ ~batch.on => batch = NoBatch
    /\ batch.on /\ frame.stage # "idle" => batch.left > 0 /\ frame.stage = "window"
    /\ LockHeld

(* Calls outside the lock write the ledger and nothing else.               *)
LEMMA CallShape ==
    ASSUME TypeOK, Shape, Calling, st' \in Ledgers
    PROVE  TypeOK' /\ Shape'
BY DEF TypeOK, Shape, LockHeld, AtRest, Calling

(* A fill opened outside matchSettle: the lock is taken, or the batch had  *)
(* taken it.                                                               *)
LEMMA OpenShape ==
    ASSUME TypeOK, Shape, Filling, UNCHANGED batch,
           st' \in Ledgers, frame' \in Frames, frame'.stage = "window", locked' = TRUE,
           batch.on => batch.left > 0
    PROVE  TypeOK' /\ Shape'
BY DEF TypeOK, Shape, LockHeld, AtRest, Filling

(* The fields of a frame opened outside matchSettle.                       *)
LEMMA OpenedStage ==
    ASSUME NEW o \in Orders, NEW delta \in Nat, NEW total, NEW owes \in SUBSET Orders
    PROVE  Opened(o, delta, total, owes).stage = "window"
BY DEF Opened, Extend, NoFrame

LEMMA OpenedFields ==
    ASSUME NEW o \in Orders, NEW delta \in Nat, NEW total, NEW owes \in SUBSET Orders
    PROVE  /\ Opened(o, delta, total, owes).owes = owes
           /\ Opened(o, delta, total, owes).saved = st
BY DEF Opened, Extend, NoFrame

LEMMA OpenedUnits ==
    ASSUME NEW o \in Orders, NEW delta \in Nat, NEW total, NEW owes \in SUBSET Orders,
           NEW p \in Orders
    PROVE  Opened(o, delta, total, owes).open[p] = IF p = o THEN delta ELSE 0
BY DEF Opened, Extend, NoFrame, Nothing

LEMMA RegistryTypes ==
    ASSUME TypeOK, Shape, Registry
    PROVE  TypeOK' /\ Shape'
<1> st \in Ledgers
  BY DEF TypeOK
<1>1. ASSUME NEW o \in Orders, CancelOrderCall(o)
      PROVE  TypeOK' /\ Shape'
  BY <1>1, CallShape, CancelOrderType DEF CancelOrderCall
<1>2. ASSUME NEW o \in Orders, InvalidateTake(o)
      PROVE  TypeOK' /\ Shape'
  <2>1. [st EXCEPT !.takeSpent = @ \cup {o}] \in Ledgers
    BY DEF Ledgers
  <2> QED BY <1>2, <2>1, CallShape DEF InvalidateTake
<1>3. ASSUME NEW m \in Makers, NEW S \in NonceLists, CancelOrdersCall(m, S)
      PROVE  TypeOK' /\ Shape'
  BY <1>3, CallShape, BurnNoncesType, InputAssumption DEF CancelOrdersCall
<1>4. ASSUME NEW m \in Makers, NEW w \in WordIndexes, InvalidateNonceWord(m, w)
      PROVE  TypeOK' /\ Shape'
  <2>1. Word(w) \in SUBSET Nat
    BY InputAssumption, NonceAssumption DEF Word
  <2> QED BY <1>4, <2>1, CallShape, BurnNoncesType DEF InvalidateNonceWord
<1>5. ASSUME NEW m \in Makers, NEW floor \in Floors, RollbackNoncesCall(m, floor)
      PROVE  TypeOK' /\ Shape'
  BY <1>5, CallShape, RollbackNoncesType, InputAssumption DEF RollbackNoncesCall
<1>6. ASSUME NEW m \in Makers, NEW S \in Approvals, ApproveOrdersCall(m, S)
      PROVE  TypeOK' /\ Shape'
  BY <1>6, CallShape, ApproveOrdersType, InputAssumption DEF ApproveOrdersCall
<1>7. ASSUME NEW m \in Makers, NEW o \in Orders, RevokeOrderApprovalCall(m, o)
      PROVE  TypeOK' /\ Shape'
  BY <1>7, CallShape, RevokeOrderApprovalType DEF RevokeOrderApprovalCall
<1>8. ASSUME NEW m \in Makers, NEW s \in Signers, NEW expiry \in Expiries,
             SetOrderSignerCall(m, s, expiry)
      PROVE  TypeOK' /\ Shape'
  <2>1. (IF expiry >= now THEN expiry ELSE 0) \in Nat
    BY InputAssumption
  <2>2. SetOrderSigner(st, m, s, expiry, now) \in Ledgers
    BY <2>1, SetSignerType DEF SetOrderSigner
  <2> QED BY <1>8, <2>2, CallShape DEF SetOrderSignerCall
<1>9. ASSUME NEW p \in permits, SetOrderSignerWithSig(p)
      PROVE  TypeOK' /\ Shape'
  <2>1. p \in Permits
    BY DEF TypeOK
  <2> QED BY <1>9, <2>1, CallShape, RelaySignerType DEF SetOrderSignerWithSig
<1> QED
  BY <1>1, <1>2, <1>3, <1>4, <1>5, <1>6, <1>7, <1>8, <1>9 DEF Registry

LEMMA OpeningTypes ==
    ASSUME TypeOK, Shape, Opening
    PROVE  TypeOK' /\ Shape'
<1> st \in Ledgers /\ frame \in Frames /\ batch \in Batches
  BY DEF TypeOK
<1>0. \A fillAmount \in Amounts : fillAmount \in Nat
  BY InputAssumption
<1>1. ASSUME NEW o \in Orders, NEW fillAmount \in Amounts, FillWithPermit(o, fillAmount)
      PROVE  TypeOK' /\ Shape'
  <2>1. PICK total \in Denominators(o) : \E delta \in Deltas(st, o, fillAmount, total) :
          /\ CanOpen(st, o, delta, total, now)
          /\ st' = OpenFill(GrantSigned(st, o), o, delta)
          /\ frame' = Opened(o, delta, total, {})
    BY <1>1 DEF FillWithPermit
  <2>2. PICK delta \in Deltas(st, o, fillAmount, total) :
          /\ CanOpen(st, o, delta, total, now)
          /\ st' = OpenFill(GrantSigned(st, o), o, delta)
          /\ frame' = Opened(o, delta, total, {})
    BY <2>1
  <2>3. fillAmount \in Nat \ {0} /\ locked' = TRUE /\ ~batch.on /\ Filling /\ UNCHANGED batch
    BY <1>0, <1>1 DEF FillWithPermit, Shape, LockHeld, AtRest
  <2>4. st' \in Ledgers /\ delta \in Nat
    BY <2>2, <2>3, OpenPermitType
  <2>5. frame' \in Frames
    BY <2>2, <2>4, OpenedType
  <2>5a. frame'.stage = "window"
    <3>1. Opened(o, delta, total, {}).stage = "window"
      BY <2>4, OpenedStage
    <3> QED BY <2>2, <3>1
  <2> QED BY <2>3, <2>4, <2>5, <2>5a, OpenShape
<1>2. ASSUME NEW o \in Orders, NEW fillAmount \in Amounts, FillWithPermitTake(o, fillAmount)
      PROVE  TypeOK' /\ Shape'
  <2>1. PICK total \in Denominators(o) : \E delta \in Deltas(st, o, fillAmount, total) :
          /\ CanOpen(st, o, delta, total, now)
          /\ st' = OpenFill(st, o, delta)
          /\ frame' = Opened(o, delta, total, {o})
    BY <1>2 DEF FillWithPermitTake
  <2>2. PICK delta \in Deltas(st, o, fillAmount, total) :
          /\ CanOpen(st, o, delta, total, now)
          /\ st' = OpenFill(st, o, delta)
          /\ frame' = Opened(o, delta, total, {o})
    BY <2>1
  <2>3. fillAmount \in Nat \ {0} /\ locked' = TRUE /\ ~batch.on /\ Filling /\ UNCHANGED batch
    BY <1>0, <1>2 DEF FillWithPermitTake, Shape, LockHeld, AtRest
  <2>4. st' \in Ledgers /\ delta \in Nat
    BY <2>2, <2>3, OpenPermitType
  <2>5. frame' \in Frames
    BY <2>2, <2>4, OpenedType
  <2>5a. frame'.stage = "window"
    <3>1. Opened(o, delta, total, {o}).stage = "window"
      BY <2>4, OpenedStage
    <3> QED BY <2>2, <3>1
  <2> QED BY <2>3, <2>4, <2>5, <2>5a, OpenShape
<1>3. ASSUME NEW o \in Orders, NEW sig, NEW fillAmount \in Nat \ {0},
             NEW total \in Denominators(o), NEW delta \in Deltas(st, o, fillAmount, total),
             OpenSigned(o, sig, delta, total), frame' = Opened(o, delta, total, {}),
             Filling, UNCHANGED batch, locked' = TRUE, batch.on => batch.left > 0
      PROVE  TypeOK' /\ Shape'
  <2>1. st' \in Ledgers /\ delta \in Nat
    BY <1>3, OpenSignedType
  <2>2. frame' \in Frames
    BY <1>3, <2>1, OpenedType
  <2>2a. frame'.stage = "window"
    <3>1. Opened(o, delta, total, {}).stage = "window"
      BY <2>1, OpenedStage
    <3> QED BY <1>3, <3>1
  <2> QED BY <1>3, <2>1, <2>2, <2>2a, OpenShape
<1>4. ASSUME NEW o \in Orders, NEW sig, NEW fillAmount \in Amounts, Fill(o, sig, fillAmount)
      PROVE  TypeOK' /\ Shape'
  <2>1. PICK total \in Denominators(o) : \E delta \in Deltas(st, o, fillAmount, total) :
          OpenSigned(o, sig, delta, total) /\ frame' = Opened(o, delta, total, {})
    BY <1>4 DEF Fill
  <2>2. fillAmount \in Nat \ {0} /\ locked' = TRUE /\ ~batch.on /\ Filling /\ UNCHANGED batch
    BY <1>0, <1>4 DEF Fill, Shape, LockHeld, AtRest
  <2> QED BY <1>3, <2>1, <2>2
<1>5. ASSUME NEW o \in Orders, NEW sig, NEW fillAmount \in Amounts, FillUpTo(o, sig, fillAmount)
      PROVE  TypeOK' /\ Shape'
  <2>1. PICK total \in Denominators(o) :
          /\ FillStateOpen(st, o, total)
          /\ Clamp(st, o, fillAmount, total) # 0
          /\ \E delta \in Deltas(st, o, Clamp(st, o, fillAmount, total), total) :
               OpenSigned(o, sig, delta, total) /\ frame' = Opened(o, delta, total, {})
    BY <1>5 DEF FillUpTo
  <2>2. Clamp(st, o, fillAmount, total) \in Nat \ {0}
    BY <1>0, <2>1, ClampType
  <2>3. locked' = TRUE /\ ~batch.on /\ Filling /\ UNCHANGED batch
    BY <1>5 DEF FillUpTo, Shape, LockHeld, AtRest
  <2> QED BY <1>3, <2>1, <2>2, <2>3
<1>6. ASSUME NEW o \in Orders, NEW sig, NEW fillAmount \in Amounts, FillSelf(o, sig, fillAmount)
      PROVE  TypeOK' /\ Shape'
  <2>1. PICK total \in Denominators(o) : \E delta \in Deltas(st, o, fillAmount, total) :
          OpenSigned(o, sig, delta, total) /\ frame' = Opened(o, delta, total, {})
    BY <1>6 DEF FillSelf
  <2>2. /\ fillAmount \in Nat \ {0} /\ locked' = TRUE /\ Filling /\ UNCHANGED batch
        /\ batch.left > 0
    BY <1>0, <1>6 DEF FillSelf, Shape, LockHeld, AtRest, TypeOK
  <2> QED BY <1>3, <2>1, <2>2
<1>7. ASSUME NEW o \in Orders, NEW sig, NEW fillAmount \in Amounts, OpenGated(o, sig, fillAmount)
      PROVE  TypeOK' /\ Shape'
  <2>1. PICK total \in Denominators(o) : \E delta \in Deltas(st, o, fillAmount, total) :
          /\ OpenSigned(o, sig, delta, total)
          /\ frame' = [Extend(frame, st, o, delta, total) EXCEPT !.left = @ - 1]
    BY <1>7 DEF OpenGated
  <2>2. PICK delta \in Deltas(st, o, fillAmount, total) :
          /\ OpenSigned(o, sig, delta, total)
          /\ frame' = [Extend(frame, st, o, delta, total) EXCEPT !.left = @ - 1]
    BY <2>1
  <2>3. st' \in Ledgers /\ delta \in Nat
    BY <1>0, <1>7, <2>2, OpenSignedType DEF OpenGated
  <2>4. Extend(frame, st, o, delta, total) \in Frames
    BY <2>3, ExtendType
  <2>5. /\ Extend(frame, st, o, delta, total).stage = frame.stage
        /\ Extend(frame, st, o, delta, total).owes = frame.owes
        /\ Extend(frame, st, o, delta, total).left = frame.left
    BY DEF Extend, Frames
  <2>6. /\ frame' \in Frames /\ frame'.stage = "opening" /\ frame'.owes = frame.owes
    <3> DEFINE e == Extend(frame, st, o, delta, total)
    <3>1. e.left - 1 \in Nat
      BY <1>7, <2>5 DEF OpenGated, Frames
    <3>2. frame' = [e EXCEPT !.left = @ - 1] /\ e \in Frames /\ frame.stage = "opening"
      BY <1>7, <2>2, <2>4 DEF OpenGated
    <3>3. e.stage = frame.stage /\ e.owes = frame.owes
      BY <2>5
    <3> HIDE DEF e
    <3> QED BY <3>1, <3>2, <3>3 DEF Frames
  <2> QED BY <1>7, <2>3, <2>6 DEF OpenGated, TypeOK, Shape, LockHeld, AtRest, Filling
<1>8. ASSUME NEW o \in Orders, TakeByPermit(o)
      PROVE  TypeOK' /\ Shape'
  <2>1. GrantSigned(st, o) \in Ledgers
    BY GrantType
  <2>2. st' \in Ledgers
    BY <1>8, <2>1 DEF TakeByPermit, Ledgers
  <2>3. frame' \in Frames /\ frame'.stage = "window"
    BY <1>8 DEF TakeByPermit, Frames
  <2> QED BY <1>8, <2>2, <2>3 DEF TakeByPermit, TypeOK, Shape, LockHeld, AtRest, Filling
<1>9. ASSUME NEW n \in 1..MaxBatch, NEW strict \in BOOLEAN, BatchFill(n, strict)
      PROVE  TypeOK' /\ Shape'
  <2>1. batch' \in Batches /\ batch'.on
    BY <1>9, InputAssumption DEF BatchFill, Batches
  <2> QED BY <1>9, <2>1 DEF BatchFill, TypeOK, Shape, LockHeld, AtRest, Filling
<1>10. ASSUME MatchSettle
       PROVE  TypeOK' /\ Shape'
  <2>1. frame' \in Frames /\ frame'.stage = "opening" /\ frame'.owes = {}
    BY <1>10, NoFrameType, InputAssumption DEF MatchSettle, Frames, NoFrame
  <2> QED BY <1>10, <2>1 DEF MatchSettle, TypeOK, Shape, LockHeld, AtRest, Filling
<1>11. ASSUME RunSchedule
       PROVE  TypeOK' /\ Shape'
  <2>1. frame' \in Frames /\ frame'.stage = "window"
    BY <1>11 DEF RunSchedule, Frames
  <2> QED BY <1>11, <2>1 DEF RunSchedule, TypeOK, Shape, LockHeld, AtRest, Filling
<1> QED
  BY <1>1, <1>2, <1>4, <1>5, <1>6, <1>7, <1>8, <1>9, <1>10, <1>11 DEF Opening

LEMMA ClosingTypes ==
    ASSUME TypeOK, Shape, Closing
    PROVE  TypeOK' /\ Shape'
<1> st \in Ledgers /\ frame \in Frames /\ batch \in Batches
  BY DEF TypeOK
<1>0. frame.saved \in Ledgers /\ batch.saved \in Ledgers /\ frame.open \in [Orders -> Nat]
  BY DEF Frames, Batches
<1>1. CASE Close
  <2>1. st' \in Ledgers
    BY <1>0, <1>1, SettleType DEF Close
  <2>2. frame' = NoFrame /\ NoFrame.stage = "idle"
    BY <1>1 DEF Close, NoFrame
  <2>3. CASE batch.on
    <3>1. batch.left \in Nat /\ batch.left > 0
      BY <1>1, <2>3 DEF Close, Shape, Batches
    <3>2. batch' \in Batches /\ batch'.on /\ UNCHANGED locked
      BY <1>1, <2>3, <3>1 DEF Close, Batches
    <3> QED
      BY <1>1, <2>1, <2>2, <2>3, <3>2, NoFrameType
      DEF Close, TypeOK, Shape, LockHeld, AtRest, Filling
  <2>4. CASE ~batch.on
    BY <1>1, <2>1, <2>2, <2>4, NoFrameType
    DEF Close, TypeOK, Shape, LockHeld, AtRest, Filling
  <2> QED BY <2>3, <2>4
<1>2. CASE Revert
  <2>1. NoFrame.stage = "idle"
    BY DEF NoFrame
  <2> QED
    BY <1>0, <1>2, <2>1, NoFrameType DEF Revert, TypeOK, Shape, LockHeld, AtRest, Filling
<1>3. CASE EntryCaught
  <2>1. st' \in Ledgers
    BY <1>0, <1>3 DEF EntryCaught
  <2>2. frame' = NoFrame /\ NoFrame.stage = "idle"
    BY <1>3 DEF EntryCaught, NoFrame
  <2>3. batch' \in Batches /\ batch'.on
    BY <1>3 DEF EntryCaught, Batches
  <2> QED
    BY <1>3, <2>1, <2>2, <2>3, NoFrameType
    DEF EntryCaught, TypeOK, Shape, LockHeld, AtRest, Filling
<1>4. CASE BatchReturn
  <2>1. frame.stage = "idle"
    BY <1>4 DEF BatchReturn, Shape
  <2>2. batch' = NoBatch /\ ~NoBatch.on
    BY <1>4 DEF BatchReturn, NoBatch
  <2> QED
    BY <1>4, <2>1, <2>2, NoFrameType DEF BatchReturn, TypeOK, Shape, LockHeld, AtRest, Filling
<1>5. CASE BatchRevert
  <2>1. ~NoBatch.on /\ NoFrame.stage = "idle"
    BY DEF NoBatch, NoFrame
  <2> QED
    BY <1>0, <1>5, <2>1, NoFrameType DEF BatchRevert, TypeOK, Shape, LockHeld, AtRest, Filling
<1> QED
  BY <1>1, <1>2, <1>3, <1>4, <1>5 DEF Closing

LEMMA WorldTypes ==
    ASSUME TypeOK, Shape, World
    PROVE  TypeOK' /\ Shape'
<1>1. CASE Tick
  BY <1>1, InputAssumption DEF Tick, TypeOK, Shape, LockHeld, AtRest
<1>2. ASSUME NEW m \in Makers, NEW s \in Signers, NEW n \in PermitNonces,
             NEW e \in Expiries, NEW d \in Deadlines,
             SignNomination([maker |-> m, signer |-> s, nonce |-> n, expiry |-> e, deadline |-> d])
      PROVE  TypeOK' /\ Shape'
  <2>1. [maker |-> m, signer |-> s, nonce |-> n, expiry |-> e, deadline |-> d] \in Permits
    BY InputAssumption DEF Permits
  <2> QED BY <1>2, <2>1 DEF SignNomination, TypeOK, Shape, LockHeld, AtRest
<1> QED
  BY <1>1, <1>2 DEF World

LEMMA TypesInit == Init => TypeOK /\ Shape
<1> SUFFICES ASSUME Init PROVE TypeOK /\ Shape
  OBVIOUS
<1>1. ~NoBatch.on /\ NoFrame.stage = "idle"
  BY DEF NoBatch, NoFrame
<1>2. TypeOK
  <2>1. 0 \in 0..MaxTime
    BY InputAssumption
  <2>2. locked \in BOOLEAN
    BY DEF Init
  <2> QED BY <2>1, <2>2, NoFrameType, GenesisType DEF Init, TypeOK
<1>3. Shape
  BY <1>1 DEF Init, Shape, LockHeld, AtRest, NoFrame
<1> QED
  BY <1>2, <1>3

LEMMA TypesStep == TypeOK /\ Shape /\ [Next]_vars => TypeOK' /\ Shape'
<1> SUFFICES ASSUME TypeOK, Shape, [Next]_vars PROVE TypeOK' /\ Shape'
  OBVIOUS
<1>1. CASE UNCHANGED vars
  BY <1>1 DEF vars, TypeOK, Shape, LockHeld, AtRest
<1> QED
  BY <1>1, RegistryTypes, OpeningTypes, ClosingTypes, WorldTypes DEF Next

(* Every slot of the contract's storage keeps its type; in particular no   *)
(* counter of filled anchor units ever exceeds a uint256, whatever the     *)
(* sequence of fills, batches, matches, cancels and reverts.               *)
THEOREM TypeCorrect == Spec => [](TypeOK /\ Shape)
<1>1. Init => TypeOK /\ Shape
  BY TypesInit
<1>2. TypeOK /\ Shape /\ [Next]_vars => TypeOK' /\ Shape'
  BY TypesStep
<1> QED
  BY <1>1, <1>2, PTL DEF Spec

-----------------------------------------------------------------------------
(***************************************************************************)
(* The safety of OrderFills, for every instance: one inductive invariant,  *)
(* Inv, in five named parts, each about a ledger and the frame over it.    *)
(* Inv holds of the live storage and of every storage a revert may go back *)
(* to.  A step of the system is one of four things to a ledger: a call     *)
(* (Called), an opening (Opens), a permit taken, or a close (Settle); the  *)
(* parts are shown kept by each of the four, and each action is shown to   *)
(* be one of them.                                                         *)
(***************************************************************************)

-----------------------------------------------------------------------------
(* The invariant                                                           *)

Marked(L, o) ==
    L.filled[o] = MaxUint \/ NonceCancelled(L, Terms[o].maker, Terms[o].nonce)

(* Units an order has paid out, and those of the frame in progress.        *)
Units(L, open, o) == L.moved[o] + open[o]

DeadMarked(L) == \A o \in L.dead : Marked(L, o)

OwnApprovals(L) == \A m \in Makers : \A o \in L.orderApproved[m] : Terms[o].maker = m

Authority(L, owes, open) ==
    /\ L.signed \subseteq L.granted
    /\ \A o \in Orders : L.filled[o] \notin {0, MaxUint} =>
         /\ o \in L.signed \cup L.orderApproved[Terms[o].maker] \cup owes
         /\ o \in L.granted \cup owes
    /\ \A o \in Orders : open[o] > 0 => o \in L.granted \cup owes
    /\ \A o \in Orders : L.fills[o] > 0 => o \in L.granted

Exact(L, open) ==
    \A o \in Orders :
      /\ Units(L, open, o) <= Terms[o].total
      /\ Terms[o].once =>
           /\ L.filled[o] \in {0, MaxUint}
           /\ Units(L, open, o) > 0 => NonceCancelled(L, Terms[o].maker, Terms[o].nonce)
      /\ ~Terms[o].once => L.filled[o] \in {MaxUint, Units(L, open, o)}

Sharing(o, p) ==
    /\ o # p /\ Terms[o].once /\ Terms[p].once
    /\ Terms[o].maker = Terms[p].maker /\ Terms[o].nonce = Terms[p].nonce

Single(L, open, ragged) ==
    /\ \A o \in Orders : L.fills[o] > 0 <=> L.moved[o] > 0
    /\ \A o \in Whole : L.fills[o] <= 1 /\ (open[o] > 0 => L.fills[o] = 0 \/ ragged)
    /\ \A o, p \in Orders :
         Sharing(o, p) => Units(L, open, o) = 0 \/ Units(L, open, p) = 0

WoundBurnt(L) ==
    \A m \in Makers, s \in Signers : <<m, s>> \in L.wound => SignerWord(s) \subseteq L.nonceBitmap[m]

Sound(L, owes, open, ragged) ==
    /\ DeadMarked(L)
    /\ OwnApprovals(L)
    /\ Authority(L, owes, open)
    /\ Exact(L, open)
    /\ Single(L, open, ragged)
    /\ WoundBurnt(L)

Inv ==
    /\ TypeOK
    /\ Shape
    /\ Sound(st, frame.owes, frame.open, frame.ragged)
    /\ Sound(frame.saved, {}, Nothing, FALSE)
    /\ Sound(batch.saved, {}, Nothing, FALSE)

-----------------------------------------------------------------------------
(* What a call outside the lock does to a ledger                           *)

(* Cancelled nonces stay so, new deaths are marked, a counter stays or is  *)
(* parked on the sentinel, and an approval that a part fill rests on is    *)
(* not taken away without parking it.                                      *)
Called(L, M) ==
    /\ M \in Ledgers
    /\ M.granted = L.granted /\ M.signed = L.signed
    /\ M.moved = L.moved /\ M.fills = L.fills
    /\ L.dead \subseteq M.dead
    /\ \A o \in M.dead \ L.dead : Marked(M, o)
    /\ \A m \in Makers, n \in Nat : NonceCancelled(L, m, n) => NonceCancelled(M, m, n)
    /\ \A o \in Orders :
         \/ M.filled[o] = MaxUint
         \/ /\ M.filled[o] = L.filled[o]
            /\ \/ L.filled[o] = 0
               \/ o \in L.orderApproved[Terms[o].maker] => o \in M.orderApproved[Terms[o].maker]
    /\ \A m \in Makers : \A o \in M.orderApproved[m] : o \in L.orderApproved[m] \/ Terms[o].maker = m
    /\ \A m \in Makers : L.nonceBitmap[m] \subseteq M.nonceBitmap[m]
    /\ \A m \in Makers, s \in Signers : <<m, s>> \in M.wound \ L.wound =>
         SignerWord(s) \subseteq M.nonceBitmap[m]

LEMMA CalledSound ==
    ASSUME NEW L \in Ledgers, NEW M, NEW owes, NEW open \in [Orders -> Nat], NEW ragged,
           Sound(L, owes, open, ragged), Called(L, M)
    PROVE  Sound(M, owes, open, ragged)
<1> M \in Ledgers
  BY DEF Called
<1>1. DeadMarked(M)
  <2> SUFFICES ASSUME NEW o \in M.dead PROVE Marked(M, o)
    BY DEF DeadMarked
  <2>1. o \in Orders
    BY DEF Ledgers
  <2>2. CASE o \in L.dead
    <3>1. Marked(L, o)
      BY <2>2 DEF Sound, DeadMarked
    <3>2. L.filled[o] = MaxUint => M.filled[o] = MaxUint
      BY <2>1 DEF Called
    <3>3. NonceCancelled(L, Terms[o].maker, Terms[o].nonce)
            => NonceCancelled(M, Terms[o].maker, Terms[o].nonce)
      BY <2>1, TermsType DEF Called
    <3> QED BY <3>1, <3>2, <3>3 DEF Marked
  <2>3. CASE o \notin L.dead
    BY <2>3 DEF Called
  <2> QED BY <2>2, <2>3
<1>2. OwnApprovals(M)
  BY DEF OwnApprovals, Called, Sound
<1>3. Authority(M, owes, open)
  <2>1. /\ M.signed \subseteq M.granted
        /\ \A o \in Orders : open[o] > 0 => o \in M.granted \cup owes
        /\ \A o \in Orders : M.fills[o] > 0 => o \in M.granted
    BY DEF Called, Sound, Authority
  <2>2. ASSUME NEW o \in Orders, M.filled[o] \notin {0, MaxUint}
        PROVE  /\ o \in M.signed \cup M.orderApproved[Terms[o].maker] \cup owes
               /\ o \in M.granted \cup owes
    <3>1. /\ M.filled[o] = L.filled[o]
          /\ o \in L.orderApproved[Terms[o].maker] => o \in M.orderApproved[Terms[o].maker]
      BY <2>2 DEF Called
    <3>2. /\ o \in L.signed \cup L.orderApproved[Terms[o].maker] \cup owes
          /\ o \in L.granted \cup owes
      BY <2>2, <3>1 DEF Sound, Authority
    <3> QED BY <3>1, <3>2 DEF Called
  <2> QED BY <2>1, <2>2 DEF Authority
<1>4. Exact(M, open)
  <2> SUFFICES ASSUME NEW o \in Orders
               PROVE  /\ Units(M, open, o) <= Terms[o].total
                      /\ Terms[o].once =>
                           /\ M.filled[o] \in {0, MaxUint}
                           /\ Units(M, open, o) > 0 =>
                                NonceCancelled(M, Terms[o].maker, Terms[o].nonce)
                      /\ ~Terms[o].once => M.filled[o] \in {MaxUint, Units(M, open, o)}
    BY DEF Exact
  <2>1. Units(M, open, o) = Units(L, open, o)
    BY DEF Units, Called
  <2>2. M.filled[o] = MaxUint \/ M.filled[o] = L.filled[o]
    BY DEF Called
  <2>3. NonceCancelled(L, Terms[o].maker, Terms[o].nonce)
          => NonceCancelled(M, Terms[o].maker, Terms[o].nonce)
    BY TermsType DEF Called
  <2> QED BY <2>1, <2>2, <2>3 DEF Sound, Exact
<1>5. Single(M, open, ragged)
  <2>1. M.fills = L.fills /\ M.moved = L.moved
    BY DEF Called
  <2> QED BY <2>1 DEF Sound, Single, Units
<1>6. WoundBurnt(M)
  BY DEF WoundBurnt, Called, Sound
<1> QED
  BY <1>1, <1>2, <1>3, <1>4, <1>5, <1>6 DEF Sound

-----------------------------------------------------------------------------
(* Every call outside the lock is Called                                   *)

LEMMA CalledTransitive ==
    ASSUME NEW L \in Ledgers, NEW M, NEW N, Called(L, M), Called(M, N)
    PROVE  Called(L, N)
<1> M \in Ledgers /\ N \in Ledgers
  BY DEF Called
<1>1. ASSUME NEW o \in N.dead \ L.dead
      PROVE  Marked(N, o)
  <2>1. o \in Orders
    BY DEF Ledgers
  <2>2. CASE o \in M.dead
    <3>1. Marked(M, o)
      BY <1>1, <2>2 DEF Called
    <3>2. M.filled[o] = MaxUint => N.filled[o] = MaxUint
      BY <2>1 DEF Called
    <3>3. NonceCancelled(M, Terms[o].maker, Terms[o].nonce)
            => NonceCancelled(N, Terms[o].maker, Terms[o].nonce)
      BY <2>1, TermsType DEF Called
    <3> QED BY <3>1, <3>2, <3>3 DEF Marked
  <2> QED BY <2>2 DEF Called
<1>2. \A m \in Makers, n \in Nat : NonceCancelled(L, m, n) => NonceCancelled(N, m, n)
  BY DEF Called
<1>3. ASSUME NEW o \in Orders
      PROVE  \/ N.filled[o] = MaxUint
             \/ /\ N.filled[o] = L.filled[o]
                /\ \/ L.filled[o] = 0
                   \/ o \in L.orderApproved[Terms[o].maker] => o \in N.orderApproved[Terms[o].maker]
  BY DEF Called
<1>4. \A m \in Makers : \A o \in N.orderApproved[m] : o \in L.orderApproved[m] \/ Terms[o].maker = m
  BY DEF Called
<1>5. \A m \in Makers : L.nonceBitmap[m] \subseteq N.nonceBitmap[m]
  BY DEF Called
<1>6. \A m \in Makers, s \in Signers : <<m, s>> \in N.wound \ L.wound =>
         SignerWord(s) \subseteq N.nonceBitmap[m]
  BY DEF Called
<1>7. /\ N.granted = L.granted /\ N.signed = L.signed
      /\ N.moved = L.moved /\ N.fills = L.fills
      /\ L.dead \subseteq N.dead
  BY DEF Called
<1> QED
  BY <1>1, <1>2, <1>3, <1>4, <1>5, <1>6, <1>7 DEF Called

(* M is L with the nonces of S burnt for m, whatever happened to the dead, *)
(* to the wound and to the delegates.                                      *)
Burns(L, M, m, S) ==
    /\ M \in Ledgers
    /\ M.granted = L.granted /\ M.signed = L.signed
    /\ M.moved = L.moved /\ M.fills = L.fills
    /\ M.filled = L.filled /\ M.orderApproved = L.orderApproved
    /\ M.minValidNonce = L.minValidNonce
    /\ M.nonceBitmap[m] = L.nonceBitmap[m] \cup S
    /\ \A k \in Makers \ {m} : M.nonceBitmap[k] = L.nonceBitmap[k]

LEMMA CancelNoncesBurns ==
    ASSUME NEW L \in Ledgers, NEW m \in Makers, NEW S \in SUBSET Nat
    PROVE  /\ Burns(L, CancelNonces(L, m, S), m, S)
           /\ CancelNonces(L, m, S).dead = L.dead
           /\ CancelNonces(L, m, S).wound = L.wound
           /\ CancelNonces(L, m, S).orderSignerExpiry = L.orderSignerExpiry
<1>1. CancelNonces(L, m, S) \in Ledgers
  BY CancelNoncesType
<1> QED
  BY <1>1 DEF CancelNonces, Ledgers, Burns

LEMMA BurnNoncesBurns ==
    ASSUME NEW L \in Ledgers, NEW m \in Makers, NEW S \in SUBSET Nat
    PROVE  /\ Burns(L, BurnNonces(L, m, S), m, S)
           /\ BurnNonces(L, m, S).dead = L.dead \cup OnNonces(m, S)
           /\ BurnNonces(L, m, S).wound = L.wound
           /\ BurnNonces(L, m, S).orderSignerExpiry = L.orderSignerExpiry
<1> DEFINE C == CancelNonces(L, m, S)
           M == BurnNonces(L, m, S)
<1>1. /\ Burns(L, C, m, S)
      /\ C.dead = L.dead /\ C.wound = L.wound
      /\ C.orderSignerExpiry = L.orderSignerExpiry
  BY CancelNoncesBurns
<1>2. M \in Ledgers
  BY BurnNoncesType
<1>3. M = [C EXCEPT !.dead = @ \cup OnNonces(m, S)]
  BY DEF BurnNonces, Kill
<1> HIDE DEF C
<1> QED
  <2>1. M.dead = L.dead \cup OnNonces(m, S)
    BY <1>1, <1>3 DEF Ledgers, Burns
  <2>2. M.wound = L.wound /\ M.orderSignerExpiry = L.orderSignerExpiry
    BY <1>1, <1>3 DEF Ledgers, Burns
  <2>3. Burns(L, M, m, S)
    BY <1>1, <1>2, <1>3 DEF Ledgers, Burns
  <2> QED BY <2>1, <2>2, <2>3

LEMMA BurnNoncesCalled ==
    ASSUME NEW L \in Ledgers, NEW m \in Makers, NEW S \in SUBSET Nat
    PROVE  Called(L, BurnNonces(L, m, S))
<1> SUFFICES ASSUME NEW M, M = BurnNonces(L, m, S) PROVE Called(L, M)
  OBVIOUS
<1>1. /\ Burns(L, M, m, S)
      /\ M.dead = L.dead \cup OnNonces(m, S) /\ M.wound = L.wound
  BY BurnNoncesBurns
<1>2. \A o \in M.dead \ L.dead : Marked(M, o)
  BY <1>1 DEF OnNonces, Marked, NonceCancelled, Burns
<1>3. \A k \in Makers, n \in Nat : NonceCancelled(L, k, n) => NonceCancelled(M, k, n)
  BY <1>1 DEF NonceCancelled, Burns
<1>4. \A k \in Makers : L.nonceBitmap[k] \subseteq M.nonceBitmap[k]
  BY <1>1 DEF Burns
<1> QED
  BY <1>1, <1>2, <1>3, <1>4 DEF Called, Burns

LEMMA RollbackNoncesCalled ==
    ASSUME NEW L \in Ledgers, NEW m \in Makers, NEW floor \in Nat, floor >= L.minValidNonce[m]
    PROVE  Called(L, RollbackNonces(L, m, floor))
<1> DEFINE M == RollbackNonces(L, m, floor)
<1>1. M \in Ledgers
  BY RollbackNoncesType
<1>2. /\ M.granted = L.granted /\ M.signed = L.signed
      /\ M.moved = L.moved /\ M.fills = L.fills
      /\ M.dead = L.dead \cup {o \in Orders : Terms[o].maker = m /\ Terms[o].nonce < floor}
      /\ M.wound = L.wound
      /\ M.filled = L.filled /\ M.orderApproved = L.orderApproved
      /\ M.nonceBitmap = L.nonceBitmap
  BY DEF RollbackNonces, Kill, Ledgers
<1>3. \A k \in Makers : M.minValidNonce[k] = IF k = m THEN floor ELSE L.minValidNonce[k]
  BY DEF RollbackNonces, Kill, Ledgers
<1> HIDE DEF M
<1>4. \A o \in M.dead \ L.dead : Marked(M, o)
  BY <1>2, <1>3 DEF Marked, NonceCancelled
<1>5. \A k \in Makers, n \in Nat : NonceCancelled(L, k, n) => NonceCancelled(M, k, n)
  <2>1. \A k \in Makers : L.minValidNonce[k] \in Nat /\ M.minValidNonce[k] \in Nat
    BY <1>1 DEF Ledgers
  <2> QED BY <1>2, <1>3, <2>1 DEF NonceCancelled
<1>6. Called(L, M)
  BY <1>1, <1>2, <1>4, <1>5 DEF Called
<1> QED
  BY <1>6 DEF M

LEMMA CancelOrderCalled ==
    ASSUME NEW L \in Ledgers, NEW p \in Orders
    PROVE  Called(L, CancelOrder(L, p))
<1> DEFINE M == CancelOrder(L, p)
<1>1. M \in Ledgers
  BY CancelOrderType
<1>2. /\ M.granted = L.granted /\ M.signed = L.signed
      /\ M.moved = L.moved /\ M.fills = L.fills
      /\ M.dead = L.dead \cup {p} /\ M.wound = L.wound
      /\ M.orderApproved = L.orderApproved
      /\ M.nonceBitmap = L.nonceBitmap /\ M.minValidNonce = L.minValidNonce
      /\ \A o \in Orders : M.filled[o] = IF o = p THEN MaxUint ELSE L.filled[o]
  BY DEF CancelOrder, Kill, Ledgers
<1> HIDE DEF M
<1>3. Called(L, M)
  BY <1>1, <1>2 DEF Called, Marked, NonceCancelled
<1> QED
  BY <1>3 DEF M

LEMMA ApproveOrdersCalled ==
    ASSUME NEW L \in Ledgers, NEW m \in Makers, NEW S \in SUBSET Orders,
           \A o \in S : Terms[o].maker = m
    PROVE  Called(L, ApproveOrders(L, m, S))
<1> DEFINE M == ApproveOrders(L, m, S)
<1>1. M \in Ledgers
  BY ApproveOrdersType
<1>2. /\ M.granted = L.granted /\ M.signed = L.signed
      /\ M.moved = L.moved /\ M.fills = L.fills
      /\ M.dead = L.dead /\ M.wound = L.wound /\ M.filled = L.filled
      /\ M.nonceBitmap = L.nonceBitmap /\ M.minValidNonce = L.minValidNonce
      /\ M.orderApproved[m] = L.orderApproved[m] \cup S
      /\ \A k \in Makers \ {m} : M.orderApproved[k] = L.orderApproved[k]
  BY DEF ApproveOrders, Ledgers
<1> HIDE DEF M
<1>3. \A o \in Orders : o \in L.orderApproved[Terms[o].maker] => o \in M.orderApproved[Terms[o].maker]
  BY <1>2, TermsType
<1>4. Called(L, M)
  BY <1>1, <1>2, <1>3 DEF Called, NonceCancelled
<1> QED
  BY <1>4 DEF M

LEMMA RevokeOrderApprovalCalled ==
    ASSUME NEW L \in Ledgers, NEW m \in Makers, NEW p \in Orders
    PROVE  Called(L, RevokeOrderApproval(L, m, p))
<1> DEFINE cleared == [L EXCEPT !.orderApproved[m] = @ \ {p}]
<1> SUFFICES ASSUME NEW M, M = RevokeOrderApproval(L, m, p) PROVE Called(L, M)
  OBVIOUS
<1>1. M \in Ledgers
  BY RevokeOrderApprovalType
<1>2. CASE M = L
  BY <1>2 DEF Called
<1>3. CASE M = cleared /\ L.filled[p] = 0
  <2>1. /\ M.granted = L.granted /\ M.signed = L.signed
        /\ M.moved = L.moved /\ M.fills = L.fills
        /\ M.dead = L.dead /\ M.wound = L.wound /\ M.filled = L.filled
        /\ M.nonceBitmap = L.nonceBitmap /\ M.minValidNonce = L.minValidNonce
        /\ M.orderApproved[m] = L.orderApproved[m] \ {p}
        /\ \A k \in Makers \ {m} : M.orderApproved[k] = L.orderApproved[k]
    BY <1>3 DEF Ledgers
  <2>2. \A o \in Orders : \/ L.filled[o] = 0
                          \/ o \in L.orderApproved[Terms[o].maker] => o \in M.orderApproved[Terms[o].maker]
    BY <1>3, <2>1, TermsType
  <2> QED BY <1>1, <2>1, <2>2 DEF Called, NonceCancelled
<1>4. CASE M = Kill([cleared EXCEPT !.filled[p] = MaxUint], {p})
  <2>1. /\ M.granted = L.granted /\ M.signed = L.signed
        /\ M.moved = L.moved /\ M.fills = L.fills
        /\ M.dead = L.dead \cup {p} /\ M.wound = L.wound
        /\ M.nonceBitmap = L.nonceBitmap /\ M.minValidNonce = L.minValidNonce
        /\ \A o \in Orders : M.filled[o] = IF o = p THEN MaxUint ELSE L.filled[o]
        /\ M.orderApproved[m] = L.orderApproved[m] \ {p}
        /\ \A k \in Makers \ {m} : M.orderApproved[k] = L.orderApproved[k]
    BY <1>4 DEF Kill, Ledgers
  <2>2. \A o \in Orders : \/ o = p
                          \/ o \in L.orderApproved[Terms[o].maker] => o \in M.orderApproved[Terms[o].maker]
    BY <2>1, TermsType
  <2>3. \A o \in M.dead \ L.dead : Marked(M, o)
    BY <2>1 DEF Marked
  <2> QED BY <1>1, <2>1, <2>2, <2>3 DEF Called, NonceCancelled
<1> QED
  BY <1>2, <1>3, <1>4 DEF RevokeOrderApproval

LEMMA SetSignerCalled ==
    ASSUME NEW L \in Ledgers, NEW m \in Makers, NEW s \in Signers, NEW expiry \in Nat
    PROVE  Called(L, SetSigner(L, m, s, expiry))
<1> SUFFICES ASSUME NEW M, M = SetSigner(L, m, s, expiry) PROVE Called(L, M)
  OBVIOUS
<1> DEFINE written == [L EXCEPT !.orderSignerExpiry[m][s] = expiry]
           burnt == CancelNonces(written, m, SignerWord(s))
<1>1. M \in Ledgers
  BY SetSignerType
<1>2. /\ written \in Ledgers
      /\ written.granted = L.granted /\ written.signed = L.signed
      /\ written.moved = L.moved /\ written.fills = L.fills
      /\ written.dead = L.dead /\ written.wound = L.wound /\ written.filled = L.filled
      /\ written.nonceBitmap = L.nonceBitmap /\ written.minValidNonce = L.minValidNonce
      /\ written.orderApproved = L.orderApproved
  BY DEF Ledgers
<1>3. CASE M = written
  BY <1>2, <1>3 DEF Called, NonceCancelled
<1>4. CASE M = [burnt EXCEPT !.wound = @ \cup {<<m, s>>}]
  <2>1. /\ Burns(written, burnt, m, SignerWord(s))
        /\ burnt.dead = written.dead /\ burnt.wound = written.wound
    <3> HIDE DEF written
    <3>1. SignerWord(s) \in SUBSET Nat
      BY SignerWordType
    <3> QED BY <1>2, <3>1, CancelNoncesBurns
  <2>2. Burns(L, burnt, m, SignerWord(s)) /\ burnt.dead = L.dead /\ burnt.wound = L.wound
    <3> HIDE DEF written, burnt
    <3> QED BY <1>2, <2>1 DEF Burns
  <2> HIDE DEF burnt
  <2>3. /\ Burns(L, M, m, SignerWord(s))
        /\ M.dead = L.dead /\ M.wound = L.wound \cup {<<m, s>>}
    BY <1>1, <1>4, <2>2 DEF Ledgers, Burns
  <2>4. \A k \in Makers, n \in Nat : NonceCancelled(L, k, n) => NonceCancelled(M, k, n)
    BY <2>3 DEF NonceCancelled, Burns
  <2>5. \A k \in Makers, t \in Signers : <<k, t>> \in M.wound \ L.wound =>
          SignerWord(t) \subseteq M.nonceBitmap[k]
    BY <2>3 DEF Burns
  <2>6. \A k \in Makers : L.nonceBitmap[k] \subseteq M.nonceBitmap[k]
    BY <2>3 DEF Burns
  <2> QED BY <2>3, <2>4, <2>5, <2>6 DEF Called, Burns
<1> QED
  BY <1>3, <1>4 DEF SetSigner

LEMMA RelaySignerCalled ==
    ASSUME NEW L \in Ledgers, NEW p \in Permits
    PROVE  Called(L, RelaySigner(L, p))
<1> DEFINE S == {Reserved(p.nonce)}
           M == BurnNonces(L, p.maker, S)
<1>1. S \in SUBSET Nat /\ p.maker \in Makers /\ p.signer \in Signers /\ p.expiry \in Nat
  BY NonceAssumption DEF Reserved, Permits
<1>2. Called(L, M) /\ M \in Ledgers
  <2> HIDE DEF S
  <2> QED BY <1>1, BurnNoncesCalled, BurnNoncesType
<1>3. RelaySigner(L, p) = SetSigner(M, p.maker, p.signer, p.expiry)
  BY DEF RelaySigner
<1>4. Called(M, SetSigner(M, p.maker, p.signer, p.expiry))
  <2> HIDE DEF M
  <2> QED BY <1>1, <1>2, SetSignerCalled
<1> QED
  <2> HIDE DEF M
  <2> QED BY <1>2, <1>3, <1>4, CalledTransitive

LEMMA InvalidateTakeCalled ==
    ASSUME NEW L \in Ledgers, NEW o \in Orders
    PROVE  Called(L, [L EXCEPT !.takeSpent = @ \cup {o}])
BY DEF Called, NonceCancelled, Ledgers

-----------------------------------------------------------------------------
(* What opening a fill does to a ledger                                    *)

Opens(L, M, o, delta) ==
    /\ M \in Ledgers /\ delta \in Nat \ {0}
    /\ M.orderApproved = L.orderApproved /\ M.wound = L.wound
    /\ M.moved = L.moved /\ M.fills = L.fills
    /\ L.granted \subseteq M.granted /\ L.signed \subseteq M.signed
    /\ M.signed \ L.signed \subseteq M.granted
    /\ L.filled[o] # MaxUint /\ L.filled[o] + delta <= Terms[o].total
    /\ ~NonceCancelled(L, Terms[o].maker, Terms[o].nonce)
    /\ \A p \in Orders : p # o => M.filled[p] = L.filled[p]
    /\ Terms[o].once =>
         /\ M.filled[o] = L.filled[o]
         /\ NonceCancelled(M, Terms[o].maker, Terms[o].nonce)
    /\ ~Terms[o].once => M.filled[o] = L.filled[o] + delta
    /\ L.dead \subseteq M.dead
    /\ \A p \in M.dead \ L.dead : Marked(M, p)
    /\ Terms[o].once => OnNonces(Terms[o].maker, {Terms[o].nonce}) \subseteq M.dead
    /\ \A m \in Makers, n \in Nat : NonceCancelled(L, m, n) => NonceCancelled(M, m, n)
    /\ \A m \in Makers : L.nonceBitmap[m] \subseteq M.nonceBitmap[m]

(* The fill shows its maker's authority, owes it, or follows a fill that   *)
(* did one of the two.                                                     *)
Shown(L, M, o, owes) ==
    \/ L.filled[o] # 0
    \/ /\ o \in M.signed \cup M.orderApproved[Terms[o].maker] \cup owes
       /\ o \in M.granted \cup owes

(* The frame gains delta units of o, and is ragged if o is sized and part  *)
(* of it had been opened before.                                           *)
Extends(L, o, delta, open, ragged, open2, ragged2) ==
    /\ open2 \in [Orders -> Nat]
    /\ open2[o] = open[o] + delta
    /\ \A p \in Orders : p # o => open2[p] = open[p]
    /\ ragged => ragged2
    /\ Terms[o].sized /\ L.filled[o] # 0 => ragged2

(* An order that can open has no unit of its own on a spent nonce.         *)
LEMMA OpensFresh ==
    ASSUME NEW L \in Ledgers, NEW M, NEW o \in Orders, NEW delta,
           NEW open \in [Orders -> Nat], Exact(L, open), Opens(L, M, o, delta)
    PROVE  /\ Terms[o].once => Units(L, open, o) = 0
           /\ ~Terms[o].once => L.filled[o] = Units(L, open, o)
           /\ Units(L, open, o) \in Nat
<1>1. Units(L, open, o) \in Nat
  BY DEF Units, Ledgers
<1> QED
  BY <1>1 DEF Exact, Opens

LEMMA OpensDead ==
    ASSUME NEW L \in Ledgers, NEW M, NEW o \in Orders, NEW delta,
           DeadMarked(L), Opens(L, M, o, delta)
    PROVE  DeadMarked(M) /\ o \notin L.dead
<1> M \in Ledgers
  BY DEF Opens
<1>1. o \notin L.dead
  BY DEF DeadMarked, Marked, Opens
<1>2. ASSUME NEW p \in M.dead, p \in L.dead
      PROVE  Marked(M, p)
  <2>1. p \in Orders /\ p # o
    BY <1>1, <1>2 DEF Ledgers
  <2>2. Marked(L, p) /\ M.filled[p] = L.filled[p]
    BY <1>2, <2>1 DEF DeadMarked, Opens
  <2>3. NonceCancelled(L, Terms[p].maker, Terms[p].nonce)
          => NonceCancelled(M, Terms[p].maker, Terms[p].nonce)
    BY <2>1, TermsType DEF Opens
  <2> QED BY <2>2, <2>3 DEF Marked
<1>3. \A p \in M.dead \ L.dead : Marked(M, p)
  BY DEF Opens
<1> QED
  BY <1>1, <1>2, <1>3 DEF DeadMarked

LEMMA OpensAuthority ==
    ASSUME NEW L \in Ledgers, NEW M, NEW o \in Orders, NEW delta,
           NEW owes, NEW owes2, owes \subseteq owes2,
           NEW open \in [Orders -> Nat], NEW open2, NEW ragged, NEW ragged2,
           Authority(L, owes, open), Opens(L, M, o, delta), Shown(L, M, o, owes2),
           Extends(L, o, delta, open, ragged, open2, ragged2)
    PROVE  Authority(M, owes2, open2)
<1>1. M.signed \subseteq M.granted
  BY DEF Opens, Authority
<1>2. /\ o \in M.signed \cup M.orderApproved[Terms[o].maker] \cup owes2
      /\ o \in M.granted \cup owes2
  <2>1. CASE L.filled[o] = 0
    BY <2>1 DEF Shown
  <2>2. CASE L.filled[o] # 0
    <3>1. L.filled[o] \notin {0, MaxUint}
      BY <2>2 DEF Opens
    <3> QED BY <3>1 DEF Authority, Opens
  <2> QED BY <2>1, <2>2
<1>3. ASSUME NEW p \in Orders, M.filled[p] \notin {0, MaxUint}
      PROVE  /\ p \in M.signed \cup M.orderApproved[Terms[p].maker] \cup owes2
             /\ p \in M.granted \cup owes2
  <2>1. CASE p = o
    BY <1>2, <2>1
  <2>2. CASE p # o
    <3>1. L.filled[p] \notin {0, MaxUint}
      BY <1>3, <2>2 DEF Opens
    <3> QED BY <3>1 DEF Authority, Opens
  <2> QED BY <2>1, <2>2
<1>4. \A p \in Orders : open2[p] > 0 => p \in M.granted \cup owes2
  BY <1>2 DEF Extends, Authority, Opens
<1>5. \A p \in Orders : M.fills[p] > 0 => p \in M.granted
  BY DEF Authority, Opens
<1> QED
  BY <1>1, <1>3, <1>4, <1>5 DEF Authority

LEMMA OpensExact ==
    ASSUME NEW L \in Ledgers, NEW M, NEW o \in Orders, NEW delta,
           NEW open \in [Orders -> Nat], NEW open2, NEW ragged, NEW ragged2,
           Exact(L, open), Opens(L, M, o, delta),
           Extends(L, o, delta, open, ragged, open2, ragged2)
    PROVE  Exact(M, open2)
<1> M \in Ledgers /\ delta \in Nat \ {0}
  BY DEF Opens
<1> SUFFICES ASSUME NEW p \in Orders
             PROVE  /\ Units(M, open2, p) <= Terms[p].total
                    /\ Terms[p].once =>
                         /\ M.filled[p] \in {0, MaxUint}
                         /\ Units(M, open2, p) > 0 =>
                              NonceCancelled(M, Terms[p].maker, Terms[p].nonce)
                    /\ ~Terms[p].once => M.filled[p] \in {MaxUint, Units(M, open2, p)}
  BY DEF Exact
<1>1. CASE p # o
  <2>1. Units(M, open2, p) = Units(L, open, p) /\ M.filled[p] = L.filled[p]
    BY <1>1 DEF Units, Opens, Extends
  <2>2. NonceCancelled(L, Terms[p].maker, Terms[p].nonce)
          => NonceCancelled(M, Terms[p].maker, Terms[p].nonce)
    BY TermsType DEF Opens
  <2> QED BY <2>1, <2>2 DEF Exact
<1>2. CASE p = o
  <2>1. Units(M, open2, o) = Units(L, open, o) + delta
    BY DEF Units, Opens, Extends, Ledgers
  <2>2. L.filled[o] \in Nat
    BY TermsType DEF Ledgers
  <2>3. CASE Terms[o].once
    <3>1. Units(M, open2, o) = delta
      BY <2>1, <2>3, OpensFresh
    <3>2. delta <= Terms[o].total
      BY <2>2, TermsType DEF Opens
    <3> QED BY <1>2, <2>3, <3>1, <3>2 DEF Exact, Opens
  <2>4. CASE ~Terms[o].once
    <3>1. M.filled[o] = Units(M, open2, o) /\ Units(M, open2, o) = L.filled[o] + delta
      <4>1. L.filled[o] = Units(L, open, o)
        BY <2>4, OpensFresh
      <4>2. M.filled[o] = L.filled[o] + delta
        BY <2>4 DEF Opens
      <4> QED BY <2>1, <4>1, <4>2
    <3> QED BY <1>2, <2>4, <3>1 DEF Opens
  <2> QED BY <2>3, <2>4
<1> QED
  BY <1>1, <1>2

LEMMA OpensSingle ==
    ASSUME NEW L \in Ledgers, NEW M, NEW o \in Orders, NEW delta,
           NEW open \in [Orders -> Nat], NEW open2, NEW ragged, NEW ragged2,
           Exact(L, open), Single(L, open, ragged), Opens(L, M, o, delta),
           Extends(L, o, delta, open, ragged, open2, ragged2)
    PROVE  Single(M, open2, ragged2)
<1>1. M.fills = L.fills /\ M.moved = L.moved /\ L.fills \in [Orders -> Nat] /\ L.moved \in [Orders -> Nat]
  BY DEF Opens, Ledgers
<1>2. \A p \in Orders : M.fills[p] > 0 <=> M.moved[p] > 0
  BY <1>1 DEF Single
<1>3. ASSUME NEW p \in Whole
      PROVE  M.fills[p] <= 1 /\ (open2[p] > 0 => M.fills[p] = 0 \/ ragged2)
  <2>0. p \in Orders /\ (Terms[p].once \/ Terms[p].sized)
    BY DEF Whole
  <2>1. M.fills[p] <= 1
    BY <1>1 DEF Single
  <2>2. CASE p # o
    BY <1>1, <2>0, <2>1, <2>2 DEF Single, Extends
  <2>3. CASE p = o /\ (Terms[o].once \/ L.filled[o] = 0)
    <3>1. Units(L, open, o) = 0
      BY <2>3, OpensFresh
    <3>2. L.moved[o] = 0
      BY <1>1, <3>1 DEF Units
    <3>3. L.fills[o] = 0
      BY <1>1, <3>2 DEF Single
    <3> QED BY <1>1, <2>1, <2>3, <3>3
  <2>4. CASE p = o /\ ~Terms[o].once /\ L.filled[o] # 0
    BY <2>0, <2>1, <2>4 DEF Extends
  <2> QED BY <2>2, <2>3, <2>4
<1>4. ASSUME NEW p \in Orders, NEW q \in Orders, Sharing(p, q)
      PROVE  Units(M, open2, p) = 0 \/ Units(M, open2, q) = 0
  <2>1. \A r \in Orders : r # o => Units(M, open2, r) = Units(L, open, r)
    BY <1>1 DEF Units, Extends
  <2>2. \A r \in Orders : Sharing(o, r) => Units(L, open, r) = 0
    <3> SUFFICES ASSUME NEW r \in Orders, Sharing(o, r)
                 PROVE  Units(L, open, r) = 0
      OBVIOUS
    <3>1. ~NonceCancelled(L, Terms[r].maker, Terms[r].nonce)
      BY DEF Opens, Sharing
    <3>2. Units(L, open, r) \in Nat
      BY <1>1 DEF Units
    <3> QED BY <3>1, <3>2 DEF Exact, Sharing
  <2>3. Sharing(q, p) /\ p # q
    BY <1>4 DEF Sharing
  <2>4. CASE p # o /\ q # o
    BY <1>4, <2>1, <2>4 DEF Single
  <2> QED BY <1>4, <2>1, <2>2, <2>3, <2>4
<1> QED
  BY <1>2, <1>3, <1>4 DEF Single

LEMMA OpensSound ==
    ASSUME NEW L \in Ledgers, NEW M, NEW o \in Orders, NEW delta,
           NEW owes, NEW owes2, owes \subseteq owes2,
           NEW open \in [Orders -> Nat], NEW open2, NEW ragged, NEW ragged2,
           Sound(L, owes, open, ragged), Opens(L, M, o, delta), Shown(L, M, o, owes2),
           Extends(L, o, delta, open, ragged, open2, ragged2)
    PROVE  Sound(M, owes2, open2, ragged2) /\ o \notin L.dead
<1>1. DeadMarked(M) /\ o \notin L.dead
  BY OpensDead DEF Sound
<1>2. OwnApprovals(M)
  BY DEF OwnApprovals, Opens, Sound
<1>3. Authority(M, owes2, open2)
  BY OpensAuthority DEF Sound
<1>4. Exact(M, open2)
  BY OpensExact DEF Sound
<1>5. Single(M, open2, ragged2)
  BY OpensSingle DEF Sound
<1>6. WoundBurnt(M)
  BY DEF WoundBurnt, Opens, Sound
<1> QED
  BY <1>1, <1>2, <1>3, <1>4, <1>5, <1>6 DEF Sound

-----------------------------------------------------------------------------
(* What a consumed PermitTake and a close do to a ledger                   *)

LEMMA TakenSound ==
    ASSUME NEW L \in Ledgers, NEW o \in Orders, NEW owes, NEW open \in [Orders -> Nat], NEW ragged,
           Sound(L, owes, open, ragged),
           NEW M, M = [GrantSigned(L, o) EXCEPT !.takeSpent = @ \cup {o}]
    PROVE  Sound(M, owes \ {o}, open, ragged)
<1>1. /\ M.filled = L.filled /\ M.nonceBitmap = L.nonceBitmap
      /\ M.minValidNonce = L.minValidNonce /\ M.orderApproved = L.orderApproved
      /\ M.granted = L.granted \cup {o} /\ M.signed = L.signed \cup {o}
      /\ M.dead = L.dead /\ M.wound = L.wound /\ M.moved = L.moved /\ M.fills = L.fills
  BY DEF GrantSigned, Ledgers
<1>2. DeadMarked(M) /\ OwnApprovals(M) /\ WoundBurnt(M)
  BY <1>1 DEF Sound, DeadMarked, OwnApprovals, WoundBurnt, Marked, NonceCancelled
<1>3. Authority(M, owes \ {o}, open)
  BY <1>1 DEF Sound, Authority
<1>4. Exact(M, open) /\ Single(M, open, ragged)
  BY <1>1 DEF Sound, Exact, Single, Units, NonceCancelled
<1> QED
  BY <1>2, <1>3, <1>4 DEF Sound

LEMMA SettleSound ==
    ASSUME NEW L \in Ledgers, NEW open \in [Orders -> Nat], Sound(L, {}, open, FALSE)
    PROVE  Sound(Settle(L, open), {}, Nothing, FALSE)
<1> SUFFICES ASSUME NEW M, M = Settle(L, open) PROVE Sound(M, {}, Nothing, FALSE)
  OBVIOUS
<1>1. /\ M.filled = L.filled /\ M.nonceBitmap = L.nonceBitmap
      /\ M.minValidNonce = L.minValidNonce /\ M.orderApproved = L.orderApproved
      /\ M.granted = L.granted /\ M.signed = L.signed
      /\ M.dead = L.dead /\ M.wound = L.wound
      /\ M.moved = [o \in Orders |-> L.moved[o] + open[o]]
      /\ M.fills = [o \in Orders |-> IF open[o] > 0 THEN L.fills[o] + 1 ELSE L.fills[o]]
  BY DEF Settle, Ledgers
<1>2. \A o \in Orders : /\ L.moved[o] \in Nat /\ L.fills[o] \in Nat /\ open[o] \in Nat
                        /\ M.moved[o] = L.moved[o] + open[o]
                        /\ M.fills[o] = IF open[o] > 0 THEN L.fills[o] + 1 ELSE L.fills[o]
  BY <1>1 DEF Ledgers
<1>3. DeadMarked(M) /\ OwnApprovals(M) /\ WoundBurnt(M)
  BY <1>1 DEF Sound, DeadMarked, OwnApprovals, WoundBurnt, Marked, NonceCancelled
<1>4. Authority(M, {}, Nothing)
  BY <1>1, <1>2 DEF Sound, Authority, Nothing
<1>5. \A o \in Orders : Units(M, Nothing, o) = Units(L, open, o)
  BY <1>2 DEF Units, Nothing
<1>6. Exact(M, Nothing)
  BY <1>1, <1>5 DEF Sound, Exact, NonceCancelled
<1>7. Single(M, Nothing, FALSE)
  <2>1. \A o \in Orders : M.fills[o] > 0 <=> M.moved[o] > 0
    BY <1>2 DEF Sound, Single
  <2>2. \A o \in Whole : M.fills[o] <= 1 /\ Nothing[o] = 0
    BY <1>2 DEF Sound, Single, Whole, Nothing
  <2>3. \A o, p \in Orders :
          Sharing(o, p) => Units(M, Nothing, o) = 0 \/ Units(M, Nothing, p) = 0
    BY <1>5 DEF Sound, Single
  <2> QED BY <2>1, <2>2, <2>3 DEF Single
<1> QED
  BY <1>3, <1>4, <1>6, <1>7 DEF Sound

-----------------------------------------------------------------------------
(* Each opening action is Opens, on authority that is Shown                *)

(* G is L with the authority a check has just recorded.                    *)
Recorded(L, G) ==
    /\ G \in Ledgers
    /\ G.filled = L.filled /\ G.nonceBitmap = L.nonceBitmap
    /\ G.minValidNonce = L.minValidNonce /\ G.orderApproved = L.orderApproved
    /\ G.dead = L.dead /\ G.wound = L.wound /\ G.moved = L.moved /\ G.fills = L.fills
    /\ L.granted \subseteq G.granted /\ L.signed \subseteq G.signed
    /\ G.signed \ L.signed \subseteq G.granted

LEMMA GrantRecorded ==
    ASSUME NEW L \in Ledgers, NEW o \in Orders, NEW sig, NEW time
    PROVE  Recorded(L, Grant(L, o, sig, time)) /\ Recorded(L, GrantSigned(L, o))
<1>1. Recorded(L, GrantSigned(L, o))
  <2> SUFFICES ASSUME NEW G, G = GrantSigned(L, o) PROVE Recorded(L, G)
    OBVIOUS
  <2>1. G \in Ledgers
    BY GrantType
  <2>2. G = [L EXCEPT !.granted = @ \cup {o}, !.signed = @ \cup {o}]
    BY DEF GrantSigned
  <2> QED BY <2>1, <2>2 DEF Recorded, Ledgers
<1>2. Recorded(L, [L EXCEPT !.granted = @ \cup {o}])
  BY DEF Recorded, Ledgers
<1>3. Recorded(L, L)
  BY DEF Recorded
<1> QED
  BY <1>1, <1>2, <1>3 DEF Grant

LEMMA OpenFillOpens ==
    ASSUME NEW L \in Ledgers, NEW G, Recorded(L, G), NEW o \in Orders,
           NEW fillAmount \in Nat \ {0},
           NEW total \in Denominators(o), NEW delta \in Deltas(L, o, fillAmount, total),
           NEW time, CanOpen(L, o, delta, total, time)
    PROVE  /\ Opens(L, OpenFill(G, o, delta), o, delta)
           /\ OpenFill(G, o, delta).granted = G.granted
           /\ OpenFill(G, o, delta).signed = G.signed
<1> SUFFICES ASSUME NEW M, M = OpenFill(G, o, delta)
             PROVE  Opens(L, M, o, delta) /\ M.granted = G.granted /\ M.signed = G.signed
  OBVIOUS
<1> G \in Ledgers
  BY DEF Recorded
<1>1. /\ delta \in Nat \ {0}
      /\ L.filled[o] + delta <= Terms[o].total
      /\ L.filled[o] + delta \in 0..MaxUint
      /\ L.filled[o] # MaxUint
  <2>1. /\ delta \in Nat \ {0} /\ total \in Nat /\ total <= Terms[o].total
        /\ L.filled[o] \in Nat /\ L.filled[o] + delta <= total
        /\ L.filled[o] + delta \in 0..MaxUint
    BY DeltaType DEF CanOpen
  <2>2. L.filled[o] # MaxUint
    BY DEF CanOpen, FillStateOpen
  <2> QED BY <2>1, <2>2, TermsType
<1>2. ~NonceCancelled(L, Terms[o].maker, Terms[o].nonce)
  BY DEF CanOpen, NonceOpen
<1>3. G.filled[o] + delta \in 0..MaxUint
  BY <1>1 DEF Recorded
<1>4. M \in Ledgers
  BY <1>1, <1>3, OpenFillType
<1>5. CASE Terms[o].once
  <2> DEFINE m == Terms[o].maker
             S == {Terms[o].nonce}
  <2>1. M = BurnNonces(G, m, S) /\ m \in Makers /\ S \in SUBSET Nat
    BY <1>5, TermsType DEF OpenFill
  <2>2. /\ Burns(G, M, m, S)
        /\ M.dead = G.dead \cup OnNonces(m, S) /\ M.wound = G.wound
    <3> HIDE DEF m, S
    <3> QED BY <2>1, BurnNoncesBurns
  <2>3. /\ M.granted = G.granted /\ M.signed = G.signed
        /\ M.moved = L.moved /\ M.fills = L.fills /\ M.wound = L.wound
        /\ M.filled = L.filled /\ M.orderApproved = L.orderApproved
        /\ M.minValidNonce = L.minValidNonce
        /\ M.dead = L.dead \cup OnNonces(m, S)
        /\ M.nonceBitmap[m] = L.nonceBitmap[m] \cup S
        /\ \A k \in Makers \ {m} : M.nonceBitmap[k] = L.nonceBitmap[k]
    BY <2>2 DEF Burns, Recorded
  <2>4. NonceCancelled(M, m, Terms[o].nonce)
    BY <2>3 DEF NonceCancelled
  <2>5. \A p \in M.dead \ L.dead : Marked(M, p)
    BY <2>3, <2>4 DEF OnNonces, Marked
  <2>6. \A k \in Makers, n \in Nat : NonceCancelled(L, k, n) => NonceCancelled(M, k, n)
    BY <2>3 DEF NonceCancelled
  <2>7. \A k \in Makers : L.nonceBitmap[k] \subseteq M.nonceBitmap[k]
    BY <2>3
  <2>8. M.signed \ L.signed \subseteq M.granted /\ L.granted \subseteq M.granted
        /\ L.signed \subseteq M.signed
    BY <2>3 DEF Recorded
  <2> QED BY <1>1, <1>2, <1>4, <1>5, <2>3, <2>4, <2>5, <2>6, <2>7, <2>8 DEF Opens
<1>6. CASE ~Terms[o].once
  <2>1. M = [G EXCEPT !.filled[o] = @ + delta]
    BY <1>6 DEF OpenFill
  <2>2. /\ M.granted = G.granted /\ M.signed = G.signed
        /\ M.moved = L.moved /\ M.fills = L.fills /\ M.wound = L.wound
        /\ M.orderApproved = L.orderApproved
        /\ M.minValidNonce = L.minValidNonce /\ M.nonceBitmap = L.nonceBitmap
        /\ M.dead = L.dead
        /\ M.filled[o] = L.filled[o] + delta
        /\ \A p \in Orders : p # o => M.filled[p] = L.filled[p]
    BY <2>1 DEF Recorded, Ledgers
  <2> QED BY <1>1, <1>2, <1>4, <1>6, <2>2 DEF Opens, Recorded, NonceCancelled
<1> QED
  BY <1>5, <1>6

LEMMA OpenSignedOpens ==
    ASSUME st \in Ledgers, NEW o \in Orders, NEW sig, NEW fillAmount \in Nat \ {0},
           NEW total \in Denominators(o), NEW delta \in Deltas(st, o, fillAmount, total),
           OpenSigned(o, sig, delta, total)
    PROVE  Opens(st, st', o, delta) /\ Shown(st, st', o, {}) /\ delta \in Nat \ {0}
<1> DEFINE G == Grant(st, o, sig, now)
<1>1. CanOpen(st, o, delta, total, now) /\ Verified(st, o, sig, now) /\ st' = OpenFill(G, o, delta)
  BY DEF OpenSigned
<1>2. Recorded(st, G)
  BY GrantRecorded
<1>3. Opens(st, st', o, delta) /\ st'.granted = G.granted /\ st'.signed = G.signed
  <2> HIDE DEF G
  <2> QED BY <1>1, <1>2, OpenFillOpens
<1>4. Shown(st, st', o, {})
  <2>1. CASE sig = EmptySig
    <3>1. o \in st.orderApproved[Terms[o].maker] /\ G.granted = st.granted \cup {o}
      BY <1>1, <2>1 DEF Verified, Grant, Ledgers
    <3>2. st'.orderApproved = st.orderApproved
      BY <1>3 DEF Opens
    <3> QED BY <1>3, <3>1, <3>2 DEF Shown
  <2>2. CASE sig # EmptySig /\ Genuine(st, o, sig, now)
    <3>1. G = GrantSigned(st, o)
      BY <2>2 DEF Grant
    <3>2. o \in G.granted /\ o \in G.signed
      BY <3>1 DEF GrantSigned, Ledgers
    <3> QED BY <1>3, <3>2 DEF Shown
  <2>3. CASE sig # EmptySig /\ ~Genuine(st, o, sig, now)
    BY <1>1, <2>3 DEF Verified, Shown
  <2> QED BY <2>1, <2>2, <2>3
<1> QED
  BY <1>3, <1>4 DEF Opens

(* The frame a fill outside matchSettle opens extends the idle one.        *)
LEMMA OpenedExtends ==
    ASSUME st \in Ledgers, frame = NoFrame, NEW o \in Orders, NEW delta \in Nat, NEW total,
           NEW owes \in SUBSET Orders
    PROVE  LET f == Opened(o, delta, total, owes)
           IN  /\ Extends(st, o, delta, frame.open, frame.ragged, f.open, f.ragged)
               /\ f.owes = owes /\ f.saved = st
<1> DEFINE f == Opened(o, delta, total, owes)
<1>1. f.open \in [Orders -> Nat]
  BY OpenedType DEF Frames
<1>2. \A p \in Orders : f.open[p] = IF p = o THEN delta ELSE 0
  BY OpenedUnits
<1>3. \A p \in Orders : frame.open[p] = 0
  BY DEF NoFrame, Nothing
<1>4. Terms[o].sized /\ st.filled[o] # 0 => f.ragged
  BY DEF Opened, Extend, IsFullFill, NoFrame
<1>5. ~frame.ragged
  BY DEF NoFrame
<1>6. f.owes = owes /\ f.saved = st
  BY OpenedFields
<1> HIDE DEF f
<1>7. Extends(st, o, delta, frame.open, frame.ragged, f.open, f.ragged)
  BY <1>1, <1>2, <1>3, <1>4, <1>5 DEF Extends
<1> QED
  BY <1>6, <1>7 DEF f

(* One more order opened by matchSettle extends the frame.                 *)
LEMMA ExtendExtends ==
    ASSUME frame \in Frames, NEW o \in Orders, NEW delta \in Nat, NEW total,
           frame' = [Extend(frame, st, o, delta, total) EXCEPT !.left = @ - 1]
    PROVE  Extends(st, o, delta, frame.open, frame.ragged, frame'.open, frame'.ragged)
<1>1. frame'.open = [frame.open EXCEPT ![o] = @ + delta] /\ frame.open \in [Orders -> Nat]
  BY DEF Extend, Frames
<1>2. frame'.open \in [Orders -> Nat]
  BY <1>1
<1>3. \A p \in Orders : p # o => frame'.open[p] = frame.open[p]
  BY <1>1
<1>4. frame'.open[o] = frame.open[o] + delta
  BY <1>1
<1>5. frame.ragged => frame'.ragged
  BY DEF Extend, Frames
<1>6. Terms[o].sized /\ st.filled[o] # 0 => frame'.ragged
  BY DEF Extend, IsFullFill, Frames
<1> QED
  BY <1>2, <1>3, <1>4, <1>5, <1>6 DEF Extends

-----------------------------------------------------------------------------
(* Every action keeps the invariant                                        *)

Saved == Sound(frame.saved, {}, Nothing, FALSE) /\ Sound(batch.saved, {}, Nothing, FALSE)

Live == Sound(st, frame.owes, frame.open, frame.ragged)

(* The step opens no unit of a killed order.                               *)
NoRevival == \A o \in st.dead : frame'.open[o] <= frame.open[o]

(* At rest, and between the entries of a batch, nothing is open.           *)
LEMMA IdleSound ==
    ASSUME Inv, frame.stage = "idle"
    PROVE  /\ frame = NoFrame
           /\ frame.owes = {} /\ frame.open = Nothing /\ ~frame.ragged
           /\ Sound(st, {}, Nothing, FALSE)
<1>1. frame = NoFrame
  BY DEF Inv, Shape
<1>2. frame.owes = {} /\ frame.open = Nothing /\ frame.ragged = FALSE
  BY <1>1 DEF NoFrame
<1> QED
  BY <1>1, <1>2 DEF Inv

LEMMA GenesisSound == Sound(Genesis, {}, Nothing, FALSE)
<1>1. \A o \in Orders : Terms[o].total >= 0 /\ Terms[o].total \in Nat
  BY TermsType
<1>2. Exact(Genesis, Nothing)
  BY <1>1 DEF Exact, Units, Genesis, Nothing
<1>3. Single(Genesis, Nothing, FALSE)
  BY DEF Single, Units, Genesis, Nothing, Whole
<1>4. Authority(Genesis, {}, Nothing)
  BY DEF Authority, Genesis, Nothing
<1> QED
  BY <1>2, <1>3, <1>4 DEF Sound, DeadMarked, OwnApprovals, WoundBurnt, Genesis

LEMMA NothingSaved ==
    /\ NoFrame.owes = {} /\ NoFrame.open = Nothing /\ NoFrame.ragged = FALSE
    /\ NoFrame.stage = "idle"
    /\ Sound(NoFrame.saved, {}, Nothing, FALSE)
    /\ Sound(NoBatch.saved, {}, Nothing, FALSE)
<1>1. NoFrame.saved = Genesis /\ NoBatch.saved = Genesis
  BY DEF NoFrame, NoBatch
<1> QED
  BY <1>1, GenesisSound DEF NoFrame

(* Every call outside the lock leaves frames and batches alone.            *)
LEMMA RegistryCalled ==
    ASSUME Inv, Registry
    PROVE  Called(st, st') /\ UNCHANGED <<frame, batch>>
<1> st \in Ledgers
  BY DEF Inv, TypeOK
<1>1. ASSUME NEW o \in Orders, CancelOrderCall(o)
      PROVE  Called(st, st') /\ UNCHANGED <<frame, batch>>
  BY <1>1, CancelOrderCalled DEF CancelOrderCall, Calling
<1>2. ASSUME NEW o \in Orders, InvalidateTake(o)
      PROVE  Called(st, st') /\ UNCHANGED <<frame, batch>>
  BY <1>2, InvalidateTakeCalled DEF InvalidateTake, Calling
<1>3. ASSUME NEW m \in Makers, NEW S \in NonceLists, CancelOrdersCall(m, S)
      PROVE  Called(st, st') /\ UNCHANGED <<frame, batch>>
  BY <1>3, BurnNoncesCalled, InputAssumption DEF CancelOrdersCall, Calling
<1>4. ASSUME NEW m \in Makers, NEW w \in WordIndexes, InvalidateNonceWord(m, w)
      PROVE  Called(st, st') /\ UNCHANGED <<frame, batch>>
  <2>1. Word(w) \in SUBSET Nat
    BY InputAssumption, NonceAssumption DEF Word
  <2> QED BY <1>4, <2>1, BurnNoncesCalled DEF InvalidateNonceWord, Calling
<1>5. ASSUME NEW m \in Makers, NEW floor \in Floors, RollbackNoncesCall(m, floor)
      PROVE  Called(st, st') /\ UNCHANGED <<frame, batch>>
  BY <1>5, RollbackNoncesCalled, InputAssumption DEF RollbackNoncesCall, Calling
<1>6. ASSUME NEW m \in Makers, NEW S \in Approvals, ApproveOrdersCall(m, S)
      PROVE  Called(st, st') /\ UNCHANGED <<frame, batch>>
  BY <1>6, ApproveOrdersCalled, InputAssumption DEF ApproveOrdersCall, Calling
<1>7. ASSUME NEW m \in Makers, NEW o \in Orders, RevokeOrderApprovalCall(m, o)
      PROVE  Called(st, st') /\ UNCHANGED <<frame, batch>>
  BY <1>7, RevokeOrderApprovalCalled DEF RevokeOrderApprovalCall, Calling
<1>8. ASSUME NEW m \in Makers, NEW s \in Signers, NEW expiry \in Expiries,
             SetOrderSignerCall(m, s, expiry)
      PROVE  Called(st, st') /\ UNCHANGED <<frame, batch>>
  <2>1. (IF expiry >= now THEN expiry ELSE 0) \in Nat
    BY InputAssumption
  <2> QED BY <1>8, <2>1, SetSignerCalled DEF SetOrderSignerCall, SetOrderSigner, Calling
<1>9. ASSUME NEW p \in permits, SetOrderSignerWithSig(p)
      PROVE  Called(st, st') /\ UNCHANGED <<frame, batch>>
  <2>1. p \in Permits
    BY DEF Inv, TypeOK
  <2> QED BY <1>9, <2>1, RelaySignerCalled DEF SetOrderSignerWithSig, Calling
<1> QED
  BY <1>1, <1>2, <1>3, <1>4, <1>5, <1>6, <1>7, <1>8, <1>9 DEF Registry

LEMMA RegistryKeeps ==
    ASSUME Inv, Registry
    PROVE  Live' /\ Saved' /\ NoRevival
<1> st \in Ledgers /\ frame.open \in [Orders -> Nat]
  BY DEF Inv, TypeOK, Frames
<1>1. Called(st, st') /\ UNCHANGED <<frame, batch>>
  BY RegistryCalled
<1>2. Sound(st', frame.owes, frame.open, frame.ragged)
  BY <1>1, CalledSound DEF Inv
<1>3. NoRevival
  <2>1. \A o \in st.dead : o \in Orders
    BY DEF Ledgers
  <2> QED BY <1>1, <2>1 DEF NoRevival
<1> QED
  BY <1>1, <1>2, <1>3 DEF Live, Saved, Inv

(* Opening on a frame: what an opening step adds to the invariant.         *)
LEMMA OpensKeeps ==
    ASSUME Inv, NEW o \in Orders, NEW delta, NEW owes,
           Opens(st, st', o, delta), Shown(st, st', o, owes), frame.owes \subseteq owes,
           Extends(st, o, delta, frame.open, frame.ragged, frame'.open, frame'.ragged),
           frame'.owes = owes,
           Sound(frame'.saved, {}, Nothing, FALSE), UNCHANGED batch
    PROVE  Live' /\ Saved' /\ NoRevival
<1> st \in Ledgers /\ frame.open \in [Orders -> Nat]
  BY DEF Inv, TypeOK, Frames
<1>1. Sound(st', owes, frame'.open, frame'.ragged) /\ o \notin st.dead
  BY OpensSound DEF Inv
<1>2. NoRevival
  <2>1. \A p \in st.dead : p \in Orders /\ p # o /\ frame.open[p] \in Nat
    BY <1>1 DEF Ledgers
  <2> QED BY <2>1 DEF Extends, NoRevival
<1> QED
  BY <1>1, <1>2 DEF Live, Saved, Inv

(* A frame opened from rest or between the entries of a batch.             *)
LEMMA FreshKeeps ==
    ASSUME Inv, frame.stage = "idle", NEW o \in Orders, NEW delta \in Nat, NEW total,
           NEW owes \in SUBSET Orders,
           Opens(st, st', o, delta), Shown(st, st', o, owes),
           frame' = Opened(o, delta, total, owes), UNCHANGED batch
    PROVE  Live' /\ Saved' /\ NoRevival
<1>1. /\ frame = NoFrame /\ frame.owes = {} /\ Sound(st, {}, Nothing, FALSE)
  BY IdleSound
<1>2. st \in Ledgers
  BY DEF Inv, TypeOK
<1>3. /\ Extends(st, o, delta, frame.open, frame.ragged, frame'.open, frame'.ragged)
      /\ frame'.owes = owes /\ frame'.saved = st
  BY <1>1, <1>2, OpenedExtends
<1> QED
  BY <1>1, <1>3, OpensKeeps

LEMMA OpeningKeeps ==
    ASSUME Inv, Opening
    PROVE  Live' /\ Saved' /\ NoRevival
<1> /\ st \in Ledgers /\ frame \in Frames /\ frame.open \in [Orders -> Nat]
    /\ TypeOK /\ Shape
  BY DEF Inv, TypeOK, Frames
<1>0. \A fillAmount \in Amounts : fillAmount \in Nat
  BY InputAssumption
<1>i. ~locked => frame.stage = "idle"
  BY DEF Shape, LockHeld, AtRest
<1>s. ASSUME UNCHANGED st, frame'.owes = frame.owes, frame'.open = frame.open,
             frame'.ragged = frame.ragged,
             Sound(frame'.saved, {}, Nothing, FALSE), Sound(batch'.saved, {}, Nothing, FALSE)
      PROVE  Live' /\ Saved' /\ NoRevival
  <2>1. Live' /\ Saved'
    BY <1>s DEF Live, Saved, Inv
  <2>2. \A p \in st.dead : p \in Orders
    BY DEF Ledgers
  <2> QED BY <1>s, <2>1, <2>2 DEF NoRevival
<1>1. ASSUME NEW o \in Orders, NEW fillAmount \in Amounts, FillWithPermit(o, fillAmount)
      PROVE  Live' /\ Saved' /\ NoRevival
  <2>1. PICK total \in Denominators(o) : \E delta \in Deltas(st, o, fillAmount, total) :
          /\ CanOpen(st, o, delta, total, now)
          /\ st' = OpenFill(GrantSigned(st, o), o, delta)
          /\ frame' = Opened(o, delta, total, {})
    BY <1>1 DEF FillWithPermit
  <2>2. PICK delta \in Deltas(st, o, fillAmount, total) :
          /\ CanOpen(st, o, delta, total, now)
          /\ st' = OpenFill(GrantSigned(st, o), o, delta)
          /\ frame' = Opened(o, delta, total, {})
    BY <2>1
  <2>3. fillAmount \in Nat \ {0} /\ frame.stage = "idle" /\ UNCHANGED batch
    BY <1>0, <1>1, <1>i DEF FillWithPermit
  <2>4. Recorded(st, GrantSigned(st, o))
    BY GrantRecorded
  <2>5. /\ Opens(st, st', o, delta)
        /\ st'.granted = GrantSigned(st, o).granted
        /\ st'.signed = GrantSigned(st, o).signed
    BY <2>2, <2>3, <2>4, OpenFillOpens
  <2>6. o \in GrantSigned(st, o).granted /\ o \in GrantSigned(st, o).signed
    BY DEF GrantSigned, Ledgers
  <2>7. Shown(st, st', o, {}) /\ delta \in Nat
    BY <2>5, <2>6 DEF Shown, Opens
  <2> QED BY <2>2, <2>3, <2>5, <2>7, FreshKeeps
<1>2. ASSUME NEW o \in Orders, NEW fillAmount \in Amounts, FillWithPermitTake(o, fillAmount)
      PROVE  Live' /\ Saved' /\ NoRevival
  <2>1. PICK total \in Denominators(o) : \E delta \in Deltas(st, o, fillAmount, total) :
          /\ CanOpen(st, o, delta, total, now)
          /\ st' = OpenFill(st, o, delta)
          /\ frame' = Opened(o, delta, total, {o})
    BY <1>2 DEF FillWithPermitTake
  <2>2. PICK delta \in Deltas(st, o, fillAmount, total) :
          /\ CanOpen(st, o, delta, total, now)
          /\ st' = OpenFill(st, o, delta)
          /\ frame' = Opened(o, delta, total, {o})
    BY <2>1
  <2>3. fillAmount \in Nat \ {0} /\ frame.stage = "idle" /\ UNCHANGED batch
    BY <1>0, <1>2, <1>i DEF FillWithPermitTake
  <2>4. Recorded(st, st)
    BY DEF Recorded
  <2>5. Opens(st, st', o, delta)
    BY <2>2, <2>3, <2>4, OpenFillOpens
  <2>6. Shown(st, st', o, {o}) /\ delta \in Nat
    BY <2>5 DEF Shown, Opens
  <2> QED BY <2>2, <2>3, <2>5, <2>6, FreshKeeps
<1>3. ASSUME NEW o \in Orders, NEW sig, NEW fillAmount \in Nat \ {0},
             NEW total \in Denominators(o), NEW delta \in Deltas(st, o, fillAmount, total),
             OpenSigned(o, sig, delta, total), frame' = Opened(o, delta, total, {}),
             frame.stage = "idle", UNCHANGED batch
      PROVE  Live' /\ Saved' /\ NoRevival
  <2>1. Opens(st, st', o, delta) /\ Shown(st, st', o, {}) /\ delta \in Nat
    BY <1>3, OpenSignedOpens
  <2> QED BY <1>3, <2>1, FreshKeeps
<1>4. ASSUME NEW o \in Orders, NEW sig, NEW fillAmount \in Amounts, Fill(o, sig, fillAmount)
      PROVE  Live' /\ Saved' /\ NoRevival
  <2>1. PICK total \in Denominators(o) : \E delta \in Deltas(st, o, fillAmount, total) :
          OpenSigned(o, sig, delta, total) /\ frame' = Opened(o, delta, total, {})
    BY <1>4 DEF Fill
  <2>2. fillAmount \in Nat \ {0} /\ frame.stage = "idle" /\ UNCHANGED batch
    BY <1>0, <1>4, <1>i DEF Fill
  <2> QED BY <1>3, <2>1, <2>2
<1>5. ASSUME NEW o \in Orders, NEW sig, NEW fillAmount \in Amounts, FillUpTo(o, sig, fillAmount)
      PROVE  Live' /\ Saved' /\ NoRevival
  <2>1. PICK total \in Denominators(o) :
          /\ FillStateOpen(st, o, total)
          /\ Clamp(st, o, fillAmount, total) # 0
          /\ \E delta \in Deltas(st, o, Clamp(st, o, fillAmount, total), total) :
               OpenSigned(o, sig, delta, total) /\ frame' = Opened(o, delta, total, {})
    BY <1>5 DEF FillUpTo
  <2>2. Clamp(st, o, fillAmount, total) \in Nat \ {0}
    BY <1>0, <2>1, ClampType
  <2>3. frame.stage = "idle" /\ UNCHANGED batch
    BY <1>5, <1>i DEF FillUpTo
  <2> QED BY <1>3, <2>1, <2>2, <2>3
<1>6. ASSUME NEW o \in Orders, NEW sig, NEW fillAmount \in Amounts, FillSelf(o, sig, fillAmount)
      PROVE  Live' /\ Saved' /\ NoRevival
  <2>1. PICK total \in Denominators(o) : \E delta \in Deltas(st, o, fillAmount, total) :
          OpenSigned(o, sig, delta, total) /\ frame' = Opened(o, delta, total, {})
    BY <1>6 DEF FillSelf
  <2>2. fillAmount \in Nat \ {0} /\ frame.stage = "idle" /\ UNCHANGED batch
    BY <1>0, <1>6 DEF FillSelf
  <2> QED BY <1>3, <2>1, <2>2
<1>7. ASSUME NEW o \in Orders, NEW sig, NEW fillAmount \in Amounts, OpenGated(o, sig, fillAmount)
      PROVE  Live' /\ Saved' /\ NoRevival
  <2>1. PICK total \in Denominators(o) : \E delta \in Deltas(st, o, fillAmount, total) :
          /\ OpenSigned(o, sig, delta, total)
          /\ frame' = [Extend(frame, st, o, delta, total) EXCEPT !.left = @ - 1]
    BY <1>7 DEF OpenGated
  <2>2. PICK delta \in Deltas(st, o, fillAmount, total) :
          /\ OpenSigned(o, sig, delta, total)
          /\ frame' = [Extend(frame, st, o, delta, total) EXCEPT !.left = @ - 1]
    BY <2>1
  <2>3. fillAmount \in Nat \ {0} /\ frame.owes = {} /\ UNCHANGED batch
    BY <1>0, <1>7 DEF OpenGated, Shape
  <2>4. Opens(st, st', o, delta) /\ Shown(st, st', o, {}) /\ delta \in Nat
    BY <2>2, <2>3, OpenSignedOpens
  <2>5. Extends(st, o, delta, frame.open, frame.ragged, frame'.open, frame'.ragged)
    BY <2>2, <2>4, ExtendExtends
  <2>6. frame'.owes = {} /\ frame'.saved = frame.saved
    BY <2>2, <2>3 DEF Extend, Frames
  <2>7. Sound(frame'.saved, {}, Nothing, FALSE)
    BY <2>6 DEF Inv
  <2> QED BY <2>3, <2>4, <2>5, <2>6, <2>7, OpensKeeps
<1>8. ASSUME NEW o \in Orders, TakeByPermit(o)
      PROVE  Live' /\ Saved' /\ NoRevival
  <2>1. /\ frame'.owes = frame.owes \ {o} /\ frame'.open = frame.open
        /\ frame'.ragged = frame.ragged /\ frame'.saved = frame.saved /\ UNCHANGED batch
    BY <1>8 DEF TakeByPermit, Frames
  <2>2. Sound(st', frame.owes \ {o}, frame.open, frame.ragged)
    BY <1>8, TakenSound DEF TakeByPermit, Inv
  <2>3. NoRevival
    <3>1. \A p \in st.dead : p \in Orders
      BY DEF Ledgers
    <3> QED BY <2>1, <3>1 DEF NoRevival
  <2> QED BY <2>1, <2>2, <2>3 DEF Live, Saved, Inv
<1>9. ASSUME NEW n, NEW strict, BatchFill(n, strict)
      PROVE  Live' /\ Saved' /\ NoRevival
  <2>1. frame.stage = "idle" /\ UNCHANGED <<st, frame>> /\ batch'.saved = st
    BY <1>9, <1>i DEF BatchFill
  <2>2. Sound(st, {}, Nothing, FALSE) /\ Sound(frame.saved, {}, Nothing, FALSE)
    BY <2>1, IdleSound DEF Inv
  <2> QED BY <1>s, <2>1, <2>2
<1>10. ASSUME MatchSettle
       PROVE  Live' /\ Saved' /\ NoRevival
  <2>1. frame.stage = "idle" /\ UNCHANGED <<st, batch>>
    BY <1>10, <1>i DEF MatchSettle
  <2>2. frame'.owes = {} /\ frame'.open = Nothing /\ frame'.saved = st
    BY <1>10 DEF MatchSettle, NoFrame
  <2>2a. frame'.ragged = NoFrame.ragged
    BY <1>10 DEF MatchSettle, NoFrame
  <2>3. /\ Sound(st, {}, Nothing, FALSE) /\ Sound(batch.saved, {}, Nothing, FALSE)
        /\ frame = NoFrame /\ frame.owes = {} /\ frame.open = Nothing
    BY <2>1, IdleSound DEF Inv
  <2> QED BY <1>s, <2>1, <2>2, <2>2a, <2>3
<1>11. ASSUME RunSchedule
       PROVE  Live' /\ Saved' /\ NoRevival
  <2>1. /\ UNCHANGED <<st, batch>> /\ frame'.owes = frame.owes /\ frame'.open = frame.open
        /\ frame'.ragged = frame.ragged /\ frame'.saved = frame.saved
    BY <1>11 DEF RunSchedule, Frames
  <2>2. Sound(frame.saved, {}, Nothing, FALSE) /\ Sound(batch.saved, {}, Nothing, FALSE)
    BY DEF Inv
  <2> QED BY <1>s, <2>1, <2>2
<1> QED
  BY <1>1, <1>2, <1>4, <1>5, <1>6, <1>7, <1>8, <1>9, <1>10, <1>11 DEF Opening

LEMMA ClosingKeeps ==
    ASSUME Inv, Closing
    PROVE  Live' /\ Saved' /\ NoRevival
<1> st \in Ledgers /\ frame \in Frames /\ frame.open \in [Orders -> Nat]
  BY DEF Inv, TypeOK, Frames
(* Whatever ends the frame leaves nothing open on a ledger that is sound.  *)
<1>c. ASSUME Sound(st', {}, Nothing, FALSE), frame' = NoFrame,
             Sound(batch'.saved, {}, Nothing, FALSE)
      PROVE  Live' /\ Saved' /\ NoRevival
  <2>1. NoRevival
    <3>1. \A o \in st.dead : o \in Orders /\ frame'.open[o] = 0 /\ frame.open[o] \in Nat
      BY <1>c, NothingSaved DEF Ledgers, Nothing
    <3> QED BY <3>1 DEF NoRevival
  <2> QED BY <1>c, <2>1, NothingSaved DEF Live, Saved
<1>0. Sound(frame.saved, {}, Nothing, FALSE) /\ Sound(batch.saved, {}, Nothing, FALSE)
  BY DEF Inv
<1>b. batch'.saved = batch.saved \/ batch' = NoBatch
  <2>1. [batch EXCEPT !.left = @ - 1].saved = batch.saved
    BY DEF Inv, TypeOK, Batches
  <2> QED BY <2>1 DEF Closing, Close, Revert, EntryCaught, BatchReturn, BatchRevert
<1>d. Sound(batch'.saved, {}, Nothing, FALSE)
  BY <1>0, <1>b, NothingSaved
<1>1. CASE Close
  <2>1. /\ frame.owes = {} /\ ~frame.ragged
        /\ st' = Settle(st, frame.open) /\ frame' = NoFrame
    BY <1>1 DEF Close
  <2>2. Sound(st, {}, frame.open, FALSE)
    <3>1. frame.ragged = FALSE
      BY <2>1 DEF Frames
    <3> QED BY <2>1, <3>1 DEF Inv
  <2>3. Sound(st', {}, Nothing, FALSE)
    BY <2>1, <2>2, SettleSound
  <2> QED BY <1>c, <1>d, <2>1, <2>3
<1>2. CASE Revert
  BY <1>0, <1>2, <1>c, <1>d DEF Revert
<1>3. CASE EntryCaught
  <2>1. Sound(st', {}, Nothing, FALSE)
    <3>1. CASE frame.stage = "idle"
      BY <1>3, <3>1, IdleSound DEF EntryCaught
    <3>2. CASE frame.stage # "idle"
      BY <1>0, <1>3, <3>2 DEF EntryCaught
    <3> QED BY <3>1, <3>2
  <2> QED BY <1>3, <1>c, <1>d, <2>1 DEF EntryCaught
<1>4. CASE BatchReturn
  <2>1. frame.stage = "idle" /\ UNCHANGED <<st, frame>>
    BY <1>4 DEF BatchReturn, Inv, Shape
  <2>2. frame' = NoFrame /\ Sound(st', {}, Nothing, FALSE)
    BY <2>1, IdleSound
  <2> QED BY <1>c, <1>d, <2>2
<1>5. CASE BatchRevert
  BY <1>0, <1>5, <1>c, <1>d DEF BatchRevert
<1> QED
  BY <1>1, <1>2, <1>3, <1>4, <1>5 DEF Closing

LEMMA StutterKeeps ==
    ASSUME Inv, UNCHANGED <<st, frame, batch>>
    PROVE  Live' /\ Saved' /\ NoRevival
<1>1. \A o \in st.dead : o \in Orders /\ frame.open[o] \in Nat
  BY DEF Inv, TypeOK, Ledgers, Frames
<1>2. NoRevival
  BY <1>1 DEF NoRevival
<1>3. Live' /\ Saved'
  BY DEF Live, Saved, Inv
<1> QED
  BY <1>2, <1>3

LEMMA StepKeeps ==
    ASSUME Inv, [Next]_vars
    PROVE  Inv' /\ NoRevival
<1>1. TypeOK' /\ Shape'
  BY TypesStep DEF Inv
<1>2. Live' /\ Saved' /\ NoRevival
  <2>1. World \/ UNCHANGED vars => UNCHANGED <<st, frame, batch>>
    BY DEF World, Tick, SignNomination, vars
  <2> QED BY <2>1, RegistryKeeps, OpeningKeeps, ClosingKeeps, StutterKeeps DEF Next
<1> QED
  BY <1>1, <1>2 DEF Inv, Live, Saved

LEMMA InvInit == Init => Inv
<1> SUFFICES ASSUME Init PROVE Inv
  OBVIOUS
<1>1. TypeOK /\ Shape
  BY TypesInit
<1>2. st = Genesis /\ frame = NoFrame /\ batch = NoBatch
  BY DEF Init
<1> QED
  BY <1>1, <1>2, GenesisSound, NothingSaved DEF Inv

-----------------------------------------------------------------------------
(* The theorems                                                            *)

(* The inductive invariant holds in every reachable state.                 *)
THEOREM Invariant == Spec => []Inv
<1>1. Inv /\ [Next]_vars => Inv'
  BY StepKeeps
<1> QED
  BY <1>1, InvInit, PTL DEF Spec

(* No order is ever paid out past its total, and `filled` counts exactly   *)
(* what was paid out and what is in progress, across reverts, caught batch *)
(* entries and cancels from inside a fill (OrderState._openFill).          *)
THEOREM ExactLedger == Spec => []LedgerExact
<1>1. Inv => LedgerExact
  BY DEF Inv, Sound, Exact, Units, LedgerExact
<1> QED
  BY <1>1, Invariant, PTL

(* A part-filled counter stands on a signature or on a live approval: the  *)
(* premise of the first-fill signature skip (Signatures._verifySignature). *)
THEOREM AuthorisedPartialFills == Spec => []PartialFillAuthorised
<1>1. Inv => PartialFillAuthorised
  BY DEF Inv, Sound, Authority, PartialFillAuthorised
<1> QED
  BY <1>1, Invariant, PTL

(* No order pays out on nobody's authority, by any entry of the contract.  *)
THEOREM AuthorisedFills == Spec => []EveryFillAuthorised
<1>1. Inv => EveryFillAuthorised
  BY DEF Inv, Sound, Authority, EveryFillAuthorised
<1> QED
  BY <1>1, Invariant, PTL

(* A fill-once or balance-sized order pays out once, and of two fill-once  *)
(* orders on one nonce at most one does (OrderState._openFill).            *)
THEOREM PaysOnce == Spec => []OnceOnly
<1>1. Inv => OnceOnly
  <2> SUFFICES ASSUME Inv PROVE OnceOnly
    OBVIOUS
  <2>0. /\ st.moved \in [Orders -> Nat] /\ st.fills \in [Orders -> Nat]
        /\ frame.open \in [Orders -> Nat]
    BY DEF Inv, TypeOK, Ledgers, Frames
  <2>1. \A o \in Whole : st.fills[o] <= 1
    BY DEF Inv, Sound, Single
  <2>2. ASSUME NEW o \in Orders, NEW p \in Orders, Sharing(o, p)
        PROVE  st.fills[o] = 0 \/ st.fills[p] = 0
    <3>1. Units(st, frame.open, o) = 0 \/ Units(st, frame.open, p) = 0
      BY <2>2 DEF Inv, Sound, Single
    <3>2. st.moved[o] = 0 \/ st.moved[p] = 0
      BY <2>0, <3>1 DEF Units
    <3> QED BY <2>0, <3>2 DEF Inv, Sound, Single
  <2> QED BY <2>1, <2>2 DEF OnceOnly, Sharing
<1> QED
  BY <1>1, Invariant, PTL

(* Whatever killed an order left a mark that every fill reads.             *)
THEOREM DeadMarks == Spec => []DeadIsMarked
<1>1. Inv => DeadIsMarked
  BY DEF Inv, Sound, DeadMarked, Marked, DeadIsMarked
<1> QED
  BY <1>1, Invariant, PTL

(* A killed order is never opened again, whoever calls whatever.           *)
THEOREM NoOrderRevives == Spec => DeadStaysDead
<1>1. Inv /\ [Next]_vars => [\A o \in st.dead : frame'.open[o] <= frame.open[o]]_vars
  BY StepKeeps DEF NoRevival
<1> QED
  BY <1>1, Invariant, PTL DEF Spec, DeadStaysDead

(* The lock is held exactly while a fill or a batch is in progress.        *)
THEOREM LockIsHeld == Spec => []LockHeld
<1>1. Inv => LockHeld
  BY DEF Inv, Shape
<1> QED
  BY <1>1, Invariant, PTL

(* A delegate wound down cannot come back by a permit, signed before or    *)
(* after: its whole permit word is burnt (Signatures.setOrderSignerWithSig).*)
THEOREM WindDownHolds == Spec => WindDownIsFinal
<1>1. Inv /\ [Next]_vars =>
        [\A p \in permits : SetOrderSignerWithSig(p) => <<p.maker, p.signer>> \notin st.wound]_vars
  <2> SUFFICES ASSUME Inv, NEW p \in permits, SetOrderSignerWithSig(p),
                      <<p.maker, p.signer>> \in st.wound
               PROVE  FALSE
    OBVIOUS
  <2>1. p.maker \in Makers /\ p.signer \in Signers
    BY DEF Inv, TypeOK, Permits
  <2>2. SignerWord(p.signer) \subseteq st.nonceBitmap[p.maker]
    BY <2>1 DEF Inv, Sound, WoundBurnt
  <2>3. Reserved(p.nonce) \in SignerWord(p.signer)
    BY DEF SetOrderSignerWithSig, Relayable, SignerWord
  <2>4. ~NonceCancelled(st, p.maker, Reserved(p.nonce))
    BY DEF SetOrderSignerWithSig, Relayable
  <2> QED BY <2>2, <2>3, <2>4 DEF NonceCancelled
<1> QED
  BY <1>1, Invariant, PTL DEF Spec, WindDownIsFinal

(* A relayed nomination that is not a revocation neither shortens what the *)
(* maker stored nor touches the nonce of an order that could be filled.    *)
THEOREM RelayIsHarmless == Spec => RelayOnlyExtends
<1>1. Inv /\ [Next]_vars =>
        [\A p \in permits : SetOrderSignerWithSig(p) /\ p.expiry # 0 =>
           /\ st'.orderSignerExpiry[p.maker][p.signer] >= st.orderSignerExpiry[p.maker][p.signer]
           /\ \A o \in Orders : NonceOpen(st, o) => NonceOpen(st', o)]_vars
  <2> SUFFICES ASSUME Inv, NEW p \in permits, SetOrderSignerWithSig(p), p.expiry # 0
               PROVE  /\ st'.orderSignerExpiry[p.maker][p.signer] >=
                           st.orderSignerExpiry[p.maker][p.signer]
                      /\ \A o \in Orders : NonceOpen(st, o) => NonceOpen(st', o)
    OBVIOUS
  <2> DEFINE S == {Reserved(p.nonce)}
             B == BurnNonces(st, p.maker, S)
  <2>1. /\ st \in Ledgers /\ p.maker \in Makers /\ p.signer \in Signers
        /\ p.expiry \in Nat /\ p.nonce \in Nat /\ S \in SUBSET Nat
    BY NonceAssumption DEF Inv, TypeOK, Permits, Reserved
  <2>2. /\ B \in Ledgers
        /\ Burns(st, B, p.maker, S) /\ B.orderSignerExpiry = st.orderSignerExpiry
    BY <2>1, BurnNoncesType, BurnNoncesBurns
  <2>3. st' = SetSigner(B, p.maker, p.signer, p.expiry)
        /\ p.expiry >= st.orderSignerExpiry[p.maker][p.signer]
    BY DEF SetOrderSignerWithSig, Relayable, RelaySigner
  <2> HIDE DEF B
  <2>4. st.orderSignerExpiry[p.maker][p.signer] \in Nat
    BY <2>1 DEF Ledgers
  <2>5. st' = [B EXCEPT !.orderSignerExpiry[p.maker][p.signer] = p.expiry]
    BY <2>1, <2>2, <2>3, <2>4 DEF SetSigner
  <2>6. /\ st'.orderSignerExpiry[p.maker][p.signer] = p.expiry
        /\ st'.nonceBitmap = B.nonceBitmap /\ st'.minValidNonce = B.minValidNonce
    BY <2>1, <2>2, <2>5 DEF Ledgers
  <2>7. ASSUME NEW o \in Orders, NonceOpen(st, o)
        PROVE  NonceOpen(st', o)
    <3>1. Terms[o].maker \in Makers /\ Terms[o].nonce \in Nat
      BY TermsType
    <3>2. Terms[o].nonce \notin S
      BY <2>1, <2>7, <3>1, NonceAssumption DEF NonceOpen, Reserved
    <3>3. st'.minValidNonce = st.minValidNonce
      BY <2>2, <2>6 DEF Burns
    <3>4. Terms[o].nonce \notin st.nonceBitmap[Terms[o].maker]
      BY <2>7 DEF NonceOpen, NonceCancelled
    <3>5. Terms[o].nonce \notin st'.nonceBitmap[Terms[o].maker]
      <4> HIDE DEF S
      <4>1. CASE Terms[o].maker = p.maker
        BY <2>2, <2>6, <3>2, <3>4, <4>1 DEF Burns
      <4>2. CASE Terms[o].maker # p.maker
        BY <2>2, <2>6, <3>1, <3>4, <4>2 DEF Burns
      <4> QED BY <4>1, <4>2
    <3> QED BY <2>7, <3>3, <3>5 DEF NonceOpen, NonceCancelled
  <2> QED BY <2>3, <2>6, <2>7
<1> QED
  BY <1>1, Invariant, PTL DEF Spec, RelayOnlyExtends

-----------------------------------------------------------------------------
(***************************************************************************)
(* OrderFills implements OrderPromise, for every instance.  The abstract   *)
(* state is the storage the last committed transaction left (Committed).   *)
(* What a transaction in progress has done since is the relation Since     *)
(* between the storage it would revert to and the live one; a commit turns *)
(* Since into one abstract step.                                           *)
(***************************************************************************)

(* From S, L has only gained authority and deaths, and every order that    *)
(* has gained units was alive in S, has shown its authority or owes it,    *)
(* has killed its rivals, and, if it settles whole, had settled nothing.   *)
Since(S, L, owes, open, ragged) ==
    /\ S.granted \subseteq L.granted
    /\ S.dead \subseteq L.dead
    /\ \A o \in Orders : S.moved[o] <= L.moved[o]
    /\ \A o \in Orders : S.moved[o] < Units(L, open, o) =>
         /\ o \notin S.dead
         /\ o \in L.granted \cup owes
         /\ Terms[o].once => OnNonces(Terms[o].maker, {Terms[o].nonce}) \subseteq L.dead
         /\ o \in Whole => S.moved[o] = 0 \/ ragged

Progress ==
    /\ frame.stage # "idle" => Since(frame.saved, st, frame.owes, frame.open, frame.ragged)
    /\ batch.on => Since(batch.saved, st, frame.owes, frame.open, frame.ragged)
    /\ batch.on /\ frame.stage # "idle" => Since(batch.saved, frame.saved, {}, Nothing, FALSE)

-----------------------------------------------------------------------------
(* Since is kept by each of the four things a step is to a ledger          *)

LEMMA SinceRefl ==
    ASSUME NEW L \in Ledgers
    PROVE  Since(L, L, {}, Nothing, FALSE)
<1>1. \A o \in Orders : Units(L, Nothing, o) = L.moved[o] /\ L.moved[o] \in Nat
  BY DEF Units, Nothing, Ledgers
<1> QED
  BY <1>1 DEF Since

LEMMA SinceCalled ==
    ASSUME NEW S \in Ledgers, NEW L \in Ledgers, NEW M, NEW owes, NEW open \in [Orders -> Nat],
           NEW ragged, Since(S, L, owes, open, ragged), Called(L, M)
    PROVE  Since(S, M, owes, open, ragged)
<1>1. M.granted = L.granted /\ M.moved = L.moved /\ L.dead \subseteq M.dead
  BY DEF Called
<1>2. \A o \in Orders : Units(M, open, o) = Units(L, open, o)
  BY <1>1 DEF Units
<1> QED
  BY <1>1, <1>2 DEF Since

LEMMA SinceOpens ==
    ASSUME NEW S \in Ledgers, NEW L \in Ledgers, NEW M, NEW o \in Orders, NEW delta,
           NEW owes, NEW owes2, owes \subseteq owes2,
           NEW open \in [Orders -> Nat], NEW open2, NEW ragged, NEW ragged2,
           Since(S, L, owes, open, ragged), o \notin L.dead, Opens(L, M, o, delta),
           Extends(L, o, delta, open, ragged, open2, ragged2),
           Sound(M, owes2, open2, ragged2)
    PROVE  Since(S, M, owes2, open2, ragged2)
<1> M \in Ledgers /\ delta \in Nat \ {0}
  BY DEF Opens
<1>1. /\ L.granted \subseteq M.granted /\ L.dead \subseteq M.dead
      /\ M.moved = L.moved /\ M.fills = L.fills
      /\ L.moved \in [Orders -> Nat] /\ L.fills \in [Orders -> Nat]
      /\ S.moved \in [Orders -> Nat]
  BY DEF Opens, Ledgers
<1>2. ASSUME NEW p \in Orders, S.moved[p] < Units(M, open2, p)
      PROVE  /\ p \notin S.dead
             /\ p \in M.granted \cup owes2
             /\ Terms[p].once => OnNonces(Terms[p].maker, {Terms[p].nonce}) \subseteq M.dead
             /\ p \in Whole => S.moved[p] = 0 \/ ragged2
  <2>1. CASE p # o
    <3>1. Units(M, open2, p) = Units(L, open, p)
      BY <1>1, <2>1 DEF Units, Extends
    <3> QED BY <1>1, <1>2, <3>1 DEF Since, Extends
  <2>2. CASE p = o
    <3>1. open2[o] > 0
      BY DEF Extends
    <3>2. o \in M.granted \cup owes2
      BY <3>1 DEF Sound, Authority
    <3>3. o \in Whole => M.fills[o] = 0 \/ ragged2
      BY <3>1 DEF Sound, Single
    <3>4. M.fills[o] = 0 => L.moved[o] = 0
      BY <1>1 DEF Sound, Single
    <3>5. L.moved[o] = 0 => S.moved[o] = 0
      BY <1>1 DEF Since
    <3>6. o \notin S.dead
      BY DEF Since
    <3>7. Terms[o].once => OnNonces(Terms[o].maker, {Terms[o].nonce}) \subseteq M.dead
      BY DEF Opens
    <3> QED BY <2>2, <3>2, <3>3, <3>4, <3>5, <3>6, <3>7
  <2> QED BY <2>1, <2>2
<1>3. S.granted \subseteq M.granted /\ S.dead \subseteq M.dead
      /\ \A p \in Orders : S.moved[p] <= M.moved[p]
  BY <1>1 DEF Since
<1> QED
  BY <1>2, <1>3 DEF Since

LEMMA SinceTaken ==
    ASSUME NEW S \in Ledgers, NEW L \in Ledgers, NEW o \in Orders, NEW owes,
           NEW open \in [Orders -> Nat], NEW ragged, Since(S, L, owes, open, ragged),
           NEW M, M = [GrantSigned(L, o) EXCEPT !.takeSpent = @ \cup {o}]
    PROVE  Since(S, M, owes \ {o}, open, ragged)
<1>1. M.granted = L.granted \cup {o} /\ M.moved = L.moved /\ M.dead = L.dead
  BY DEF GrantSigned, Ledgers
<1>2. \A p \in Orders : Units(M, open, p) = Units(L, open, p)
  BY <1>1 DEF Units
<1> QED
  BY <1>1, <1>2 DEF Since

LEMMA SinceSettled ==
    ASSUME NEW S \in Ledgers, NEW L \in Ledgers, NEW open \in [Orders -> Nat],
           Since(S, L, {}, open, FALSE)
    PROVE  Since(S, Settle(L, open), {}, Nothing, FALSE)
<1> SUFFICES ASSUME NEW M, M = Settle(L, open) PROVE Since(S, M, {}, Nothing, FALSE)
  OBVIOUS
<1>1. M.granted = L.granted /\ M.dead = L.dead
      /\ M.moved = [o \in Orders |-> L.moved[o] + open[o]]
  BY DEF Settle, Ledgers
<1>2. \A o \in Orders : /\ Units(M, Nothing, o) = Units(L, open, o)
                        /\ L.moved[o] <= M.moved[o]
                        /\ S.moved[o] \in Nat /\ L.moved[o] \in Nat /\ M.moved[o] \in Nat
  BY <1>1 DEF Units, Nothing, Ledgers
<1>3. \A o \in Orders : S.moved[o] <= M.moved[o]
  <2>1. \A o \in Orders : S.moved[o] <= L.moved[o]
    BY DEF Since
  <2> QED BY <1>2, <2>1
<1>4. \A o \in Orders : S.moved[o] < Units(M, Nothing, o) =>
         /\ o \notin S.dead
         /\ o \in M.granted \cup {}
         /\ Terms[o].once => OnNonces(Terms[o].maker, {Terms[o].nonce}) \subseteq M.dead
         /\ o \in Whole => S.moved[o] = 0 \/ FALSE
  BY <1>1, <1>2 DEF Since
<1>5. S.granted \subseteq M.granted /\ S.dead \subseteq M.dead
  BY <1>1 DEF Since
<1> QED
  BY <1>3, <1>4, <1>5 DEF Since

-----------------------------------------------------------------------------
(* Progress is invariant                                                   *)

LEMMA ProgressInit == Init => Progress
BY DEF Init, Progress, NoFrame, NoBatch

(* A call outside the lock.                                                *)
LEMMA ProgressCalled ==
    ASSUME Inv, Progress, Called(st, st'), UNCHANGED <<frame, batch>>
    PROVE  Progress'
<1> /\ st \in Ledgers /\ frame.saved \in Ledgers /\ batch.saved \in Ledgers
    /\ frame.open \in [Orders -> Nat]
  BY DEF Inv, TypeOK, Frames, Batches
<1>1. frame.stage # "idle" => Since(frame.saved, st', frame.owes, frame.open, frame.ragged)
  BY SinceCalled DEF Progress
<1>2. batch.on => Since(batch.saved, st', frame.owes, frame.open, frame.ragged)
  BY SinceCalled DEF Progress
<1> QED
  BY <1>1, <1>2 DEF Progress

(* A frame opened from rest, or between the entries of a batch.            *)
LEMMA ProgressFresh ==
    ASSUME Inv, Progress, frame.stage = "idle", UNCHANGED batch,
           NEW o \in Orders, NEW delta \in Nat, NEW total, NEW owes \in SUBSET Orders,
           Opens(st, st', o, delta), Shown(st, st', o, owes),
           frame' = Opened(o, delta, total, owes)
    PROVE  Progress'
<1> /\ st \in Ledgers /\ batch.saved \in Ledgers
    /\ frame.open \in [Orders -> Nat]
  BY DEF Inv, TypeOK, Frames, Batches
<1>1. /\ frame = NoFrame /\ frame.owes = {} /\ frame.open = Nothing /\ frame.ragged = FALSE
  BY IdleSound DEF NoFrame
<1>2. /\ Extends(st, o, delta, frame.open, frame.ragged, frame'.open, frame'.ragged)
      /\ frame'.owes = owes /\ frame'.saved = st
  BY <1>1, OpenedExtends
<1>3. Sound(st', owes, frame'.open, frame'.ragged) /\ o \notin st.dead
  BY <1>1, <1>2, OpensSound DEF Inv
<1>4. Since(st, st, frame.owes, frame.open, frame.ragged)
  BY <1>1, SinceRefl
<1>5. frame.owes \subseteq owes
  BY <1>1
<1>6. Since(st, st', owes, frame'.open, frame'.ragged)
  BY <1>2, <1>3, <1>4, <1>5, SinceOpens
<1>7. batch.on => Since(batch.saved, st', owes, frame'.open, frame'.ragged)
  BY <1>2, <1>3, <1>5, SinceOpens DEF Progress
<1>8. batch.on => Since(batch.saved, st, {}, Nothing, FALSE)
  BY <1>1 DEF Progress
<1> QED
  BY <1>2, <1>6, <1>7, <1>8 DEF Progress

LEMMA ProgressOpening ==
    ASSUME Inv, Progress, Opening
    PROVE  Progress'
<1> /\ st \in Ledgers /\ frame \in Frames /\ batch \in Batches
    /\ frame.saved \in Ledgers /\ batch.saved \in Ledgers
    /\ frame.open \in [Orders -> Nat]
    /\ TypeOK /\ Shape
  BY DEF Inv, TypeOK, Frames, Batches
<1>0. \A fillAmount \in Amounts : fillAmount \in Nat
  BY InputAssumption
<1>i. ~locked => frame.stage = "idle" /\ ~batch.on
  BY DEF Shape, LockHeld, AtRest
<1>1. ASSUME NEW o \in Orders, NEW fillAmount \in Amounts, FillWithPermit(o, fillAmount)
      PROVE  Progress'
  <2>1. PICK total \in Denominators(o) : \E delta \in Deltas(st, o, fillAmount, total) :
          /\ CanOpen(st, o, delta, total, now)
          /\ st' = OpenFill(GrantSigned(st, o), o, delta)
          /\ frame' = Opened(o, delta, total, {})
    BY <1>1 DEF FillWithPermit
  <2>2. PICK delta \in Deltas(st, o, fillAmount, total) :
          /\ CanOpen(st, o, delta, total, now)
          /\ st' = OpenFill(GrantSigned(st, o), o, delta)
          /\ frame' = Opened(o, delta, total, {})
    BY <2>1
  <2>3. fillAmount \in Nat \ {0} /\ frame.stage = "idle" /\ UNCHANGED batch
    BY <1>0, <1>1, <1>i DEF FillWithPermit
  <2>4. Recorded(st, GrantSigned(st, o))
    BY GrantRecorded
  <2>5. /\ Opens(st, st', o, delta)
        /\ st'.granted = GrantSigned(st, o).granted
        /\ st'.signed = GrantSigned(st, o).signed
    BY <2>2, <2>3, <2>4, OpenFillOpens
  <2>6. o \in GrantSigned(st, o).granted /\ o \in GrantSigned(st, o).signed
    BY DEF GrantSigned, Ledgers
  <2>7. Shown(st, st', o, {}) /\ delta \in Nat
    BY <2>5, <2>6 DEF Shown, Opens
  <2> QED BY <2>2, <2>3, <2>5, <2>7, ProgressFresh
<1>2. ASSUME NEW o \in Orders, NEW fillAmount \in Amounts, FillWithPermitTake(o, fillAmount)
      PROVE  Progress'
  <2>1. PICK total \in Denominators(o) : \E delta \in Deltas(st, o, fillAmount, total) :
          /\ CanOpen(st, o, delta, total, now)
          /\ st' = OpenFill(st, o, delta)
          /\ frame' = Opened(o, delta, total, {o})
    BY <1>2 DEF FillWithPermitTake
  <2>2. PICK delta \in Deltas(st, o, fillAmount, total) :
          /\ CanOpen(st, o, delta, total, now)
          /\ st' = OpenFill(st, o, delta)
          /\ frame' = Opened(o, delta, total, {o})
    BY <2>1
  <2>3. fillAmount \in Nat \ {0} /\ frame.stage = "idle" /\ UNCHANGED batch
    BY <1>0, <1>2, <1>i DEF FillWithPermitTake
  <2>4. Recorded(st, st)
    BY DEF Recorded
  <2>5. Opens(st, st', o, delta)
    BY <2>2, <2>3, <2>4, OpenFillOpens
  <2>6. Shown(st, st', o, {o}) /\ delta \in Nat
    BY <2>5 DEF Shown, Opens
  <2> QED BY <2>2, <2>3, <2>5, <2>6, ProgressFresh
<1>3. ASSUME NEW o \in Orders, NEW sig, NEW fillAmount \in Nat \ {0},
             NEW total \in Denominators(o), NEW delta \in Deltas(st, o, fillAmount, total),
             OpenSigned(o, sig, delta, total), frame' = Opened(o, delta, total, {}),
             frame.stage = "idle", UNCHANGED batch
      PROVE  Progress'
  <2>1. Opens(st, st', o, delta) /\ Shown(st, st', o, {}) /\ delta \in Nat
    BY <1>3, OpenSignedOpens
  <2> QED BY <1>3, <2>1, ProgressFresh
<1>4. ASSUME NEW o \in Orders, NEW sig, NEW fillAmount \in Amounts, Fill(o, sig, fillAmount)
      PROVE  Progress'
  <2>1. PICK total \in Denominators(o) : \E delta \in Deltas(st, o, fillAmount, total) :
          OpenSigned(o, sig, delta, total) /\ frame' = Opened(o, delta, total, {})
    BY <1>4 DEF Fill
  <2>2. fillAmount \in Nat \ {0} /\ frame.stage = "idle" /\ UNCHANGED batch
    BY <1>0, <1>4, <1>i DEF Fill
  <2> QED BY <1>3, <2>1, <2>2
<1>5. ASSUME NEW o \in Orders, NEW sig, NEW fillAmount \in Amounts, FillUpTo(o, sig, fillAmount)
      PROVE  Progress'
  <2>1. PICK total \in Denominators(o) :
          /\ FillStateOpen(st, o, total)
          /\ Clamp(st, o, fillAmount, total) # 0
          /\ \E delta \in Deltas(st, o, Clamp(st, o, fillAmount, total), total) :
               OpenSigned(o, sig, delta, total) /\ frame' = Opened(o, delta, total, {})
    BY <1>5 DEF FillUpTo
  <2>2. Clamp(st, o, fillAmount, total) \in Nat \ {0}
    BY <1>0, <2>1, ClampType
  <2>3. frame.stage = "idle" /\ UNCHANGED batch
    BY <1>5, <1>i DEF FillUpTo
  <2> QED BY <1>3, <2>1, <2>2, <2>3
<1>6. ASSUME NEW o \in Orders, NEW sig, NEW fillAmount \in Amounts, FillSelf(o, sig, fillAmount)
      PROVE  Progress'
  <2>1. PICK total \in Denominators(o) : \E delta \in Deltas(st, o, fillAmount, total) :
          OpenSigned(o, sig, delta, total) /\ frame' = Opened(o, delta, total, {})
    BY <1>6 DEF FillSelf
  <2>2. fillAmount \in Nat \ {0} /\ frame.stage = "idle" /\ UNCHANGED batch
    BY <1>0, <1>6 DEF FillSelf
  <2> QED BY <1>3, <2>1, <2>2
<1>7. ASSUME NEW o \in Orders, NEW sig, NEW fillAmount \in Amounts, OpenGated(o, sig, fillAmount)
      PROVE  Progress'
  <2>1. PICK total \in Denominators(o) : \E delta \in Deltas(st, o, fillAmount, total) :
          /\ OpenSigned(o, sig, delta, total)
          /\ frame' = [Extend(frame, st, o, delta, total) EXCEPT !.left = @ - 1]
    BY <1>7 DEF OpenGated
  <2>2. PICK delta \in Deltas(st, o, fillAmount, total) :
          /\ OpenSigned(o, sig, delta, total)
          /\ frame' = [Extend(frame, st, o, delta, total) EXCEPT !.left = @ - 1]
    BY <2>1
  <2>3. /\ fillAmount \in Nat \ {0} /\ frame.owes = {} /\ frame.stage = "opening"
        /\ ~batch.on /\ UNCHANGED batch
    BY <1>0, <1>7 DEF OpenGated, Shape
  <2>4. Opens(st, st', o, delta) /\ Shown(st, st', o, {}) /\ delta \in Nat
    BY <2>2, <2>3, OpenSignedOpens
  <2>5. Extends(st, o, delta, frame.open, frame.ragged, frame'.open, frame'.ragged)
    BY <2>2, <2>4, ExtendExtends
  <2>6. frame'.owes = {} /\ frame'.saved = frame.saved
    BY <2>2, <2>3 DEF Extend, Frames
  <2>7. Sound(st', {}, frame'.open, frame'.ragged) /\ o \notin st.dead
    BY <2>3, <2>4, <2>5, OpensSound DEF Inv
  <2>8. Since(frame.saved, st', {}, frame'.open, frame'.ragged)
    BY <2>3, <2>4, <2>5, <2>7, SinceOpens DEF Progress
  <2> QED BY <2>3, <2>6, <2>8 DEF Progress
<1>8. ASSUME NEW o \in Orders, TakeByPermit(o)
      PROVE  Progress'
  <2>1. /\ frame'.owes = frame.owes \ {o} /\ frame'.open = frame.open
        /\ frame'.ragged = frame.ragged /\ frame'.saved = frame.saved
        /\ frame'.stage = frame.stage /\ frame.stage = "window" /\ UNCHANGED batch
        /\ st' = [GrantSigned(st, o) EXCEPT !.takeSpent = @ \cup {o}]
    BY <1>8 DEF TakeByPermit, Frames
  <2>2. Since(frame.saved, st', frame.owes \ {o}, frame.open, frame.ragged)
    BY <2>1, SinceTaken DEF Progress
  <2>3. batch.on => Since(batch.saved, st', frame.owes \ {o}, frame.open, frame.ragged)
    BY <2>1, SinceTaken DEF Progress
  <2> QED BY <2>1, <2>2, <2>3 DEF Progress
<1>9. ASSUME NEW n, NEW strict, BatchFill(n, strict)
      PROVE  Progress'
  <2>1. frame.stage = "idle" /\ UNCHANGED <<st, frame>> /\ batch'.saved = st
    BY <1>9, <1>i DEF BatchFill
  <2>2. frame.owes = {} /\ frame.open = Nothing /\ frame.ragged = FALSE
    BY <2>1, IdleSound DEF NoFrame
  <2> QED BY <2>1, <2>2, SinceRefl DEF Progress
<1>10. ASSUME MatchSettle
       PROVE  Progress'
  <2>1. frame.stage = "idle" /\ ~batch.on /\ UNCHANGED <<st, batch>>
    BY <1>10, <1>i DEF MatchSettle
  <2>2. frame'.owes = {} /\ frame'.open = Nothing /\ frame'.saved = st
    BY <1>10 DEF MatchSettle, NoFrame
  <2>3. frame'.ragged = FALSE
    BY <1>10 DEF MatchSettle, NoFrame
  <2> QED BY <2>1, <2>2, <2>3, SinceRefl DEF Progress
<1>11. ASSUME RunSchedule
       PROVE  Progress'
  <2>1. /\ UNCHANGED <<st, batch>> /\ frame'.owes = frame.owes /\ frame'.open = frame.open
        /\ frame'.ragged = frame.ragged /\ frame'.saved = frame.saved
        /\ frame.stage = "opening"
    BY <1>11 DEF RunSchedule, Frames
  <2>2. ~batch.on
    BY <2>1 DEF Shape
  <2> QED BY <2>1, <2>2 DEF Progress
<1> QED
  BY <1>1, <1>2, <1>4, <1>5, <1>6, <1>7, <1>8, <1>9, <1>10, <1>11 DEF Opening

LEMMA ProgressClosing ==
    ASSUME Inv, Progress, Closing
    PROVE  Progress'
<1> /\ st \in Ledgers /\ frame \in Frames /\ batch \in Batches
    /\ frame.saved \in Ledgers /\ batch.saved \in Ledgers
    /\ frame.open \in [Orders -> Nat]
  BY DEF Inv, TypeOK, Frames, Batches
(* Every closing step leaves no frame: only the batch's relation is left.  *)
<1>n. /\ NoFrame.stage = "idle" /\ NoFrame.owes = {} /\ NoFrame.open = Nothing
      /\ NoFrame.ragged = FALSE /\ NoBatch.on = FALSE
  BY DEF NoFrame, NoBatch
<1>c. ASSUME frame' = NoFrame, batch'.on => Since(batch'.saved, st', {}, Nothing, FALSE)
      PROVE  Progress'
  BY <1>c, <1>n DEF Progress
<1>b. [batch EXCEPT !.left = @ - 1].saved = batch.saved /\ [batch EXCEPT !.left = @ - 1].on = batch.on
  BY DEF Batches
<1>1. CASE Close
  <2>1. /\ frame.owes = {} /\ frame.ragged = FALSE
        /\ st' = Settle(st, frame.open) /\ frame' = NoFrame
        /\ batch'.saved = batch.saved /\ batch'.on = batch.on
    BY <1>1, <1>b DEF Close, Frames
  <2>2. batch.on => Since(batch.saved, st', {}, Nothing, FALSE)
    BY <2>1, SinceSettled DEF Progress
  <2> QED BY <1>c, <2>1, <2>2
<1>2. CASE Revert
  BY <1>2, <1>c DEF Revert
<1>3. CASE EntryCaught
  <2>1. Since(batch.saved, st', {}, Nothing, FALSE)
    <3>1. CASE frame.stage = "idle"
      <4>1. frame.owes = {} /\ frame.open = Nothing /\ frame.ragged = FALSE
        BY <3>1, <1>n, IdleSound
      <4> QED BY <1>3, <3>1, <4>1 DEF EntryCaught, Progress
    <3>2. CASE frame.stage # "idle"
      BY <1>3, <3>2 DEF EntryCaught, Progress
    <3> QED BY <3>1, <3>2
  <2>2. frame' = NoFrame /\ batch'.saved = batch.saved
    BY <1>3, <1>b DEF EntryCaught
  <2> QED BY <1>c, <2>1, <2>2
<1>4. CASE BatchReturn
  <2>1. frame.stage = "idle" /\ UNCHANGED <<st, frame>> /\ batch'.on = FALSE
    BY <1>4, <1>n DEF BatchReturn, Inv, Shape
  <2> QED BY <1>c, <2>1, IdleSound
<1>5. CASE BatchRevert
  BY <1>5, <1>c, <1>n DEF BatchRevert
<1> QED
  BY <1>1, <1>2, <1>3, <1>4, <1>5 DEF Closing

LEMMA ProgressStep ==
    ASSUME Inv, Progress, [Next]_vars
    PROVE  Progress'
<1>1. CASE Registry
  BY <1>1, ProgressCalled, RegistryCalled
<1>2. CASE World \/ UNCHANGED vars
  <2>1. UNCHANGED <<st, frame, batch>>
    BY <1>2 DEF World, Tick, SignNomination, vars
  <2> QED BY <2>1 DEF Progress
<1> QED
  BY <1>1, <1>2, ProgressOpening, ProgressClosing DEF Next

-----------------------------------------------------------------------------
(* A committed transaction is one abstract step                            *)

(* From the ledger C to the ledger D, in terms of the abstract promise.    *)
Transacts(C, D) ==
    /\ D \in Ledgers
    /\ C.granted \subseteq D.granted
    /\ C.dead \subseteq D.dead
    /\ \A o \in Orders : D.moved[o] # C.moved[o] =>
         /\ o \notin C.dead
         /\ o \in D.granted
         /\ C.moved[o] < D.moved[o] /\ D.moved[o] <= Terms[o].total
         /\ o \in Whole => C.moved[o] = 0
         /\ Terms[o].once => OnNonces(Terms[o].maker, {Terms[o].nonce}) \subseteq D.dead

LEMMA SinceTransacts ==
    ASSUME NEW C \in Ledgers, NEW D \in Ledgers,
           Since(C, D, {}, Nothing, FALSE), Sound(D, {}, Nothing, FALSE)
    PROVE  Transacts(C, D)
<1>1. \A o \in Orders : Units(D, Nothing, o) = D.moved[o] /\ D.moved[o] \in Nat /\ C.moved[o] \in Nat
  BY DEF Units, Nothing, Ledgers
<1>2. \A o \in Orders : D.moved[o] <= Terms[o].total
  BY <1>1 DEF Sound, Exact
<1>3. \A o \in Orders : D.moved[o] # C.moved[o] => C.moved[o] < D.moved[o]
  BY <1>1 DEF Since
<1>4. ASSUME NEW o \in Orders, C.moved[o] < D.moved[o]
      PROVE  /\ o \notin C.dead
             /\ o \in D.granted
             /\ o \in Whole => C.moved[o] = 0
             /\ Terms[o].once => OnNonces(Terms[o].maker, {Terms[o].nonce}) \subseteq D.dead
  BY <1>1, <1>4 DEF Since
<1>5. C.granted \subseteq D.granted /\ C.dead \subseteq D.dead
  BY DEF Since
<1> QED
  BY <1>2, <1>3, <1>4, <1>5 DEF Transacts

LEMMA CommittedStep ==
    ASSUME Inv, Progress, [Next]_vars
    PROVE  Committed' = Committed \/ Transacts(Committed, Committed')
<1> /\ st \in Ledgers /\ frame \in Frames /\ batch \in Batches
    /\ frame.saved \in Ledgers /\ batch.saved \in Ledgers
    /\ frame.open \in [Orders -> Nat]
    /\ TypeOK /\ Shape
  BY DEF Inv, TypeOK, Frames, Batches
<1>0. Inv' /\ st' \in Ledgers
  BY StepKeeps DEF Inv, TypeOK
<1>n. /\ NoFrame.stage = "idle" /\ NoFrame.owes = {} /\ NoFrame.open = Nothing
      /\ NoFrame.ragged = FALSE /\ NoBatch.on = FALSE
  BY DEF NoFrame, NoBatch
<1>i. ~locked => frame.stage = "idle" /\ ~batch.on
  BY DEF Shape, LockHeld, AtRest
<1>b. [batch EXCEPT !.left = @ - 1].saved = batch.saved /\ [batch EXCEPT !.left = @ - 1].on = batch.on
  BY DEF Batches
<1>1. CASE Registry
  <2>1. Called(st, st') /\ UNCHANGED <<frame, batch>>
    BY <1>1, RegistryCalled
  <2>2. CASE AtRest
    <3>1. Committed = st /\ Committed' = st'
      BY <2>1, <2>2 DEF Committed, AtRest
    <3>2. \A o \in Orders : st'.moved[o] = st.moved[o]
      BY <2>1 DEF Called
    <3>3. Transacts(st, st')
      BY <2>1, <3>2 DEF Called, Transacts
    <3> QED BY <3>1, <3>3
  <2>3. CASE ~AtRest
    BY <2>1, <2>3 DEF Committed, AtRest
  <2> QED BY <2>2, <2>3
<1>2. CASE Opening
  <2>1. ASSUME frame.stage = "idle", UNCHANGED batch, frame'.saved = st, frame'.stage # "idle"
        PROVE  Committed' = Committed
    BY <2>1 DEF Committed
  <2>2. \A o, delta, total, owes :
          Opened(o, delta, total, owes).saved = st /\ Opened(o, delta, total, owes).stage = "window"
    BY DEF Opened, Extend, NoFrame
  <2>3. ASSUME NEW o \in Orders, NEW fillAmount, NEW sig,
               \/ FillWithPermit(o, fillAmount) \/ FillWithPermitTake(o, fillAmount)
               \/ Fill(o, sig, fillAmount) \/ FillUpTo(o, sig, fillAmount)
               \/ FillSelf(o, sig, fillAmount)
        PROVE  Committed' = Committed
    BY <2>1, <2>2, <2>3, <1>i DEF FillWithPermit, FillWithPermitTake, Fill, FillUpTo, FillSelf
  <2>4. ASSUME NEW o \in Orders, NEW fillAmount, NEW sig, OpenGated(o, sig, fillAmount)
        PROVE  Committed' = Committed
    <3>1. /\ frame'.saved = frame.saved /\ frame'.stage = frame.stage
          /\ frame.stage = "opening" /\ UNCHANGED batch
      BY <2>4 DEF OpenGated, Extend, Frames
    <3> QED BY <3>1 DEF Committed
  <2>5. ASSUME NEW o \in Orders, TakeByPermit(o)
        PROVE  Committed' = Committed
    <3>1. /\ frame'.saved = frame.saved /\ frame'.stage = frame.stage
          /\ frame.stage = "window" /\ UNCHANGED batch
      BY <2>5 DEF TakeByPermit, Frames
    <3> QED BY <3>1 DEF Committed
  <2>6. ASSUME NEW n, NEW strict, BatchFill(n, strict)
        PROVE  Committed' = Committed
    <3>1. batch'.on = TRUE /\ batch'.saved = st /\ frame.stage = "idle" /\ ~batch.on
      BY <2>6, <1>i DEF BatchFill
    <3> QED BY <3>1 DEF Committed
  <2>7. MatchSettle => Committed' = Committed
    BY <2>1, <1>i DEF MatchSettle, NoFrame
  <2>8. RunSchedule => Committed' = Committed
    <3> SUFFICES ASSUME RunSchedule PROVE Committed' = Committed
      OBVIOUS
    <3>1. /\ frame'.saved = frame.saved /\ frame'.stage = "window"
          /\ frame.stage = "opening" /\ UNCHANGED batch
      BY DEF RunSchedule, Frames
    <3> QED BY <3>1 DEF Committed
  <2> QED
    BY <1>2, <2>3, <2>4, <2>5, <2>6, <2>7, <2>8 DEF Opening
<1>3. CASE Closing
  (* What the frame leaves is sound on its own: an idle frame owes nothing. *)
  <2>0. ASSUME frame' = NoFrame
        PROVE  Sound(st', {}, Nothing, FALSE)
    <3>1. Sound(st', frame'.owes, frame'.open, frame'.ragged)
      BY <1>0 DEF Inv
    <3> QED BY <2>0, <3>1, <1>n
  <2>1. CASE Close
    <3>1. /\ frame.owes = {} /\ frame.ragged = FALSE /\ frame.stage # "idle"
          /\ st' = Settle(st, frame.open) /\ frame' = NoFrame
          /\ batch'.saved = batch.saved /\ batch'.on = batch.on
      BY <2>1, <1>b DEF Close, Frames
    <3>2. CASE batch.on
      BY <3>1, <3>2 DEF Committed
    <3>3. CASE ~batch.on
      <4>1. Committed = frame.saved /\ Committed' = st'
        BY <3>1, <3>3, <1>n DEF Committed
      <4>2. Since(frame.saved, st', {}, Nothing, FALSE)
        BY <3>1, SinceSettled DEF Progress
      <4>3. Sound(st', {}, Nothing, FALSE)
        BY <2>0, <3>1
      <4> QED BY <1>0, <4>1, <4>2, <4>3, SinceTransacts
    <3> QED BY <3>2, <3>3
  <2>2. CASE Revert
    BY <2>2, <1>n DEF Revert, Committed
  <2>3. CASE EntryCaught
    BY <2>3, <1>b DEF EntryCaught, Committed
  <2>4. CASE BatchReturn
    <3>1. /\ frame.stage = "idle" /\ UNCHANGED <<st, frame>> /\ batch.on /\ batch'.on = FALSE
      BY <2>4, <1>n DEF BatchReturn, Shape
    <3>2. frame = NoFrame
      BY <3>1, IdleSound
    <3>3. Committed = batch.saved /\ Committed' = st'
      BY <3>1 DEF Committed
    <3>4. Since(batch.saved, st, frame.owes, frame.open, frame.ragged)
      BY <3>1 DEF Progress
    <3>5. Since(batch.saved, st', {}, Nothing, FALSE)
      BY <3>1, <3>2, <3>4, <1>n
    <3>6. Sound(st', {}, Nothing, FALSE)
      BY <2>0, <3>1, <3>2
    <3> QED BY <1>0, <3>3, <3>5, <3>6, SinceTransacts
  <2>5. CASE BatchRevert
    BY <2>5, <1>n DEF BatchRevert, Committed
  <2> QED BY <1>3, <2>1, <2>2, <2>3, <2>4, <2>5 DEF Closing
<1>4. CASE World \/ UNCHANGED vars
  <2>1. UNCHANGED <<st, frame, batch>>
    BY <1>4 DEF World, Tick, SignNomination, vars
  <2> QED BY <2>1 DEF Committed
<1> QED
  BY <1>1, <1>2, <1>3, <1>4 DEF Next

-----------------------------------------------------------------------------
(* The theorem                                                             *)

(* OrderFills implements OrderPromise: whatever its fills, batches, nested *)
(* calls and reverts do, what commits settles only live orders, never past *)
(* their total, on authority shown, whole orders once and rivals never     *)
(* (OrderState._openFill, Core._execute, Core.batchFill).                  *)
THEOREM Refinement == Spec => KeepsPromise
<1>1. Init => Promise!Init
  BY DEF Init, Promise!Init, Committed, NoBatch, NoFrame, Genesis
<1>2. Inv /\ Progress /\ [Next]_vars => [Promise!Transact]_Promise!vars
  <2> SUFFICES ASSUME Inv, Progress, [Next]_vars
               PROVE  Promise!Transact \/ UNCHANGED <<Committed.moved, Committed.granted, Committed.dead>>
    BY DEF Promise!vars
  <2>1. CASE Committed' = Committed
    BY <2>1
  <2>2. CASE Transacts(Committed, Committed')
    <3>1. /\ Committed'.moved \in [Orders -> Nat] /\ Committed'.granted \in SUBSET Orders
          /\ Committed'.dead \in SUBSET Orders
      BY <2>2 DEF Transacts, Ledgers
    <3>2. \A o \in Orders : ~Terms[o].once =>
            (IF Terms[o].once THEN OnNonces(Terms[o].maker, {Terms[o].nonce}) ELSE {}) \subseteq Committed'.dead
      OBVIOUS
    <3> QED BY <2>2, <3>1, <3>2 DEF Transacts, Promise!Transact
  <2> QED BY <2>1, <2>2, CommittedStep
<1>3. Inv /\ Progress /\ [Next]_vars => Inv' /\ Progress'
  BY StepKeeps, ProgressStep
<1> QED
  BY <1>1, <1>2, <1>3, InvInit, ProgressInit, PTL DEF Spec, KeepsPromise, Promise!Spec
=============================================================================

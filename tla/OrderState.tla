----------------------------- MODULE OrderState -----------------------------
(***************************************************************************)
(* The fill-state storage of the Settlement contract and the operations on *)
(* it: NonceManager.sol, OrderState.sol and the signature gate of          *)
(* Signatures.sol.  The contract's storage is one record L, so that a      *)
(* revert is the old record and an operation is an operator from L to L.   *)
(*                                                                         *)
(* Six fields of L are ghosts: the contract keeps no such slot, they      *)
(* remember what the properties need.                                      *)
(*   granted  orders whose maker's authority some surviving fill presented *)
(*   signed   those among them whose authority was a signature or a permit *)
(*   dead     orders killed: by any act of the maker, or by the fill-once  *)
(*            fill of an order on the same nonce                           *)
(*   wound    (maker, delegate) pairs the maker has shortened or revoked   *)
(*   moved    anchor units of each order whose fill ran to completion      *)
(*   fills    how many fills of each order ran to completion               *)
(***************************************************************************)
EXTENDS Naturals, FiniteSets

CONSTANTS
    Makers,         \* addresses that place orders
    Signers,        \* addresses a maker may nominate to sign its orders
    Orders,         \* order hashes (the hash commits to every signed field)
    Terms,          \* Orders -> the signed fields, see TermsOK
    WordSize,       \* bits of one nonceBitmap word (256)
    SignerNonceNS,  \* SIGNER_NONCE_NS, bit 255: the reserved half starts here
    SignerId,       \* Signers -> uint160(signer)
    MaxUint,        \* type(uint256).max, also the cancel sentinel of `filled`
    EmptySig,       \* a signature of length zero
    JunkSig         \* bytes that no key of this system produced

(* What a maker signs, as far as fill state can tell orders apart.         *)
(*   total      the fill denominator; for a sized order, the largest one   *)
(*   minFill    minFillAnchor                                              *)
(*   once       useNonceInvalidator: settles whole and spends its nonce    *)
(*   sized      a Proportional SELL anchor: the denominator is the maker's *)
(*              live balance, and only a full fill can be paid             *)
(*   module     a fillModule sizes the fill                                *)
(*   expiry     the last second a fill may open                            *)
(*   signedBy   whose signature over the order exists off chain            *)
(*   batchSigned  a PermitBatch with the order as witness was signed       *)
(*   take       the amount of a signed PermitTake with the order as        *)
(*              witness; 0 when none was signed                            *)
TermsOK ==
    Terms \in [Orders -> [maker : Makers, nonce : Nat, total : Nat,
                          minFill : Nat, once : BOOLEAN, sized : BOOLEAN,
                          module : BOOLEAN, expiry : Nat,
                          signedBy : SUBSET (Makers \cup Signers),
                          batchSigned : BOOLEAN, take : Nat]]

ASSUME TermsAssumption == TermsOK

(* Every amount is a uint256.                                              *)
ASSUME WidthAssumption ==
    /\ MaxUint \in Nat \ {0}
    /\ \A o \in Orders : Terms[o].total <= MaxUint

(* Pricing.inputOwed reverts a proportional leg on a module order, so a    *)
(* sized order that can settle has no module.                              *)
ASSUME SizedAssumption == \A o \in Orders : Terms[o].sized => ~Terms[o].module

(* A delegate's permit word lies below the reserved bit (uint160 << 8).    *)
ASSUME NonceAssumption ==
    /\ WordSize \in Nat \ {0}
    /\ SignerNonceNS \in Nat
    /\ SignerId \in [Signers -> Nat]
    /\ \A s, t \in Signers : SignerId[s] = SignerId[t] => s = t

(* Neither an empty nor a junk signature is a key's signature.             *)
ASSUME SigAssumption ==
    /\ EmptySig \notin Makers \cup Signers
    /\ JunkSig \notin Makers \cup Signers
    /\ EmptySig # JunkSig

Sigs == {EmptySig, JunkSig} \cup Makers \cup Signers

Ledgers == [filled : [Orders -> 0..MaxUint],
            nonceBitmap : [Makers -> SUBSET Nat],
            minValidNonce : [Makers -> Nat],
            orderApproved : [Makers -> SUBSET Orders],
            orderSignerExpiry : [Makers -> [Signers -> Nat]],
            takeSpent : SUBSET Orders,
            granted : SUBSET Orders,
            signed : SUBSET Orders,
            dead : SUBSET Orders,
            wound : SUBSET (Makers \X Signers),
            moved : [Orders -> Nat],
            fills : [Orders -> Nat]]

Genesis == [filled |-> [o \in Orders |-> 0],
            nonceBitmap |-> [m \in Makers |-> {}],
            minValidNonce |-> [m \in Makers |-> 0],
            orderApproved |-> [m \in Makers |-> {}],
            orderSignerExpiry |-> [m \in Makers |-> [s \in Signers |-> 0]],
            takeSpent |-> {},
            granted |-> {},
            signed |-> {},
            dead |-> {},
            wound |-> {},
            moved |-> [o \in Orders |-> 0],
            fills |-> [o \in Orders |-> 0]]

-----------------------------------------------------------------------------
(* NonceManager                                                            *)

(* The coordinates of one bitmap word, nonce >> 8 = w.                     *)
Word(w) == w * WordSize .. w * WordSize + WordSize - 1

(* nonce | SIGNER_NONCE_NS of a nonce whose bit 255 is clear.              *)
Reserved(n) == SignerNonceNS + n

(* The word every nomination permit of a delegate draws from.              *)
SignerWord(s) == {Reserved(n) : n \in Word(SignerId[s])}

(* Mutant: the rollback floor is not read.                                 *)
NonceCancelledByBit(L, m, n) == n \in L.nonceBitmap[m]

NonceCancelled(L, m, n) == n < L.minValidNonce[m] \/ n \in L.nonceBitmap[m]

CancelNonces(L, m, S) == [L EXCEPT !.nonceBitmap[m] = @ \cup S]

(* Orders of maker m on the nonces of S.                                   *)
OnNonces(m, S) == {o \in Orders : Terms[o].maker = m /\ Terms[o].nonce \in S}

Kill(L, S) == [L EXCEPT !.dead = @ \cup S]

(* cancelOrders and invalidateNonceWord: both set bits of the caller.      *)
BurnNonces(L, m, S) == Kill(CancelNonces(L, m, S), OnNonces(m, S))

RollbackNonces(L, m, floor) ==
    Kill([L EXCEPT !.minValidNonce[m] = floor],
         {o \in Orders : Terms[o].maker = m /\ Terms[o].nonce < floor})

-----------------------------------------------------------------------------
(* OrderState: approvals, delegates, cancellation by hash                  *)

ApproveOrders(L, m, S) == [L EXCEPT !.orderApproved[m] = @ \cup S]

Revocable(L, m, o) == o \in L.orderApproved[m]

(* Mutant: the flag is cleared and the counter left alone.                 *)
RevokeFlagOnly(L, m, o) == [L EXCEPT !.orderApproved[m] = @ \ {o}]

(* revokeOrderApproval keys by the caller, and escalates to a cancel on an *)
(* order that has been part filled.                                        *)
RevokeOrderApproval(L, m, o) ==
    LET cleared == [L EXCEPT !.orderApproved[m] = @ \ {o}]
    IN  IF ~Revocable(L, m, o) THEN L
        ELSE IF L.filled[o] = 0 THEN cleared
        ELSE Kill([cleared EXCEPT !.filled[o] = MaxUint], {o})

CancelOrder(L, o) == Kill([L EXCEPT !.filled[o] = MaxUint], {o})

(* Mutant: only a revocation burns the permit word, a shortening does not. *)
SetSignerBurnsOnZero(L, m, s, expiry) ==
    LET written == [L EXCEPT !.orderSignerExpiry[m][s] = expiry,
                             !.wound = IF expiry < L.orderSignerExpiry[m][s]
                                       THEN @ \cup {<<m, s>>} ELSE @]
    IN  IF expiry = 0 THEN CancelNonces(written, m, SignerWord(s)) ELSE written

(* _setOrderSigner: the registry write, and on a shortening or a           *)
(* revocation the delegate's whole permit word.                            *)
SetSigner(L, m, s, expiry) ==
    LET written == [L EXCEPT !.orderSignerExpiry[m][s] = expiry]
    IN  IF expiry = 0 \/ expiry < L.orderSignerExpiry[m][s]
        THEN [CancelNonces(written, m, SignerWord(s)) EXCEPT !.wound = @ \cup {<<m, s>>}]
        ELSE written

(* setOrderSigner: an expiry already past is a revocation.                 *)
SetOrderSigner(L, m, s, expiry, time) ==
    SetSigner(L, m, s, IF expiry >= time THEN expiry ELSE 0)

-----------------------------------------------------------------------------
(* Signatures                                                              *)

(* setOrderSignerWithSig: a permit p signed by p.maker, relayed by anyone. *)
(* It must sit in the delegate's own word, be unspent, and neither be      *)
(* lapsed nor shorten what is stored.                                      *)
Relayable(L, p, time) ==
    /\ time <= p.deadline
    /\ p.nonce \in Word(SignerId[p.signer])
    /\ ~NonceCancelled(L, p.maker, Reserved(p.nonce))
    /\ p.expiry # 0 => /\ p.expiry >= time
                       /\ p.expiry >= L.orderSignerExpiry[p.maker][p.signer]

RelaySigner(L, p) ==
    SetSigner(BurnNonces(L, p.maker, {Reserved(p.nonce)}), p.maker, p.signer, p.expiry)

DelegateLive(L, m, k, time) ==
    /\ k \in Signers
    /\ L.orderSignerExpiry[m][k] # 0
    /\ time <= L.orderSignerExpiry[m][k]

(* A signature over the order by its maker or by a live delegate of it.    *)
Genuine(L, o, sig, time) ==
    /\ sig \in Terms[o].signedBy
    /\ sig = Terms[o].maker \/ DelegateLive(L, Terms[o].maker, sig, time)

(* _verifySignature: the empty signature reads the approval on every fill; *)
(* any other is checked on the first fill only.                            *)
Verified(L, o, sig, time) ==
    IF sig = EmptySig THEN o \in L.orderApproved[Terms[o].maker]
    ELSE L.filled[o] # 0 \/ Genuine(L, o, sig, time)

(* The ghosts of a check: the authority this fill really presented.        *)
GrantSigned(L, o) == [L EXCEPT !.granted = @ \cup {o}, !.signed = @ \cup {o}]

Grant(L, o, sig, time) ==
    IF sig = EmptySig THEN [L EXCEPT !.granted = @ \cup {o}]
    ELSE IF Genuine(L, o, sig, time) THEN GrantSigned(L, o)
    ELSE L

-----------------------------------------------------------------------------
(* Gates and the fill-state write                                          *)

(* The denominators an open may read: the signed one, or for a sized order *)
(* whatever the maker's balance is at that moment.                         *)
Denominators(o) == IF Terms[o].sized THEN 0..Terms[o].total ELSE {Terms[o].total}

(* _gateFillState: cancelled and already-full orders are refused.          *)
FillStateOpen(L, o, total) == L.filled[o] # MaxUint /\ L.filled[o] < total

(* _gateOrderPost: the nonce must be an order's and uncancelled.  Its      *)
(* exclusivity and validator gates can only refuse; a refused fill is a    *)
(* fill that does not happen.                                              *)
NonceOpen(L, o) ==
    /\ Terms[o].nonce < SignerNonceNS
    /\ ~NonceCancelled(L, Terms[o].maker, Terms[o].nonce)

(* The amounts a requested fill can come to: a module may shrink it, and   *)
(* type(uint256).max asks for the remainder.                               *)
Deltas(L, o, fillAmount, total) ==
    LET asked == IF fillAmount = MaxUint THEN total - L.filled[o] ELSE fillAmount
    IN  IF Terms[o].module THEN 1..asked ELSE {asked}

(* _openFill's guards on the amount.                                       *)
FillFits(L, o, delta, total) ==
    /\ delta >= Terms[o].minFill
    /\ L.filled[o] + delta <= total
    /\ Terms[o].once => L.filled[o] + delta = total

IsFullFill(L, o, delta, total) == L.filled[o] = 0 /\ delta = total

(* Mutant: a fill-once order leaves its nonce unspent.                     *)
OpenFillKeepsNonce(L, o, delta) ==
    IF Terms[o].once THEN L ELSE [L EXCEPT !.filled[o] = @ + delta]

(* _openFill's write: a fill-once order spends its nonce and leaves        *)
(* `filled` alone, any other order advances the counter.                   *)
OpenFill(L, o, delta) ==
    IF Terms[o].once THEN BurnNonces(L, Terms[o].maker, {Terms[o].nonce})
    ELSE [L EXCEPT !.filled[o] = @ + delta]

(* Every gate of a fill but the signature.                                 *)
CanOpen(L, o, delta, total, time) ==
    /\ time <= Terms[o].expiry
    /\ FillStateOpen(L, o, total)
    /\ NonceOpen(L, o)
    /\ FillFits(L, o, delta, total)

(* _clampToRemaining, which fillUpTo applies to the requested amount: a    *)
(* module order and an oversized request on a sized order pass through.    *)
Clamp(L, o, fillAmount, total) ==
    LET rem == total - L.filled[o]
    IN  IF Terms[o].module \/ fillAmount <= rem THEN fillAmount
        ELSE IF Terms[o].sized /\ fillAmount # MaxUint THEN fillAmount
        ELSE rem
=============================================================================

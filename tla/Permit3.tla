------------------------------ MODULE Permit3 -------------------------------
(***************************************************************************)
(* Permit3, the allowance hub: AllowanceTransfer, TakerAllowance,          *)
(* UnorderedNonces, SignedPermits, SignatureTransfer.  Its storage is a    *)
(* record H; an operation that may revert is the set of its results, empty *)
(* where it does.  Nobody forges a signature: a permit that is presented   *)
(* is one that its user signed.                                            *)
(***************************************************************************)
EXTENDS Naturals, FiniteSets

CONSTANTS
    Users,
    Spenders,       \* the callers a user may name
    Tokens,         \* keys of the token book
    Positions,      \* keys of the taker book: a module and its ref
    Nonces,
    Unlimited       \* type(uint160).max, which is not decremented

ASSUME UnlimitedAssumption == Unlimited \in Nat \ {0}

(* The two books follow one rule (Allowance.sol), so they are one map here *)
(* and the kind of the key tells them apart.                               *)
ASSUME KeysAssumption == Tokens \cap Positions = {}

Keys == Tokens \cup Positions

(* expiry 0 is never.                                                      *)
Buckets == [amount : 0..Unlimited, expiry : Nat]

Hubs == [book : [Users -> [Spenders -> [Keys -> Buckets]]],
         spent : [Users -> SUBSET Nonces],
         strict : SUBSET Users,
         strictToken : [Users -> SUBSET Tokens]]

Grants == [spender : Spenders, key : Keys, amount : 0..Unlimited, expiry : Nat]
Batches == [grants : SUBSET Grants, nonce : Nonces, deadline : Nat]
OneShots == [key : Keys, amount : Nat, nonce : Nonces, deadline : Nat]

Empty == [amount |-> 0, expiry |-> 0]

NewHub == [book |-> [u \in Users |-> [s \in Spenders |-> [k \in Keys |-> Empty]]],
           spent |-> [u \in Users |-> {}],
           strict |-> {},
           strictToken |-> [u \in Users |-> {}]]

-----------------------------------------------------------------------------
(* What a user does to its own entries.                                    *)

(* approveToken, approveTaker: a grant replaces what was there.            *)
Approve(H, u, g) ==
    [H EXCEPT !.book[u][g.spender][g.key] = [amount |-> g.amount, expiry |-> g.expiry]]

RevokeKey(H, u, s, k) == [H EXCEPT !.book[u][s][k] = Empty]

(* lockdown, lockdownTakers: the amounts only.                             *)
Lockdown(H, u, pairs) ==
    [H EXCEPT !.book[u] = [s \in Spenders |-> [k \in Keys |->
        IF <<s, k>> \in pairs THEN [@[s][k] EXCEPT !.amount = 0] ELSE @[s][k]]]]

InvalidateNonces(H, u, mask) == [H EXCEPT !.spent[u] = @ \cup mask]

LockdownAll(H, u, pairs, mask) == InvalidateNonces(Lockdown(H, u, pairs), u, mask)

SetStrictMode(H, u, on) ==
    [H EXCEPT !.strict = IF on THEN @ \cup {u} ELSE @ \ {u}]

SetStrictModeToken(H, u, t, on) ==
    [H EXCEPT !.strictToken[u] = IF on THEN @ \cup {t} ELSE @ \ {t}]

IsStrict(H, u, t) == u \in H.strict \/ t \in H.strictToken[u]

-----------------------------------------------------------------------------
(* Spending.                                                               *)

Live(bucket, now) == bucket.expiry = 0 \/ now <= bucket.expiry

(* Allowance.spend, behind the ZeroAmount guard of both books.             *)
Spend(H, now, u, s, k, amount) ==
    LET bucket == H.book[u][s][k]
    IN  IF amount # 0 /\ Live(bucket, now) /\ amount <= bucket.amount
        THEN {IF bucket.amount = Unlimited THEN H
              ELSE [H EXCEPT !.book[u][s][k].amount = @ - amount]}
        ELSE {}

-----------------------------------------------------------------------------
(* Signed permits.  All draw from one bitmap per user.                     *)

UseNonce(H, u, n) == IF n \in H.spent[u] THEN {} ELSE {[H EXCEPT !.spent[u] = @ \cup {n}]}

(* _applyBatch, of grants to different entries.                            *)
Granted(H, u, grants) ==
    [H EXCEPT !.book[u] = [s \in Spenders |-> [k \in Keys |->
        IF \E g \in grants : g.spender = s /\ g.key = k
        THEN LET g == CHOOSE g \in grants : g.spender = s /\ g.key = k
             IN  [amount |-> g.amount, expiry |-> g.expiry]
        ELSE @[s][k]]]]

(* permitBatch and permitBatchWithWitness.                                 *)
PermitBatch(H, now, u, b) ==
    IF now > b.deadline THEN {} ELSE {Granted(J, u, b.grants) : J \in UseNonce(H, u, b.nonce)}

(* Mutant: a nonce already spent no longer skips the grants.               *)
PermitBatchAgain(H, now, u, b) ==
    IF now > b.deadline THEN (IF b.nonce \in H.spent[u] THEN {H} ELSE {})
    ELSE {Granted([H EXCEPT !.spent[u] = @ \cup {b.nonce}], u, b.grants)}

(* permitBatchWithWitnessIfNeeded: a spent nonce applies nothing, and is   *)
(* no error, past the deadline either.                                     *)
PermitBatchIfNeeded(H, now, u, b) ==
    IF b.nonce \in H.spent[u] THEN {H} ELSE PermitBatch(H, now, u, b)

(* permitTake: the caller dispatches this key for this amount.             *)
PermitTake(H, now, u, p) ==
    IF now > p.deadline \/ p.amount = 0 THEN {} ELSE UseNonce(H, u, p.nonce)

(* permitTransferFrom: the caller may ask for less.                        *)
PermitTransfer(H, now, u, p, requested) ==
    IF now > p.deadline \/ requested > p.amount THEN {} ELSE UseNonce(H, u, p.nonce)
=============================================================================

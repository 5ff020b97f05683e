-------------------------- MODULE TokenFlowProofs ---------------------------
(***************************************************************************)
(* Of the tokens of any order, with any number of interventions of others  *)
(* between any calls: a complete revoke holds, what is drawn on a maker    *)
(* was granted, a nonce is good once, and what legs receive and give is    *)
(* SlicedFill's, whose sums are proved here too, with the prices they rest *)
(* on, for every order and moment.  Last, where all tokens are: a maker    *)
(* comes out as its legs say, and nothing stays with Settlement or a       *)
(* module.  First, what the hub's operations keep.                         *)
(***************************************************************************)
EXTENDS TokenFlow, SumProofs, SequenceTheorems

-----------------------------------------------------------------------------
(* The hub.                                                                *)

(* The fields of a hub.                                                    *)
LEMMA HubFields ==
    ASSUME NEW H \in Hubs, NEW u \in Users, NEW s \in Spenders, NEW k \in Keys
    PROVE  /\ H.book[u] \in [Spenders -> [Keys -> Buckets]]
           /\ H.book[u][s][k] \in Buckets
           /\ H.book[u][s][k].amount \in 0..Unlimited /\ H.book[u][s][k].expiry \in Nat
           /\ H.spent[u] \subseteq Nonces
BY DEF Hubs, Buckets

(* A bucket's amount may be lowered.                                       *)
LEMMA WriteAmount ==
    ASSUME NEW bucket \in Buckets, NEW n \in 0..Unlimited
    PROVE  [bucket EXCEPT !.amount = n] \in Buckets /\ [bucket EXCEPT !.amount = n].amount = n
BY DEF Buckets

(* A user's book may be written as a whole.                                *)
LEMMA WriteBook ==
    ASSUME NEW H \in Hubs, NEW u \in Users, NEW B \in [Spenders -> [Keys -> Buckets]]
    PROVE  [H EXCEPT !.book[u] = B] \in Hubs
BY DEF Hubs

(* An entry may be written with any bucket.                                *)
LEMMA WriteEntry ==
    ASSUME NEW H \in Hubs, NEW u \in Users, NEW s \in Spenders, NEW k \in Keys, NEW b \in Buckets
    PROVE  /\ [H EXCEPT !.book[u][s][k] = b] = [H EXCEPT !.book[u] = [H.book[u] EXCEPT ![s][k] = b]]
           /\ [H EXCEPT !.book[u][s][k] = b] \in Hubs
<1>1. H.book[u] \in [Spenders -> [Keys -> Buckets]]
  BY DEF Hubs
<1>2. [H.book[u] EXCEPT ![s][k] = b] \in [Spenders -> [Keys -> Buckets]]
  BY <1>1
<1>3. [H EXCEPT !.book[u][s][k] = b] = [H EXCEPT !.book[u] = [H.book[u] EXCEPT ![s][k] = b]]
  OBVIOUS
<1> QED
  BY <1>2, <1>3, WriteBook

(* Locking down keeps what it does not clear.                              *)
LEMMA LockdownTypes ==
    ASSUME NEW H \in Hubs, NEW u \in Users, NEW pairs
    PROVE  Lockdown(H, u, pairs) \in Hubs
<1> DEFINE B == [s \in Spenders |-> [k \in Keys |->
                  IF <<s, k>> \in pairs THEN [H.book[u][s][k] EXCEPT !.amount = 0] ELSE H.book[u][s][k]]]
<1>1. \A s \in Spenders, k \in Keys :
        /\ H.book[u][s][k] \in Buckets
        /\ [H.book[u][s][k] EXCEPT !.amount = 0] \in Buckets
  <2>1. \A s \in Spenders, k \in Keys : H.book[u][s][k] \in Buckets
    BY DEF Hubs
  <2>2. 0 \in 0..Unlimited
    BY UnlimitedAssumption
  <2> QED
    BY <2>1, <2>2, WriteAmount
<1>2. B \in [Spenders -> [Keys -> Buckets]]
  BY <1>1
<1>3. Lockdown(H, u, pairs) = [H EXCEPT !.book[u] = B]
  BY DEF Lockdown
<1> HIDE DEF B
<1> QED
  BY <1>2, <1>3, WriteBook

(* A batch writes buckets.                                                 *)
LEMMA GrantedTypes ==
    ASSUME NEW H \in Hubs, NEW u \in Users, NEW grants \in SUBSET Grants
    PROVE  Granted(H, u, grants) \in Hubs
<1> DEFINE Named(s, k) == \E g \in grants : g.spender = s /\ g.key = k
           Chosen(s, k) == CHOOSE g \in grants : g.spender = s /\ g.key = k
           B == [s \in Spenders |-> [k \in Keys |->
                  IF Named(s, k)
                  THEN [amount |-> Chosen(s, k).amount, expiry |-> Chosen(s, k).expiry]
                  ELSE H.book[u][s][k]]]
<1>1. \A s \in Spenders, k \in Keys : H.book[u][s][k] \in Buckets
  BY DEF Hubs
<1>2. \A s \in Spenders, k \in Keys : Named(s, k) => Chosen(s, k) \in grants
  OBVIOUS
<1>3. \A g \in grants : [amount |-> g.amount, expiry |-> g.expiry] \in Buckets
  BY DEF Grants, Buckets
<1>4. B \in [Spenders -> [Keys -> Buckets]]
  <2> HIDE DEF Named, Chosen
  <2> QED
    BY <1>1, <1>2, <1>3
<1>5. Granted(H, u, grants) = [H EXCEPT !.book[u] = B]
  BY DEF Granted
<1> HIDE DEF B
<1> QED
  BY <1>4, <1>5, WriteBook

(* What a user does to its own entries leaves a hub.                       *)
LEMMA OwnCallsTypes ==
    ASSUME NEW H \in Hubs, NEW u \in Users
    PROVE  /\ \A g \in Grants : Approve(H, u, g) \in Hubs
           /\ \A s \in Spenders, k \in Keys : RevokeKey(H, u, s, k) \in Hubs
           /\ \A mask \in SUBSET Nonces : InvalidateNonces(H, u, mask) \in Hubs
           /\ \A on \in BOOLEAN : SetStrictMode(H, u, on) \in Hubs
           /\ \A t \in Tokens, on \in BOOLEAN : SetStrictModeToken(H, u, t, on) \in Hubs
<1>1. ASSUME NEW g \in Grants PROVE Approve(H, u, g) \in Hubs
  <2>1. [amount |-> g.amount, expiry |-> g.expiry] \in Buckets /\ g.spender \in Spenders /\ g.key \in Keys
    BY DEF Grants, Buckets
  <2> QED
    BY <2>1, WriteEntry DEF Approve
<1>2. ASSUME NEW s \in Spenders, NEW k \in Keys PROVE RevokeKey(H, u, s, k) \in Hubs
  <2>1. Empty \in Buckets
    BY UnlimitedAssumption DEF Empty, Buckets
  <2> QED
    BY <2>1, WriteEntry DEF RevokeKey
<1>3. ASSUME NEW mask \in SUBSET Nonces PROVE InvalidateNonces(H, u, mask) \in Hubs
  BY DEF InvalidateNonces, Hubs
<1>4. ASSUME NEW on \in BOOLEAN PROVE SetStrictMode(H, u, on) \in Hubs
  BY DEF SetStrictMode, Hubs
<1>5. ASSUME NEW t \in Tokens, NEW on \in BOOLEAN PROVE SetStrictModeToken(H, u, t, on) \in Hubs
  BY DEF SetStrictModeToken, Hubs
<1> QED
  BY <1>1, <1>2, <1>3, <1>4, <1>5

(* What a user does to be safer raises no amount and forgets no nonce.     *)
LEMMA OwnCallsLower ==
    ASSUME NEW H \in Hubs, NEW u \in Users, NEW s \in Spenders, NEW k \in Keys
    PROVE  /\ \A r \in Spenders, l \in Keys :
                RevokeKey(H, u, r, l).book[u][s][k].amount <= H.book[u][s][k].amount
           /\ \A pairs : Lockdown(H, u, pairs).book[u][s][k].amount <= H.book[u][s][k].amount
           /\ \A mask : InvalidateNonces(H, u, mask).book = H.book
           /\ \A on : SetStrictMode(H, u, on).book = H.book
           /\ \A t, on : SetStrictModeToken(H, u, t, on).book = H.book
<1> DEFINE entry == H.book[u][s][k]
<1>1. entry \in Buckets /\ entry.amount \in Nat
  BY UnlimitedAssumption DEF Hubs, Buckets
<1>2. ASSUME NEW r \in Spenders, NEW l \in Keys
      PROVE  RevokeKey(H, u, r, l).book[u][s][k].amount <= entry.amount
  <2>1. RevokeKey(H, u, r, l).book[u][s][k] \in {Empty, entry}
    BY DEF RevokeKey, Hubs
  <2> HIDE DEF entry
  <2> QED
    BY <1>1, <2>1 DEF Empty
<1>3. ASSUME NEW pairs PROVE Lockdown(H, u, pairs).book[u][s][k].amount <= entry.amount
  <2>1. Lockdown(H, u, pairs).book[u][s][k] =
          IF <<s, k>> \in pairs THEN [entry EXCEPT !.amount = 0] ELSE entry
    BY DEF Lockdown, Hubs
  <2>2. 0 \in 0..Unlimited
    BY UnlimitedAssumption
  <2> HIDE DEF entry
  <2>3. [entry EXCEPT !.amount = 0].amount = 0
    BY <1>1, <2>2, WriteAmount
  <2> QED
    BY <1>1, <2>1, <2>3
<1>4. /\ \A mask : InvalidateNonces(H, u, mask).book = H.book
      /\ \A on : SetStrictMode(H, u, on).book = H.book
      /\ \A t, on : SetStrictModeToken(H, u, t, on).book = H.book
  BY DEF InvalidateNonces, SetStrictMode, SetStrictModeToken, Hubs
<1> QED
  BY <1>2, <1>3, <1>4

-----------------------------------------------------------------------------
(* Spending and nonces.                                                    *)

(* A spend takes no more than the entry holds, from a live entry, and      *)
(* leaves everything else as it is (Allowance.spend).                      *)
THEOREM SpendIsBounded ==
    ASSUME NEW H \in Hubs, NEW u \in Users, NEW s \in Spenders, NEW k \in Keys,
           NEW now \in Nat, NEW n \in Nat, NEW J \in Spend(H, now, u, s, k, n)
    PROVE  /\ J \in Hubs
           /\ 0 < n /\ n <= H.book[u][s][k].amount
           /\ Live(H.book[u][s][k], now)
           /\ J.book[u][s][k].amount =
                 IF H.book[u][s][k].amount = Unlimited THEN Unlimited ELSE H.book[u][s][k].amount - n
           /\ \A v \in Users, r \in Spenders, l \in Keys :
                 <<v, r, l>> # <<u, s, k>> => J.book[v][r][l] = H.book[v][r][l]
           /\ J.spent = H.spent /\ J.strict = H.strict /\ J.strictToken = H.strictToken
<1> DEFINE bucket == H.book[u][s][k]
           lower == [bucket EXCEPT !.amount = @ - n]
<1>1. /\ H.book \in [Users -> [Spenders -> [Keys -> Buckets]]]
      /\ bucket \in Buckets /\ bucket.amount \in 0..Unlimited
  BY DEF Hubs, Buckets
<1>2. n # 0 /\ Live(bucket, now) /\ n <= bucket.amount
  BY DEF Spend
<1>3. CASE bucket.amount = Unlimited
  <2>1. J = H
    BY <1>2, <1>3 DEF Spend
  <2> QED
    BY <1>1, <1>2, <1>3, <2>1
<1>4. CASE bucket.amount # Unlimited
  <2>1. J = [H EXCEPT !.book[u][s][k] = lower]
    BY <1>2, <1>4 DEF Spend
  <2>2. lower \in Buckets /\ lower.amount = bucket.amount - n
    <3>1. bucket.amount - n \in 0..Unlimited
      BY <1>1, <1>2, UnlimitedAssumption
    <3> HIDE DEF bucket
    <3> QED
      BY <1>1, <3>1, WriteAmount
  <2>3. J \in Hubs
    BY <2>1, <2>2, WriteEntry
  <2>4. /\ J.book = [H.book EXCEPT ![u][s][k] = lower]
        /\ J.spent = H.spent /\ J.strict = H.strict /\ J.strictToken = H.strictToken
    BY <2>1 DEF Hubs
  <2>5. J.book[u][s][k] = lower
    BY <1>1, <2>4
  <2>6. \A v \in Users, r \in Spenders, l \in Keys :
          <<v, r, l>> # <<u, s, k>> => J.book[v][r][l] = H.book[v][r][l]
    BY <1>1, <2>4
  <2>7. J.book[u][s][k].amount = bucket.amount - n /\ 0 < n
    BY <1>2, <2>2, <2>5
  <2> QED
    BY <1>2, <1>4, <2>3, <2>4, <2>6, <2>7
<1> QED
  BY <1>3, <1>4

(* Whichever permit uses a nonce - batch, one-shot take or transfer - it   *)
(* was fresh, and from then on none can (UnorderedNonces).                 *)
THEOREM NoncesAreSpentOnce ==
    ASSUME NEW H \in Hubs, NEW u \in Users, NEW n \in Nonces, NEW J \in UseNonce(H, u, n)
    PROVE  /\ J \in Hubs /\ J.book = H.book
           /\ n \notin H.spent[u] /\ n \in J.spent[u] /\ H.spent[u] \subseteq J.spent[u]
           /\ \A now, b : b.nonce = n =>
                 PermitBatch(J, now, u, b) = {} /\ PermitBatchIfNeeded(J, now, u, b) = {J}
           /\ \A now, p, m : p.nonce = n =>
                 PermitTake(J, now, u, p) = {} /\ PermitTransfer(J, now, u, p, m) = {}
<1>1. n \notin H.spent[u] /\ J = [H EXCEPT !.spent[u] = @ \cup {n}]
  BY DEF UseNonce
<1>2. /\ J \in Hubs /\ J.book = H.book
      /\ n \in J.spent[u] /\ H.spent[u] \subseteq J.spent[u]
  BY <1>1 DEF Hubs
<1>3. UseNonce(J, u, n) = {}
  BY <1>2 DEF UseNonce
<1>4. ASSUME NEW now, NEW b, b.nonce = n
      PROVE  PermitBatch(J, now, u, b) = {} /\ PermitBatchIfNeeded(J, now, u, b) = {J}
  BY <1>2, <1>3, <1>4 DEF PermitBatch, PermitBatchIfNeeded
<1>5. ASSUME NEW now, NEW p, NEW m, p.nonce = n
      PROVE  PermitTake(J, now, u, p) = {} /\ PermitTransfer(J, now, u, p, m) = {}
  BY <1>3, <1>5 DEF PermitTake, PermitTransfer
<1> QED
  BY <1>1, <1>2, <1>4, <1>5

(* The results of a batch, which forgets no nonce.                         *)
LEMMA BatchTypes ==
    ASSUME NEW H \in Hubs, NEW u \in Users, NEW b \in Batches, NEW now \in Nat
    PROVE  /\ \A J \in PermitBatch(H, now, u, b) : J \in Hubs /\ H.spent[u] \subseteq J.spent[u]
           /\ \A J \in PermitBatchIfNeeded(H, now, u, b) : J \in Hubs /\ H.spent[u] \subseteq J.spent[u]
<1>1. b.nonce \in Nonces /\ b.grants \in SUBSET Grants
  BY DEF Batches
<1>2. ASSUME NEW J \in PermitBatch(H, now, u, b) PROVE J \in Hubs /\ H.spent[u] \subseteq J.spent[u]
  <2>1. PICK L \in UseNonce(H, u, b.nonce) : J = Granted(L, u, b.grants)
    BY DEF PermitBatch
  <2>2. L \in Hubs /\ H.spent[u] \subseteq L.spent[u]
    BY <1>1, <2>1, NoncesAreSpentOnce
  <2>3. J \in Hubs
    BY <1>1, <2>1, <2>2, GrantedTypes
  <2>4. J.spent = L.spent
    BY <2>1, <2>2 DEF Granted, Hubs
  <2> QED
    BY <2>2, <2>3, <2>4
<1> QED
  BY <1>2 DEF PermitBatchIfNeeded

(* What a batch writes to an entry is one of its grants, or nothing.       *)
LEMMA GrantedResult ==
    ASSUME NEW H \in Hubs, NEW u \in Users, NEW grants \in SUBSET Grants,
           NEW s \in Spenders, NEW k \in Keys
    PROVE  LET J == Granted(H, u, grants)
           IN  /\ J.spent = H.spent
               /\ \/ J.book[u][s][k].amount = H.book[u][s][k].amount
                  \/ \E g \in grants : /\ g.spender = s /\ g.key = k
                                       /\ J.book[u][s][k].amount = g.amount
<1> DEFINE J == Granted(H, u, grants)
           Named == \E g \in grants : g.spender = s /\ g.key = k
           Chosen == CHOOSE g \in grants : g.spender = s /\ g.key = k
<1>1. J.spent = H.spent
  BY DEF Granted, Hubs
<1>2. J.book[u][s][k] = IF Named THEN [amount |-> Chosen.amount, expiry |-> Chosen.expiry]
                        ELSE H.book[u][s][k]
  BY DEF Granted, Hubs
<1>3. Named => Chosen \in grants /\ Chosen.spender = s /\ Chosen.key = k
  OBVIOUS
<1> HIDE DEF J, Named, Chosen
<1>4. CASE Named
  BY <1>1, <1>2, <1>3, <1>4 DEF J
<1>5. CASE ~Named
  BY <1>1, <1>2, <1>5 DEF J
<1> QED
  BY <1>4, <1>5

(* A batch goes through once, and its grants with it.                      *)
LEMMA BatchGrants ==
    ASSUME NEW H \in Hubs, NEW u \in Users, NEW b \in Batches, NEW now \in Nat,
           NEW J \in PermitBatch(H, now, u, b), NEW s \in Spenders, NEW k \in Keys
    PROVE  /\ b.nonce \notin H.spent[u] /\ b.nonce \in J.spent[u]
           /\ \/ J.book[u][s][k].amount = H.book[u][s][k].amount
              \/ \E g \in b.grants : /\ g.spender = s /\ g.key = k
                                     /\ J.book[u][s][k].amount = g.amount
<1>1. b.nonce \in Nonces /\ b.grants \in SUBSET Grants
  BY DEF Batches
<1>2. PICK L \in UseNonce(H, u, b.nonce) : J = Granted(L, u, b.grants)
  BY DEF PermitBatch
<1>3. L \in Hubs /\ L.book = H.book /\ b.nonce \notin H.spent[u] /\ b.nonce \in L.spent[u]
  BY <1>1, <1>2, NoncesAreSpentOnce
<1> QED
  BY <1>1, <1>2, <1>3, GrantedResult

-----------------------------------------------------------------------------
(* A user that has shut its books.                                         *)

(* The amounts of both books are gone, and so are the nonces of what the   *)
(* user signed.                                                            *)
Shut(H, u, signed) ==
    /\ \A s \in Spenders, k \in Keys : H.book[u][s][k].amount = 0
    /\ signed \subseteq H.spent[u]

(* Nobody can draw on shut books or reopen them, by an allowance or by     *)
(* anything signed: the user alone can (lockdownAll).                      *)
THEOREM ShutBooksGiveNothing ==
    ASSUME NEW H \in Hubs, NEW u \in Users, NEW signed, Shut(H, u, signed), NEW now
    PROVE  /\ \A s \in Spenders, k \in Keys, n \in Nat : Spend(H, now, u, s, k, n) = {}
           /\ \A b : b.nonce \in signed =>
                 PermitBatch(H, now, u, b) = {} /\ PermitBatchIfNeeded(H, now, u, b) = {H}
           /\ \A p, m : p.nonce \in signed =>
                 PermitTake(H, now, u, p) = {} /\ PermitTransfer(H, now, u, p, m) = {}
<1>1. ASSUME NEW s \in Spenders, NEW k \in Keys, NEW n \in Nat PROVE Spend(H, now, u, s, k, n) = {}
  <2>1. H.book[u][s][k].amount = 0
    BY DEF Shut
  <2> QED
    BY <2>1 DEF Spend
<1>2. \A n \in signed : UseNonce(H, u, n) = {}
  BY DEF Shut, UseNonce
<1>3. ASSUME NEW b, b.nonce \in signed
      PROVE  PermitBatch(H, now, u, b) = {} /\ PermitBatchIfNeeded(H, now, u, b) = {H}
  BY <1>2, <1>3 DEF PermitBatch, PermitBatchIfNeeded, Shut
<1>4. ASSUME NEW p, NEW m, p.nonce \in signed
      PROVE  PermitTake(H, now, u, p) = {} /\ PermitTransfer(H, now, u, p, m) = {}
  BY <1>2, <1>4 DEF PermitTake, PermitTransfer
<1> QED
  BY <1>1, <1>3, <1>4

(* What the user does to be safer, and what others do to their own books,  *)
(* leaves shut books shut.                                                 *)
LEMMA ShutStays ==
    ASSUME NEW H \in Hubs, NEW u \in Users, NEW signed, Shut(H, u, signed)
    PROVE  /\ \A pairs : Shut(Lockdown(H, u, pairs), u, signed)
           /\ \A mask \in SUBSET Nonces : Shut(InvalidateNonces(H, u, mask), u, signed)
           /\ \A s \in Spenders, k \in Keys : Shut(RevokeKey(H, u, s, k), u, signed)
           /\ \A on \in BOOLEAN : Shut(SetStrictMode(H, u, on), u, signed)
           /\ \A t \in Tokens, on \in BOOLEAN : Shut(SetStrictModeToken(H, u, t, on), u, signed)
<1>1. ASSUME NEW pairs PROVE Shut(Lockdown(H, u, pairs), u, signed)
  <2>1. Lockdown(H, u, pairs).spent = H.spent
    BY DEF Lockdown, Hubs
  <2>2. ASSUME NEW s \in Spenders, NEW k \in Keys PROVE Lockdown(H, u, pairs).book[u][s][k].amount = 0
    <3>1. H.book[u][s][k] \in Buckets /\ H.book[u][s][k].amount = 0
      BY DEF Shut, Hubs
    <3>2. Lockdown(H, u, pairs).book[u][s][k] =
            IF <<s, k>> \in pairs THEN [H.book[u][s][k] EXCEPT !.amount = 0] ELSE H.book[u][s][k]
      BY DEF Lockdown, Hubs
    <3> QED
      BY <3>1, <3>2 DEF Buckets
  <2> QED
    BY <2>1, <2>2 DEF Shut
<1>2. ASSUME NEW mask \in SUBSET Nonces PROVE Shut(InvalidateNonces(H, u, mask), u, signed)
  BY DEF Shut, InvalidateNonces, Hubs
<1>3. ASSUME NEW s \in Spenders, NEW k \in Keys PROVE Shut(RevokeKey(H, u, s, k), u, signed)
  <2>1. /\ RevokeKey(H, u, s, k).book = [H.book EXCEPT ![u][s][k] = Empty]
        /\ RevokeKey(H, u, s, k).spent = H.spent
    BY DEF RevokeKey, Hubs
  <2>2. \A r \in Spenders, l \in Keys :
          RevokeKey(H, u, s, k).book[u][r][l] \in {Empty, H.book[u][r][l]}
    BY <2>1 DEF Hubs
  <2> QED
    BY <2>1, <2>2 DEF Shut, Empty
<1>4. ASSUME NEW on \in BOOLEAN PROVE Shut(SetStrictMode(H, u, on), u, signed)
  BY DEF Shut, SetStrictMode, Hubs
<1>5. ASSUME NEW t \in Tokens, NEW on \in BOOLEAN PROVE Shut(SetStrictModeToken(H, u, t, on), u, signed)
  BY DEF Shut, SetStrictModeToken, Hubs
<1> QED
  BY <1>1, <1>2, <1>3, <1>4, <1>5

-----------------------------------------------------------------------------
(* Types.                                                                  *)

Worlds == [hub : Hubs, direct : SUBSET (Users \X Tokens), now : Nat,
           bal : [Accounts -> [Tokens -> Nat]], stake : [Tokens -> Int],
           filled : Nat, delivered : [DOMAIN Outs -> Int], paid : [DOMAIN Ins -> Int],
           elsewhere : [Tokens -> Nat], held : [{Settlement, Module} -> [Tokens -> Nat]],
           net : [Spenders -> [Keys -> Int]], uses : [Nonces -> Nat], stirred : Nat]

Calls == ({"deliver"} \X DOMAIN Outs) \cup ({"item"} \X DOMAIN order.items) \cup ({"pay"} \X DOMAIN Ins)

Frames == [saved : Worlds, direct : BOOLEAN, ctx : Contexts, outs : [DOMAIN Outs -> Nat],
           used : SUBSET DOMAIN Outs, base : [Tokens -> Nat] \cup {None}, permit : SUBSET order.take]

(* A frame with the gates that it passed.                                  *)
Opened(f) ==
    /\ f \in Frames
    /\ f.ctx.prev <= f.ctx.new
    /\ ~Buy => \A j \in DOMAIN Outs : Falls(Outs[j])
    /\ \A i \in DOMAIN Ins : Rises(Ins[i])

TypeOK ==
    /\ order \in Shapes
    /\ world \in Worlds
    /\ todo \in Seq(Calls)
    /\ todo # <<>> => Opened(frame)

(* What no call touches but the one it belongs to.                         *)
Kept(W, V) == V.filled = W.filled /\ V.delivered = W.delivered /\ V.paid = W.paid

(* A nonce lets one permit through, and is spent by it.                    *)
Once(W) == \A n \in Nonces : W.uses[n] <= 1 /\ (W.uses[n] # 0 => n \in W.hub.spent[Maker])

(* What was drawn on an entry and what is left to draw on it, ...          *)
Claimed(W, s, k) == W.net[s][k] + W.hub.book[Maker][s][k].amount

(* ... the batches not presented yet, ...                                  *)
Unspent(W) == {b \in order.batch : b.nonce \notin W.hub.spent[Maker]}

(* ... and what all of it may come to, is within what the maker gave.      *)
Within(W) ==
    \A s \in Spenders, k \in Keys :
      Claimed(W, s, k) + Promised(Unspent(W), s, k) <= Given(s, k)

Honest(W) == Once(W) /\ Within(W)

(* Nothing has left the maker, and its books are still shut.               *)
Held(W, V) == Sealed(V) /\ \A t \in Tokens : Worth(V, t) >= Worth(W, t)

(* What all that happens has in common.                                    *)
Even(W, V) == V \in Worlds /\ Kept(W, V) /\ (Honest(W) => Honest(V))
Fair(W, V) == Even(W, V) /\ (Sealed(W) => Held(W, V))

-----------------------------------------------------------------------------
(* The fields of an order and of a world.                                  *)
LEMMA OrderFields ==
    ASSUME order \in Shapes
    PROVE  /\ Terms \in OrderTypes /\ Terms \in Orders
           /\ Buy \in BOOLEAN /\ Terms.anchor \in Nat \ {0} /\ Terms.clock \in Clocks
           /\ Terms.premium \in 0..BPS
           /\ Outs \in Seq(Legs) /\ Ins \in Seq(Legs) /\ order.items \in Seq(Items)
           /\ \A j \in DOMAIN Outs : /\ Outs[j] \in Legs /\ order.outTok[j] \in Tokens
                                     /\ order.outTo[j] \in Accounts \ {Filler}
           /\ \A i \in DOMAIN Ins : Ins[i] \in Legs /\ order.inTok[i] \in Tokens
           /\ \A k \in DOMAIN order.items : order.items[k] \in Items
<1>1. Terms \in OrderTypes /\ Terms \in Orders /\ order.items \in Seq(Items)
  BY ShapesAssumption, OrdersAssumption DEF Terms
<1>2. /\ Buy \in BOOLEAN /\ Terms.anchor \in Nat \ {0} /\ Terms.clock \in Clocks
      /\ Terms.premium \in 0..BPS /\ Outs \in Seq(Legs) /\ Ins \in Seq(Legs)
  BY <1>1 DEF OrderTypes, Buy, Outs, Ins
<1>3. /\ order.outTok \in [DOMAIN Outs -> Tokens]
      /\ order.outTo \in [DOMAIN Outs -> Accounts \ {Filler}]
      /\ order.inTok \in [DOMAIN Ins -> Tokens]
  BY ShapesAssumption DEF Outs, Ins, Terms
<1>4. /\ \A j \in DOMAIN Outs : Outs[j] \in Legs
      /\ \A i \in DOMAIN Ins : Ins[i] \in Legs
      /\ \A k \in DOMAIN order.items : order.items[k] \in Items
  BY <1>1, <1>2
<1> QED
  BY <1>1, <1>2, <1>3, <1>4

(* Who is a user, who a spender, and who is not whom.                      *)
LEMMA Actors ==
    /\ {Maker, Filler, Settlement, Module, Treasury} = Accounts
    /\ Maker \in Users /\ Filler \in Users
    /\ Settlement \in Spenders /\ Module \in Spenders /\ Dapp \in Spenders
    /\ Tokens \subseteq Keys /\ Positions \subseteq Keys
    /\ Maker # Filler /\ Maker # Settlement /\ Maker # Module /\ Filler # Settlement
BY ActorsAssumption DEF Accounts, Keys

(* A sealed maker has shut its books.                                      *)
LEMMA SealedIsShut ==
    ASSUME NEW W, Sealed(W)
    PROVE  Shut(W.hub, Maker, Signed)
BY DEF Sealed, Shut

(* Being sealed is a matter of the maker's side of the hub and of its      *)
(* plain approvals.                                                        *)
LEMMA SealedIf ==
    ASSUME NEW W, NEW V, Sealed(W), Shut(V.hub, Maker, Signed),
           V.hub.strict = W.hub.strict, V.hub.strictToken = W.hub.strictToken, V.direct = W.direct
    PROVE  Sealed(V)
BY DEF Sealed, Shut, IsStrict

(* Nothing happening is fair ...                                           *)
LEMMA FairRefl ==
    ASSUME NEW W \in Worlds
    PROVE  Fair(W, W)
<1>1. \A t \in Tokens : Worth(W, t) \in Int
  BY Actors DEF Worth, Worlds
<1> QED
  BY <1>1 DEF Fair, Even, Kept, Held

(* ... and so are two fair things one after the other.                     *)
LEMMA FairTrans ==
    ASSUME NEW W \in Worlds, NEW V, NEW X, Fair(W, V), Fair(V, X)
    PROVE  Fair(W, X)
<1>1. V \in Worlds /\ X \in Worlds
  BY DEF Fair, Even
<1>2. \A t \in Tokens : Worth(W, t) \in Int /\ Worth(V, t) \in Int /\ Worth(X, t) \in Int
  BY <1>1, Actors DEF Worth, Worlds
<1> QED
  BY <1>1, <1>2 DEF Fair, Even, Kept, Held

-----------------------------------------------------------------------------
(* What the maker gave, and what may yet be drawn of it.                   *)

(* There are finitely many slips, of amounts.                              *)
LEMMA SlipsFinite ==
    ASSUME order \in Shapes, NEW batches \in SUBSET order.batch, NEW s, NEW k
    PROVE  /\ IsFiniteSet(Slips(batches, s, k))
           /\ \A c \in Slips(batches, s, k) : c[2].amount \in Nat
<1>1. /\ order.batch \subseteq Batches /\ IsFiniteSet(order.batch)
      /\ \A b \in order.batch : IsFiniteSet(b.grants) /\ b.grants \subseteq Grants
  BY ShapesAssumption DEF Batches
<1> DEFINE T == {{b} \X b.grants : b \in batches}
           f == [b \in batches |-> {b} \X b.grants]
<1>2. IsFiniteSet(batches)
  BY <1>1, FS_Subset
<1>3. f \in Surjection(batches, T)
  BY DEF Surjection
<1>4. IsFiniteSet(T)
  <2> HIDE DEF T, f
  <2> QED
    BY <1>2, <1>3, FS_Surjection
<1>5. ASSUME NEW X \in T PROVE IsFiniteSet(X)
  <2>1. PICK b \in batches : X = {b} \X b.grants
    OBVIOUS
  <2>2. IsFiniteSet({b}) /\ IsFiniteSet(b.grants)
    BY <1>1, FS_Singleton
  <2> QED
    BY <2>1, <2>2, FS_Product
<1>6. IsFiniteSet(UNION T)
  <2> HIDE DEF T
  <2> QED
    BY <1>4, <1>5, FS_UNION
<1>7. Slips(batches, s, k) \in SUBSET UNION T
  BY DEF Slips
<1>8. ASSUME NEW c \in Slips(batches, s, k) PROVE c[2].amount \in Nat
  <2>1. PICK b \in batches : c \in {b} \X b.grants
    BY DEF Slips
  <2>2. c[2] \in Grants
    BY <1>1, <2>1
  <2> QED
    BY <2>2, UnlimitedAssumption DEF Grants
<1> HIDE DEF T
<1> QED
  BY <1>6, <1>7, <1>8, FS_Subset

(* Fewer batches promise no more, ...                                      *)
LEMMA PromisedLess ==
    ASSUME order \in Shapes, NEW batches \in SUBSET order.batch, NEW rest \in SUBSET batches,
           NEW s, NEW k
    PROVE  /\ Promised(batches, s, k) \in Nat /\ Promised(rest, s, k) \in Nat
           /\ Promised(rest, s, k) <= Promised(batches, s, k)
<1> DEFINE S == Slips(batches, s, k)
           R == Slips(rest, s, k)
           f == [c \in S |-> c[2].amount]
           g == [c \in R |-> c[2].amount]
<1>1. R \in SUBSET S
  BY DEF Slips
<1>2. IsFiniteSet(S) /\ f \in [S -> Nat]
  BY SlipsFinite
<1>3. IsFiniteSet(R) /\ g \in [R -> Nat]
  BY SlipsFinite
<1>4. \A c \in R : g[c] <= f[c]
  <2>1. \A c \in R : g[c] = f[c]
    BY <1>1
  <2> QED
    BY <1>3, <2>1
<1>5. Promised(batches, s, k) = SumFunction(f) /\ Promised(rest, s, k) = SumFunction(g)
  BY DEF Promised
<1> HIDE DEF S, R, f, g
<1>6. SumFunction(f) \in Int /\ SumFunction(f) >= 0
  BY <1>2, TotalType
<1>7. SumFunction(g) \in Int /\ SumFunction(g) >= 0
  BY <1>3, TotalType
<1>8. SumFunction(g) <= SumFunction(f)
  BY <1>1, <1>2, <1>3, <1>4, TotalLess
<1> QED
  BY <1>5, <1>6, <1>7, <1>8

(* ... and less by a grant of a batch that is gone.                        *)
LEMMA GrantOfPromised ==
    ASSUME order \in Shapes, NEW batches \in SUBSET order.batch, NEW b \in batches,
           NEW rest \in SUBSET (batches \ {b}), NEW g \in b.grants
    PROVE  Promised(rest, g.spender, g.key) + g.amount <= Promised(batches, g.spender, g.key)
<1> DEFINE S == Slips(batches, g.spender, g.key)
           R == Slips(rest, g.spender, g.key)
           y == <<b, g>>
           f == [c \in S |-> c[2].amount]
           h == [c \in R |-> c[2].amount]
<1>1. y \in S /\ f[y] = g.amount
  BY DEF Slips
<1>2. R \in SUBSET (S \ {y}) /\ (\A c \in R : f[c] = h[c])
  BY DEF Slips
<1>3. IsFiniteSet(S) /\ (\A c \in S : f[c] \in Nat)
  BY SlipsFinite
<1>4. Promised(batches, g.spender, g.key) = SumFunction(f) /\ DOMAIN f = S
      /\ Promised(rest, g.spender, g.key) = SumFunction(h) /\ DOMAIN h = R
  BY DEF Promised
<1> HIDE DEF S, R, y, f, h
<1>5. SumFunctionOnSet(f, S) = f[y] + SumFunctionOnSet(f, S \ {y})
  BY <1>1, <1>3, SumRemove
<1>6. IsFiniteSet(S \ {y}) /\ IsFiniteSet(R)
  BY <1>2, <1>3, FS_Subset
<1>7. SumFunctionOnSet(f, R) <= SumFunctionOnSet(f, S \ {y})
  BY <1>2, <1>3, <1>6, SumPart
<1>8. SumFunctionOnSet(h, R) = SumFunctionOnSet(f, R)
  BY <1>2, <1>6, SumSame
<1>9. SumFunctionOnSet(f, R) \in Int /\ SumFunctionOnSet(f, S \ {y}) \in Int /\ f[y] \in Int
  BY <1>1, <1>2, <1>3, <1>6, SumType
<1> QED
  BY <1>1, <1>4, <1>5, <1>7, <1>8, <1>9 DEF SumFunction

(* Claims and gifts are numbers.                                           *)
LEMMA ClaimedType ==
    ASSUME order \in Shapes, NEW W \in Worlds, NEW s \in Spenders, NEW k \in Keys
    PROVE  /\ W.net[s][k] \in Int /\ W.hub.book[Maker][s][k].amount \in Nat
           /\ Claimed(W, s, k) \in Int /\ Given(s, k) \in Int
<1>1. W.net[s][k] \in Int /\ W.hub \in Hubs /\ order.hub \in Hubs /\ Maker \in Users
  BY ShapesAssumption, Actors DEF Worlds
<1>2. W.hub.book[Maker][s][k].amount \in Nat /\ order.hub.book[Maker][s][k].amount \in Nat
  BY <1>1, HubFields, UnlimitedAssumption
<1>3. Promised(order.batch, s, k) \in Nat
  BY PromisedLess
<1> QED
  BY <1>1, <1>2, <1>3 DEF Claimed, Given

(* What neither draws, grants nor uses a permit keeps a world honest; ...  *)
LEMMA HonestSame ==
    ASSUME NEW W, NEW V, Honest(W), V.hub = W.hub, V.net = W.net, V.uses = W.uses
    PROVE  Honest(V)
BY DEF Honest, Once, Within, Claimed, Unspent

(* ... so does what adds to no claim, ...                                  *)
LEMMA HonestIf ==
    ASSUME order \in Shapes, NEW W \in Worlds, NEW V \in Worlds, Honest(W), Once(V),
           W.hub.spent[Maker] \subseteq V.hub.spent[Maker],
           \A s \in Spenders, k \in Keys : Claimed(V, s, k) <= Claimed(W, s, k)
    PROVE  Honest(V)
<1>1. Unspent(W) \in SUBSET order.batch /\ Unspent(V) \in SUBSET Unspent(W)
  BY DEF Unspent
<1>2. ASSUME NEW s \in Spenders, NEW k \in Keys
      PROVE  Claimed(V, s, k) + Promised(Unspent(V), s, k) <= Given(s, k)
  <2>1. /\ Promised(Unspent(W), s, k) \in Nat /\ Promised(Unspent(V), s, k) \in Nat
        /\ Promised(Unspent(V), s, k) <= Promised(Unspent(W), s, k)
    BY <1>1, PromisedLess
  <2>2. Claimed(W, s, k) \in Int /\ Claimed(V, s, k) \in Int /\ Given(s, k) \in Int
    BY ClaimedType
  <2>3. Claimed(W, s, k) + Promised(Unspent(W), s, k) <= Given(s, k)
    BY DEF Honest, Within
  <2> QED
    BY <2>1, <2>2, <2>3
<1> QED
  BY <1>2 DEF Honest, Within

(* ... and so does a batch that goes through.                              *)
LEMMA HonestBatch ==
    ASSUME order \in Shapes, NEW W \in Worlds, NEW V \in Worlds, Honest(W),
           NEW b \in order.batch, NEW now \in Nat, V.hub \in PermitBatch(W.hub, now, Maker, b),
           V.net = W.net, V.uses = W.uses
    PROVE  Honest(V)
<1>1. /\ W.hub \in Hubs /\ Maker \in Users /\ b \in Batches
  BY Actors, ShapesAssumption DEF Worlds
<1>2. W.hub.spent[Maker] \subseteq V.hub.spent[Maker]
  BY <1>1, BatchTypes
<1>3. Once(V)
  BY <1>2 DEF Honest, Once
<1>4. ASSUME NEW s \in Spenders, NEW k \in Keys
      PROVE  Claimed(V, s, k) + Promised(Unspent(V), s, k) <= Given(s, k)
  <2>1. /\ b.nonce \notin W.hub.spent[Maker] /\ b.nonce \in V.hub.spent[Maker]
        /\ \/ V.hub.book[Maker][s][k].amount = W.hub.book[Maker][s][k].amount
           \/ \E g \in b.grants : /\ g.spender = s /\ g.key = k
                                  /\ V.hub.book[Maker][s][k].amount = g.amount
    <3>1. PICK J \in PermitBatch(W.hub, now, Maker, b) : J = V.hub
      OBVIOUS
    <3>2. /\ b.nonce \notin W.hub.spent[Maker] /\ b.nonce \in J.spent[Maker]
          /\ \/ J.book[Maker][s][k].amount = W.hub.book[Maker][s][k].amount
             \/ \E g \in b.grants : /\ g.spender = s /\ g.key = k
                                    /\ J.book[Maker][s][k].amount = g.amount
      BY <1>1, BatchGrants
    <3> QED
      BY <3>1, <3>2
  <2>2. /\ Unspent(W) \in SUBSET order.batch /\ b \in Unspent(W)
        /\ Unspent(V) \in SUBSET (Unspent(W) \ {b}) /\ Unspent(V) \in SUBSET Unspent(W)
    BY <1>2, <2>1 DEF Unspent
  <2>3. /\ Promised(Unspent(W), s, k) \in Nat /\ Promised(Unspent(V), s, k) \in Nat
        /\ Promised(Unspent(V), s, k) <= Promised(Unspent(W), s, k)
    BY <2>2, PromisedLess
  <2>4. /\ Claimed(W, s, k) \in Int /\ Claimed(V, s, k) \in Int /\ Given(s, k) \in Int
        /\ W.hub.book[Maker][s][k].amount \in Nat /\ W.net[s][k] \in Int
    BY ClaimedType
  <2>5. Claimed(W, s, k) + Promised(Unspent(W), s, k) <= Given(s, k)
    BY DEF Honest, Within
  <2>6. CASE V.hub.book[Maker][s][k].amount = W.hub.book[Maker][s][k].amount
    <3>1. Claimed(V, s, k) = Claimed(W, s, k)
      BY <2>6 DEF Claimed
    <3> QED
      BY <2>3, <2>4, <2>5, <3>1
  <2>7. ASSUME NEW g \in b.grants, g.spender = s, g.key = k, V.hub.book[Maker][s][k].amount = g.amount
        PROVE  Claimed(V, s, k) + Promised(Unspent(V), s, k) <= Given(s, k)
    <3>1. Promised(Unspent(V), s, k) + g.amount <= Promised(Unspent(W), s, k)
      BY <2>2, <2>7, GrantOfPromised
    <3>2. Claimed(V, s, k) = W.net[s][k] + g.amount /\ Claimed(W, s, k) >= W.net[s][k]
      BY <2>4, <2>7 DEF Claimed
    <3>3. g.amount \in Nat
      <4>1. g \in Grants
        BY <1>1 DEF Batches
      <4> QED
        BY <4>1, UnlimitedAssumption DEF Grants
    <3> QED
      BY <2>3, <2>4, <2>5, <3>1, <3>2, <3>3
  <2> QED
    BY <2>1, <2>6, <2>7
<1> QED
  BY <1>3, <1>4 DEF Honest, Within

-----------------------------------------------------------------------------
(* Transfers.                                                              *)

(* A transfer changes two balances of one token, by the same amount, and   *)
(* what the sender has covers it.                                          *)
LEMMA MoveResult ==
    ASSUME NEW W \in Worlds, NEW t \in Tokens, NEW from \in Accounts, NEW to \in Accounts,
           from # to, NEW n \in Nat, NEW V \in Move(W, t, from, to, n)
    PROVE  /\ V \in Worlds
           /\ V = [W EXCEPT !.bal = V.bal]
           /\ V.bal[from][t] = W.bal[from][t] - n /\ V.bal[to][t] = W.bal[to][t] + n
           /\ \A a \in Accounts, u \in Tokens :
                u # t \/ a \notin {from, to} => V.bal[a][u] = W.bal[a][u]
<1> DEFINE B == [[W.bal EXCEPT ![from][t] = @ - n] EXCEPT ![to][t] = @ + n]
<1>1. n <= W.bal[from][t] /\ V = [W EXCEPT !.bal[from][t] = @ - n, !.bal[to][t] = @ + n]
  BY DEF Move
<1>2. W.bal \in [Accounts -> [Tokens -> Nat]]
  BY DEF Worlds
<1>3. V = [W EXCEPT !.bal = B]
  BY <1>1 DEF Worlds
<1>4. B \in [Accounts -> [Tokens -> Nat]]
  <2>1. W.bal[from][t] - n \in Nat /\ W.bal[to][t] + n \in Nat
    BY <1>1, <1>2
  <2> QED
    BY <1>2, <2>1
<1>5. /\ B[from][t] = W.bal[from][t] - n /\ B[to][t] = W.bal[to][t] + n
      /\ \A a \in Accounts, u \in Tokens : u # t \/ a \notin {from, to} => B[a][u] = W.bal[a][u]
  BY <1>2
<1> HIDE DEF B
<1>6. V.bal = B /\ V \in Worlds
  BY <1>3, <1>4 DEF Worlds
<1> QED
  BY <1>3, <1>5, <1>6

(* ... and touches nothing but balances.                                   *)
LEMMA MoveIsEven ==
    ASSUME NEW W \in Worlds, NEW t \in Tokens, NEW from \in Accounts, NEW to \in Accounts,
           from # to, NEW n \in Nat, NEW V \in Move(W, t, from, to, n)
    PROVE  /\ Even(W, V)
           /\ V.hub = W.hub /\ V.direct = W.direct /\ V.stake = W.stake
<1>1. V \in Worlds /\ V = [W EXCEPT !.bal = V.bal]
  BY MoveResult
<1>2. /\ V.hub = W.hub /\ V.direct = W.direct /\ V.uses = W.uses /\ V.stake = W.stake
      /\ V.net = W.net /\ Kept(W, V)
  BY <1>1 DEF Worlds, Kept
<1> QED
  BY <1>1, <1>2, HonestSame DEF Even

(* What moves to or from others is no loss of the maker's, and what moves  *)
(* to it is a gain.                                                        *)
LEMMA MoveIsFair ==
    ASSUME NEW W \in Worlds, NEW t \in Tokens, NEW from \in Accounts, NEW to \in Accounts,
           from # to, from # Maker, NEW n \in Nat, NEW V \in Move(W, t, from, to, n)
    PROVE  Fair(W, V)
<1>1. /\ V \in Worlds /\ V = [W EXCEPT !.bal = V.bal] /\ Even(W, V)
      /\ V.bal[from][t] = W.bal[from][t] - n /\ V.bal[to][t] = W.bal[to][t] + n
      /\ \A a \in Accounts, u \in Tokens : u # t \/ a \notin {from, to} => V.bal[a][u] = W.bal[a][u]
  BY MoveResult, MoveIsEven
<1>2. V.hub = W.hub /\ V.direct = W.direct /\ V.stake = W.stake
  BY MoveIsEven
<1>3. ASSUME NEW u \in Tokens PROVE V.bal[Maker][u] >= W.bal[Maker][u]
  <2>1. W.bal[Maker][u] \in Nat
    BY Actors DEF Worlds
  <2> QED
    BY <1>1, <2>1, Actors
<1>4. \A u \in Tokens : Worth(V, u) >= Worth(W, u)
  <2>1. \A u \in Tokens : V.bal[Maker][u] \in Int /\ W.bal[Maker][u] \in Int /\ W.stake[u] \in Int
    BY <1>1, Actors DEF Worlds
  <2> QED
    BY <1>2, <1>3, <2>1 DEF Worth
<1>5. Sealed(W) => Sealed(V)
  BY <1>2 DEF Sealed
<1> QED
  BY <1>1, <1>4, <1>5 DEF Fair, Held

(* A draw changes a book, and what is said of it.                          *)
LEMMA DrawnResult ==
    ASSUME order \in Shapes, NEW W \in Worlds, NEW u \in Users, NEW s \in Spenders, NEW k \in Keys, NEW n \in Nat,
           NEW V \in Drawn(W, u, s, k, n)
    PROVE  /\ Fair(W, V)
           /\ V.bal = W.bal /\ V.stake = W.stake
           /\ u = Maker => ~Sealed(W)
<1> DEFINE N == [W.net EXCEPT ![s][k] =
                  IF u = Maker /\ W.hub.book[u][s][k].amount # Unlimited THEN @ + n ELSE @]
<1>1. PICK H \in Spend(W.hub, W.now, u, s, k, n) : V = [W EXCEPT !.hub = H, !.net = N]
  <2>1. PICK H \in Spend(W.hub, W.now, u, s, k, n) :
          V = [W EXCEPT !.hub = H,
                        !.net[s][k] = IF u = Maker /\ W.hub.book[u][s][k].amount # Unlimited
                                      THEN @ + n ELSE @]
    BY DEF Drawn
  <2>2. V = [W EXCEPT !.hub = H, !.net = N]
    BY <2>1 DEF Worlds
  <2> QED
    BY <2>2
<1>2. W.hub \in Hubs /\ W.now \in Nat
  BY DEF Worlds
<1>3. /\ H \in Hubs /\ H.spent = W.hub.spent /\ H.strict = W.hub.strict
      /\ H.strictToken = W.hub.strictToken
      /\ \A v \in Users, r \in Spenders, l \in Keys :
           <<v, r, l>> # <<u, s, k>> => H.book[v][r][l] = W.hub.book[v][r][l]
  BY <1>1, <1>2, SpendIsBounded
<1>9. H.book[u][s][k].amount =
        IF W.hub.book[u][s][k].amount = Unlimited THEN Unlimited ELSE W.hub.book[u][s][k].amount - n
  BY <1>1, <1>2, SpendIsBounded
<1>4. N \in [Spenders -> [Keys -> Int]]
  <2>1. W.net \in [Spenders -> [Keys -> Int]] /\ W.net[s][k] + n \in Int
    BY DEF Worlds
  <2> QED
    BY <2>1
<1>8. \A r \in Spenders, l \in Keys :
        N[r][l] = IF <<r, l>> = <<s, k>> /\ u = Maker /\ W.hub.book[u][s][k].amount # Unlimited
                  THEN W.net[r][l] + n ELSE W.net[r][l]
  BY DEF Worlds
<1> HIDE DEF N
<1>5. /\ V \in Worlds /\ V.hub = H /\ V.net = N
      /\ V.bal = W.bal /\ V.stake = W.stake /\ V.direct = W.direct /\ V.uses = W.uses /\ Kept(W, V)
  BY <1>1, <1>3, <1>4 DEF Worlds, Kept
<1>6. ASSUME Honest(W) PROVE Honest(V)
  <2>1. Once(V)
    BY <1>3, <1>5, <1>6 DEF Honest, Once
  <2>2. ASSUME NEW r \in Spenders, NEW l \in Keys PROVE Claimed(V, r, l) = Claimed(W, r, l)
    <3>1. W.net[r][l] \in Int /\ W.hub.book[Maker][r][l].amount \in Nat
      BY ClaimedType
    <3>2. CASE u = Maker /\ <<r, l>> = <<s, k>>
      BY <1>5, <1>8, <1>9, <3>1, <3>2 DEF Claimed
    <3>3. CASE u # Maker \/ <<r, l>> # <<s, k>>
      BY <1>3, <1>5, <1>8, <3>3, Actors DEF Claimed
    <3> QED
      BY <3>2, <3>3
  <2>3. \A r \in Spenders, l \in Keys : Claimed(V, r, l) <= Claimed(W, r, l)
    BY <1>5, <2>2, ClaimedType
  <2> QED
    BY <1>3, <1>5, <1>6, <2>1, <2>3, HonestIf
<1>7. ASSUME Sealed(W) PROVE u # Maker /\ Held(W, V)
  <2>1. Shut(W.hub, Maker, Signed)
    BY <1>7, SealedIsShut
  <2>2. u # Maker
    BY <1>1, <1>2, <2>1, ShutBooksGiveNothing
  <2>3. Shut(H, Maker, Signed)
    <3>1. ASSUME NEW r \in Spenders, NEW l \in Keys PROVE H.book[Maker][r][l] = W.hub.book[Maker][r][l]
      BY <1>3, <2>2, Actors
    <3> QED
      BY <1>3, <2>1, <3>1 DEF Shut
  <2>4. Sealed(V)
    BY <1>3, <1>7, <1>5, <2>3, SealedIf
  <2>5. \A t \in Tokens : Worth(V, t) = Worth(W, t) /\ Worth(W, t) \in Int
    BY <1>5, Actors DEF Worth, Worlds
  <2> QED
    BY <2>2, <2>4, <2>5 DEF Held
<1> QED
  BY <1>5, <1>6, <1>7 DEF Fair, Even

(* A pull takes from the book, from the plain approval, or nothing; and    *)
(* from a sealed maker nothing.                                            *)
LEMMA PullResult ==
    ASSUME order \in Shapes, NEW W \in Worlds, NEW t \in Tokens, NEW from \in {Maker, Filler}, NEW to \in Accounts,
           from # to, NEW n \in Nat, NEW V \in Pull(W, t, from, to, n)
    PROVE  Fair(W, V) /\ V.bal[to][t] = W.bal[to][t] + n
<1>1. from \in Accounts /\ from \in Users /\ t \in Keys /\ W.bal[to][t] \in Nat
  BY Actors DEF Worlds
<1>2. CASE n = 0
  BY <1>1, <1>2, FairRefl DEF Pull
<1>3. CASE n # 0 /\ V \in HubTransfer(W, Settlement, t, from, to, n)
  <2>1. PICK X \in Drawn(W, from, Settlement, t, n) : V \in Move(X, t, from, to, n)
    BY <1>3 DEF HubTransfer, Then
  <2>2. Fair(W, X) /\ X.bal = W.bal /\ (from = Maker => ~Sealed(W))
    BY <1>1, <2>1, DrawnResult, Actors
  <2>3. X \in Worlds
    BY <2>2 DEF Fair, Even
  <2>4. Even(X, V) /\ V.bal[to][t] = W.bal[to][t] + n
    BY <1>1, <2>1, <2>2, <2>3, MoveResult, MoveIsEven
  <2>5. CASE from = Maker
    BY <2>2, <2>4, <2>5 DEF Fair, Even, Kept
  <2>6. CASE from # Maker
    BY <1>1, <2>1, <2>2, <2>3, <2>4, <2>6, MoveIsFair, FairTrans
  <2> QED
    BY <2>4, <2>5, <2>6
<1>4. CASE n # 0 /\ V \notin HubTransfer(W, Settlement, t, from, to, n)
  <2>1. /\ <<from, t>> \in W.direct /\ ~IsStrict(W.hub, from, t)
        /\ V \in Move(W, t, from, to, n)
    BY <1>4 DEF Pull
  <2>2. Even(W, V) /\ V.bal[to][t] = W.bal[to][t] + n
    BY <1>1, <2>1, MoveResult, MoveIsEven
  <2>3. CASE from = Maker
    <3>1. ~Sealed(W)
      BY <2>1, <2>3 DEF Sealed
    <3> QED
      BY <2>2, <3>1 DEF Fair
  <2>4. CASE from # Maker
    BY <1>1, <2>1, <2>2, <2>4, MoveIsFair
  <2> QED
    BY <2>2, <2>3, <2>4
<1> QED
  BY <1>2, <1>3, <1>4

(* A position is supplied from what a module was sent ahead, or from a     *)
(* wallet by its owner's grant.                                            *)
LEMMA SupplyResult ==
    ASSUME order \in Shapes, NEW W \in Worlds, NEW fund \in Funds, NEW t \in Tokens, NEW n \in Nat,
           NEW V \in Supply(W, fund, t, n)
    PROVE  Fair(W, V)
<1> DEFINE from == IF fund.how = "prefund" THEN Module ELSE Maker
<1>1. PICK X \in (IF fund.how = "prefund" THEN {W} ELSE Drawn(W, Maker, Module, t, n)) :
        n <= X.bal[from][t] /\ V = [X EXCEPT !.bal[from][t] = @ - n, !.stake[t] = @ + n]
  BY DEF Supply, Then
<1>2. Fair(W, X) /\ (fund.how # "prefund" => ~Sealed(W))
  BY <1>1, FairRefl, DrawnResult, Actors
<1>3. X \in Worlds /\ from \in Accounts
  BY <1>2, Actors DEF Fair, Even
<1> DEFINE B == [X.bal EXCEPT ![from][t] = @ - n]
           S == [X.stake EXCEPT ![t] = @ + n]
<1>4. V = [X EXCEPT !.bal = B, !.stake = S]
  BY <1>1, <1>3 DEF Worlds
<1>5. /\ X.bal \in [Accounts -> [Tokens -> Nat]] /\ X.stake \in [Tokens -> Int]
      /\ B \in [Accounts -> [Tokens -> Nat]] /\ S \in [Tokens -> Int]
  BY <1>1, <1>3 DEF Worlds
<1>6. ASSUME fund.how = "prefund", NEW u \in Tokens PROVE B[Maker][u] + S[u] >= X.bal[Maker][u] + X.stake[u]
  <2>1. from = Module /\ B[Maker][u] = X.bal[Maker][u]
    BY <1>3, <1>5, <1>6, Actors
  <2>2. S[u] >= X.stake[u]
    BY <1>5
  <2> QED
    BY <1>5, <2>1, <2>2, Actors
<1> HIDE DEF B, S
<1>7. /\ V \in Worlds /\ V.bal = B /\ V.stake = S
      /\ V.hub = X.hub /\ V.direct = X.direct /\ V.uses = X.uses /\ V.net = X.net /\ Kept(X, V)
  BY <1>3, <1>4, <1>5 DEF Worlds, Kept
<1>8. Even(W, V)
  BY <1>2, <1>7, HonestSame DEF Fair, Even, Kept
<1>9. ASSUME Sealed(W) PROVE Held(W, V)
  <2>1. X = W /\ fund.how = "prefund"
    BY <1>1, <1>2, <1>9
  <2>2. Sealed(V)
    BY <1>7, <1>9, <2>1 DEF Sealed
  <2> QED
    BY <1>6, <1>7, <2>1, <2>2 DEF Held, Worth
<1> QED
  BY <1>8, <1>9 DEF Fair

(* A one-shot permit that goes through spends its nonce.                   *)
LEMMA PermitResult ==
    ASSUME order \in Shapes, NEW W \in Worlds, NEW n \in Signed, n \in Nonces, NEW H \in UseNonce(W.hub, Maker, n)
    PROVE  LET V == [W EXCEPT !.hub = H, !.uses = [W.uses EXCEPT ![n] = @ + 1]]
           IN  /\ Even(W, V) /\ ~Sealed(W)
               /\ V.bal = W.bal /\ V.elsewhere = W.elsewhere
<1>1. /\ H \in Hubs /\ H.book = W.hub.book
      /\ n \notin W.hub.spent[Maker] /\ n \in H.spent[Maker]
      /\ W.hub.spent[Maker] \subseteq H.spent[Maker]
  BY Actors, NoncesAreSpentOnce DEF Worlds
<1> DEFINE U == [W.uses EXCEPT ![n] = @ + 1]
           V == [W EXCEPT !.hub = H, !.uses = U]
<1>2. W.uses \in [Nonces -> Nat] /\ U \in [Nonces -> Nat]
  <2>1. W.uses \in [Nonces -> Nat]
    BY DEF Worlds
  <2>2. W.uses[n] + 1 \in Nat
    BY <2>1
  <2> QED
    BY <2>1, <2>2
<1>3. \A m \in Nonces : U[m] = IF m = n THEN W.uses[m] + 1 ELSE W.uses[m]
  BY <1>2
<1> HIDE DEF U
<1>4. /\ V \in Worlds /\ V.hub = H /\ V.uses = U /\ V.net = W.net /\ Kept(W, V)
      /\ V.bal = W.bal /\ V.elsewhere = W.elsewhere
  BY <1>1, <1>2 DEF Worlds, Kept
<1> HIDE DEF V
<1>5. ASSUME Honest(W) PROVE Honest(V)
  <2>1. Once(V)
    BY <1>1, <1>2, <1>3, <1>4, <1>5 DEF Honest, Once
  <2>2. \A r \in Spenders, l \in Keys : Claimed(V, r, l) <= Claimed(W, r, l)
    <3>1. \A r \in Spenders, l \in Keys : Claimed(V, r, l) = Claimed(W, r, l)
      BY <1>1, <1>4 DEF Claimed
    <3> QED
      BY <3>1, ClaimedType
  <2> QED
    BY <1>1, <1>4, <1>5, <2>1, <2>2, HonestIf
<1>6. ~Sealed(W)
  BY <1>1 DEF Sealed
<1> QED
  BY <1>4, <1>5, <1>6 DEF Even, U, V

(* A draw on a position is authorised by an allowance or by a permit that  *)
(* has not been used, and by neither when the maker is sealed.             *)
LEMMA AuthorisedResult ==
    ASSUME TypeOK, todo # <<>>, NEW item \in Items, NEW n \in Nat, NEW W \in Authorised(item, n)
    PROVE  Even(world, W) /\ ~Sealed(world)
<1>1. /\ world \in Worlds /\ order \in Shapes
      /\ item.key \in Keys /\ Maker \in Users /\ Settlement \in Spenders
  BY Actors DEF TypeOK, Items
<1>2. CASE item.op = "take" /\ frame.permit # {}
  <2>1. PICK p \in frame.permit : W \in {[world EXCEPT !.hub = H, !.uses[p.nonce] = @ + 1] :
                                         H \in PermitTake(world.hub, world.now, Maker, p)}
    BY <1>2 DEF Authorised
  <2>2. PICK H \in PermitTake(world.hub, world.now, Maker, p) :
          W = [world EXCEPT !.hub = H, !.uses[p.nonce] = @ + 1]
    BY <2>1
  <2>3. p.nonce \in Nonces /\ p.nonce \in Signed
    <3>1. p \in order.take
      BY DEF TypeOK, Opened, Frames
    <3> QED
      BY <3>1, ShapesAssumption DEF TypeOK, OneShots, Signed
  <2>4. H \in UseNonce(world.hub, Maker, p.nonce)
    BY <2>2 DEF PermitTake
  <2>5. W = [world EXCEPT !.hub = H, !.uses = [world.uses EXCEPT ![p.nonce] = @ + 1]]
    BY <1>1, <2>2 DEF Worlds
  <2> QED
    BY <1>1, <2>3, <2>4, <2>5, PermitResult
<1>3. CASE ~(item.op = "take" /\ frame.permit # {})
  <2>1. W \in Drawn(world, Maker, Settlement, item.key, n)
    BY <1>3 DEF Authorised
  <2> QED
    BY <1>1, <2>1, DrawnResult DEF Fair
<1> QED
  BY <1>2, <1>3

(* What a module draws comes out of the position alone.                    *)
LEMMA DrawIsEven ==
    ASSUME NEW W \in Worlds, NEW item \in Items, NEW n \in Nat, NEW V \in Draw(W, item, n)
    PROVE  Even(W, V)
<1>1. V = [W EXCEPT !.stake[item.token] = @ - n, !.bal[item.to][item.token] = @ + n]
  BY DEF Draw
<1>2. item.token \in Tokens /\ item.to \in Accounts
  BY DEF Items, Accounts
<1> DEFINE B == [W.bal EXCEPT ![item.to][item.token] = @ + n]
           S == [W.stake EXCEPT ![item.token] = @ - n]
<1>3. V = [W EXCEPT !.stake = S, !.bal = B]
  BY <1>1 DEF Worlds
<1>4. B \in [Accounts -> [Tokens -> Nat]] /\ S \in [Tokens -> Int]
  <2>1. W.bal \in [Accounts -> [Tokens -> Nat]] /\ W.stake \in [Tokens -> Int]
    BY DEF Worlds
  <2>2. W.bal[item.to][item.token] + n \in Nat /\ W.stake[item.token] - n \in Int
    BY <1>2, <2>1
  <2> QED
    BY <1>2, <2>1, <2>2
<1> HIDE DEF B, S
<1>5. V.hub = W.hub /\ V.net = W.net /\ V.uses = W.uses
  BY <1>3 DEF Worlds
<1>6. V \in Worlds /\ Kept(W, V)
  BY <1>3, <1>4 DEF Worlds, Kept
<1> QED
  BY <1>5, <1>6, HonestSame DEF Even

(* Two even things one after the other are even.                           *)
LEMMA EvenTrans ==
    ASSUME NEW W, NEW V, NEW X, Even(W, V), Even(V, X)
    PROVE  Even(W, X)
BY DEF Even, Kept

-----------------------------------------------------------------------------
(* Division.                                                               *)

(* What a division rounds down to.                                         *)
LEMMA DivBounds ==
    ASSUME NEW a \in Nat, NEW b \in Nat \ {0}
    PROVE  a \div b \in Nat /\ b * (a \div b) <= a /\ a < b * (a \div b) + b
BY SMT

(* A division that comes out even.                                         *)
LEMMA DivExact ==
    ASSUME NEW a \in Nat, NEW b \in Nat \ {0}
    PROVE  (a * b) \div b = a
BY SMT

(* The dividend decides.                                                   *)
LEMMA DivMonotone ==
    ASSUME NEW a \in Nat, NEW c \in Nat, NEW b \in Nat \ {0}, a <= c
    PROVE  a \div b <= c \div b
BY SMT

(* Products keep the order of their factors.                               *)
LEMMA TimesMonotone ==
    ASSUME NEW a \in Nat, NEW b \in Nat, NEW c \in Nat, a <= b
    PROVE  a * c \in Nat /\ a * c <= b * c
BY SMT

(* A part y of d shares of x, rounded down.                                *)
LEMMA PartDown ==
    ASSUME NEW x \in Nat, NEW d \in Nat \ {0}, NEW y \in 0..d
    PROVE  (x * y) \div d \in 0..x /\ d * ((x * y) \div d) <= x * y
<1>1. x * y \in Nat /\ x * d \in Nat /\ x * y <= x * d
  BY SMT
<1>2. (x * y) \div d <= (x * d) \div d
  BY <1>1, DivMonotone
<1>3. (x * d) \div d = x
  BY DivExact
<1> QED
  BY <1>1, <1>2, <1>3, DivBounds, SMT

(* The same part, rounded up.                                              *)
LEMMA PartUp ==
    ASSUME NEW x \in Nat, NEW d \in Nat \ {0}, NEW y \in 0..d
    PROVE  (x * y + d - 1) \div d \in 0..x /\ d * ((x * y + d - 1) \div d) >= x * y
<1> DEFINE n == x * y + d - 1
<1>1. x * y \in Nat /\ x * d \in Nat /\ x * y <= x * d
  BY SMT
<1>2. n \in Nat /\ n < d * (x + 1)
  BY <1>1, SMT
<1>3. n \div d \in Nat /\ d * (n \div d) <= n /\ n < d * (n \div d) + d
  BY <1>2, DivBounds
<1>4. d * (n \div d) >= x * y
  BY <1>1, <1>3, SMT
<1>5. n \div d < x + 1
  <2> HIDE DEF n
  <2>1. PICK q \in Nat : q = n \div d
    BY <1>3
  <2>2. d * q < d * (x + 1)
    BY <1>2, <1>3, <2>1, SMT
  <2>3. q < x + 1
    BY <2>2, SMT
  <2> QED
    BY <2>1, <2>3
<1> QED
  BY <1>3, <1>4, <1>5, SMT

(* What ceilDiv (Pricing.sol) rounds up to.                                *)
THEOREM CeilDivBounds ==
    ASSUME NEW a \in Nat, NEW b \in Nat \ {0}
    PROVE  CeilDiv(a, b) \in Nat /\ a <= b * CeilDiv(a, b) /\ b * CeilDiv(a, b) < a + b
BY DivBounds, SMT DEF CeilDiv

(* Rounding up keeps the order of the dividends.                           *)
LEMMA CeilDivMonotone ==
    ASSUME NEW a \in Nat, NEW c \in Nat, NEW b \in Nat \ {0}, a <= c
    PROVE  CeilDiv(a, b) <= CeilDiv(c, b)
BY SMT DEF CeilDiv

(* A ceilDiv that comes out even.                                          *)
LEMMA CeilDivExact ==
    ASSUME NEW a \in Nat, NEW b \in Nat \ {0}
    PROVE  CeilDiv(a * b, b) = a
BY SMT DEF CeilDiv

-----------------------------------------------------------------------------
(* The bump.                                                               *)

(* Between two points the bump is on the maker's side of the straight line *)
(* and never outside the points (bumpBps: a falling segment rounds up).    *)
THEOREM BetweenItsPoints ==
    ASSUME NEW p \in Points, NEW q \in Points, NEW e \in p.t..q.t, p.t < q.t
    PROVE  /\ Between(p, q, e) \in Nat
           /\ Between(p, q, e) * (q.t - p.t) <= p.b * (q.t - p.t) + (q.b - p.b) * (e - p.t)
           /\ p.b <= q.b => Between(p, q, e) \in p.b..q.b
           /\ p.b >= q.b => Between(p, q, e) \in q.b..p.b
<1> DEFINE d == q.t - p.t
           y == e - p.t
<1>1. d \in Nat \ {0} /\ y \in 0..d /\ p.b \in Nat /\ q.b \in Nat
  BY DEF Points
<1>2. CASE p.b <= q.b
  <2>1. PICK x \in Nat : x = q.b - p.b
    BY <1>1, <1>2
  <2>2. (x * y) \div d \in 0..x /\ d * ((x * y) \div d) <= x * y
    BY <1>1, PartDown
  <2>3. Between(p, q, e) = p.b + (x * y) \div d
    BY <1>1, <1>2, <2>1 DEF Between
  <2> HIDE DEF d, y
  <2>4. PICK z \in 0..x : z = (x * y) \div d
    BY <2>2
  <2>5. (p.b + z) * d <= p.b * d + x * y
    BY <1>1, <2>2, <2>4, SMT
  <2> QED
    BY <1>1, <1>2, <2>1, <2>3, <2>4, <2>5 DEF d, y
<1>3. CASE p.b > q.b
  <2>1. PICK x \in Nat : x = p.b - q.b
    BY <1>1, <1>3
  <2>2. (x * y + d - 1) \div d \in 0..x /\ d * ((x * y + d - 1) \div d) >= x * y
    BY <1>1, PartUp
  <2>3. Between(p, q, e) = p.b - (x * y + d - 1) \div d
    BY <1>1, <1>3, <2>1 DEF Between
  <2> HIDE DEF d, y
  <2>4. PICK z \in 0..x : z = (x * y + d - 1) \div d
    BY <2>2
  <2>5. (p.b - z) * d <= p.b * d + (-x) * y
    BY <1>1, <2>2, <2>4, SMT
  <2>6. -x = q.b - p.b
    BY <1>1, <2>1
  <2> QED
    BY <1>1, <1>3, <2>1, <2>3, <2>4, <2>5, <2>6 DEF d, y
<1> QED
  BY <1>1, <1>2, <1>3

(* A curve always prices, and never below zero, well formed or not: the    *)
(* walk reaches a segment, whose right end is later than its left, so that *)
(* the check for a flat or falling pair (bumpBps: "Name it instead") has   *)
(* nothing to refuse.                                                      *)
THEOREM CurveAlwaysPrices ==
    ASSUME NEW curve \in Seq(Points), curve # <<>>, NEW elapsed \in Nat
    PROVE  Piecewise(curve, elapsed) # {} /\ Piecewise(curve, elapsed) \subseteq Nat
<1> DEFINE n == Len(curve)
<1>1. n \in Nat \ {0} /\ \A k \in 1..n : curve[k] \in Points
  OBVIOUS
<1>2. \A k \in 1..n : curve[k].t \in Nat /\ curve[k].b \in Nat
  BY <1>1 DEF Points
<1>3. CASE elapsed <= curve[1].t
  BY <1>1, <1>2, <1>3 DEF Piecewise
<1>4. CASE elapsed > curve[1].t /\ elapsed >= curve[n].t
  <2>1. Piecewise(curve, elapsed) = {curve[n].b}
    BY <1>1, <1>2, <1>4 DEF Piecewise
  <2> QED
    BY <1>1, <1>2, <2>1
<1>5. CASE elapsed > curve[1].t /\ elapsed < curve[n].t
  <2> DEFINE Ks == {j \in 2..n : Stops(curve, elapsed, j) /\ curve[j].t > curve[j - 1].t}
             Later == {j \in 2..n : elapsed < curve[j].t}
  <2>1. Piecewise(curve, elapsed) = {Between(curve[k - 1], curve[k], elapsed) : k \in Ks}
    BY <1>1, <1>2, <1>5 DEF Piecewise
  <2>2. Later \in SUBSET Nat /\ n \in Later
    BY <1>1, <1>2, <1>5
  <2>3. PICK k \in Later : \A j \in Later : k <= j
    BY <2>2, LeastOne
  <2>4. \A j \in 2..(k - 1) : elapsed >= curve[j].t
    <3>1. ASSUME NEW j \in 2..(k - 1), elapsed < curve[j].t PROVE FALSE
      <4>1. j \in Later /\ j < k
        BY <1>1, <3>1
      <4> QED
        BY <2>3, <4>1, <1>1
    <3> QED
      BY <3>1, <1>1, <1>2
  <2>5. curve[k - 1].t <= elapsed
    <3>1. CASE k = 2
      BY <1>5, <1>2, <1>1, <3>1
    <3>2. CASE k # 2
      BY <2>4, <3>2, <1>1
    <3> QED
      BY <3>1, <3>2
  <2>6. Stops(curve, elapsed, k) /\ curve[k].t > curve[k - 1].t
    BY <1>1, <1>2, <2>3, <2>4, <2>5 DEF Stops
  <2>7. k \in Ks
    BY <2>6
  <2>8. ASSUME NEW j \in Ks PROVE Between(curve[j - 1], curve[j], elapsed) \in Nat
    <3>1. elapsed < curve[j].t /\ curve[j - 1].t < curve[j].t
      BY <1>1, <1>2 DEF Stops
    <3>2. curve[j - 1].t <= elapsed
      <4>1. CASE j = 2
        BY <1>5, <1>2, <1>1, <4>1
      <4>2. CASE j # 2
        BY <4>2, <1>1 DEF Stops
      <4> QED
        BY <4>1, <4>2
    <3>3. curve[j - 1] \in Points /\ curve[j] \in Points
      BY <1>1
    <3>4. elapsed \in curve[j - 1].t..curve[j].t
      BY <1>1, <1>2, <3>1, <3>2
    <3> QED
      BY <3>1, <3>3, <3>4, BetweenItsPoints
  <2> QED
    BY <2>1, <2>7, <2>8
<1> QED
  BY <1>1, <1>2, <1>3, <1>4, <1>5

(* The final clamp of every mode.                                          *)
LEMMA CappedAtBps ==
    ASSUME NEW b \in Nat
    PROVE  Least(b, BPS) \in 0..BPS
BY SMT DEF Least, BPS

(* Whatever moves the price, the bump is between the start and the end:    *)
(* elapsed time, a curve past BPS, gas, a bid or a price module.           *)
THEOREM BumpInRange ==
    ASSUME NEW o \in Clocks, NEW m \in Moments, NEW decays \in BOOLEAN
    PROVE  Bumps(o, m, decays) \subseteq 0..BPS
<1>1. TimeBump(o, m) \subseteq Nat
  <2>1. CASE o.curve = <<>>
    <3>1. CASE o.duration # 0 /\ m.tick >= o.start
      <4>1. PICK e \in Nat : e = m.tick - o.start
        BY <3>1 DEF Clocks, Moments
      <4>2. Linear(o, e) \in Nat
        BY <3>1, DivBounds DEF Linear, Clocks, BPS
      <4> QED
        BY <2>1, <3>1, <4>1, <4>2 DEF TimeBump
    <3>2. CASE ~(o.duration # 0 /\ m.tick >= o.start)
      BY <2>1, <3>2 DEF TimeBump, Clocks, Moments
    <3> QED
      BY <3>1, <3>2
  <2>2. CASE o.curve # <<>>
    <3>1. CASE m.tick >= o.start
      <4>1. m.tick - o.start \in Nat /\ o.curve \in Seq(Points)
        BY <3>1 DEF Clocks, Moments
      <4>2. Piecewise(o.curve, m.tick - o.start) \subseteq Nat
        BY <2>2, <4>1, CurveAlwaysPrices
      <4> QED
        BY <2>2, <3>1, <4>2 DEF TimeBump, Clocks, Moments
    <3>2. CASE ~(m.tick >= o.start)
      BY <2>2, <3>2 DEF TimeBump, Clocks, Moments
    <3> QED
      BY <3>1, <3>2
  <2> QED
    BY <2>1, <2>2
<1>2. GasBump(o, m) \in Nat
  <2>1. o.gasBump * m.basefee \in Nat /\ o.gasRef \in Nat /\ o.gasBump \in Nat
    BY DEF Clocks, Moments
  <2> QED
    BY <2>1, DivBounds DEF GasBump, Least
<1>3. BumpBps(o, m) \subseteq 0..BPS
  <2>1. ASSUME NEW b \in TimeBump(o, m) PROVE Least(b + GasBump(o, m), BPS) \in 0..BPS
    <3>1. b + GasBump(o, m) \in Nat
      BY <1>1, <1>2
    <3> QED
      BY <3>1, CappedAtBps
  <2> QED
    BY <2>1 DEF BumpBps
<1>4. PriorityBump(o, m) \subseteq 0..BPS
  <2>1. ASSUME o.scale # 0 PROVE (Bid(o, m) * BPS + o.scale - 1) \div o.scale \in Nat
    <3>1. PICK bid \in Nat : bid = Bid(o, m)
      BY DEF Bid, Less, Clocks, Moments
    <3>2. bid * BPS + o.scale - 1 \in Nat /\ o.scale \in Nat \ {0}
      BY <2>1, SMT DEF Clocks, BPS
    <3> QED
      BY <3>1, <3>2, DivBounds
  <2>2. \A x \in Nat : Less(BPS, x) \in 0..BPS
    BY DEF Less, BPS
  <2> QED
    BY <2>1, <2>2 DEF PriorityBump
<1>5. PriceBump(o, m) \subseteq 0..BPS
  <2>1. m.answer \in Nat
    BY DEF Moments
  <2> QED
    BY <2>1, CappedAtBps DEF PriceBump
<1> QED
  BY <1>3, <1>4, <1>5 DEF Bumps, BPS

-----------------------------------------------------------------------------
(* Ticks.                                                                  *)

(* A tick is between the two signed amounts of its leg (outTick, inTick).  *)
THEOREM TicksInBand ==
    ASSUME NEW leg \in Legs, NEW bump \in 0..BPS
    PROVE  /\ Falls(leg) => OutTick(leg, bump) \in Worst(leg)..leg.start
           /\ Rises(leg) => InTick(leg, bump) \in leg.start..Worst(leg)
<1>1. leg.start \in Nat /\ leg.end \in Nat
  BY DEF Legs
<1>2. BPS \in Nat \ {0}
  BY DEF BPS
<1>3. ASSUME Falls(leg) PROVE OutTick(leg, bump) \in Worst(leg)..leg.start
  <2>1. CASE leg.end = 0
    BY <1>1, <2>1 DEF OutTick, Worst
  <2>2. CASE leg.end # 0
    <3>1. PICK x \in Nat : x = leg.start - leg.end
      BY <1>1, <1>3, <2>2 DEF Falls
    <3>2. (x * bump) \div BPS \in 0..x
      BY <1>2, PartDown
    <3> QED
      BY <1>1, <2>2, <3>1, <3>2 DEF OutTick, Worst
  <2> QED
    BY <2>1, <2>2
<1>4. ASSUME Rises(leg) PROVE InTick(leg, bump) \in leg.start..Worst(leg)
  <2>1. CASE leg.end = 0
    BY <1>1, <2>1 DEF InTick, Worst
  <2>2. CASE leg.end # 0
    <3>1. PICK x \in Nat : x = leg.end - leg.start
      BY <1>1, <1>4, <2>2 DEF Rises
    <3>2. (x * bump) \div BPS \in 0..x
      BY <1>2, PartDown
    <3> QED
      BY <1>1, <2>2, <3>1, <3>2 DEF InTick, Worst
  <2> QED
    BY <2>1, <2>2
<1> QED
  BY <1>3, <1>4

(* Ticks follow the bump: outputs fall and inputs rise with it.            *)
LEMMA TicksMonotone ==
    ASSUME NEW leg \in Legs, NEW b \in 0..BPS, NEW c \in 0..BPS, b <= c
    PROVE  /\ Falls(leg) => OutTick(leg, c) <= OutTick(leg, b)
           /\ Rises(leg) => InTick(leg, b) <= InTick(leg, c)
<1>1. leg.start \in Nat /\ leg.end \in Nat
  BY DEF Legs
<1>2. BPS \in Nat \ {0}
  BY DEF BPS
<1>3. ASSUME NEW x \in Nat
      PROVE  /\ (x * b) \div BPS \in Nat /\ (x * c) \div BPS \in Nat
             /\ (x * b) \div BPS <= (x * c) \div BPS
  <2>1. x * b \in Nat /\ x * c \in Nat /\ x * b <= x * c
    BY <1>2, SMT
  <2> QED
    BY <1>2, <2>1, DivBounds, DivMonotone
<1>4. ASSUME Falls(leg) PROVE OutTick(leg, c) <= OutTick(leg, b)
  <2>1. CASE leg.end = 0
    BY <1>1, <2>1 DEF OutTick
  <2>2. CASE leg.end # 0
    <3>1. PICK x \in Nat : x = leg.start - leg.end
      BY <1>1, <1>4, <2>2 DEF Falls
    <3>2. OutTick(leg, b) = leg.start - (x * b) \div BPS /\ OutTick(leg, c) = leg.start - (x * c) \div BPS
      BY <2>2, <3>1 DEF OutTick
    <3> QED
      BY <1>1, <1>3, <3>2
  <2> QED
    BY <2>1, <2>2
<1>5. ASSUME Rises(leg) PROVE InTick(leg, b) <= InTick(leg, c)
  <2>1. CASE leg.end = 0
    BY <1>1, <2>1 DEF InTick
  <2>2. CASE leg.end # 0
    <3>1. PICK x \in Nat : x = leg.end - leg.start
      BY <1>1, <1>5, <2>2 DEF Rises
    <3>2. InTick(leg, b) = leg.start + (x * b) \div BPS /\ InTick(leg, c) = leg.start + (x * c) \div BPS
      BY <2>2, <3>1 DEF InTick
    <3> QED
      BY <1>1, <1>3, <3>2
  <2> QED
    BY <2>1, <2>2
<1> QED
  BY <1>4, <1>5

-----------------------------------------------------------------------------
(* Slices.                                                                 *)

(* The premium of an outsider, on an output and on an input.               *)
LEMMA PremiumUp ==
    ASSUME NEW amt \in Nat, NEW premium \in 0..BPS
    PROVE  CeilDiv(amt * (BPS + premium), BPS) \in Nat /\ CeilDiv(amt * (BPS + premium), BPS) >= amt
<1>1. BPS \in Nat \ {0}
  BY DEF BPS
<1>2. PICK n \in Nat : n = amt * (BPS + premium) /\ n >= amt * BPS
  BY <1>1, SMT
<1>3. CeilDiv(n, BPS) \in Nat /\ CeilDiv(n, BPS) >= CeilDiv(amt * BPS, BPS)
  BY <1>1, <1>2, CeilDivBounds, CeilDivMonotone
<1> QED
  BY <1>1, <1>2, <1>3, CeilDivExact

LEMMA PremiumDown ==
    ASSUME NEW owed \in Nat, NEW premium \in 0..BPS
    PROVE  (owed * (BPS - premium)) \div BPS \in 0..owed
<1>1. BPS \in Nat \ {0} /\ BPS - premium \in 0..BPS
  BY DEF BPS
<1> QED
  BY <1>1, PartDown

(* A slice of a SELL output is worth at least the floor of the leg, and    *)
(* the premium only lifts it.                                              *)
LEMMA SellOutput ==
    ASSUME NEW buy \in BOOLEAN, ~buy, NEW leg \in Legs, Falls(leg),
           NEW ctx \in Contexts, ctx.prev <= ctx.new
    PROVE  /\ OutputAt(buy, leg, ctx) \in Nat
           /\ Worst(leg) * (ctx.new - ctx.prev) <= OutputAt(buy, leg, ctx) * ctx.anchor
<1>1. PICK delta \in Nat : delta = ctx.new - ctx.prev
  BY DEF Contexts
<1>2. PICK tick \in Nat : tick = OutTick(leg, ctx.bump) /\ Worst(leg) <= tick
  BY TicksInBand DEF Contexts, Legs, Worst
<1>3. ctx.anchor \in Nat \ {0} /\ ctx.override \in 0..BPS /\ Worst(leg) \in Nat
  BY DEF Contexts, Legs, Worst
<1>4. delta * tick \in Nat /\ Worst(leg) * delta <= delta * tick
  BY <1>2, <1>3, SMT
<1>5. PICK amt \in Nat : amt = CeilDiv(delta * tick, ctx.anchor) /\ delta * tick <= ctx.anchor * amt
  BY <1>3, <1>4, CeilDivBounds
<1>6. OutputAt(buy, leg, ctx) \in Nat /\ amt <= OutputAt(buy, leg, ctx)
  <2>1. CASE amt # 0 /\ ctx.override # 0 /\ leg.own
    <3>1. OutputAt(buy, leg, ctx) = CeilDiv(amt * (BPS + ctx.override), BPS)
      BY <1>1, <1>2, <1>5, <2>1 DEF OutputAt
    <3> QED
      BY <1>3, <3>1, PremiumUp
  <2>2. CASE ~(amt # 0 /\ ctx.override # 0 /\ leg.own)
    <3>1. OutputAt(buy, leg, ctx) = amt
      BY <1>1, <1>2, <1>5, <2>2 DEF OutputAt
    <3> QED
      BY <3>1
  <2> QED
    BY <2>1, <2>2
<1>7. amt * ctx.anchor <= OutputAt(buy, leg, ctx) * ctx.anchor
  BY <1>3, <1>6, TimesMonotone
<1>8. PICK w \in Nat, a \in Nat, out \in Nat :
         w = Worst(leg) /\ a = ctx.anchor /\ out = OutputAt(buy, leg, ctx)
  BY <1>3, <1>6
<1>9. w * delta <= out * a
  BY <1>2, <1>4, <1>5, <1>7, <1>8, SMT
<1> QED
  BY <1>1, <1>6, <1>8, <1>9

(* A slice of a BUY output is what became due, the whole fill included.    *)
LEMMA BuyOutput ==
    ASSUME NEW buy \in BOOLEAN, buy, NEW leg \in Legs, NEW ctx \in Contexts, ctx.prev <= ctx.new
    PROVE  LET before == CeilDiv(leg.start * ctx.prev, ctx.anchor)
               after == CeilDiv(leg.start * ctx.new, ctx.anchor)
           IN  /\ before \in Nat /\ after \in Nat /\ before <= after
               /\ OutputAt(buy, leg, ctx) = after - before
<1>1. /\ ctx.anchor \in Nat \ {0} /\ ctx.prev \in Nat /\ ctx.new \in Nat /\ leg.start \in Nat
  BY DEF Contexts, Legs
<1>2. PICK x \in Nat, y \in Nat : x = leg.start * ctx.prev /\ y = leg.start * ctx.new /\ x <= y
  BY <1>1, SMT
<1>3. CeilDiv(x, ctx.anchor) \in Nat /\ CeilDiv(y, ctx.anchor) \in Nat
      /\ CeilDiv(x, ctx.anchor) <= CeilDiv(y, ctx.anchor)
  BY <1>1, <1>2, CeilDivBounds, CeilDivMonotone
<1>4. FullFill(ctx) => CeilDiv(x, ctx.anchor) = 0 /\ CeilDiv(y, ctx.anchor) = leg.start
  <2>1. ASSUME FullFill(ctx) PROVE x = 0 /\ y = leg.start * ctx.anchor
    BY <1>1, <1>2, <2>1 DEF FullFill
  <2> QED
    BY <1>1, <2>1, CeilDivExact DEF CeilDiv
<1>5. OutputAt(buy, leg, ctx) = CeilDiv(y, ctx.anchor) - CeilDiv(x, ctx.anchor)
  <2>1. CASE FullFill(ctx)
    BY <1>1, <1>4, <2>1 DEF OutputAt
  <2>2. CASE ~FullFill(ctx)
    BY <1>2, <2>2 DEF OutputAt
  <2> QED
    BY <2>1, <2>2
<1> QED
  BY <1>2, <1>3, <1>5

(* A slice of an input that follows the tick costs at most its ceiling.    *)
LEMMA AuctionedInput ==
    ASSUME NEW buy \in BOOLEAN, NEW leg \in Legs, Rises(leg), buy \/ leg.end # 0,
           NEW ctx \in Contexts, ctx.prev <= ctx.new
    PROVE  /\ InputOwed(buy, leg, ctx) \in Nat
           /\ InputOwed(buy, leg, ctx) * ctx.anchor <= Worst(leg) * (ctx.new - ctx.prev)
<1>1. PICK delta \in Nat : delta = ctx.new - ctx.prev
  BY DEF Contexts
<1>2. PICK tick \in Nat : tick = InTick(leg, ctx.bump) /\ tick <= Worst(leg)
  BY TicksInBand DEF Contexts, Legs, Worst
<1>3. ctx.anchor \in Nat \ {0} /\ ctx.override \in 0..BPS /\ Worst(leg) \in Nat
  BY DEF Contexts, Legs, Worst
<1>4. delta * tick \in Nat /\ delta * tick <= Worst(leg) * delta
  BY <1>2, <1>3, SMT
<1>5. PICK owed \in Nat : owed = (delta * tick) \div ctx.anchor /\ ctx.anchor * owed <= delta * tick
  BY <1>3, <1>4, DivBounds
<1>6. InputOwed(buy, leg, ctx) \in Nat /\ InputOwed(buy, leg, ctx) <= owed
  <2>1. CASE ctx.override # 0
    <3>1. InputOwed(buy, leg, ctx) = (owed * (BPS - ctx.override)) \div BPS
      BY <1>1, <1>2, <1>5, <2>1 DEF InputOwed
    <3> QED
      BY <1>3, <3>1, PremiumDown
  <2>2. CASE ctx.override = 0
    <3>1. InputOwed(buy, leg, ctx) = owed
      BY <1>1, <1>2, <1>5, <2>2 DEF InputOwed
    <3> QED
      BY <3>1
  <2> QED
    BY <1>3, <2>1, <2>2
<1>7. InputOwed(buy, leg, ctx) * ctx.anchor <= owed * ctx.anchor
  BY <1>3, <1>6, TimesMonotone
<1>8. PICK w \in Nat, a \in Nat, in \in Nat :
         w = Worst(leg) /\ a = ctx.anchor /\ in = InputOwed(buy, leg, ctx)
  BY <1>3, <1>6
<1>9. in * a <= w * delta
  BY <1>2, <1>4, <1>5, <1>7, <1>8, SMT
<1> QED
  BY <1>1, <1>6, <1>8, <1>9

(* A slice of a fixed SELL input is what became due, rounded down.         *)
LEMMA FixedInput ==
    ASSUME NEW buy \in BOOLEAN, ~buy, NEW leg \in Legs, leg.end = 0, NEW ctx \in Contexts, ctx.prev <= ctx.new
    PROVE  LET before == (leg.start * ctx.prev) \div ctx.anchor
               after == (leg.start * ctx.new) \div ctx.anchor
           IN  /\ before \in Nat /\ after \in Nat /\ before <= after
               /\ InputOwed(buy, leg, ctx) = after - before
<1>1. /\ ctx.anchor \in Nat \ {0} /\ ctx.prev \in Nat /\ ctx.new \in Nat /\ leg.start \in Nat
  BY DEF Contexts, Legs
<1>2. PICK x \in Nat, y \in Nat : x = leg.start * ctx.prev /\ y = leg.start * ctx.new /\ x <= y
  BY <1>1, SMT
<1>3. x \div ctx.anchor \in Nat /\ y \div ctx.anchor \in Nat /\ x \div ctx.anchor <= y \div ctx.anchor
  BY <1>1, <1>2, DivBounds, DivMonotone
<1>4. FullFill(ctx) => x \div ctx.anchor = 0 /\ y \div ctx.anchor = leg.start
  <2>1. ASSUME FullFill(ctx) PROVE x = 0 * ctx.anchor /\ y = leg.start * ctx.anchor
    BY <1>1, <1>2, <2>1 DEF FullFill
  <2> QED
    BY <1>1, <2>1, DivExact
<1>5. InputOwed(buy, leg, ctx) = y \div ctx.anchor - x \div ctx.anchor
  <2>1. CASE FullFill(ctx)
    BY <1>1, <1>4, <2>1 DEF InputOwed
  <2>2. CASE ~FullFill(ctx)
    BY <1>2, <2>2 DEF InputOwed
  <2> QED
    BY <2>1, <2>2
<1> QED
  BY <1>2, <1>3, <1>5

(* A filler that names the least bump it will fill at loses nothing by a   *)
(* later one: at a higher bump every leg asks for no more and gives no     *)
(* less (_openFill, the quote floor).                                      *)
THEOREM QuoteFloorSound ==
    ASSUME NEW buy \in BOOLEAN, NEW leg \in Legs, NEW ctx \in Contexts, NEW later \in Contexts,
           ctx.prev <= ctx.new, ctx.bump <= later.bump,
           later.anchor = ctx.anchor, later.prev = ctx.prev, later.new = ctx.new,
           later.override = ctx.override
    PROVE  /\ Falls(leg) => OutputAt(buy, leg, later) <= OutputAt(buy, leg, ctx)
           /\ Rises(leg) => InputOwed(buy, leg, ctx) <= InputOwed(buy, leg, later)
<1>1. PICK delta \in Nat : delta = ctx.new - ctx.prev
  BY DEF Contexts
<1>2. PICK a \in Nat \ {0}, k \in 0..BPS : a = ctx.anchor /\ k = ctx.override
  BY DEF Contexts
<1>3. PICK b \in 0..BPS, c \in 0..BPS : b = ctx.bump /\ c = later.bump /\ b <= c
  BY DEF Contexts
<1>4. BPS \in Nat \ {0}
  BY DEF BPS
<1>5. FullFill(later) = FullFill(ctx)
  BY DEF FullFill
<1>6. ASSUME Falls(leg) PROVE OutputAt(buy, leg, later) <= OutputAt(buy, leg, ctx)
  <2>1. CASE buy
    <3>1. OutputAt(buy, leg, later) = OutputAt(buy, leg, ctx)
      BY <1>5, <2>1 DEF OutputAt
    <3>2. OutputAt(buy, leg, ctx) \in Int
      <4>1. PICK u \in Nat, v \in Nat : OutputAt(buy, leg, ctx) = v - u
        BY <2>1, BuyOutput
      <4> QED
        BY <4>1
    <3> QED
      BY <3>1, <3>2
  <2>2. CASE ~buy
    <3>1. PICK x \in Nat, y \in Nat : x = OutTick(leg, c) /\ y = OutTick(leg, b) /\ x <= y
      <4>1. OutTick(leg, c) \in Nat /\ OutTick(leg, b) \in Nat
        BY <1>6, TicksInBand DEF Worst, Legs
      <4> QED
        BY <1>3, <1>6, <4>1, TicksMonotone
    <3>2. PICK dx \in Nat, dy \in Nat : dx = delta * x /\ dy = delta * y /\ dx <= dy
      BY <1>1, <3>1, SMT
    <3>3. PICK u \in Nat, v \in Nat : u = CeilDiv(dx, a) /\ v = CeilDiv(dy, a) /\ u <= v
      BY <1>2, <3>2, CeilDivBounds, CeilDivMonotone
    <3>4. /\ OutputAt(buy, leg, later) =
              IF u # 0 /\ k # 0 /\ leg.own THEN CeilDiv(u * (BPS + k), BPS) ELSE u
          /\ OutputAt(buy, leg, ctx) =
              IF v # 0 /\ k # 0 /\ leg.own THEN CeilDiv(v * (BPS + k), BPS) ELSE v
      BY <1>1, <1>2, <1>3, <2>2, <3>1, <3>2, <3>3 DEF OutputAt
    <3>5. PICK p \in Nat, q \in Nat : p = u * (BPS + k) /\ q = v * (BPS + k) /\ p <= q
      BY <1>2, <1>4, <3>3, SMT
    <3>6. CeilDiv(p, BPS) \in Nat /\ CeilDiv(q, BPS) \in Nat /\ CeilDiv(p, BPS) <= CeilDiv(q, BPS)
      BY <1>4, <3>5, CeilDivBounds, CeilDivMonotone
    <3>7. CASE k # 0 /\ leg.own /\ u # 0
      <4>1. v # 0
        BY <3>3, <3>7
      <4> QED
        BY <3>4, <3>5, <3>6, <3>7, <4>1
    <3>8. CASE k # 0 /\ leg.own /\ u = 0
      <4>1. 0 <= OutputAt(buy, leg, ctx)
        BY <3>3, <3>4, <3>5, <3>6
      <4> QED
        BY <3>4, <3>8, <4>1
    <3>9. CASE ~(k # 0 /\ leg.own)
      BY <3>3, <3>4, <3>9
    <3> QED
      BY <3>7, <3>8, <3>9
  <2> QED
    BY <2>1, <2>2
<1>7. ASSUME Rises(leg) PROVE InputOwed(buy, leg, ctx) <= InputOwed(buy, leg, later)
  <2>1. CASE ~(buy \/ leg.end # 0)
    <3>1. InputOwed(buy, leg, later) = InputOwed(buy, leg, ctx)
      BY <1>5, <2>1 DEF InputOwed
    <3>2. InputOwed(buy, leg, ctx) \in Int
      <4>1. PICK u \in Nat, v \in Nat : InputOwed(buy, leg, ctx) = v - u
        BY <2>1, FixedInput
      <4> QED
        BY <4>1
    <3> QED
      BY <3>1, <3>2
  <2>2. CASE buy \/ leg.end # 0
    <3>1. PICK x \in Nat, y \in Nat : x = InTick(leg, b) /\ y = InTick(leg, c) /\ x <= y
      <4>1. InTick(leg, b) \in Nat /\ InTick(leg, c) \in Nat
        BY <1>7, TicksInBand DEF Worst, Legs
      <4> QED
        BY <1>3, <1>7, <4>1, TicksMonotone
    <3>2. PICK dx \in Nat, dy \in Nat : dx = delta * x /\ dy = delta * y /\ dx <= dy
      BY <1>1, <3>1, SMT
    <3>3. PICK u \in Nat, v \in Nat : u = dx \div a /\ v = dy \div a /\ u <= v
      <4>1. dx \div a \in Nat /\ dy \div a \in Nat
        BY <1>2, DivBounds
      <4>2. dx \div a <= dy \div a
        BY <1>2, <3>2, DivMonotone
      <4> QED
        BY <4>1, <4>2
    <3>4. /\ InputOwed(buy, leg, ctx) = IF k # 0 THEN (u * (BPS - k)) \div BPS ELSE u
          /\ InputOwed(buy, leg, later) = IF k # 0 THEN (v * (BPS - k)) \div BPS ELSE v
      BY <1>1, <1>2, <1>3, <2>2, <3>1, <3>2, <3>3 DEF InputOwed
    <3>5. BPS - k \in Nat
      BY <1>2, <1>4
    <3>6. PICK p \in Nat, q \in Nat : p = u * (BPS - k) /\ q = v * (BPS - k) /\ p <= q
      BY <3>3, <3>5, SMT
    <3>7. p \div BPS <= q \div BPS
      BY <1>4, <3>6, DivMonotone
    <3> QED
      BY <3>3, <3>4, <3>6, <3>7
  <2> QED
    BY <2>1, <2>2
<1> QED
  BY <1>6, <1>7

-----------------------------------------------------------------------------
(* Amounts relative to a balance.                                          *)

(* What a maker encodes is what the contract reads, and the legs above the *)
(* threshold are exactly those (Proportional).                             *)
THEOREM ProportionalRoundTrip ==
    ASSUME NEW max \in Nat, max >= BPS, NEW amount \in 0..max
    PROVE  /\ \A share \in 1..BPS : /\ IsProportional(max, Encode(max, share))
                                   /\ Share(max, Encode(max, share)) = share
           /\ IsProportional(max, amount) <=> Share(max, amount) \in 1..BPS
           /\ IsProportional(max, amount) => Encode(max, Share(max, amount)) = amount
<1>1. BPS \in Nat
  BY DEF BPS
<1>2. ASSUME NEW share \in 1..BPS
      PROVE  /\ IsProportional(max, Encode(max, share))
             /\ Share(max, Encode(max, share)) = share
  BY <1>1 DEF IsProportional, Share, Encode
<1>3. IsProportional(max, amount) <=> Share(max, amount) \in 1..BPS
  BY <1>1 DEF IsProportional, Share
<1>4. IsProportional(max, amount) => Encode(max, Share(max, amount)) = amount
  BY <1>1 DEF Share, Encode
<1> QED
  BY <1>2, <1>3, <1>4

(* A share of a balance takes no more than the balance and no more than    *)
(* the cap the maker signed, and a leg without a cap takes nothing.        *)
THEOREM ResolvedIsCapped ==
    ASSUME NEW max \in Nat, NEW balance \in Nat, NEW leg \in Legs,
           leg.start \in 0..max, IsProportional(max, leg.start),
           NEW amount \in Resolve(max, balance, leg)
    PROVE  leg.end # 0 /\ amount \in Nat /\ amount <= balance /\ amount <= leg.end
<1>1. BPS \in Nat \ {0} /\ leg.end \in Nat
  BY DEF BPS, Legs
<1>2. Share(max, leg.start) \in 0..BPS
  BY <1>1 DEF IsProportional, Share
<1>3. (balance * Share(max, leg.start)) \div BPS \in 0..balance
  BY <1>1, <1>2, PartDown
<1> QED
  BY <1>1, <1>3 DEF Resolve, Least

-----------------------------------------------------------------------------
(* What a fill asks of the tokens.                                         *)

(* A slice of a signed total is no less than nothing.                      *)
LEMMA ProrateNat ==
    ASSUME TypeOK, todo # <<>>, NEW total \in Nat
    PROVE  Prorate(total) \in Nat
<1>1. PICK a \in Nat \ {0}, x \in Nat, y \in Nat :
        a = frame.ctx.anchor /\ x = frame.ctx.prev /\ y = frame.ctx.new /\ x <= y
  BY DEF TypeOK, Opened, Frames, Contexts
<1>2. PICK p \in Nat, q \in Nat : p = total * x /\ q = total * y /\ p <= q
  BY <1>1, SMT
<1>3. p \div a \in Nat /\ q \div a \in Nat /\ p \div a <= q \div a
  BY <1>1, <1>2, DivBounds, DivMonotone
<1> QED
  BY <1>1, <1>2, <1>3 DEF Prorate

(* Neither the slice of a fund nor that of an item is negative.            *)
LEMMA SliceNat ==
    ASSUME TypeOK, todo # <<>>
    PROVE  /\ \A fund \in Funds : ForSlice(fund) \subseteq Nat
           /\ \A item \in Items : Slice(item) \subseteq Nat
<1>1. ASSUME NEW fund \in Funds, NEW n \in ForSlice(fund) PROVE n \in Nat
  <2>1. fund.n \in Nat /\ fund.token \in Tokens
    BY DEF Funds
  <2>2. CASE fund.how = "literal"
    BY <2>1, <2>2, ProrateNat DEF ForSlice
  <2>3. CASE fund.how \in {"leg", "prefund"}
    <3>1. n = frame.outs[fund.n] /\ fund.n \in DOMAIN Outs
      BY <2>3 DEF ForSlice, Usable
    <3> QED
      BY <3>1 DEF TypeOK, Opened, Frames
  <2>4. CASE fund.how \notin {"literal", "leg", "prefund"}
    <3>1. n = Least(world.bal[Maker][fund.token], fund.n)
      BY <2>4 DEF ForSlice
    <3>2. world.bal[Maker][fund.token] \in Nat
      BY <2>1, Actors DEF TypeOK, Worlds
    <3> QED
      BY <2>1, <3>1, <3>2 DEF Least
  <2> QED
    BY <2>2, <2>3, <2>4
<1>2. ASSUME NEW item \in Items PROVE Slice(item) \subseteq Nat
  <2>1. item.fund \in Funds /\ item.amount \in Nat
    BY DEF Items
  <2> QED
    BY <1>1, <2>1, ProrateNat DEF Slice
<1> QED
  BY <1>1, <1>2

(* An item does nobody wrong, and a sealed maker's position is not drawn.  *)
LEMMA TakeResult ==
    ASSUME TypeOK, todo # <<>>, NEW item \in Items, NEW n \in Nat, NEW V \in Take(item, n)
    PROVE  Fair(world, V)
<1>1. item.fund \in Funds /\ item.fund.token \in Tokens /\ order \in Shapes
  BY DEF Items, Funds, TypeOK
<1>2. PICK W \in Authorised(item, n) :
        V \in Then(IF item.op = "take" THEN {W}
                   ELSE Then(ForSlice(item.fund), LAMBDA m :
                          IF m = 0 THEN {} ELSE Supply(W, item.fund, item.fund.token, m)),
                   LAMBDA X : Draw(X, item, n))
  BY DEF Take, Then
<1>3. Even(world, W) /\ ~Sealed(world) /\ W \in Worlds
  BY <1>2, AuthorisedResult DEF Even
<1>4. PICK X \in (IF item.op = "take" THEN {W}
                  ELSE Then(ForSlice(item.fund), LAMBDA m :
                         IF m = 0 THEN {} ELSE Supply(W, item.fund, item.fund.token, m))) :
        V \in Draw(X, item, n)
  BY <1>2 DEF Then
<1>5. Even(W, X)
  <2>1. CASE item.op = "take"
    BY <1>3, <1>4, <2>1, FairRefl DEF Fair
  <2>2. CASE item.op # "take"
    <3>1. PICK m \in ForSlice(item.fund) : X \in Supply(W, item.fund, item.fund.token, m)
      BY <1>4, <2>2 DEF Then
    <3>2. m \in Nat
      BY <1>1, SliceNat
    <3> QED
      BY <1>1, <1>3, <3>1, <3>2, SupplyResult DEF Fair
  <2> QED
    BY <2>1, <2>2
<1>6. Even(X, V)
  BY <1>4, <1>5, DrawIsEven DEF Even
<1> QED
  BY <1>3, <1>5, <1>6, EvenTrans DEF Fair

(* What a leg is due, or owes, is an amount.                               *)
LEMMA DueNat ==
    ASSUME order \in Shapes, NEW f, Opened(f)
    PROVE  /\ \A j \in DOMAIN Outs : OutputAt(Buy, Outs[j], f.ctx) \in Nat
           /\ \A i \in DOMAIN Ins : InputOwed(Buy, Ins[i], f.ctx) \in Nat
<1>1. f.ctx \in Contexts /\ f.ctx.prev <= f.ctx.new
  BY DEF Opened, Frames
<1>2. ASSUME NEW j \in DOMAIN Outs PROVE OutputAt(Buy, Outs[j], f.ctx) \in Nat
  <2>1. Outs[j] \in Legs /\ Buy \in BOOLEAN
    BY OrderFields
  <2>2. CASE Buy
    <3>1. PICK x \in Nat, y \in Nat : x <= y /\ OutputAt(Buy, Outs[j], f.ctx) = y - x
      BY <1>1, <2>1, <2>2, BuyOutput
    <3> QED
      BY <3>1
  <2>3. CASE ~Buy
    BY <1>1, <2>1, <2>3, SellOutput DEF Opened
  <2> QED
    BY <2>2, <2>3
<1>3. ASSUME NEW i \in DOMAIN Ins PROVE InputOwed(Buy, Ins[i], f.ctx) \in Nat
  <2>1. Ins[i] \in Legs /\ Buy \in BOOLEAN /\ Rises(Ins[i])
    BY OrderFields DEF Opened
  <2>2. CASE Buy \/ Ins[i].end # 0
    BY <1>1, <2>1, <2>2, AuctionedInput
  <2>3. CASE ~(Buy \/ Ins[i].end # 0)
    <3>1. PICK x \in Nat, y \in Nat : x <= y /\ InputOwed(Buy, Ins[i], f.ctx) = y - x
      BY <1>1, <2>1, <2>3, FixedInput
    <3> QED
      BY <3>1
  <2> QED
    BY <2>2, <2>3
<1> QED
  BY <1>2, <1>3

-----------------------------------------------------------------------------
(* The calls that are left.                                                *)

Left(s, c) == \E i \in DOMAIN s : s[i] = c
Distinct(s) == \A i, k \in DOMAIN s : s[i] = s[k] => i = k

(* What is left of the calls when the first one is gone.                   *)
LEMMA TailResult ==
    ASSUME NEW S, NEW s \in Seq(S), s # <<>>
    PROVE  /\ Head(s) \in S /\ Tail(s) \in Seq(S)
           /\ Distinct(s) => /\ Distinct(Tail(s))
                          /\ \A c : Left(Tail(s), c) <=> Left(s, c) /\ c # Head(s)
<1>1. /\ Len(s) \in Nat \ {0} /\ DOMAIN s = 1..Len(s) /\ Head(s) = s[1]
      /\ Head(s) \in S /\ Tail(s) \in Seq(S)
      /\ DOMAIN Tail(s) = 1..(Len(s) - 1)
      /\ \A i \in 1..(Len(s) - 1) : Tail(s)[i] = s[i + 1]
  BY LenProperties, HeadTailProperties
<1>2. ASSUME Distinct(s) PROVE Distinct(Tail(s))
  <2> SUFFICES ASSUME NEW i \in 1..(Len(s) - 1), NEW k \in 1..(Len(s) - 1), s[i + 1] = s[k + 1]
               PROVE  i = k
    BY <1>1 DEF Distinct
  <2>1. i + 1 \in DOMAIN s /\ k + 1 \in DOMAIN s
    BY <1>1
  <2> QED
    BY <1>2, <2>1 DEF Distinct
<1>3. ASSUME Distinct(s), NEW c PROVE Left(Tail(s), c) <=> Left(s, c) /\ c # Head(s)
  <2>1. ASSUME Left(Tail(s), c) PROVE Left(s, c) /\ c # Head(s)
    <3>1. PICK i \in 1..(Len(s) - 1) : c = s[i + 1]
      BY <1>1, <2>1 DEF Left
    <3>2. i + 1 \in DOMAIN s /\ 1 \in DOMAIN s /\ i + 1 # 1
      BY <1>1
    <3> QED
      BY <1>1, <1>3, <3>1, <3>2 DEF Left, Distinct
  <2>2. ASSUME Left(s, c), c # Head(s) PROVE Left(Tail(s), c)
    <3>1. PICK i \in DOMAIN s : c = s[i] /\ i # 1
      BY <1>1, <2>2 DEF Left
    <3>2. i - 1 \in 1..(Len(s) - 1) /\ (i - 1) + 1 = i
      BY <1>1, <3>1
    <3> QED
      BY <1>1, <3>1, <3>2 DEF Left
  <2> QED
    BY <2>1, <2>2
<1> QED
  BY <1>1, <1>2, <1>3

(* One call for each entry of a list, and no call twice.                   *)
LEMMA StepsResult ==
    ASSUME NEW S, NEW seq \in Seq(S), NEW kind
    PROVE  /\ Steps(kind, seq) \in Seq({kind} \X DOMAIN seq)
           /\ Distinct(Steps(kind, seq)) /\ \A i \in DOMAIN seq : Left(Steps(kind, seq), <<kind, i>>)
<1>1. Len(seq) \in Nat /\ DOMAIN seq = 1..Len(seq)
  BY LenProperties
<1>2. /\ DOMAIN Steps(kind, seq) = DOMAIN seq
      /\ \A i \in DOMAIN seq : Steps(kind, seq)[i] = <<kind, i>>
  BY DEF Steps
<1>3. Steps(kind, seq) \in [1..Len(seq) -> {kind} \X DOMAIN seq]
  BY <1>1 DEF Steps
<1>4. Steps(kind, seq) \in Seq({kind} \X DOMAIN seq)
  BY <1>1, <1>3, SeqDef
<1>5. Distinct(Steps(kind, seq))
  BY <1>2 DEF Distinct
<1>6. \A i \in DOMAIN seq : Left(Steps(kind, seq), <<kind, i>>)
  BY <1>2 DEF Left
<1> QED
  BY <1>4, <1>5, <1>6

(* Two lists of different calls, one after the other.                      *)
LEMMA ConcatResult ==
    ASSUME NEW S, NEW T, S \cap T = {}, NEW s \in Seq(S), NEW t \in Seq(T), Distinct(s), Distinct(t)
    PROVE  /\ s \o t \in Seq(S \cup T)
           /\ Distinct(s \o t)
           /\ \A c : Left(s, c) \/ Left(t, c) => Left(s \o t, c)
<1>1. s \in Seq(S \cup T) /\ t \in Seq(S \cup T)
  OBVIOUS
<1>2. /\ s \o t \in Seq(S \cup T) /\ Len(s \o t) = Len(s) + Len(t)
      /\ \A i \in 1..(Len(s) + Len(t)) : (s \o t)[i] = IF i <= Len(s) THEN s[i] ELSE t[i - Len(s)]
  BY <1>1, ConcatProperties
<1>3. /\ Len(s) \in Nat /\ Len(t) \in Nat /\ DOMAIN s = 1..Len(s) /\ DOMAIN t = 1..Len(t)
      /\ \A i \in DOMAIN s : s[i] \in S
      /\ \A i \in DOMAIN t : t[i] \in T
  BY LenProperties
<1>4. DOMAIN (s \o t) = 1..(Len(s) + Len(t))
  BY <1>2, LenProperties
<1>5. Distinct(s \o t)
  <2> SUFFICES ASSUME NEW i \in 1..(Len(s) + Len(t)), NEW k \in 1..(Len(s) + Len(t)),
                      (s \o t)[i] = (s \o t)[k]
               PROVE  i = k
    BY <1>4 DEF Distinct
  <2>1. CASE i <= Len(s) /\ k <= Len(s)
    <3>1. i \in DOMAIN s /\ k \in DOMAIN s /\ s[i] = s[k]
      BY <1>2, <1>3, <2>1
    <3> QED
      BY <3>1 DEF Distinct
  <2>2. CASE i > Len(s) /\ k > Len(s)
    <3>1. i - Len(s) \in DOMAIN t /\ k - Len(s) \in DOMAIN t /\ t[i - Len(s)] = t[k - Len(s)]
      BY <1>2, <1>3, <2>2
    <3>2. i - Len(s) = k - Len(s)
      BY <3>1 DEF Distinct
    <3> QED
      BY <1>3, <3>2
  <2>3. CASE i <= Len(s) /\ k > Len(s)
    <3>1. i \in DOMAIN s /\ k - Len(s) \in DOMAIN t /\ s[i] = t[k - Len(s)]
      BY <1>2, <1>3, <2>3
    <3> QED
      BY <1>3, <3>1
  <2>4. CASE i > Len(s) /\ k <= Len(s)
    <3>1. k \in DOMAIN s /\ i - Len(s) \in DOMAIN t /\ s[k] = t[i - Len(s)]
      BY <1>2, <1>3, <2>4
    <3> QED
      BY <1>3, <3>1
  <2> QED
    BY <1>3, <2>1, <2>2, <2>3, <2>4
<1>6. ASSUME NEW c, Left(s, c) PROVE Left(s \o t, c)
  <2>1. PICK i \in DOMAIN s : c = s[i]
    BY <1>6 DEF Left
  <2>2. i \in 1..(Len(s) + Len(t)) /\ (s \o t)[i] = s[i]
    BY <1>2, <1>3
  <2> QED
    BY <1>4, <2>1, <2>2 DEF Left
<1>7. ASSUME NEW c, Left(t, c) PROVE Left(s \o t, c)
  <2>1. PICK i \in DOMAIN t : c = t[i]
    BY <1>7 DEF Left
  <2>2. i + Len(s) \in 1..(Len(s) + Len(t)) /\ ~(i + Len(s) <= Len(s)) /\ (i + Len(s)) - Len(s) = i
    BY <1>3
  <2>3. (s \o t)[i + Len(s)] = t[i]
    BY <1>2, <2>2
  <2> QED
    BY <1>4, <2>1, <2>2, <2>3 DEF Left
<1> QED
  BY <1>2, <1>5, <1>6, <1>7

(* A plan has every leg once.                                              *)
LEMMA PlanResult ==
    ASSUME order \in Shapes, NEW entry
    PROVE  /\ Plan(entry) \in Seq(Calls) /\ Distinct(Plan(entry))
           /\ \A j \in DOMAIN Outs : Left(Plan(entry), <<"deliver", j>>)
           /\ \A i \in DOMAIN Ins : Left(Plan(entry), <<"pay", i>>)
<1> DEFINE D == Steps("deliver", Outs)
           I == Steps("item", order.items)
           P == Steps("pay", Ins)
           SD == {"deliver"} \X DOMAIN Outs
           SI == {"item"} \X DOMAIN order.items
           SP == {"pay"} \X DOMAIN Ins
           SF == SD \cup SI
           F == D \o I
<1>1. Outs \in Seq(Legs) /\ Ins \in Seq(Legs) /\ order.items \in Seq(Items)
  BY OrderFields
<1>2. /\ D \in Seq(SD) /\ Distinct(D) /\ \A j \in DOMAIN Outs : Left(D, <<"deliver", j>>)
      /\ I \in Seq(SI) /\ Distinct(I)
      /\ P \in Seq(SP) /\ Distinct(P) /\ \A i \in DOMAIN Ins : Left(P, <<"pay", i>>)
  BY <1>1, StepsResult
<1>3. SD \cap SI = {} /\ SP \cap SD = {} /\ SF \cap SP = {}
  OBVIOUS
<1>4. SP \cup SD \subseteq Calls /\ SF \cup SP \subseteq Calls
  BY DEF Calls
<1>5. Plan(entry) = IF entry \in InputsFirst THEN P \o D ELSE F \o P
  <2>1. (D \o I) \o P = D \o I \o P
    OBVIOUS
  <2> QED
    BY <2>1 DEF Plan
<1> HIDE DEF D, I, P, SD, SI, SP, SF
<1>6. /\ F \in Seq(SF) /\ Distinct(F) /\ \A c : Left(D, c) \/ Left(I, c) => Left(F, c)
  BY <1>2, <1>3, ConcatResult DEF SF
<1> HIDE DEF F
<1>7. /\ P \o D \in Seq(SP \cup SD) /\ Distinct(P \o D)
      /\ \A c : Left(P, c) \/ Left(D, c) => Left(P \o D, c)
  BY <1>2, <1>3, ConcatResult
<1>8. /\ F \o P \in Seq(SF \cup SP) /\ Distinct(F \o P)
      /\ \A c : Left(F, c) \/ Left(P, c) => Left(F \o P, c)
  BY <1>2, <1>3, <1>6, ConcatResult
<1>9. P \o D \in Seq(Calls) /\ F \o P \in Seq(Calls)
  BY <1>4, <1>7, <1>8
<1> QED
  BY <1>2, <1>5, <1>6, <1>7, <1>8, <1>9


-----------------------------------------------------------------------------
(* What each call does.                                                    *)

(* The next call is one of the order's.                                    *)
LEMMA NextCall ==
    ASSUME TypeOK, todo # <<>>
    PROVE  /\ Head(todo) \in Calls /\ Tail(todo) \in Seq(Calls)
           /\ Due("deliver") => At \in DOMAIN Outs /\ Head(todo) = <<"deliver", At>>
           /\ Due("item") => At \in DOMAIN order.items /\ Head(todo) = <<"item", At>>
           /\ Due("pay") => At \in DOMAIN Ins /\ Head(todo) = <<"pay", At>>
<1>1. Head(todo) \in Calls /\ Tail(todo) \in Seq(Calls)
  BY TailResult DEF TypeOK
<1>2. \A c \in Calls :
        /\ c[1] = "deliver" => c[2] \in DOMAIN Outs /\ c = <<"deliver", c[2]>>
        /\ c[1] = "item" => c[2] \in DOMAIN order.items /\ c = <<"item", c[2]>>
        /\ c[1] = "pay" => c[2] \in DOMAIN Ins /\ c = <<"pay", c[2]>>
  BY DEF Calls
<1> QED
  BY <1>1, <1>2 DEF Due, At

(* What a call leaves of the frame.                                        *)
Same(f) == Opened(f) /\ f.saved = frame.saved /\ f.ctx = frame.ctx

(* A call that does nobody wrong.                                          *)
Good(V) ==
    /\ V \in Worlds /\ V.filled = world.filled
    /\ Honest(world) => Honest(V)
    /\ Sealed(world) => Held(world, V)

(* A delivery is one of what the leg is due, at its receiver.              *)
LEMMA DeliverResult ==
    ASSUME TypeOK, Deliver
    PROVE  \E V, f : /\ Step(V, f) /\ Same(f) /\ Good(V)
                     /\ At \in DOMAIN Outs /\ Head(todo) = <<"deliver", At>>
                     /\ V.paid = world.paid
                     /\ V.delivered = [world.delivered EXCEPT
                                         ![At] = @ + OutputAt(Buy, Outs[At], frame.ctx)]
<1> DEFINE t == order.outTok[At]
           to == order.outTo[At]
           n == OutputAt(Buy, Outs[At], frame.ctx)
<1>1. todo # <<>> /\ Due("deliver")
  BY DEF Deliver, Due
<1>2. At \in DOMAIN Outs /\ Head(todo) = <<"deliver", At>>
  BY <1>1, NextCall
<1>3. order \in Shapes /\ world \in Worlds /\ Opened(frame)
  BY <1>1 DEF TypeOK
<1>4. t \in Tokens /\ to \in Accounts /\ to # Filler /\ n \in Nat
  BY <1>2, <1>3, OrderFields, DueNat
<1>5. PICK W \in Delivered(t, to, n) :
        Step([W EXCEPT !.delivered[At] = @ + IF order.verify THEN n ELSE W.bal[to][t] - world.bal[to][t]],
             [frame EXCEPT !.outs[At] = n])
  BY DEF Deliver
<1> HIDE DEF t, to, n
<1>6. Fair(world, W) /\ (~order.verify => W.bal[to][t] = world.bal[to][t] + n)
  <2>0. Filler \in Accounts /\ Filler \in {Maker, Filler} /\ Filler # Maker
    BY Actors
  <2>1. CASE n = 0 \/ order.verify
    <3>1. W = world
      BY <1>5, <2>1 DEF Delivered
    <3>2. world.bal[to][t] \in Nat
      BY <1>3, <1>4 DEF Worlds
    <3>3. ~order.verify => world.bal[to][t] = world.bal[to][t] + n
      BY <2>1, <3>2
    <3> QED
      BY <1>3, <3>1, <3>3, FairRefl
  <2>2. CASE n # 0 /\ ~order.verify /\ frame.direct
    <3>1. W \in Move(world, t, Filler, to, n)
      BY <1>5, <2>2 DEF Delivered
    <3> QED
      BY <1>3, <1>4, <2>0, <3>1, MoveResult, MoveIsFair
  <2>3. CASE n # 0 /\ ~order.verify /\ ~frame.direct
    <3>1. W \in Pull(world, t, Filler, to, n)
      BY <1>5, <2>3 DEF Delivered
    <3> QED
      BY <1>3, <1>4, <2>0, <3>1, PullResult
  <2> QED
    BY <2>1, <2>2, <2>3
<1>7. W \in Worlds /\ Kept(world, W)
  BY <1>6 DEF Fair, Even
<1> DEFINE D == [world.delivered EXCEPT ![At] = @ + n]
           V == [W EXCEPT !.delivered = D]
           f == [frame EXCEPT !.outs[At] = n]
<1>8. D \in [DOMAIN Outs -> Int]
  <2>1. world.delivered \in [DOMAIN Outs -> Int]
    BY <1>3 DEF Worlds
  <2>2. world.delivered[At] + n \in Int
    BY <1>2, <1>4, <2>1
  <2> QED
    BY <2>1, <2>2
<1>9. Step(V, f)
  <2>1. (IF order.verify THEN n ELSE W.bal[to][t] - world.bal[to][t]) = n
    <3>1. world.bal[to][t] \in Nat
      BY <1>3, <1>4 DEF Worlds
    <3> QED
      BY <1>4, <1>6, <3>1
  <2>2. [W EXCEPT !.delivered[At] = @ + n] = V
    BY <1>7 DEF Worlds, Kept
  <2> QED
    BY <1>5, <2>1, <2>2
<1>10. Same(f)
  <2>1. frame.outs \in [DOMAIN Outs -> Nat] /\ frame \in Frames
    BY <1>3 DEF Opened, Frames
  <2> DEFINE o == [frame.outs EXCEPT ![At] = n]
  <2>2. o \in [DOMAIN Outs -> Nat] /\ f = [frame EXCEPT !.outs = o]
    BY <1>4, <2>1 DEF Frames
  <2> HIDE DEF o
  <2>3. f \in Frames /\ f.saved = frame.saved /\ f.ctx = frame.ctx
    BY <2>1, <2>2 DEF Frames
  <2> HIDE DEF f
  <2> QED
    BY <1>3, <2>3 DEF Same, Opened
<1> HIDE DEF D
<1>11. /\ V \in Worlds /\ V.filled = world.filled /\ V.paid = world.paid /\ V.delivered = D
       /\ V.hub = W.hub /\ V.direct = W.direct /\ V.uses = W.uses /\ V.net = W.net
       /\ V.bal = W.bal /\ V.stake = W.stake
  BY <1>7, <1>8 DEF Worlds, Kept
<1> HIDE DEF V, f
<1>12. Good(V)
  <2>1. Honest(world) => Honest(V)
    BY <1>6, <1>11, HonestSame DEF Fair, Even
  <2>2. Sealed(world) => Held(world, V)
    BY <1>6, <1>11 DEF Fair, Held, Sealed, Worth
  <2> QED
    BY <1>11, <2>1, <2>2 DEF Good
<1>13. D = [world.delivered EXCEPT ![At] = @ + OutputAt(Buy, Outs[At], frame.ctx)]
  BY DEF D, n
<1> QED
  BY <1>2, <1>9, <1>10, <1>11, <1>12, <1>13

(* An item changes no leg.                                                 *)
LEMMA ItemResult ==
    ASSUME TypeOK, RunItem
    PROVE  \E V, f : /\ Step(V, f) /\ Same(f) /\ Good(V)
                     /\ At \in DOMAIN order.items /\ Head(todo) = <<"item", At>>
                     /\ V.delivered = world.delivered /\ V.paid = world.paid
<1> DEFINE item == order.items[At]
<1>1. todo # <<>> /\ Due("item")
  BY DEF RunItem, Due
<1>2. At \in DOMAIN order.items /\ Head(todo) = <<"item", At>>
  BY <1>1, NextCall
<1>3. order \in Shapes /\ world \in Worlds /\ Opened(frame) /\ frame \in Frames
  BY <1>1 DEF TypeOK, Opened
<1>4. item \in Items /\ item.fund \in Funds /\ item.token \in Tokens
  <2>1. item \in Items
    BY <1>2, <1>3, OrderFields
  <2> QED
    BY <2>1 DEF Items
<1>5. Based \in Frames /\ Based.saved = frame.saved /\ Based.ctx = frame.ctx
  <2>1. world.bal[Settlement] \in [Tokens -> Nat]
    BY <1>3, Actors DEF Worlds
  <2> QED
    BY <1>3, <2>1 DEF Based, Frames
<1>6. UsedBy(item.fund) \subseteq DOMAIN Outs
  BY <1>3 DEF UsedBy, Frames
<1>7. PICK n \in Slice(item) :
        IF n = 0
        THEN item.op # "take_for" /\ Step(world, Based)
        ELSE \E W \in IF item.op = "make" THEN Make(item, n) ELSE Take(item, n) :
               Step(W, [Based EXCEPT !.used = UsedBy(item.fund),
                                     !.permit = IF item.op = "take" THEN {} ELSE @])
  BY DEF RunItem
<1>8. n \in Nat
  BY <1>1, <1>4, SliceNat
<1> HIDE DEF item
<1>9. CASE n = 0
  <2>1. Step(world, Based)
    BY <1>7, <1>9
  <2>2. Same(Based)
    BY <1>3, <1>5 DEF Same, Opened
  <2>3. Good(world)
    BY <1>3, FairRefl DEF Good, Fair, Even
  <2> QED
    BY <1>2, <2>1, <2>2, <2>3
<1>10. CASE n # 0
  <2> DEFINE f == [Based EXCEPT !.used = UsedBy(item.fund),
                                !.permit = IF item.op = "take" THEN {} ELSE @]
  <2>1. PICK W \in (IF item.op = "make" THEN Make(item, n) ELSE Take(item, n)) : Step(W, f)
    BY <1>7, <1>10
  <2>2. Same(f)
    <3>1. f \in Frames /\ f.saved = frame.saved /\ f.ctx = frame.ctx
      BY <1>5, <1>6 DEF Frames
    <3> HIDE DEF f
    <3> QED
      BY <1>3, <3>1 DEF Same, Opened
  <2>3. Fair(world, W)
    <3>1. CASE item.op = "make"
      <4>1. W \in Supply(world, item.fund, item.token, n)
        BY <2>1, <3>1 DEF Make
      <4> QED
        BY <1>3, <1>4, <1>8, <4>1, SupplyResult
    <3>2. CASE item.op # "make"
      BY <1>1, <1>4, <1>8, <2>1, <3>2, TakeResult
    <3> QED
      BY <3>1, <3>2
  <2>4. Good(W) /\ W.delivered = world.delivered /\ W.paid = world.paid
    BY <2>3 DEF Good, Fair, Even, Kept
  <2> HIDE DEF f
  <2> QED
    BY <1>2, <2>1, <2>2, <2>4
<1> QED
  BY <1>9, <1>10

(* A filler gets what the leg owes, from the proceeds and the maker.       *)
LEMMA PaidResult ==
    ASSUME order \in Shapes, world \in Worlds, NEW t \in Tokens, NEW owed \in Nat, NEW proceeds \in Nat,
           NEW V \in PaidInput(t, owed, proceeds)
    PROVE  Fair(world, V) /\ V.bal[Filler][t] = world.bal[Filler][t] + owed
<1>1. /\ Settlement \in Accounts /\ Filler \in Accounts /\ Maker \in Accounts
      /\ Maker \in {Maker, Filler} /\ Maker # Filler /\ Settlement # Filler /\ Settlement # Maker
  BY Actors
<1>2. /\ Least(owed, proceeds) \in Nat /\ Less(proceeds, owed) \in Nat /\ Less(owed, proceeds) \in Nat
      /\ Least(owed, proceeds) + Less(owed, proceeds) = owed
  BY DEF Least, Less
<1>3. PICK W \in Move(world, t, Settlement, Filler, Least(owed, proceeds)) :
        V \in Then(Move(W, t, Settlement, Maker, Less(proceeds, owed)), LAMBDA X :
                   Pull(X, t, Maker, Filler, Less(owed, proceeds)))
  BY DEF PaidInput, Then
<1>4. PICK X \in Move(W, t, Settlement, Maker, Less(proceeds, owed)) :
        V \in Pull(X, t, Maker, Filler, Less(owed, proceeds))
  BY <1>3 DEF Then
<1>5. Fair(world, W) /\ W \in Worlds /\ W.bal[Filler][t] = world.bal[Filler][t] + Least(owed, proceeds)
  BY <1>1, <1>2, <1>3, MoveIsFair, MoveResult
<1>6. Fair(W, X) /\ X \in Worlds /\ X.bal[Filler][t] = W.bal[Filler][t]
  BY <1>1, <1>2, <1>4, <1>5, MoveIsFair, MoveResult
<1>7. Fair(X, V) /\ V.bal[Filler][t] = X.bal[Filler][t] + Less(owed, proceeds)
  BY <1>1, <1>2, <1>4, <1>6, PullResult
<1>8. Fair(world, V)
  <2>1. Fair(world, X)
    BY <1>5, <1>6, FairTrans
  <2> QED
    BY <1>7, <2>1, FairTrans
<1>9. world.bal[Filler][t] \in Nat
  BY <1>1 DEF Worlds
<1> QED
  BY <1>2, <1>5, <1>6, <1>7, <1>8, <1>9

(* The maker's leg is paid in full to where it is due, and nothing else is. *)
(* (Core._payInputsToSolver)                                               *)
LEMMA PayResult ==
    ASSUME TypeOK, Pay
    PROVE  \E V, f : /\ Step(V, f) /\ Same(f) /\ Good(V)
                     /\ At \in DOMAIN Ins /\ Head(todo) = <<"pay", At>>
                     /\ V.delivered = world.delivered
                     /\ V.paid = [world.paid EXCEPT ![At] = @ + InputOwed(Buy, Ins[At], frame.ctx)]
<1> DEFINE t == order.inTok[At]
           n == InputOwed(Buy, Ins[At], frame.ctx)
<1>1. todo # <<>> /\ Due("pay")
  BY DEF Pay, Due
<1>2. At \in DOMAIN Ins /\ Head(todo) = <<"pay", At>>
  BY <1>1, NextCall
<1>3. order \in Shapes /\ world \in Worlds /\ Opened(frame) /\ frame \in Frames
  BY <1>1 DEF TypeOK, Opened
<1>4. t \in Tokens /\ n \in Nat
  BY <1>2, <1>3, OrderFields, DueNat
<1>5. Proceeds(t) >= 0
  BY DEF Pay
<1>6. PICK W \in PaidInput(t, n, Proceeds(t)) :
        Step([W EXCEPT !.paid[At] = @ + W.bal[Filler][t] - world.bal[Filler][t]], frame)
  BY DEF Pay
<1>7. Proceeds(t) \in Nat
  <2>1. world.bal[Settlement][t] \in Nat /\ (frame.base = None \/ frame.base[t] \in Nat)
    BY <1>3, <1>4, Actors DEF Worlds, Frames
  <2>2. Proceeds(t) \in Int
    BY <2>1 DEF Proceeds
  <2> QED
    BY <1>5, <2>2
<1> HIDE DEF t, n
<1>8. Fair(world, W) /\ W.bal[Filler][t] = world.bal[Filler][t] + n
  BY <1>3, <1>4, <1>6, <1>7, PaidResult
<1>9. W \in Worlds /\ Kept(world, W)
  BY <1>8 DEF Fair, Even
<1> DEFINE D == [world.paid EXCEPT ![At] = @ + n]
           V == [W EXCEPT !.paid = D]
<1>10. world.paid \in [DOMAIN Ins -> Int] /\ world.paid[At] \in Int /\ D \in [DOMAIN Ins -> Int]
  <2>1. world.paid \in [DOMAIN Ins -> Int]
    BY <1>3 DEF Worlds
  <2>2. world.paid[At] + n \in Int
    BY <1>2, <1>4, <2>1
  <2> QED
    BY <1>2, <2>1, <2>2
<1>11. Step(V, frame)
  <2>1. world.bal[Filler][t] \in Nat /\ W.paid = world.paid
    BY <1>3, <1>4, <1>9, Actors DEF Worlds, Kept
  <2>2. W.paid[At] + W.bal[Filler][t] - world.bal[Filler][t] = world.paid[At] + n
    BY <1>4, <1>8, <1>10, <2>1
  <2>3. [W EXCEPT !.paid[At] = @ + W.bal[Filler][t] - world.bal[Filler][t]] = V
    <3>1. [W EXCEPT !.paid[At] = @ + W.bal[Filler][t] - world.bal[Filler][t]] =
            [W EXCEPT !.paid = [W.paid EXCEPT ![At] = @ + W.bal[Filler][t] - world.bal[Filler][t]]]
      BY <1>9 DEF Worlds
    <3>2. [W.paid EXCEPT ![At] = @ + W.bal[Filler][t] - world.bal[Filler][t]] = D
      BY <1>10, <2>1, <2>2
    <3> QED
      BY <3>1, <3>2
  <2> QED
    BY <1>6, <2>3
<1>12. Same(frame)
  BY <1>3 DEF Same
<1> HIDE DEF D
<1>13. /\ V \in Worlds /\ V.filled = world.filled /\ V.delivered = world.delivered /\ V.paid = D
       /\ V.hub = W.hub /\ V.direct = W.direct /\ V.uses = W.uses /\ V.net = W.net
       /\ V.bal = W.bal /\ V.stake = W.stake
  BY <1>9, <1>10 DEF Worlds, Kept
<1> HIDE DEF V
<1>14. Good(V)
  <2>1. Honest(world) => Honest(V)
    BY <1>8, <1>13, HonestSame DEF Fair, Even
  <2>2. Sealed(world) => Held(world, V)
    BY <1>8, <1>13 DEF Fair, Held, Sealed, Worth
  <2> QED
    BY <1>13, <2>1, <2>2 DEF Good
<1>15. D = [world.paid EXCEPT ![At] = @ + InputOwed(Buy, Ins[At], frame.ctx)]
  BY DEF D, n
<1> QED
  BY <1>2, <1>11, <1>12, <1>13, <1>14, <1>15


-----------------------------------------------------------------------------
(* What others do.                                                         *)

(* A change of the hub that forgets no nonce and raises no entry.          *)
LEMMA HubResult ==
    ASSUME order \in Shapes, NEW W \in Worlds, NEW H \in Hubs,
           W.hub.spent[Maker] \subseteq H.spent[Maker],
           \A s \in Spenders, k \in Keys :
             H.book[Maker][s][k].amount <= W.hub.book[Maker][s][k].amount
    PROVE  LET V == [W EXCEPT !.hub = H]
           IN  /\ Even(W, V)
               /\ V.hub = H /\ V.direct = W.direct /\ V.bal = W.bal /\ V.stake = W.stake
<1> DEFINE V == [W EXCEPT !.hub = H]
<1>1. /\ V \in Worlds /\ V.hub = H /\ V.direct = W.direct /\ V.bal = W.bal /\ V.stake = W.stake
      /\ V.uses = W.uses /\ V.net = W.net /\ Kept(W, V)
  BY DEF Worlds, Kept
<1> HIDE DEF V
<1>2. ASSUME Honest(W) PROVE Honest(V)
  <2>1. Once(V)
    BY <1>1, <1>2 DEF Honest, Once
  <2>2. ASSUME NEW s \in Spenders, NEW k \in Keys PROVE Claimed(V, s, k) <= Claimed(W, s, k)
    <3>1. /\ W.net[s][k] \in Int /\ V.net[s][k] = W.net[s][k]
          /\ W.hub.book[Maker][s][k].amount \in Nat /\ V.hub.book[Maker][s][k].amount \in Nat
      BY <1>1, ClaimedType
    <3> QED
      BY <1>1, <3>1 DEF Claimed
  <2> QED
    BY <1>1, <1>2, <2>1, <2>2, HonestIf
<1> QED
  BY <1>1, <1>2 DEF Even, V

(* What does not move its tokens takes nothing from the maker.             *)
LEMMA HeldIf ==
    ASSUME NEW W \in Worlds, NEW V, Sealed(V), V.bal = W.bal, V.stake = W.stake
    PROVE  Held(W, V)
<1>1. \A t \in Tokens : Worth(V, t) = Worth(W, t) /\ Worth(W, t) \in Int
  BY Actors DEF Worth, Worlds
<1> QED
  BY <1>1 DEF Held

(* A gift.                                                                 *)
LEMMA GiftResult ==
    ASSUME TypeOK, NEW a \in Accounts, NEW t \in Tokens, NEW n \in Gifts, Gift(a, t, n)
    PROVE  \E W : Stir(W) /\ Fair(world, W)
<1> DEFINE B == [world.bal EXCEPT ![a][t] = @ + n]
           L == IF a \in DOMAIN world.held /\ ~Measured(a, t)
                THEN [world.held EXCEPT ![a][t] = @ + n] ELSE world.held
           V == [world EXCEPT !.bal = B, !.held = L]
<1>1. world \in Worlds /\ n \in Nat
  BY ActorsAssumption DEF TypeOK
<1>2. Stir(V)
  <2> DEFINE X == [world EXCEPT !.bal[a][t] = @ + n]
  <2>1. X = [world EXCEPT !.bal = B] /\ X.held = world.held
    BY <1>1 DEF Worlds
  <2> HIDE DEF B
  <2>2. CASE a \in DOMAIN world.held /\ ~Measured(a, t)
    <3>1. Stir([X EXCEPT !.held[a][t] = @ + n])
      BY <2>1, <2>2 DEF Gift
    <3>2. [X EXCEPT !.held[a][t] = @ + n] = V
      BY <1>1, <2>1, <2>2 DEF Worlds
    <3> QED
      BY <3>1, <3>2
  <2>3. CASE ~(a \in DOMAIN world.held /\ ~Measured(a, t))
    <3>1. Stir(X)
      BY <2>1, <2>3 DEF Gift
    <3>2. X = V
      BY <1>1, <2>1, <2>3 DEF Worlds
    <3> QED
      BY <3>1, <3>2
  <2> QED
    BY <2>2, <2>3
<1>3. /\ world.bal \in [Accounts -> [Tokens -> Nat]] /\ B \in [Accounts -> [Tokens -> Nat]]
      /\ \A u \in Tokens : B[Maker][u] >= world.bal[Maker][u]
  <2>1. world.bal \in [Accounts -> [Tokens -> Nat]]
    BY <1>1 DEF Worlds
  <2>2. world.bal[a][t] + n \in Nat /\ world.bal[a][t] + n >= world.bal[a][t]
    BY <1>1, <2>1
  <2>3. B \in [Accounts -> [Tokens -> Nat]]
    BY <2>1, <2>2
  <2>4. ASSUME NEW u \in Tokens PROVE B[Maker][u] >= world.bal[Maker][u]
    <3>1. world.bal[Maker][u] \in Nat
      BY <2>1, Actors
    <3>2. B[Maker][u] = IF Maker = a /\ u = t THEN world.bal[a][t] + n ELSE world.bal[Maker][u]
      BY <2>1, Actors
    <3> QED
      BY <2>2, <3>1, <3>2
  <2> QED
    BY <2>1, <2>3, <2>4
<1>4. L \in [{Settlement, Module} -> [Tokens -> Nat]]
  <2>1. world.held \in [{Settlement, Module} -> [Tokens -> Nat]]
    BY <1>1 DEF Worlds
  <2>2. a \in DOMAIN world.held => world.held[a][t] + n \in Nat
    BY <1>1, <2>1
  <2> QED
    BY <2>1, <2>2
<1> HIDE DEF B, L
<1>5. /\ V \in Worlds /\ V.hub = world.hub /\ V.direct = world.direct /\ V.bal = B
      /\ V.stake = world.stake /\ V.uses = world.uses /\ V.net = world.net /\ Kept(world, V)
  BY <1>1, <1>3, <1>4 DEF Worlds, Kept
<1> HIDE DEF V
<1>6. \A u \in Tokens : Worth(V, u) >= Worth(world, u)
  <2>1. \A u \in Tokens : B[Maker][u] \in Nat /\ world.bal[Maker][u] \in Nat /\ world.stake[u] \in Int
    BY <1>1, <1>3, Actors DEF Worlds
  <2> QED
    BY <1>3, <1>5, <2>1 DEF Worth
<1>7. Fair(world, V)
  <2>1. Even(world, V)
    BY <1>5, HonestSame DEF Even
  <2> QED
    BY <1>5, <1>6, <2>1 DEF Fair, Held, Sealed
<1> QED
  BY <1>2, <1>7

(* Another spender that the maker approved draws on its own entry.         *)
LEMMA DappResult ==
    ASSUME TypeOK, NEW t \in Tokens, NEW n \in Gifts, DappDraws(t, n)
    PROVE  \E W : Stir(W) /\ Fair(world, W)
<1>1. world \in Worlds /\ order \in Shapes /\ n \in Nat /\ t \in Keys
  BY ActorsAssumption, Actors DEF TypeOK
<1>2. PICK W \in Drawn(world, Maker, Dapp, t, n) :
        /\ n <= W.bal[Maker][t]
        /\ Stir([W EXCEPT !.bal[Maker][t] = @ - n, !.elsewhere[t] = @ + n])
  BY DEF DappDraws
<1>3. Even(world, W) /\ ~Sealed(world) /\ W \in Worlds
  BY <1>1, <1>2, DrawnResult, Actors DEF Fair, Even
<1> DEFINE B == [W.bal EXCEPT ![Maker][t] = @ - n]
           E == [W.elsewhere EXCEPT ![t] = @ + n]
           V == [W EXCEPT !.bal = B, !.elsewhere = E]
<1>4. Stir(V)
  <2>1. V = [W EXCEPT !.bal[Maker][t] = @ - n, !.elsewhere[t] = @ + n]
    BY <1>3 DEF Worlds
  <2> QED
    BY <1>2, <2>1
<1>5. B \in [Accounts -> [Tokens -> Nat]] /\ E \in [Tokens -> Nat]
  <2>1. W.bal \in [Accounts -> [Tokens -> Nat]] /\ W.elsewhere \in [Tokens -> Nat]
    BY <1>3 DEF Worlds
  <2>2. W.bal[Maker][t] - n \in Nat /\ W.elsewhere[t] + n \in Nat
    BY <1>1, <1>2, <2>1, Actors
  <2> QED
    BY <2>1, <2>2
<1> HIDE DEF B, E
<1>6. Even(W, V)
  <2>1. V \in Worlds /\ V.hub = W.hub /\ V.net = W.net /\ V.uses = W.uses /\ Kept(W, V)
    BY <1>3, <1>5 DEF Worlds, Kept
  <2> QED
    BY <2>1, HonestSame DEF Even
<1> QED
  BY <1>3, <1>4, <1>6, EvenTrans DEF Fair

(* ... or by a permit that the maker signed for it.                        *)
LEMMA ShotResult ==
    ASSUME TypeOK, NEW n \in Gifts, DappUsesPermit(n)
    PROVE  \E W : Stir(W) /\ Fair(world, W)
<1>1. world \in Worlds /\ order \in Shapes /\ n \in Nat
  BY ActorsAssumption DEF TypeOK
<1>2. PICK p \in order.shots : \E H \in PermitTransfer(world.hub, world.now, Maker, p, n) :
        /\ n <= world.bal[Maker][p.key]
        /\ Stir([world EXCEPT !.hub = H, !.uses[p.nonce] = @ + 1,
                              !.bal[Maker][p.key] = @ - n, !.elsewhere[p.key] = @ + n])
  BY DEF DappUsesPermit
<1>3. PICK H \in PermitTransfer(world.hub, world.now, Maker, p, n) :
        /\ n <= world.bal[Maker][p.key]
        /\ Stir([world EXCEPT !.hub = H, !.uses[p.nonce] = @ + 1,
                              !.bal[Maker][p.key] = @ - n, !.elsewhere[p.key] = @ + n])
  BY <1>2
<1>4. p.nonce \in Nonces /\ p.nonce \in Signed /\ p.key \in Tokens
  <2>1. p \in OneShots /\ p.key \in Tokens
    BY <1>1, ShapesAssumption
  <2> QED
    BY <2>1 DEF OneShots, Signed
<1>5. H \in UseNonce(world.hub, Maker, p.nonce)
  BY <1>3 DEF PermitTransfer
<1> DEFINE W == [world EXCEPT !.hub = H, !.uses = [world.uses EXCEPT ![p.nonce] = @ + 1]]
<1>6. Even(world, W) /\ ~Sealed(world) /\ W.bal = world.bal /\ W.elsewhere = world.elsewhere
  BY <1>1, <1>4, <1>5, PermitResult
<1> DEFINE B == [world.bal EXCEPT ![Maker][p.key] = @ - n]
           E == [world.elsewhere EXCEPT ![p.key] = @ + n]
           V == [W EXCEPT !.bal = B, !.elsewhere = E]
<1>7. Stir(V)
  <2>1. V = [world EXCEPT !.hub = H, !.uses[p.nonce] = @ + 1,
                          !.bal[Maker][p.key] = @ - n, !.elsewhere[p.key] = @ + n]
    BY <1>1 DEF Worlds
  <2> QED
    BY <1>3, <2>1
<1>8. B \in [Accounts -> [Tokens -> Nat]] /\ E \in [Tokens -> Nat]
  <2>1. world.bal \in [Accounts -> [Tokens -> Nat]] /\ world.elsewhere \in [Tokens -> Nat]
    BY <1>1 DEF Worlds
  <2>2. world.bal[Maker][p.key] - n \in Nat /\ world.elsewhere[p.key] + n \in Nat
    BY <1>1, <1>3, <1>4, <2>1, Actors
  <2> QED
    BY <1>4, <2>1, <2>2
<1> HIDE DEF B, E, W
<1>9. Even(W, V)
  <2>1. W \in Worlds
    BY <1>6 DEF Even
  <2>2. V \in Worlds /\ V.hub = W.hub /\ V.net = W.net /\ V.uses = W.uses /\ Kept(W, V)
    BY <1>8, <2>1 DEF Worlds, Kept
  <2> QED
    BY <2>2, HonestSame DEF Even
<1> QED
  BY <1>6, <1>7, <1>9, EvenTrans DEF Fair

(* The maker's batch, presented by anyone.                                 *)
LEMMA BatchResult ==
    ASSUME TypeOK, SubmitBatch
    PROVE  \E W : Stir(W) /\ Fair(world, W)
<1>1. world \in Worlds /\ world.hub \in Hubs /\ world.now \in Nat /\ order \in Shapes
  BY DEF TypeOK, Worlds
<1>2. PICK b \in order.batch : \E H \in PermitBatch(world.hub, world.now, Maker, b) :
        Stir([world EXCEPT !.hub = H])
  BY DEF SubmitBatch
<1>3. PICK H \in PermitBatch(world.hub, world.now, Maker, b) : Stir([world EXCEPT !.hub = H])
  BY <1>2
<1>4. b \in Batches /\ b.nonce \in Signed
  BY <1>1, ShapesAssumption DEF Signed
<1>5. H \in Hubs /\ world.hub.spent[Maker] \subseteq H.spent[Maker]
  BY <1>1, <1>3, <1>4, BatchTypes, Actors
<1>6. ~Sealed(world)
  <2> SUFFICES ASSUME Sealed(world) PROVE FALSE
    OBVIOUS
  <2>1. Shut(world.hub, Maker, Signed)
    BY SealedIsShut
  <2> QED
    BY <1>1, <1>3, <1>4, <2>1, ShutBooksGiveNothing, Actors
<1> DEFINE V == [world EXCEPT !.hub = H]
<1>7. /\ V \in Worlds /\ V.hub = H /\ V.net = world.net /\ V.uses = world.uses
      /\ Kept(world, V)
  BY <1>1, <1>5 DEF Worlds, Kept
<1> HIDE DEF V
<1>8. Even(world, V)
  BY <1>1, <1>3, <1>7, HonestBatch DEF Even
<1> QED
  BY <1>3, <1>6, <1>8 DEF Fair, V

(* A call on Permit3 by the maker that keeps its books as shut and its     *)
(* strict mode as strict as they were.                                     *)
LEMMA CallResult ==
    ASSUME TypeOK, NEW H \in Hubs, MakerCalls(H), world.hub.spent[Maker] \subseteq H.spent[Maker],
           \A s \in Spenders, k \in Keys :
             H.book[Maker][s][k].amount <= world.hub.book[Maker][s][k].amount,
           Shut(world.hub, Maker, Signed) => Shut(H, Maker, Signed),
           \A t \in Tokens : IsStrict(world.hub, Maker, t) => IsStrict(H, Maker, t)
    PROVE  \E W : Stir(W) /\ Fair(world, W)
<1> DEFINE V == [world EXCEPT !.hub = H]
<1>1. world \in Worlds /\ order \in Shapes
  BY DEF TypeOK
<1>2. Stir(V)
  BY DEF MakerCalls
<1>3. /\ Even(world, V) /\ V.hub = H /\ V.direct = world.direct
      /\ V.bal = world.bal /\ V.stake = world.stake
  BY <1>1, HubResult
<1> HIDE DEF V
<1>4. ASSUME Sealed(world) PROVE Held(world, V)
  <2>1. Shut(H, Maker, Signed)
    BY <1>4, SealedIsShut
  <2>2. Sealed(V)
    BY <1>3, <1>4, <2>1 DEF Sealed, Shut
  <2> QED
    BY <1>1, <1>3, <2>2, HeldIf
<1> QED
  BY <1>2, <1>3, <1>4 DEF Fair


(* What the maker does to be safer, it may do when it is sealed.           *)
LEMMA LowersResult ==
    ASSUME TypeOK, MakerLowers
    PROVE  \E W : Stir(W) /\ Fair(world, W)
<1> DEFINE H == world.hub
           all == Spenders \X Keys
<1>1. /\ world \in Worlds /\ H \in Hubs /\ order \in Shapes /\ Maker \in Users
      /\ Shut(H, Maker, Signed) => Shut(H, Maker, Signed)
  BY Actors DEF TypeOK, Worlds
<1>2. Signed \in SUBSET Nonces
  BY <1>1, ShapesAssumption DEF Signed, Batches, OneShots
<1>3. ASSUME NEW s \in Spenders, NEW k \in Keys, MakerCalls(RevokeKey(H, Maker, s, k))
      PROVE  \E W : Stir(W) /\ Fair(world, W)
  <2>1. RevokeKey(H, Maker, s, k) \in Hubs
    BY <1>1, OwnCallsTypes
  <2>2. /\ RevokeKey(H, Maker, s, k).spent = H.spent /\ RevokeKey(H, Maker, s, k).strict = H.strict
        /\ RevokeKey(H, Maker, s, k).strictToken = H.strictToken
    BY <1>1 DEF RevokeKey, Hubs
  <2>3. Shut(H, Maker, Signed) => Shut(RevokeKey(H, Maker, s, k), Maker, Signed)
    BY <1>1, ShutStays
  <2>4. \A r \in Spenders, l \in Keys :
          RevokeKey(H, Maker, s, k).book[Maker][r][l].amount <= H.book[Maker][r][l].amount
    BY <1>1, OwnCallsLower
  <2> QED
    BY <1>3, <2>1, <2>2, <2>3, <2>4, CallResult DEF IsStrict
<1>14. \A r \in Spenders, l \in Keys :
         /\ Lockdown(H, Maker, all).book[Maker][r][l].amount <= H.book[Maker][r][l].amount
         /\ H.book[Maker][r][l].amount <= H.book[Maker][r][l].amount
  <2>1. \A r \in Spenders, l \in Keys : H.book[Maker][r][l].amount \in Nat
    BY <1>1, HubFields, UnlimitedAssumption
  <2> QED
    BY <1>1, <2>1, OwnCallsLower
<1>4. Lockdown(H, Maker, all) \in Hubs
  BY <1>1, LockdownTypes
<1>5. /\ Lockdown(H, Maker, all).spent = H.spent /\ Lockdown(H, Maker, all).strict = H.strict
      /\ Lockdown(H, Maker, all).strictToken = H.strictToken
  BY <1>1 DEF Lockdown, Hubs
<1>6. Shut(H, Maker, Signed) => Shut(Lockdown(H, Maker, all), Maker, Signed)
  BY <1>1, ShutStays
<1>7. CASE MakerCalls(Lockdown(H, Maker, all))
  BY <1>4, <1>5, <1>6, <1>7, <1>14, CallResult DEF IsStrict
<1>8. ASSUME NEW J \in Hubs
      PROVE  /\ InvalidateNonces(J, Maker, Signed) \in Hubs
             /\ J.spent[Maker] \subseteq InvalidateNonces(J, Maker, Signed).spent[Maker]
             /\ InvalidateNonces(J, Maker, Signed).book = J.book
             /\ InvalidateNonces(J, Maker, Signed).strict = J.strict
             /\ InvalidateNonces(J, Maker, Signed).strictToken = J.strictToken
             /\ Shut(J, Maker, Signed) => Shut(InvalidateNonces(J, Maker, Signed), Maker, Signed)
  <2>1. InvalidateNonces(J, Maker, Signed) \in Hubs
    BY <1>1, <1>2, OwnCallsTypes
  <2>2. /\ J.spent[Maker] \subseteq InvalidateNonces(J, Maker, Signed).spent[Maker]
        /\ InvalidateNonces(J, Maker, Signed).book = J.book
        /\ InvalidateNonces(J, Maker, Signed).strict = J.strict
        /\ InvalidateNonces(J, Maker, Signed).strictToken = J.strictToken
    BY <1>1 DEF InvalidateNonces, Hubs
  <2>3. Shut(J, Maker, Signed) => Shut(InvalidateNonces(J, Maker, Signed), Maker, Signed)
    BY <1>1, <1>2, ShutStays
  <2> QED
    BY <2>1, <2>2, <2>3
<1>9. CASE MakerCalls(InvalidateNonces(H, Maker, Signed))
  BY <1>1, <1>8, <1>9, <1>14, CallResult DEF IsStrict
<1>10. CASE MakerCalls(LockdownAll(H, Maker, all, Signed))
  BY <1>4, <1>5, <1>6, <1>8, <1>10, <1>14, CallResult DEF IsStrict, LockdownAll
<1>11. CASE MakerCalls(SetStrictMode(H, Maker, TRUE))
  <2>1. SetStrictMode(H, Maker, TRUE) \in Hubs
    BY <1>1, OwnCallsTypes
  <2>2. /\ SetStrictMode(H, Maker, TRUE).spent = H.spent
        /\ SetStrictMode(H, Maker, TRUE).book = H.book
        /\ H.strict \subseteq SetStrictMode(H, Maker, TRUE).strict
        /\ SetStrictMode(H, Maker, TRUE).strictToken = H.strictToken
    BY <1>1 DEF SetStrictMode, Hubs
  <2>3. Shut(H, Maker, Signed) => Shut(SetStrictMode(H, Maker, TRUE), Maker, Signed)
    BY <1>1, ShutStays
  <2> QED
    BY <1>11, <1>14, <2>1, <2>2, <2>3, CallResult DEF IsStrict
<1>12. ASSUME NEW t \in Tokens, MakerCalls(SetStrictModeToken(H, Maker, t, TRUE))
       PROVE  \E W : Stir(W) /\ Fair(world, W)
  <2>1. SetStrictModeToken(H, Maker, t, TRUE) \in Hubs
    BY <1>1, OwnCallsTypes
  <2>2. /\ SetStrictModeToken(H, Maker, t, TRUE).spent = H.spent
        /\ SetStrictModeToken(H, Maker, t, TRUE).book = H.book
        /\ SetStrictModeToken(H, Maker, t, TRUE).strict = H.strict
        /\ H.strictToken[Maker] \subseteq SetStrictModeToken(H, Maker, t, TRUE).strictToken[Maker]
    BY <1>1 DEF SetStrictModeToken, Hubs
  <2>3. Shut(H, Maker, Signed) => Shut(SetStrictModeToken(H, Maker, t, TRUE), Maker, Signed)
    BY <1>1, ShutStays
  <2> QED
    BY <1>12, <1>14, <2>1, <2>2, <2>3, CallResult DEF IsStrict
<1>13. CASE Stir([world EXCEPT !.direct = {d \in @ : d[1] # Maker}])
  <2> DEFINE D == {d \in world.direct : d[1] # Maker}
             V == [world EXCEPT !.direct = D]
  <2>1. D \subseteq world.direct
    OBVIOUS
  <2>2. Stir(V)
    BY <1>13
  <2> HIDE DEF D
  <2>3. /\ V \in Worlds /\ V.hub = world.hub /\ V.direct = D /\ V.bal = world.bal
        /\ V.stake = world.stake /\ V.uses = world.uses /\ V.net = world.net /\ Kept(world, V)
    BY <1>1, <2>1 DEF Worlds, Kept
  <2> HIDE DEF V
  <2>4. Sealed(world) => Sealed(V)
    BY <2>1, <2>3 DEF Sealed
  <2>5. Even(world, V)
    BY <2>3, HonestSame DEF Even
  <2> QED
    BY <1>1, <2>2, <2>3, <2>4, <2>5, HeldIf DEF Fair
<1> QED
  BY <1>3, <1>7, <1>9, <1>10, <1>11, <1>12, <1>13 DEF MakerLowers

(* A maker that grants afresh keeps its nonces spent.                      *)
LEMMA RaisesResult ==
    ASSUME TypeOK, MakerRaises
    PROVE  \E W : Stir(W) /\ Even(world, W)
<1>1. world \in Worlds /\ world.hub \in Hubs /\ Maker \in Users /\ order \in Shapes
  BY Actors DEF TypeOK, Worlds
<1>2. ASSUME NEW g \in Renewals,
             Stir([world EXCEPT !.hub = Approve(@, Maker, g), !.net[g.spender][g.key] = @ - g.amount])
      PROVE  \E W : Stir(W) /\ Even(world, W)
  <2> DEFINE H == Approve(world.hub, Maker, g)
             N == [world.net EXCEPT ![g.spender][g.key] = @ - g.amount]
             V == [world EXCEPT !.hub = H, !.net = N]
  <2>1. g \in Grants
    BY ActorsAssumption
  <2>2. H \in Hubs
    BY <1>1, <2>1, OwnCallsTypes
  <2>3. H.spent = world.hub.spent
    BY <1>1 DEF Approve, Hubs
  <2>8. \A s \in Spenders, k \in Keys :
          /\ H.book[Maker][s][k].amount =
                IF <<s, k>> = <<g.spender, g.key>> THEN g.amount ELSE world.hub.book[Maker][s][k].amount
          /\ N[s][k] =
                IF <<s, k>> = <<g.spender, g.key>> THEN world.net[s][k] - g.amount ELSE world.net[s][k]
    BY <1>1, <2>1 DEF Approve, Hubs, Worlds, Grants
  <2>4. N \in [Spenders -> [Keys -> Int]]
    <3>1. /\ world.net \in [Spenders -> [Keys -> Int]] /\ g.spender \in Spenders /\ g.key \in Keys
          /\ g.amount \in Int
      BY <1>1, <2>1, UnlimitedAssumption DEF Worlds, Grants
    <3>2. world.net[g.spender][g.key] - g.amount \in Int
      BY <3>1
    <3> QED
      BY <3>1, <3>2
  <2>5. Stir(V)
    <3>1. V = [world EXCEPT !.hub = Approve(@, Maker, g), !.net[g.spender][g.key] = @ - g.amount]
      BY <1>1 DEF Worlds
    <3> QED
      BY <1>2, <3>1
  <2> HIDE DEF H, N
  <2>6. V \in Worlds /\ V.hub = H /\ V.net = N /\ V.uses = world.uses /\ Kept(world, V)
    BY <1>1, <2>2, <2>4 DEF Worlds, Kept
  <2> HIDE DEF V
  <2>7. ASSUME Honest(world) PROVE Honest(V)
    <3>1. Once(V)
      BY <2>3, <2>6, <2>7 DEF Honest, Once
    <3>2. ASSUME NEW s \in Spenders, NEW k \in Keys PROVE Claimed(V, s, k) <= Claimed(world, s, k)
      <4>1. world.net[s][k] \in Int /\ world.hub.book[Maker][s][k].amount \in Nat
        BY <1>1, ClaimedType
      <4>2. g.amount \in Nat
        BY <2>1, UnlimitedAssumption DEF Grants
      <4> QED
        BY <2>6, <2>8, <4>1, <4>2 DEF Claimed
    <3> QED
      BY <1>1, <2>3, <2>6, <2>7, <3>1, <3>2, HonestIf
  <2>9. Even(world, V)
    BY <2>6, <2>7 DEF Even
  <2> QED
    BY <2>5, <2>9
<1>3. ASSUME NEW H \in Hubs, H.spent = world.hub.spent, H.book = world.hub.book, MakerCalls(H)
      PROVE  \E W : Stir(W) /\ Even(world, W)
  <2>2. \A s \in Spenders, k \in Keys : world.hub.book[Maker][s][k].amount \in Nat
    BY <1>1, HubFields, UnlimitedAssumption
  <2>1. Even(world, [world EXCEPT !.hub = H])
    BY <1>1, <1>3, <2>2, HubResult
  <2> QED
    BY <1>3, <2>1 DEF MakerCalls
<1>4. CASE MakerCalls(SetStrictMode(world.hub, Maker, FALSE))
  <2>1. SetStrictMode(world.hub, Maker, FALSE) \in Hubs
    BY <1>1, OwnCallsTypes
  <2>2. /\ SetStrictMode(world.hub, Maker, FALSE).spent = world.hub.spent
        /\ SetStrictMode(world.hub, Maker, FALSE).book = world.hub.book
    BY <1>1 DEF SetStrictMode, Hubs
  <2> QED
    BY <1>3, <1>4, <2>1, <2>2
<1>5. ASSUME NEW t \in Tokens, MakerCalls(SetStrictModeToken(world.hub, Maker, t, FALSE))
      PROVE  \E W : Stir(W) /\ Even(world, W)
  <2>1. SetStrictModeToken(world.hub, Maker, t, FALSE) \in Hubs
    BY <1>1, OwnCallsTypes
  <2>2. /\ SetStrictModeToken(world.hub, Maker, t, FALSE).spent = world.hub.spent
        /\ SetStrictModeToken(world.hub, Maker, t, FALSE).book = world.hub.book
    BY <1>1 DEF SetStrictModeToken, Hubs
  <2> QED
    BY <1>3, <1>5, <2>1, <2>2
<1>6. CASE Stir([world EXCEPT !.direct = @ \cup ({Maker} \X Tokens)])
  <2> DEFINE D == world.direct \cup ({Maker} \X Tokens)
             V == [world EXCEPT !.direct = D]
  <2>1. D \in SUBSET (Users \X Tokens)
    <3>1. world.direct \subseteq Users \X Tokens /\ {Maker} \X Tokens \subseteq Users \X Tokens
      BY <1>1 DEF Worlds
    <3> QED
      BY <3>1
  <2>2. Stir(V)
    BY <1>6
  <2> HIDE DEF D
  <2>3. /\ V \in Worlds /\ V.hub = world.hub /\ V.net = world.net /\ V.uses = world.uses
        /\ Kept(world, V)
    BY <1>1, <2>1 DEF Worlds, Kept
  <2> HIDE DEF V
  <2>4. Even(world, V)
    BY <2>3, HonestSame DEF Even
  <2> QED
    BY <2>2, <2>4
<1> QED
  BY <1>2, <1>4, <1>5, <1>6 DEF MakerRaises

(* Whatever others do between two calls or two fills.                      *)
LEMMA OthersResult ==
    ASSUME TypeOK, Others
    PROVE  \E W : /\ Stir(W) /\ Even(world, W)
                  /\ Sealed(world) /\ ~MakerRaises => Held(world, W)
<1>1. \A a \in {Maker, Settlement, Module, Treasury} : a \in Accounts
  BY DEF Accounts
<1>2. CASE MakerRaises
  BY <1>2, RaisesResult
<1>3. CASE ~MakerRaises
  <2>1. \E W : Stir(W) /\ Fair(world, W)
    BY <1>1, <1>3, GiftResult, DappResult, ShotResult, BatchResult, LowersResult DEF Others
  <2> QED
    BY <2>1 DEF Fair
<1> QED
  BY <1>2, <1>3


-----------------------------------------------------------------------------
(* The books of an open fill.                                              *)

(* Its context is one that Open made.                                      *)
Admitted(ctx) ==
    \E delta \in Sizes, m \in Days, premium \in {0, Terms.premium} :
      /\ delta > 0 /\ ctx.prev + delta <= Terms.anchor
      /\ ctx.anchor = Terms.anchor /\ ctx.new = ctx.prev + delta
      /\ ctx.bump \in Bumps(Terms.clock, m, Decays) /\ ctx.override = premium

(* A leg has moved by what it was due since the fill opened, once its call *)
(* is no longer among those left, and until then not at all.               *)
Moved(W, s, f) ==
    /\ f.saved.filled = f.ctx.prev /\ W.filled = f.ctx.new
    /\ Distinct(s)
    /\ \A j \in DOMAIN Outs :
         W.delivered[j] = f.saved.delivered[j]
                            + IF Left(s, <<"deliver", j>>) THEN 0 ELSE OutputAt(Buy, Outs[j], f.ctx)
    /\ \A i \in DOMAIN Ins :
         W.paid[i] = f.saved.paid[i]
                       + IF Left(s, <<"pay", i>>) THEN 0 ELSE InputOwed(Buy, Ins[i], f.ctx)

Inv ==
    /\ TypeOK /\ Honest(world)
    /\ todo # <<>> => Honest(frame.saved) /\ Admitted(frame.ctx) /\ Moved(world, todo, frame)

(* The order stays what it is, and with it all that is said of it.         *)
LEMMA SameOrder ==
    ASSUME order' = order
    PROVE  /\ Worlds' = Worlds /\ Calls' = Calls /\ Frames' = Frames
           /\ Terms' = Terms /\ Buy' = Buy /\ Outs' = Outs /\ Ins' = Ins /\ Decays' = Decays
<1>1. Terms' = Terms /\ Buy' = Buy /\ Outs' = Outs /\ Ins' = Ins
  BY DEF Terms, Buy, Outs, Ins
<1>2. Worlds' = Worlds /\ Calls' = Calls /\ Decays' = Decays
  BY <1>1 DEF Worlds, Calls, Decays
<1> QED
  BY <1>1, <1>2 DEF Frames

(* What must be shown of the next state.                                   *)
LEMMA InvNext ==
    ASSUME order \in Shapes, order' = order, world' \in Worlds, todo' \in Seq(Calls), Honest(world'),
           todo' # <<>> => /\ Opened(frame') /\ Honest(frame'.saved)
                           /\ Admitted(frame'.ctx) /\ Moved(world', todo', frame')
    PROVE  Inv'
<1>1. /\ Worlds' = Worlds /\ Calls' = Calls /\ Frames' = Frames
      /\ Terms' = Terms /\ Buy' = Buy /\ Outs' = Outs /\ Ins' = Ins /\ Decays' = Decays
  BY SameOrder
<1>2. TypeOK'
  BY <1>1 DEF TypeOK, Opened
<1>3. (Honest(world))'
  BY DEF Honest, Once, Within, Claimed, Unspent, Given
<1>4. ASSUME todo' # <<>> PROVE (Honest(frame.saved))' /\ (Admitted(frame.ctx))' /\ (Moved(world, todo, frame))'
  <2>1. (Honest(frame.saved))'
    BY <1>4 DEF Honest, Once, Within, Claimed, Unspent, Given
  <2>2. (Admitted(frame.ctx))'
    BY <1>1, <1>4 DEF Admitted
  <2>3. (Moved(world, todo, frame))'
    BY <1>1, <1>4 DEF Moved, Distinct, Left
  <2> QED
    BY <2>1, <2>2, <2>3
<1> QED
  BY <1>2, <1>3, <1>4 DEF Inv

(* A call moves its leg by what it is due.                                 *)
LEMMA CallMoves ==
    ASSUME Inv, Deliver \/ RunItem \/ Pay
    PROVE  \E V, f : /\ todo # <<>> /\ Step(V, f) /\ Same(f) /\ Good(V)
                     /\ Moved(V, Tail(todo), frame)
<1>1. TypeOK /\ todo # <<>> /\ Distinct(todo) /\ Moved(world, todo, frame)
  BY DEF Inv, Deliver, RunItem, Pay, Due, Moved
<1>2. /\ Distinct(Tail(todo))
      /\ \A c : Left(Tail(todo), c) <=> Left(todo, c) /\ c # Head(todo)
  BY <1>1, TailResult DEF TypeOK
<1>3. Left(todo, Head(todo))
  <2>1. 1 \in DOMAIN todo /\ todo[1] = Head(todo)
    BY <1>1, LenProperties, HeadTailProperties DEF TypeOK
  <2> QED
    BY <2>1 DEF Left
<1>4. /\ world.delivered \in [DOMAIN Outs -> Int] /\ world.paid \in [DOMAIN Ins -> Int]
      /\ frame.saved.delivered \in [DOMAIN Outs -> Int] /\ frame.saved.paid \in [DOMAIN Ins -> Int]
      /\ \A j \in DOMAIN Outs : OutputAt(Buy, Outs[j], frame.ctx) \in Nat
      /\ \A i \in DOMAIN Ins : InputOwed(Buy, Ins[i], frame.ctx) \in Nat
  <2>1. order \in Shapes /\ Opened(frame) /\ world \in Worlds /\ frame.saved \in Worlds
    BY <1>1 DEF TypeOK, Opened, Frames
  <2> QED
    BY <2>1, DueNat DEF Worlds
<1>5. CASE Deliver
  <2>1. PICK V, f : /\ Step(V, f) /\ Same(f) /\ Good(V)
                    /\ At \in DOMAIN Outs /\ Head(todo) = <<"deliver", At>>
                    /\ V.paid = world.paid
                    /\ V.delivered = [world.delivered EXCEPT
                                        ![At] = @ + OutputAt(Buy, Outs[At], frame.ctx)]
    BY <1>1, <1>5, DeliverResult
  <2>2. ASSUME NEW j \in DOMAIN Outs
        PROVE  V.delivered[j] = frame.saved.delivered[j]
                 + IF Left(Tail(todo), <<"deliver", j>>) THEN 0 ELSE OutputAt(Buy, Outs[j], frame.ctx)
    <3>1. world.delivered[j] = frame.saved.delivered[j]
            + IF Left(todo, <<"deliver", j>>) THEN 0 ELSE OutputAt(Buy, Outs[j], frame.ctx)
      BY <1>1 DEF Moved
    <3>2. CASE j = At
      BY <1>2, <1>3, <1>4, <2>1, <3>1, <3>2
    <3>3. CASE j # At
      <4>1. <<"deliver", j>> # Head(todo)
        BY <2>1, <3>3
      <4> QED
        BY <1>2, <1>4, <2>1, <3>1, <3>3, <4>1
    <3> QED
      BY <3>2, <3>3
  <2>3. \A i \in DOMAIN Ins : <<"pay", i>> # Head(todo)
    BY <2>1
  <2>4. Moved(V, Tail(todo), frame)
    BY <1>1, <1>2, <2>1, <2>2, <2>3 DEF Moved, Good
  <2> QED
    BY <1>1, <2>1, <2>4
<1>6. CASE RunItem
  <2>1. PICK V, f : /\ Step(V, f) /\ Same(f) /\ Good(V) /\ Head(todo) = <<"item", At>>
                    /\ V.delivered = world.delivered /\ V.paid = world.paid
    BY <1>1, <1>6, ItemResult
  <2>2. /\ \A j \in DOMAIN Outs : <<"deliver", j>> # Head(todo)
        /\ \A i \in DOMAIN Ins : <<"pay", i>> # Head(todo)
    BY <2>1
  <2>3. Moved(V, Tail(todo), frame)
    BY <1>1, <1>2, <2>1, <2>2 DEF Moved, Good
  <2> QED
    BY <1>1, <2>1, <2>3
<1>7. CASE Pay
  <2>1. PICK V, f : /\ Step(V, f) /\ Same(f) /\ Good(V)
                    /\ At \in DOMAIN Ins /\ Head(todo) = <<"pay", At>>
                    /\ V.delivered = world.delivered
                    /\ V.paid = [world.paid EXCEPT ![At] = @ + InputOwed(Buy, Ins[At], frame.ctx)]
    BY <1>1, <1>7, PayResult
  <2>2. ASSUME NEW i \in DOMAIN Ins
        PROVE  V.paid[i] = frame.saved.paid[i]
                 + IF Left(Tail(todo), <<"pay", i>>) THEN 0 ELSE InputOwed(Buy, Ins[i], frame.ctx)
    <3>1. world.paid[i] = frame.saved.paid[i]
            + IF Left(todo, <<"pay", i>>) THEN 0 ELSE InputOwed(Buy, Ins[i], frame.ctx)
      BY <1>1 DEF Moved
    <3>2. CASE i = At
      BY <1>2, <1>3, <1>4, <2>1, <3>1, <3>2
    <3>3. CASE i # At
      <4>1. <<"pay", i>> # Head(todo)
        BY <2>1, <3>3
      <4> QED
        BY <1>2, <1>4, <2>1, <3>1, <3>3, <4>1
    <3> QED
      BY <3>2, <3>3
  <2>3. \A j \in DOMAIN Outs : <<"deliver", j>> # Head(todo)
    BY <2>1
  <2>4. Moved(V, Tail(todo), frame)
    BY <1>1, <1>2, <2>1, <2>2, <2>3 DEF Moved, Good
  <2> QED
    BY <1>1, <2>1, <2>4
<1> QED
  BY <1>5, <1>6, <1>7

(* A fill opens with every leg still to come, and takes nothing from a     *)
(* sealed maker by the permit that it brings.                              *)
LEMMA OpenResult ==
    ASSUME TypeOK, Honest(world),
           NEW entry \in Entries, NEW delta \in Sizes, NEW m \in Days, NEW premium \in {0, Terms.premium},
           Open(entry, delta, m, premium)
    PROVE  /\ todo = <<>> /\ todo' = Plan(entry) /\ order' = order
           /\ world' \in Worlds /\ Honest(world') /\ (Sealed(world) => Held(world, world'))
           /\ Opened(frame') /\ frame'.saved = world
           /\ Admitted(frame'.ctx) /\ Moved(world', todo', frame')
<1>1. /\ todo = <<>> /\ todo' = Plan(entry) /\ order' = order
      /\ delta > 0 /\ world.filled + delta <= Terms.anchor
      /\ ~Buy => \A j \in DOMAIN Outs : Falls(Outs[j])
      /\ \A i \in DOMAIN Ins : Rises(Ins[i])
  BY DEF Open
<1>2. PICK H \in (IF entry = "permit"
                  THEN UNION {PermitBatchIfNeeded(world.hub, m.tick, Maker, b) : b \in order.batch}
                  ELSE {world.hub}),
           bump \in Bumps(Terms.clock, m, Decays) :
        /\ world' = [world EXCEPT !.hub = H, !.now = m.tick, !.filled = @ + delta]
        /\ frame' = [saved |-> world, direct |-> entry \in {"direct", "direct inputs"},
                     ctx |-> [anchor |-> Terms.anchor, prev |-> world.filled,
                              new |-> world.filled + delta, bump |-> bump, override |-> premium],
                     outs |-> [j \in DOMAIN Outs |-> 0], used |-> {}, base |-> None,
                     permit |-> IF entry = "take" THEN order.take ELSE {}]
  BY DEF Open
<1>3. /\ order \in Shapes /\ world \in Worlds /\ world.hub \in Hubs /\ Maker \in Users
      /\ delta \in Nat /\ m \in Moments /\ m.tick \in Nat /\ world.filled \in Nat
  BY OrdersAssumption, Actors DEF TypeOK, Worlds, Moments
<1>4. H \in Hubs /\ world.hub.spent[Maker] \subseteq H.spent[Maker] /\ (Sealed(world) => H = world.hub)
  <2>1. CASE entry = "permit"
    <3>1. PICK b \in order.batch : H \in PermitBatchIfNeeded(world.hub, m.tick, Maker, b)
      BY <1>2, <2>1
    <3>2. b \in Batches /\ b.nonce \in Signed
      BY <1>3, ShapesAssumption DEF Signed
    <3>3. H \in Hubs /\ world.hub.spent[Maker] \subseteq H.spent[Maker]
      BY <1>3, <3>1, <3>2, BatchTypes
    <3>4. ASSUME Sealed(world) PROVE H = world.hub
      <4>1. b.nonce \in world.hub.spent[Maker]
        BY <3>2, <3>4 DEF Sealed
      <4> QED
        BY <3>1, <4>1 DEF PermitBatchIfNeeded
    <3> QED
      BY <3>3, <3>4
  <2>2. CASE entry # "permit"
    BY <1>2, <1>3, <2>2
  <2> QED
    BY <2>1, <2>2
<1>5. /\ Terms.anchor \in Nat \ {0} /\ premium \in 0..BPS /\ bump \in 0..BPS
  <2>1. Terms.anchor \in Nat \ {0} /\ Terms.premium \in 0..BPS /\ Terms.clock \in Clocks
    BY <1>3, OrderFields
  <2>2. 0 \in 0..BPS /\ Decays \in BOOLEAN
    BY DEF BPS, Decays
  <2> QED
    BY <1>2, <1>3, <2>1, <2>2, BumpInRange, OrdersAssumption
<1>6. /\ world' \in Worlds /\ world'.hub = H /\ world'.filled = world.filled + delta
      /\ world'.bal = world.bal /\ world'.stake = world.stake /\ world'.direct = world.direct
      /\ world'.uses = world.uses /\ world'.net = world.net
      /\ world'.delivered = world.delivered /\ world'.paid = world.paid
  <2>1. world.filled + delta \in Nat
    BY <1>3
  <2> QED
    BY <1>2, <1>3, <1>4, <2>1 DEF Worlds
<1> DEFINE ctx == [anchor |-> Terms.anchor, prev |-> world.filled,
                   new |-> world.filled + delta, bump |-> bump, override |-> premium]
<1>7. ctx \in Contexts /\ ctx.prev <= ctx.new
  BY <1>1, <1>3, <1>5 DEF Contexts
<1>8. /\ frame' \in Frames /\ frame'.saved = world /\ frame'.ctx = ctx
  <2>1. [j \in DOMAIN Outs |-> 0] \in [DOMAIN Outs -> Nat]
    OBVIOUS
  <2>2. (entry \in {"direct", "direct inputs"}) \in BOOLEAN
    OBVIOUS
  <2>3. (IF entry = "take" THEN order.take ELSE {}) \in SUBSET order.take
    OBVIOUS
  <2> HIDE DEF ctx
  <2>4. frame' = [saved |-> world, direct |-> entry \in {"direct", "direct inputs"}, ctx |-> ctx,
                  outs |-> [j \in DOMAIN Outs |-> 0], used |-> {}, base |-> None,
                  permit |-> IF entry = "take" THEN order.take ELSE {}]
    BY <1>2 DEF ctx
  <2> QED
    BY <1>3, <1>7, <2>1, <2>2, <2>3, <2>4 DEF Frames
<1>9. Opened(frame')
  BY <1>1, <1>7, <1>8 DEF Opened
<1>10. Admitted(frame'.ctx)
  BY <1>1, <1>2, <1>8 DEF Admitted
<1>11. Moved(world', todo', frame')
  <2>1. /\ Distinct(Plan(entry))
        /\ \A j \in DOMAIN Outs : Left(Plan(entry), <<"deliver", j>>)
        /\ \A i \in DOMAIN Ins : Left(Plan(entry), <<"pay", i>>)
    BY <1>3, PlanResult
  <2>2. /\ \A j \in DOMAIN Outs : world.delivered[j] \in Int
        /\ \A i \in DOMAIN Ins : world.paid[i] \in Int
    BY <1>3 DEF Worlds
  <2>3. ctx.prev = world.filled /\ ctx.new = world.filled + delta
    OBVIOUS
  <2> HIDE DEF ctx
  <2> QED
    BY <1>1, <1>6, <1>8, <2>1, <2>2, <2>3 DEF Moved
<1>12. Honest(world')
  <2>1. CASE H = world.hub
    BY <1>6, <2>1, HonestSame
  <2>2. CASE H # world.hub
    <3>1. PICK b \in order.batch : H \in PermitBatchIfNeeded(world.hub, m.tick, Maker, b)
      BY <1>2, <2>2
    <3>2. H \in PermitBatch(world.hub, m.tick, Maker, b)
      BY <2>2, <3>1 DEF PermitBatchIfNeeded
    <3> QED
      BY <1>3, <1>6, <3>2, HonestBatch
  <2> QED
    BY <2>1, <2>2
<1>13. ASSUME Sealed(world) PROVE Held(world, world')
  <2>1. Sealed(world')
    BY <1>4, <1>6, <1>13 DEF Sealed
  <2> QED
    BY <1>3, <1>6, <2>1, HeldIf
<1> QED
  BY <1>1, <1>6, <1>8, <1>9, <1>10, <1>11, <1>12, <1>13


-----------------------------------------------------------------------------
(* Every step.                                                             *)

(* What others do changes the world and no more.                           *)
LEMMA StirResult ==
    ASSUME TypeOK, NEW W, Even(world, W), Stir(W)
    PROVE  /\ order' = order /\ todo' = todo /\ frame' = frame
           /\ world' \in Worlds /\ Kept(world, world') /\ (Honest(W) => Honest(world'))
           /\ Held(world, W) => Held(world, world')
<1>1. W \in Worlds /\ Kept(world, W)
  BY DEF Even
<1>2. /\ world' = [W EXCEPT !.stirred = @ + 1]
      /\ order' = order /\ todo' = todo /\ frame' = frame
  BY DEF Stir
<1>3. /\ world' \in Worlds /\ world'.hub = W.hub /\ world'.direct = W.direct /\ world'.bal = W.bal
      /\ world'.stake = W.stake /\ world'.uses = W.uses /\ world'.net = W.net /\ Kept(W, world')
  <2>1. W.stirred + 1 \in Nat
    BY <1>1 DEF Worlds
  <2> QED
    BY <1>1, <1>2, <2>1 DEF Worlds, Kept
<1>4. Honest(W) => Honest(world')
  BY <1>3, HonestSame
<1>5. Held(world, W) => Held(world, world')
  BY <1>3 DEF Held, Sealed, Worth
<1> QED
  BY <1>1, <1>2, <1>3, <1>4, <1>5 DEF Kept

(* The first state.                                                        *)
LEMMA InitInv == Init => Inv
<1> SUFFICES ASSUME Init PROVE Inv
  OBVIOUS
<1>1. order \in Shapes /\ todo = <<>>
  BY DEF Init
<1>2. /\ order.hub \in Hubs /\ order.direct \in SUBSET (Users \X Tokens)
      /\ order.wallet \in [Tokens -> Nat]
  BY <1>1, ShapesAssumption
<1> DEFINE B == [a \in Accounts |-> [t \in Tokens |->
                  IF a = Maker THEN order.wallet[t] ELSE IF a = Filler THEN 4 * Unlimited ELSE 0]]
<1>3. B \in [Accounts -> [Tokens -> Nat]]
  <2>1. 4 * Unlimited \in Nat
    BY UnlimitedAssumption
  <2> QED
    BY <1>2, <2>1
<1> HIDE DEF B
<1>4. world = [hub |-> order.hub, direct |-> order.direct, now |-> 0, bal |-> B,
               stake |-> [t \in Tokens |-> 0], filled |-> 0,
               delivered |-> [j \in DOMAIN Outs |-> 0], paid |-> [i \in DOMAIN Ins |-> 0],
               elsewhere |-> [t \in Tokens |-> 0],
               held |-> [a \in {Settlement, Module} |-> [t \in Tokens |-> 0]],
               net |-> [s \in Spenders |-> [k \in Keys |-> 0]],
               uses |-> [n \in Nonces |-> 0], stirred |-> 0]
  BY DEF Init, B
<1>5. world \in Worlds
  BY <1>2, <1>3, <1>4 DEF Worlds
<1>6. Honest(world)
  <2>1. Once(world)
    BY <1>4 DEF Once
  <2>2. ASSUME NEW s \in Spenders, NEW k \in Keys
        PROVE  Claimed(world, s, k) + Promised(Unspent(world), s, k) <= Given(s, k)
    <3>1. /\ order.hub.book[Maker][s][k].amount \in Nat
          /\ Claimed(world, s, k) = order.hub.book[Maker][s][k].amount
      <4>1. world.net[s][k] = 0 /\ world.hub = order.hub
        BY <1>4
      <4>2. world.hub.book[Maker][s][k].amount \in Nat
        BY <1>1, <1>5, ClaimedType
      <4> QED
        BY <4>1, <4>2 DEF Claimed
    <3>2. /\ Promised(order.batch, s, k) \in Nat /\ Promised(Unspent(world), s, k) \in Nat
          /\ Promised(Unspent(world), s, k) <= Promised(order.batch, s, k)
      BY <1>1, PromisedLess DEF Unspent
    <3> QED
      BY <3>1, <3>2 DEF Given
  <2> QED
    BY <2>1, <2>2 DEF Honest, Within
<1>7. todo \in Seq(Calls)
  BY <1>1
<1> QED
  BY <1>1, <1>5, <1>6, <1>7 DEF Inv, TypeOK

(* The invariant is inductive: each call moves its own leg by its due, and *)
(* nobody else moves any.                                                  *)
LEMMA StepKeepsInv == Inv /\ [Next]_vars => Inv'
<1> SUFFICES ASSUME Inv, [Next]_vars PROVE Inv'
  OBVIOUS
<1>1. TypeOK /\ Honest(world) /\ order \in Shapes
  BY DEF Inv, TypeOK
<1>2. ASSUME NEW entry \in Entries, NEW delta \in Sizes, NEW m \in Days,
             NEW premium \in {0, Terms.premium}, Open(entry, delta, m, premium)
      PROVE  Inv'
  <2>1. /\ todo' = Plan(entry) /\ order' = order /\ world' \in Worlds /\ Honest(world')
        /\ Opened(frame') /\ frame'.saved = world
        /\ Admitted(frame'.ctx) /\ Moved(world', todo', frame')
    BY <1>1, <1>2, OpenResult
  <2>2. todo' \in Seq(Calls)
    BY <1>1, <2>1, PlanResult
  <2> QED
    BY <1>1, <2>1, <2>2, InvNext
<1>3. CASE Deliver \/ RunItem \/ Pay
  <2>1. PICK V, f : /\ todo # <<>> /\ Step(V, f) /\ Same(f) /\ Good(V)
                    /\ Moved(V, Tail(todo), frame)
    BY <1>3, CallMoves
  <2>2. /\ world' = V /\ todo' = Tail(todo) /\ order' = order
        /\ todo' # <<>> => frame' = f
    BY <2>1 DEF Step
  <2>3. V \in Worlds /\ Honest(V)
    BY <1>1, <2>1 DEF Good
  <2>4. todo' \in Seq(Calls)
    BY <1>1, <2>1, <2>2, NextCall
  <2>5. Opened(f) /\ Honest(f.saved) /\ Admitted(f.ctx) /\ Moved(V, Tail(todo), f)
    BY <2>1 DEF Same, Inv, Moved
  <2> QED
    BY <1>1, <2>2, <2>3, <2>4, <2>5, InvNext
<1>4. CASE Revert
  <2>1. todo # <<>> /\ world' = frame.saved /\ todo' = <<>> /\ order' = order
    BY <1>4 DEF Revert
  <2>2. frame.saved \in Worlds /\ Honest(frame.saved)
    BY <2>1 DEF Inv, TypeOK, Opened, Frames
  <2>3. todo' \in Seq(Calls)
    BY <2>1
  <2> QED
    BY <1>1, <2>1, <2>2, <2>3, InvNext
<1>5. CASE Others
  <2>1. PICK W : Stir(W) /\ Even(world, W)
    BY <1>1, <1>5, OthersResult
  <2>2. /\ order' = order /\ todo' = todo /\ frame' = frame
        /\ world' \in Worlds /\ Kept(world, world') /\ Honest(world')
    BY <1>1, <2>1, StirResult DEF Even
  <2>3. todo # <<>> => /\ Opened(frame) /\ Honest(frame.saved)
                       /\ Admitted(frame.ctx) /\ Moved(world', todo, frame)
    BY <2>2 DEF Inv, TypeOK, Moved, Kept
  <2>4. todo \in Seq(Calls)
    BY <1>1 DEF TypeOK
  <2> QED
    BY <1>1, <2>2, <2>3, <2>4, InvNext
<1>6. CASE UNCHANGED vars
  <2>1. order' = order /\ todo' = todo /\ frame' = frame /\ world' = world
    BY <1>6 DEF vars
  <2>2. /\ world \in Worlds /\ todo \in Seq(Calls)
        /\ todo # <<>> => /\ Opened(frame) /\ Honest(frame.saved)
                          /\ Admitted(frame.ctx) /\ Moved(world, todo, frame)
    BY DEF Inv, TypeOK
  <2> QED
    BY <1>1, <2>1, <2>2, InvNext
<1> QED
  BY <1>2, <1>3, <1>4, <1>5, <1>6 DEF Next

(* It holds throughout.                                                    *)
LEMMA InvHolds == Spec => []Inv
BY InitInv, StepKeepsInv, PTL DEF Spec

(* All that any caller ever draws on the maker's books was granted to it,  *)
(* a batch being one grant however often and by whomever it is presented;  *)
(* and however often a one-shot permit is presented, by Settlement for an  *)
(* item or by a Dapp, and among however many on one nonce, it goes through *)
(* at most once (SignedPermits._applyBatchIfNeeded, SignatureTransfer,     *)
(* UnorderedNonces._useUnorderedNonce, Allowance.spend).                   *)
THEOREM OnlyTheGranted == Spec => []GrantedOnce
<1>1. Inv => GrantedOnce
  <2> SUFFICES ASSUME Inv PROVE GrantedOnce
    OBVIOUS
  <2>1. order \in Shapes /\ world \in Worlds /\ Once(world) /\ Within(world)
    BY DEF Inv, TypeOK, Honest
  <2>2. ASSUME NEW s \in Spenders, NEW k \in Keys PROVE world.net[s][k] <= Given(s, k)
    <3>1. /\ world.net[s][k] \in Int /\ world.hub.book[Maker][s][k].amount \in Nat
          /\ Given(s, k) \in Int
      BY <2>1, ClaimedType
    <3>2. Promised(Unspent(world), s, k) \in Nat
      BY <2>1, PromisedLess DEF Unspent
    <3>3. Claimed(world, s, k) + Promised(Unspent(world), s, k) <= Given(s, k)
      BY <2>1 DEF Within
    <3> QED
      BY <3>1, <3>2, <3>3 DEF Claimed
  <2>3. \A n \in Nonces : world.uses[n] <= 1
    BY <2>1 DEF Once
  <2> QED
    BY <2>2, <2>3 DEF GrantedOnce
<1> QED
  BY <1>1, InvHolds, PTL

(* A complete revoke: while the maker is sealed nobody but itself can      *)
(* unseal it, by an allowance, by anything signed, by a plain approval, in *)
(* the middle of a fill or not, and its wallet and position only grow;     *)
(* except that a fill which reverts takes back a revoke made in it         *)
(* (SECURITY.md, "a complete revoke").                                     *)
THEOREM RevokeStands == Spec => RevokeHolds
<1>1. ASSUME Inv, Next, Sealed(world), ~MakerRaises, ~Revert PROVE Held(world, world')
  <2>1. TypeOK /\ Honest(world) /\ world \in Worlds
    BY <1>1 DEF Inv, TypeOK
  <2>2. ASSUME NEW entry \in Entries, NEW delta \in Sizes, NEW m \in Days,
               NEW premium \in {0, Terms.premium}, Open(entry, delta, m, premium)
        PROVE  Held(world, world')
    BY <1>1, <2>1, <2>2, OpenResult
  <2>3. CASE Deliver \/ RunItem \/ Pay
    <3>1. PICK V, f : Step(V, f) /\ Good(V)
      BY <1>1, <2>3, CallMoves
    <3> QED
      BY <1>1, <3>1 DEF Step, Good
  <2>4. CASE Others
    <3>1. PICK W : Stir(W) /\ Even(world, W) /\ Held(world, W)
      BY <1>1, <2>1, <2>4, OthersResult
    <3> QED
      BY <2>1, <3>1, StirResult
  <2> QED
    BY <1>1, <2>2, <2>3, <2>4 DEF Next
<1>2. Inv /\ [Next]_vars =>
        [Sealed(world) /\ ~MakerRaises /\ ~Revert =>
           Sealed(world') /\ \A t \in Tokens : Worth(world', t) >= Worth(world, t)]_vars
  BY <1>1 DEF Held
<1> QED
  BY <1>2, InvHolds, PTL DEF Spec, RevokeHolds


-----------------------------------------------------------------------------
(* What the legs come to.                                                  *)

(* The prices of the slices are these.                                     *)
LEMMA SamePrices ==
    /\ \A buy, leg, ctx : Slices!OutputAt(buy, leg, ctx) = OutputAt(buy, leg, ctx)
    /\ \A buy, leg, ctx : Slices!InputOwed(buy, leg, ctx) = InputOwed(buy, leg, ctx)
    /\ \A o, m, decays : Slices!Bumps(o, m, decays) = Bumps(o, m, decays)
    /\ \A leg : Slices!Falls(leg) = Falls(leg) /\ Slices!Rises(leg) = Rises(leg)
<1>1. \A buy, leg, ctx : Slices!OutputAt(buy, leg, ctx) = OutputAt(buy, leg, ctx)
  BY DEF Slices!OutputAt, Slices!InputOwed, Slices!CeilDiv, Slices!FullFill,
         Slices!OutTick, Slices!InTick, Slices!BPS, OutputAt, InputOwed, CeilDiv,
         FullFill, OutTick, InTick, BPS
<1>2. \A buy, leg, ctx : Slices!InputOwed(buy, leg, ctx) = InputOwed(buy, leg, ctx)
  BY DEF Slices!OutputAt, Slices!InputOwed, Slices!CeilDiv, Slices!FullFill,
         Slices!OutTick, Slices!InTick, Slices!BPS, OutputAt, InputOwed, CeilDiv,
         FullFill, OutTick, InTick, BPS
<1>3. \A o, m, decays : Slices!Bumps(o, m, decays) = Bumps(o, m, decays)
  BY DEF Slices!Bumps, Slices!PriceBump, Slices!PriorityBump, Slices!Begun, Slices!Bid,
         Slices!Less, Slices!Least, Slices!BumpBps, Slices!GasBump, Slices!TimeBump,
         Slices!Linear, Slices!Piecewise, Slices!Stops, Slices!Between, Slices!BPS,
         Bumps, PriceBump, PriorityBump, Begun, Bid, Less, Least, BumpBps, GasBump,
         TimeBump, Linear, Piecewise, Stops, Between, BPS
<1>4. \A leg : Slices!Falls(leg) = Falls(leg) /\ Slices!Rises(leg) = Rises(leg)
  BY DEF Slices!Falls, Slices!Rises, Falls, Rises
<1> QED
  BY <1>1, <1>2, <1>3, <1>4

-----------------------------------------------------------------------------
(* The slices of SlicedFill, added up over any sequence of them.           *)

Filled == Settled.filled
Received == Settled.delivered
Yielded == Settled.paid

(* Sums of fractions of one denominator.                                   *)
LEMMA Accrues ==
    ASSUME NEW sum \in Nat, NEW part \in Nat, NEW w \in Nat, NEW a \in Nat,
           NEW x \in Nat, NEW delta \in Nat
    PROVE  /\ sum * a >= w * x /\ part * a >= w * delta => (sum + part) * a >= w * (x + delta)
           /\ sum * a <= w * x /\ part * a <= w * delta => (sum + part) * a <= w * (x + delta)
BY SMT

(* What makes the sums exact: on the fixed side the running total is the   *)
(* one rounding of the whole progress, so that slices telescope.           *)
SlicesDue ==
    /\ Buy => \A j \in DOMAIN Outs : Received[j] = CeilDiv(Outs[j].start * Filled, Terms.anchor)
    /\ ~Buy => \A i \in DOMAIN Ins :
                 Ins[i].end = 0 => Yielded[i] = (Ins[i].start * Filled) \div Terms.anchor

SlicesTyped ==
    /\ Terms \in Orders
    /\ Filled \in 0..Terms.anchor
    /\ Received \in [DOMAIN Outs -> Nat] /\ Yielded \in [DOMAIN Ins -> Nat]
FloorsPaid == ~Buy => \A j \in DOMAIN Outs : Received[j] * Terms.anchor >= Worst(Outs[j]) * Filled
CeilingsKept == \A i \in DOMAIN Ins : Yielded[i] * Terms.anchor <= Worst(Ins[i]) * Filled

SlicesInv == SlicesTyped /\ FloorsPaid /\ CeilingsKept /\ SlicesDue

(* The fields of what a maker signed.                                      *)
LEMMA TermsFields ==
    ASSUME Terms \in Orders
    PROVE  /\ Buy \in BOOLEAN /\ Terms.anchor \in Nat \ {0} /\ Terms.clock \in Clocks
           /\ Terms.premium \in 0..BPS
           /\ \A j \in DOMAIN Outs : Outs[j] \in Legs /\ Outs[j].start \in Nat /\ Worst(Outs[j]) \in Nat
           /\ \A i \in DOMAIN Ins : Ins[i] \in Legs /\ Ins[i].start \in Nat /\ Worst(Ins[i]) \in Nat
<1>1. /\ Buy \in BOOLEAN /\ Terms.anchor \in Nat \ {0} /\ Terms.clock \in Clocks
      /\ Terms.premium \in 0..BPS /\ Outs \in Seq(Legs) /\ Ins \in Seq(Legs)
  BY OrdersAssumption DEF OrderTypes, Buy, Outs, Ins
<1>2. \A leg \in Legs : leg.start \in Nat /\ Worst(leg) \in Nat
  BY DEF Legs, Worst
<1> QED
  BY <1>1, <1>2

LEMMA SlicesNames ==
    /\ Slices!Buy = Buy /\ Slices!Outs = Outs /\ Slices!Ins = Ins /\ Slices!Anchor = Terms.anchor
    /\ Slices!Clock = Terms.clock /\ Slices!Decays = Decays
BY DEF Slices!Buy, Slices!Outs, Slices!Ins, Slices!Anchor, Slices!Clock, Slices!Decays, Buy, Outs, Ins, Decays

(* A first or a next slice, in the terms of the token flow.                *)
LEMMA SlicesStart ==
    ASSUME Slices!Init
    PROVE  /\ Terms \in Orders /\ Filled = 0
           /\ Received = [j \in DOMAIN Outs |-> 0] /\ Yielded = [i \in DOMAIN Ins |-> 0]
BY DEF Slices!Init, Slices!Outs, Slices!Ins, Outs, Ins, Filled, Received, Yielded

LEMMA SlicesStep ==
    ASSUME NEW delta, NEW m, NEW premium, Slices!FillSlice(delta, m, premium)
    PROVE  /\ delta > 0 /\ Filled + delta <= Terms.anchor
           /\ ~Buy => \A j \in DOMAIN Outs : Falls(Outs[j])
           /\ \A i \in DOMAIN Ins : Rises(Ins[i])
           /\ Filled' = Filled + delta /\ Terms' = Terms
           /\ \E bump \in Bumps(Terms.clock, m, Decays) :
                LET ctx == [anchor |-> Terms.anchor, prev |-> Filled, new |-> Filled + delta,
                            bump |-> bump, override |-> premium]
                IN  /\ Received' = [j \in DOMAIN Outs |-> Received[j] + OutputAt(Buy, Outs[j], ctx)]
                    /\ Yielded' = [i \in DOMAIN Ins |-> Yielded[i] + InputOwed(Buy, Ins[i], ctx)]
  BY SlicesNames, SamePrices DEF Slices!FillSlice, Filled, Received, Yielded

(* The empty order owes nothing.                                           *)
LEMMA SlicesInit == Slices!Init => SlicesInv
<1> SUFFICES ASSUME Slices!Init PROVE SlicesInv
  OBVIOUS
<1>1. Terms.anchor \in Nat \ {0}
  BY TermsFields, SlicesStart
<1>2. \A x \in Nat : CeilDiv(x * 0, Terms.anchor) = 0 /\ (x * 0) \div Terms.anchor = 0
  BY <1>1, SMT DEF CeilDiv
<1>3. /\ \A j \in DOMAIN Outs : Outs[j].start \in Nat /\ Worst(Outs[j]) \in Nat
      /\ \A i \in DOMAIN Ins : Ins[i].start \in Nat /\ Worst(Ins[i]) \in Nat
  BY TermsFields, SlicesStart
<1>4. SlicesTyped
  BY <1>1, SlicesStart DEF SlicesTyped
<1>5. FloorsPaid /\ CeilingsKept
  BY <1>1, <1>3, SlicesStart DEF FloorsPaid, CeilingsKept
<1>6. SlicesDue
  BY <1>2, <1>3, SlicesStart DEF SlicesDue
<1> QED
  BY <1>4, <1>5, <1>6 DEF SlicesInv

(* One fill, at any moment, of any size, with or without the premium.      *)
LEMMA SliceKeepsSums ==
    ASSUME SlicesInv, NEW delta \in Sizes, NEW m \in Days, NEW premium \in {0, Terms.premium},
           Slices!FillSlice(delta, m, premium)
    PROVE  SlicesInv'
<1>1. /\ Terms.anchor \in Nat \ {0} /\ Buy \in BOOLEAN /\ Terms.clock \in Clocks
      /\ Filled \in 0..Terms.anchor /\ Filled' = Filled + delta /\ Filled' \in 0..Terms.anchor /\ delta \in Nat
  BY TermsFields, OrdersAssumption, SlicesStep DEF SlicesInv, SlicesTyped
<1>0. Buy' = Buy /\ Terms'.anchor = Terms.anchor /\ Outs' = Outs /\ Ins' = Ins /\ Terms' = Terms
  BY SlicesStep DEF Buy, Outs, Ins
<1>2. PICK bump \in Bumps(Terms.clock, m, Decays) :
        LET ctx == [anchor |-> Terms.anchor, prev |-> Filled, new |-> Filled + delta,
                    bump |-> bump, override |-> premium]
        IN  /\ Received' = [j \in DOMAIN Outs |-> Received[j] + OutputAt(Buy, Outs[j], ctx)]
            /\ Yielded' = [i \in DOMAIN Ins |-> Yielded[i] + InputOwed(Buy, Ins[i], ctx)]
  BY SlicesStep
<1> DEFINE ctx == [anchor |-> Terms.anchor, prev |-> Filled, new |-> Filled + delta,
                   bump |-> bump, override |-> premium]
<1>3. bump \in 0..BPS
  <2>1. Decays \in BOOLEAN
    BY DEF Decays
  <2> QED
    BY <1>1, <2>1, BumpInRange, OrdersAssumption
<1>4. /\ ctx \in Contexts /\ ctx.prev <= ctx.new /\ ctx.new - ctx.prev = delta
      /\ ctx.anchor = Terms.anchor /\ ctx.prev = Filled /\ ctx.new = Filled'
  <2>1. premium \in 0..BPS
    <3>1. 0 \in 0..BPS
      BY DEF BPS
    <3> QED
      BY <3>1, TermsFields DEF SlicesInv, SlicesTyped
  <2> QED
    BY <1>1, <1>3, <2>1 DEF Contexts
<1>5. /\ \A j \in DOMAIN Outs : Outs[j] \in Legs /\ Received[j] \in Nat
      /\ \A i \in DOMAIN Ins : Ins[i] \in Legs /\ Yielded[i] \in Nat
  BY TermsFields DEF SlicesInv, SlicesTyped
<1>6. /\ \A j \in DOMAIN Outs : Received'[j] = Received[j] + OutputAt(Buy, Outs[j], ctx)
      /\ \A i \in DOMAIN Ins : Yielded'[i] = Yielded[i] + InputOwed(Buy, Ins[i], ctx)
      /\ DOMAIN Received' = DOMAIN Outs /\ DOMAIN Yielded' = DOMAIN Ins
  BY <1>2
<1> HIDE DEF ctx
<1>7. ASSUME NEW j \in DOMAIN Outs, Buy
      PROVE  Received'[j] \in Nat /\ Received'[j] = CeilDiv(Outs[j].start * Filled', Terms.anchor)
  <2>1. PICK before \in Nat, after \in Nat :
            /\ before = CeilDiv(Outs[j].start * Filled, Terms.anchor)
            /\ after = CeilDiv(Outs[j].start * Filled', Terms.anchor)
            /\ before <= after /\ OutputAt(Buy, Outs[j], ctx) = after - before
    BY <1>1, <1>4, <1>5, <1>7, BuyOutput
  <2>2. Received[j] = before
    BY <1>7, <2>1 DEF SlicesInv, SlicesDue
  <2> QED
    BY <1>6, <2>1, <2>2
<1>8. ASSUME NEW j \in DOMAIN Outs, ~Buy
      PROVE  Received'[j] \in Nat /\ Received'[j] * Terms.anchor >= Worst(Outs[j]) * Filled'
  <2>1. Falls(Outs[j])
    BY <1>8, SlicesStep
  <2>2. PICK out \in Nat : out = OutputAt(Buy, Outs[j], ctx) /\ out * Terms.anchor >= Worst(Outs[j]) * delta
    BY <1>1, <1>4, <1>5, <1>8, <2>1, SellOutput
  <2>3. PICK w \in Nat, sum \in Nat : w = Worst(Outs[j]) /\ sum = Received[j]
    BY <1>5 DEF Worst, Legs
  <2>4. sum * Terms.anchor >= w * Filled
    BY <1>8, <2>3 DEF SlicesInv, FloorsPaid
  <2>5. (sum + out) * Terms.anchor >= w * (Filled + delta)
    BY <1>1, <2>2, <2>3, <2>4, Accrues
  <2> QED
    BY <1>1, <1>6, <2>2, <2>3, <2>5
<1>9. ASSUME NEW i \in DOMAIN Ins, ~(Buy \/ Ins[i].end # 0)
      PROVE  /\ Yielded'[i] \in Nat /\ Yielded'[i] = (Ins[i].start * Filled') \div Terms.anchor
             /\ Yielded'[i] * Terms.anchor <= Worst(Ins[i]) * Filled'
  <2>1. PICK before \in Nat, after \in Nat :
            /\ before = (Ins[i].start * Filled) \div Terms.anchor
            /\ after = (Ins[i].start * Filled') \div Terms.anchor
            /\ before <= after /\ InputOwed(Buy, Ins[i], ctx) = after - before
    BY <1>1, <1>4, <1>5, <1>9, FixedInput
  <2>2. Yielded[i] = before
    BY <1>9, <2>1 DEF SlicesInv, SlicesDue
  <2>3. Yielded'[i] = after
    BY <1>6, <2>1, <2>2
  <2>4. PICK n \in Nat : n = Ins[i].start * Filled' /\ after * Terms.anchor <= n
    <3>1. Ins[i].start * Filled' \in Nat
      BY <1>1, <1>5 DEF Legs
    <3>2. Terms.anchor * after <= Ins[i].start * Filled'
      BY <1>1, <2>1, <3>1, DivBounds
    <3> QED
      BY <1>1, <3>1, <3>2
  <2> QED
    BY <1>9, <2>1, <2>3, <2>4 DEF Worst
<1>10. ASSUME NEW i \in DOMAIN Ins, Buy \/ Ins[i].end # 0
       PROVE  Yielded'[i] \in Nat /\ Yielded'[i] * Terms.anchor <= Worst(Ins[i]) * Filled'
  <2>1. Rises(Ins[i])
    BY SlicesStep
  <2>2. PICK owed \in Nat : owed = InputOwed(Buy, Ins[i], ctx) /\ owed * Terms.anchor <= Worst(Ins[i]) * delta
    BY <1>1, <1>4, <1>5, <1>10, <2>1, AuctionedInput
  <2>3. PICK w \in Nat, sum \in Nat : w = Worst(Ins[i]) /\ sum = Yielded[i]
    BY <1>5 DEF Worst, Legs
  <2>4. sum * Terms.anchor <= w * Filled
    BY <2>3 DEF SlicesInv, CeilingsKept
  <2>5. PICK a \in Nat, x \in Nat : a = Terms.anchor /\ x = Filled
    BY <1>1
  <2>6. (sum + owed) * a <= w * (x + delta)
    BY <1>1, <2>2, <2>3, <2>4, <2>5, Accrues
  <2> QED
    BY <1>1, <1>6, <2>2, <2>3, <2>5, <2>6
<1>11. SlicesTyped'
  BY <1>0, <1>1, <1>2, <1>6, <1>7, <1>8, <1>9, <1>10 DEF SlicesInv, SlicesTyped
<1>12. FloorsPaid'
  BY <1>0, <1>8 DEF FloorsPaid
<1>13. CeilingsKept'
  BY <1>0, <1>9, <1>10 DEF CeilingsKept
<1>14. SlicesDue'
  BY <1>0, <1>7, <1>9 DEF SlicesDue
<1> QED
  BY <1>11, <1>12, <1>13, <1>14 DEF SlicesInv

(* The sums of an order, over every sequence of fills.                     *)
LEMMA SumsKept == Slices!Spec => []SlicesInv
<1>1. Slices!Init => SlicesInv
  BY SlicesInit
<1>2. SlicesInv /\ [Slices!Next]_(Slices!vars) => SlicesInv'
  <2>1. ASSUME SlicesInv, Slices!Next PROVE SlicesInv'
    BY <2>1, SliceKeepsSums DEF Slices!Next
  <2>2. ASSUME SlicesInv, UNCHANGED Slices!vars PROVE SlicesInv'
    BY <2>2 DEF Slices!vars, SlicesInv, SlicesTyped, FloorsPaid, CeilingsKept, SlicesDue,
                Buy, Outs, Ins, Filled, Received, Yielded
  <2> QED
    BY <2>1, <2>2
<1> QED
  BY <1>1, <1>2, PTL DEF Slices!Spec

(* However an order is cut into fills and whenever each is made: each leg  *)
(* of a SELL has received its floor for what was filled (outputAt rounds   *)
(* up), no input has given more than its ceiling (inputOwed rounds down),  *)
(* and a complete order's fixed side comes out to the last unit.           *)
THEOREM SumsHold == Slices!Spec => []Slices!SlicesAddUp
<1>1. SlicesInv => Slices!FixedSideExact
  <2> SUFFICES ASSUME SlicesInv, Filled = Terms.anchor
               PROVE  /\ Buy => \A j \in DOMAIN Outs : Received[j] = Outs[j].start
                      /\ ~Buy => \A i \in DOMAIN Ins : Ins[i].end = 0 => Yielded[i] = Ins[i].start
    BY SlicesNames DEF Slices!FixedSideExact, Filled, Received, Yielded
  <2>1. /\ \A j \in DOMAIN Outs : Outs[j].start \in Nat
        /\ \A i \in DOMAIN Ins : Ins[i].start \in Nat
        /\ Terms.anchor \in Nat \ {0}
    BY TermsFields DEF SlicesInv, SlicesTyped
  <2>2. \A x \in Nat : CeilDiv(x * Terms.anchor, Terms.anchor) = x /\ (x * Terms.anchor) \div Terms.anchor = x
    BY <2>1, CeilDivExact, DivExact
  <2> QED
    BY <2>1, <2>2 DEF SlicesInv, SlicesDue
<1>2. SlicesInv => Slices!SlicesAddUp
  <2>1. \A leg : Slices!Worst(leg) = Worst(leg)
    BY DEF Slices!Worst, Worst
  <2> QED
    BY <1>1, <2>1, SlicesNames
    DEF SlicesInv, FloorsPaid, CeilingsKept, Slices!SlicesAddUp, Slices!FloorKept, Slices!CeilingKept,
        Filled, Received, Yielded
<1> QED
  BY <1>2, SumsKept, PTL

-----------------------------------------------------------------------------
(* The token flow makes such slices.                                       *)

(* A fill that goes through, however many calls of however many actors it  *)
(* took, is one slice of the order.                                        *)
LEMMA CommitIsASlice ==
    ASSUME order \in Shapes, order' = order, NEW f, Opened(f), Admitted(f.ctx),
           Settled = f.saved, todo' = <<>>, world' \in Worlds, Moved(world', <<>>, f)
    PROVE  Slices!Next
<1>1. PICK delta \in Sizes, m \in Days, premium \in {0, Terms.premium} :
        /\ delta > 0 /\ f.ctx.prev + delta <= Terms.anchor
        /\ f.ctx.anchor = Terms.anchor /\ f.ctx.new = f.ctx.prev + delta
        /\ f.ctx.bump \in Bumps(Terms.clock, m, Decays) /\ f.ctx.override = premium
  BY DEF Admitted
<1>2. f.ctx \in Contexts /\ f.saved \in Worlds
  BY DEF Opened, Frames
<1>3. f.ctx = [anchor |-> Terms.anchor, prev |-> Settled.filled, new |-> Settled.filled + delta,
               bump |-> f.ctx.bump, override |-> premium]
  BY <1>1, <1>2 DEF Contexts, Moved
<1>4. Settled' = world'
  BY DEF Settled
<1>5. Settled'.filled = Settled.filled + delta
  BY <1>1, <1>4 DEF Moved
<1>6. \A c : ~Left(<<>>, c)
  BY DEF Left
<1>7. Settled'.delivered = [j \in DOMAIN Outs |-> Settled.delivered[j] + OutputAt(Buy, Outs[j], f.ctx)]
  <2>1. world'.delivered \in [DOMAIN Outs -> Int]
    BY DEF Worlds
  <2>2. \A j \in DOMAIN Outs : world'.delivered[j] = Settled.delivered[j] + OutputAt(Buy, Outs[j], f.ctx)
    BY <1>6 DEF Moved
  <2> QED
    BY <1>4, <2>1, <2>2
<1>8. Settled'.paid = [i \in DOMAIN Ins |-> Settled.paid[i] + InputOwed(Buy, Ins[i], f.ctx)]
  <2>1. world'.paid \in [DOMAIN Ins -> Int]
    BY DEF Worlds
  <2>2. \A i \in DOMAIN Ins : world'.paid[i] = Settled.paid[i] + InputOwed(Buy, Ins[i], f.ctx)
    BY <1>6 DEF Moved
  <2> QED
    BY <1>4, <2>1, <2>2
<1>9. /\ Slices!Buy = Buy /\ Slices!Outs = Outs /\ Slices!Ins = Ins /\ Slices!Anchor = Terms.anchor
      /\ Slices!Clock = Terms.clock /\ Slices!Decays = Decays
  BY DEF Slices!Buy, Slices!Outs, Slices!Ins, Slices!Anchor, Slices!Clock, Slices!Decays,
         Buy, Outs, Ins, Decays
<1>10. /\ ~Buy => \A j \in DOMAIN Outs : Falls(Outs[j])
       /\ \A i \in DOMAIN Ins : Rises(Ins[i])
       /\ Settled.filled + delta <= Terms.anchor /\ Terms' = Terms
  BY <1>1 DEF Opened, Moved, Terms
<1>11. Slices!FillSlice(delta, m, premium)
  <2> DEFINE ctx == [anchor |-> Terms.anchor, prev |-> Settled.filled,
                     new |-> Settled.filled + delta, bump |-> f.ctx.bump, override |-> premium]
  <2>1. /\ Settled'.delivered =
             [j \in DOMAIN Outs |-> Settled.delivered[j] + Slices!OutputAt(Buy, Outs[j], ctx)]
        /\ Settled'.paid = [i \in DOMAIN Ins |-> Settled.paid[i] + Slices!InputOwed(Buy, Ins[i], ctx)]
    BY <1>3, <1>7, <1>8, SamePrices
  <2>2. f.ctx.bump \in Slices!Bumps(Terms.clock, m, Decays)
    BY <1>1, SamePrices
  <2>3. /\ ~Buy => \A j \in DOMAIN Outs : Slices!Falls(Outs[j])
        /\ \A i \in DOMAIN Ins : Slices!Rises(Ins[i])
    BY <1>10, SamePrices
  <2> QED
    BY <1>1, <1>5, <1>9, <1>10, <2>1, <2>2, <2>3 DEF Slices!FillSlice
<1> QED
  BY <1>1, <1>11 DEF Slices!Next


(* Every step of the token flow is a slice, when it lets a fill go         *)
(* through, or leaves the sums alone.                                      *)
LEMMA StepIsASliceOrNone ==
    ASSUME Inv, [Next]_vars
    PROVE  [Slices!Next]_(Slices!vars)
<1> USE DEF Slices!vars
<1>1. TypeOK /\ Honest(world) /\ order \in Shapes /\ world \in Worlds
  BY DEF Inv, TypeOK
<1>2. ASSUME order' = order, Settled'.filled = Settled.filled,
             Settled'.delivered = Settled.delivered, Settled'.paid = Settled.paid
      PROVE  UNCHANGED Slices!vars
  BY <1>2 DEF Terms
<1>3. ASSUME NEW entry \in Entries, NEW delta \in Sizes, NEW m \in Days,
             NEW premium \in {0, Terms.premium}, Open(entry, delta, m, premium)
      PROVE  [Slices!Next]_(Slices!vars)
  <2>1. /\ todo = <<>> /\ order' = order /\ world' \in Worlds
        /\ Opened(frame') /\ frame'.saved = world
        /\ Admitted(frame'.ctx) /\ Moved(world', todo', frame')
    BY <1>1, <1>3, OpenResult
  <2>2. Settled = frame'.saved
    BY <2>1 DEF Settled
  <2>3. CASE todo' = <<>>
    <3>1. Slices!Next
      BY <1>1, <2>1, <2>2, <2>3, CommitIsASlice
    <3> QED
      BY <3>1
  <2>4. CASE todo' # <<>>
    <3>1. Settled' = Settled
      BY <2>2, <2>4 DEF Settled
    <3> QED
      BY <1>2, <2>1, <3>1
  <2> QED
    BY <2>3, <2>4
<1>4. CASE Deliver \/ RunItem \/ Pay
  <2>1. PICK V, f : /\ todo # <<>> /\ Step(V, f) /\ Same(f) /\ Good(V)
                    /\ Moved(V, Tail(todo), frame)
    BY <1>4, CallMoves
  <2>2. /\ world' = V /\ todo' = Tail(todo) /\ order' = order
        /\ todo' # <<>> => frame' = f
    BY <2>1 DEF Step
  <2>3. Settled = f.saved
    BY <2>1 DEF Settled, Same
  <2>4. CASE todo' = <<>>
    <3>1. V \in Worlds /\ Opened(f) /\ Admitted(f.ctx) /\ Moved(V, <<>>, f)
      BY <2>1, <2>2, <2>4 DEF Good, Same, Inv, Moved
    <3>2. Slices!Next
      BY <1>1, <2>2, <2>3, <2>4, <3>1, CommitIsASlice
    <3> QED
      BY <3>2
  <2>5. CASE todo' # <<>>
    <3>1. Settled' = Settled
      BY <2>2, <2>3, <2>5 DEF Settled
    <3> QED
      BY <1>2, <2>2, <3>1
  <2> QED
    BY <2>4, <2>5
<1>5. CASE Revert
  <2>1. Settled' = Settled /\ order' = order
    BY <1>5 DEF Revert, Settled
  <2> QED
    BY <1>2, <2>1
<1>6. CASE Others
  <2>1. PICK W : Stir(W) /\ Even(world, W)
    BY <1>1, <1>6, OthersResult
  <2>2. order' = order /\ todo' = todo /\ frame' = frame /\ Kept(world, world')
    BY <1>1, <2>1, StirResult
  <2>3. /\ Settled'.filled = Settled.filled /\ Settled'.delivered = Settled.delivered
        /\ Settled'.paid = Settled.paid
    BY <2>2 DEF Settled, Kept
  <2> QED
    BY <1>2, <2>2, <2>3
<1>7. CASE UNCHANGED vars
  <2>1. Settled' = Settled /\ order' = order
    BY <1>7 DEF vars, Settled
  <2> QED
    BY <1>2, <2>1
<1> QED
  BY <1>3, <1>4, <1>5, <1>6, <1>7 DEF Next

(* Through callbacks, permits, reverts and whatever others do meanwhile, a *)
(* fill that goes through gives each leg, measured at its receiver, the    *)
(* slice that the order prices it at, and one that does not gives it       *)
(* nothing; so what SlicedFill promises of slices holds of the tokens:     *)
(* floors, ceilings and the fixed side (Core._deliverOutputs,              *)
(* _payInputsToSolver).                                                    *)
THEOREM TokensFollowTheSlices == Spec => Implements
<1>1. Init => Slices!Init
  <2> SUFFICES ASSUME Init PROVE Slices!Init
    OBVIOUS
  <2>1. order \in Shapes /\ Settled = world /\ world.filled = 0
        /\ world.delivered = [j \in DOMAIN Outs |-> 0] /\ world.paid = [i \in DOMAIN Ins |-> 0]
    BY DEF Init, Settled
  <2>2. Terms \in Orders
    BY <2>1, OrderFields
  <2> QED
    BY <2>1, <2>2 DEF Slices!Init, Slices!Outs, Slices!Ins, Outs, Ins
<1>2. Inv /\ [Next]_vars => [Slices!Next]_(Slices!vars)
  BY StepIsASliceOrNone
<1>3. Spec => Slices!Spec
  BY <1>1, <1>2, InvHolds, PTL DEF Spec, Slices!Spec
<1> QED
  BY <1>3, SumsHold, PTL DEF Implements


-----------------------------------------------------------------------------
(* Where the tokens are.                                                   *)

(* What no transfer touches of the books that are kept of them.            *)
Unbooked(W, V) == V.held = W.held /\ V.elsewhere = W.elsewhere /\ Kept(W, V)

(* n tokens have gone from one account to another, ...                     *)
Carried(W, V, t, from, to, n) ==
    /\ V \in Worlds /\ Unbooked(W, V) /\ V.stake = W.stake
    /\ V.bal[from][t] = W.bal[from][t] - n /\ V.bal[to][t] = W.bal[to][t] + n
    /\ \A a \in Accounts, u \in Tokens : u # t \/ a \notin {from, to} => V.bal[a][u] = W.bal[a][u]

(* ... or from an account into the position, or out of it.                 *)
Fed(W, V, t, from, n) ==
    /\ V \in Worlds /\ Unbooked(W, V)
    /\ V.bal[from][t] = W.bal[from][t] - n /\ V.stake[t] = W.stake[t] + n
    /\ \A a \in Accounts, u \in Tokens : u # t \/ a # from => V.bal[a][u] = W.bal[a][u]
    /\ \A u \in Tokens : u # t => V.stake[u] = W.stake[u]

(* Nothing has gone anywhere.                                              *)
Unmoved(W, V) == V \in Worlds /\ Unbooked(W, V) /\ V.bal = W.bal /\ V.stake = W.stake

LEMMA UnmovedIsCarried ==
    ASSUME NEW W \in Worlds, NEW V, Unmoved(W, V), NEW t \in Tokens, NEW from \in Accounts, NEW to \in Accounts
    PROVE  Carried(W, V, t, from, to, 0)
<1>1. W.bal[from][t] \in Nat /\ W.bal[to][t] \in Nat
  BY DEF Worlds
<1> QED
  BY <1>1 DEF Unmoved, Carried

(* A transfer.                                                             *)
LEMMA MoveCarries ==
    ASSUME NEW W \in Worlds, NEW t \in Tokens, NEW from \in Accounts, NEW to \in Accounts,
           from # to, NEW n \in Nat, NEW V \in Move(W, t, from, to, n)
    PROVE  Carried(W, V, t, from, to, n)
<1>1. V \in Worlds /\ V = [W EXCEPT !.bal = V.bal]
  BY MoveResult
<1>2. Unbooked(W, V) /\ V.stake = W.stake
  BY <1>1 DEF Worlds, Unbooked, Kept
<1> QED
  BY <1>1, <1>2, MoveResult DEF Carried

(* A draw on an entry moves nothing.                                       *)
LEMMA DrawnMovesNothing ==
    ASSUME order \in Shapes, NEW W \in Worlds, NEW u \in Users, NEW s \in Spenders, NEW k \in Keys, NEW n \in Nat,
           NEW V \in Drawn(W, u, s, k, n)
    PROVE  Unmoved(W, V)
<1>1. V \in Worlds /\ V.bal = W.bal /\ V.stake = W.stake
  BY DrawnResult DEF Fair, Even
<1>2. Unbooked(W, V)
  BY DEF Drawn, Worlds, Unbooked, Kept
<1> QED
  BY <1>1, <1>2 DEF Unmoved

LEMMA UnmovedThenCarried ==
    ASSUME NEW W, NEW X, NEW V, Unmoved(W, X), NEW t, NEW from, NEW to, NEW n, Carried(X, V, t, from, to, n)
    PROVE  Carried(W, V, t, from, to, n)
BY DEF Unmoved, Carried, Unbooked, Kept

(* A pull, by whichever approval.                                          *)
LEMMA PullCarries ==
    ASSUME order \in Shapes, NEW W \in Worlds, NEW t \in Tokens, NEW from \in {Maker, Filler}, NEW to \in Accounts,
           from # to, NEW n \in Nat, NEW V \in Pull(W, t, from, to, n)
    PROVE  Carried(W, V, t, from, to, n)
<1>1. from \in Accounts /\ from \in Users /\ t \in Keys /\ Settlement \in Spenders
  BY Actors
<1>2. CASE n = 0
  <2>1. V = W
    BY <1>2 DEF Pull
  <2>2. Unmoved(W, V)
    BY <2>1 DEF Unmoved, Unbooked, Kept
  <2> QED
    BY <1>1, <1>2, <2>2, UnmovedIsCarried
<1>3. CASE n # 0 /\ V \in HubTransfer(W, Settlement, t, from, to, n)
  <2>1. PICK X \in Drawn(W, from, Settlement, t, n) : V \in Move(X, t, from, to, n)
    BY <1>3 DEF HubTransfer, Then
  <2>2. Unmoved(W, X)
    BY <1>1, <2>1, DrawnMovesNothing
  <2>3. Carried(X, V, t, from, to, n)
    BY <1>1, <2>1, <2>2, MoveCarries DEF Unmoved
  <2> QED
    BY <2>2, <2>3, UnmovedThenCarried
<1>4. CASE n # 0 /\ V \notin HubTransfer(W, Settlement, t, from, to, n)
  <2>1. V \in Move(W, t, from, to, n)
    BY <1>4 DEF Pull
  <2> QED
    BY <1>1, <2>1, MoveCarries
<1> QED
  BY <1>2, <1>3, <1>4

(* A module feeds the position.                                            *)
LEMMA SupplyFeeds ==
    ASSUME order \in Shapes, NEW W \in Worlds, NEW fund \in Funds, NEW t \in Tokens, NEW n \in Nat,
           NEW V \in Supply(W, fund, t, n)
    PROVE  Fed(W, V, t, IF fund.how = "prefund" THEN Module ELSE Maker, n)
<1> DEFINE from == IF fund.how = "prefund" THEN Module ELSE Maker
<1>1. PICK X \in (IF fund.how = "prefund" THEN {W} ELSE Drawn(W, Maker, Module, t, n)) :
        n <= X.bal[from][t] /\ V = [X EXCEPT !.bal[from][t] = @ - n, !.stake[t] = @ + n]
  BY DEF Supply, Then
<1>2. Unmoved(W, X)
  <2>1. CASE fund.how = "prefund"
    BY <1>1, <2>1 DEF Unmoved, Unbooked, Kept
  <2>2. CASE fund.how # "prefund"
    BY <1>1, <2>2, DrawnMovesNothing, Actors
  <2> QED
    BY <2>1, <2>2
<1>3. X \in Worlds /\ from \in Accounts
  BY <1>2, Actors DEF Unmoved
<1>4. V \in Worlds
  BY SupplyResult DEF Fair, Even
<1>5. /\ X.bal \in [Accounts -> [Tokens -> Nat]] /\ X.stake \in [Tokens -> Int]
  BY <1>3 DEF Worlds
<1>6. /\ V.bal = [X.bal EXCEPT ![from][t] = @ - n] /\ V.stake = [X.stake EXCEPT ![t] = @ + n]
      /\ Unbooked(X, V)
  BY <1>1, <1>3 DEF Worlds, Unbooked, Kept
<1> HIDE DEF from
<1>7. Fed(X, V, t, from, n)
  BY <1>3, <1>4, <1>5, <1>6 DEF Fed
<1>8. Fed(W, V, t, from, n)
  BY <1>2, <1>7 DEF Fed, Unmoved, Unbooked, Kept
<1> QED
  BY <1>8 DEF from

(* What a module draws.                                                    *)
LEMMA DrawFeeds ==
    ASSUME NEW W \in Worlds, NEW item \in Items, NEW n \in Nat, NEW V \in Draw(W, item, n)
    PROVE  Fed(W, V, item.token, item.to, -n)
<1>1. V = [W EXCEPT !.stake[item.token] = @ - n, !.bal[item.to][item.token] = @ + n]
  BY DEF Draw
<1>2. item.token \in Tokens /\ item.to \in Accounts
  BY DEF Items, Accounts
<1>3. V \in Worlds
  BY DrawIsEven DEF Even
<1>4. /\ W.bal \in [Accounts -> [Tokens -> Nat]] /\ W.stake \in [Tokens -> Int]
  BY DEF Worlds
<1>5. /\ V.bal = [W.bal EXCEPT ![item.to][item.token] = @ + n]
      /\ V.stake = [W.stake EXCEPT ![item.token] = @ - n]
      /\ Unbooked(W, V)
  BY <1>1 DEF Worlds, Unbooked, Kept
<1>6. /\ V.bal[item.to][item.token] = W.bal[item.to][item.token] - (-n)
      /\ V.stake[item.token] = W.stake[item.token] + (-n)
  BY <1>2, <1>4, <1>5
<1>7. /\ \A a \in Accounts, u \in Tokens : u # item.token \/ a # item.to => V.bal[a][u] = W.bal[a][u]
      /\ \A u \in Tokens : u # item.token => V.stake[u] = W.stake[u]
  BY <1>2, <1>4, <1>5
<1> QED
  BY <1>3, <1>5, <1>6, <1>7 DEF Fed

(* Nothing moves by being authorised.                                      *)
LEMMA AuthorisedMovesNothing ==
    ASSUME TypeOK, todo # <<>>, NEW item \in Items, NEW n \in Nat, NEW W \in Authorised(item, n)
    PROVE  Unmoved(world, W)
<1>1. W \in Worlds
  BY AuthorisedResult DEF Even
<1>2. world \in Worlds /\ order \in Shapes /\ item.key \in Keys /\ Maker \in Users /\ Settlement \in Spenders
  BY Actors DEF TypeOK, Items
<1>3. CASE item.op = "take" /\ frame.permit # {}
  <2>1. PICK p \in frame.permit : W \in {[world EXCEPT !.hub = H, !.uses[p.nonce] = @ + 1] :
                                         H \in PermitTake(world.hub, world.now, Maker, p)}
    BY <1>3 DEF Authorised
  <2>2. PICK H \in PermitTake(world.hub, world.now, Maker, p) :
          W = [world EXCEPT !.hub = H, !.uses[p.nonce] = @ + 1]
    BY <2>1
  <2> QED
    BY <1>1, <1>2, <2>2 DEF Unmoved, Unbooked, Kept, Worlds
<1>4. CASE ~(item.op = "take" /\ frame.permit # {})
  <2>1. W \in Drawn(world, Maker, Settlement, item.key, n)
    BY <1>4 DEF Authorised
  <2> QED
    BY <1>2, <2>1, DrawnMovesNothing
<1> QED
  BY <1>3, <1>4

(* What the maker's tokens are worth to it, with what lies on its behalf,  *)
(* or anybody's, at Settlement and the module, ...                         *)
Purse(W, t) == W.bal[Maker][t] + W.stake[t] + W.bal[Settlement][t] + W.bal[Module][t]

ToMaker(t) == {j \in DOMAIN Outs : order.outTok[j] = t /\ order.outTo[j] \in {Maker, Module}}
OfMaker(t) == {i \in DOMAIN Ins : order.inTok[i] = t}

(* ... what the books say of it: less what is not the order's and what the *)
(* legs delivered, and with what they paid and what others took, ...       *)
Booked(W, t) ==
    W.elsewhere[t] - W.held[Settlement][t] - W.held[Module][t]
      + SumFunctionOnSet(W.paid, OfMaker(t)) - SumFunctionOnSet(W.delivered, ToMaker(t))

(* ... and both together: what the maker would have without the order.     *)
Estate(W, t) == Purse(W, t) + Booked(W, t)

(* There are finitely many legs, and their sums are amounts.               *)
LEMMA LegsFinite ==
    ASSUME order \in Shapes
    PROVE  /\ IsFiniteSet(DOMAIN Outs) /\ IsFiniteSet(DOMAIN Ins)
           /\ \A t : IsFiniteSet(ToMaker(t)) /\ IsFiniteSet(OfMaker(t))
<1>1. Outs \in Seq(Legs) /\ Ins \in Seq(Legs)
  BY OrderFields
<1>2. /\ Len(Outs) \in Nat /\ DOMAIN Outs = 1..Len(Outs)
      /\ Len(Ins) \in Nat /\ DOMAIN Ins = 1..Len(Ins)
  BY <1>1, LenProperties
<1>3. IsFiniteSet(1..Len(Outs)) /\ IsFiniteSet(1..Len(Ins))
  BY <1>2, FS_Interval
<1>4. \A t : ToMaker(t) \subseteq DOMAIN Outs /\ OfMaker(t) \subseteq DOMAIN Ins
  BY DEF ToMaker, OfMaker
<1> QED
  BY <1>2, <1>3, <1>4, FS_Subset

LEMMA EstateTypes ==
    ASSUME order \in Shapes, NEW W \in Worlds, NEW t \in Tokens
    PROVE  /\ W.bal[Maker][t] \in Nat /\ W.bal[Settlement][t] \in Nat /\ W.bal[Module][t] \in Nat
           /\ W.stake[t] \in Int /\ Purse(W, t) \in Int
           /\ W.held[Settlement][t] \in Nat /\ W.held[Module][t] \in Nat /\ W.elsewhere[t] \in Nat
           /\ SumFunctionOnSet(W.paid, OfMaker(t)) \in Int
           /\ SumFunctionOnSet(W.delivered, ToMaker(t)) \in Int
           /\ Booked(W, t) \in Int /\ Estate(W, t) \in Int /\ order.wallet[t] \in Nat
<1>1. /\ W.bal[Maker][t] \in Nat /\ W.bal[Settlement][t] \in Nat /\ W.bal[Module][t] \in Nat
      /\ W.stake[t] \in Int
      /\ W.held[Settlement][t] \in Nat /\ W.held[Module][t] \in Nat /\ W.elsewhere[t] \in Nat
  BY DEF Worlds, Accounts
<1>2. SumFunctionOnSet(W.paid, OfMaker(t)) \in Int
  <2>1. \A i \in OfMaker(t) : W.paid[i] \in Int
    BY DEF Worlds, OfMaker
  <2> QED
    BY <2>1, LegsFinite, SumType
<1>3. SumFunctionOnSet(W.delivered, ToMaker(t)) \in Int
  <2>1. \A j \in ToMaker(t) : W.delivered[j] \in Int
    BY DEF Worlds, ToMaker
  <2> QED
    BY <2>1, LegsFinite, SumType
<1>4. order.wallet[t] \in Nat
  BY ShapesAssumption
<1> QED
  BY <1>1, <1>2, <1>3, <1>4 DEF Purse, Booked, Estate

(* The books of what nothing was booked of.                                *)
LEMMA UnbookedKeeps ==
    ASSUME NEW W, NEW V, Unbooked(W, V), NEW t
    PROVE  Booked(V, t) = Booked(W, t)
BY DEF Unbooked, Kept, Booked

(* A delivery, or a payment, is booked on its leg.                         *)
LEMMA DeliveryBooked ==
    ASSUME order \in Shapes, NEW W \in Worlds, NEW V, NEW j \in DOMAIN Outs, NEW n \in Int,
           V.delivered = [W.delivered EXCEPT ![j] = @ + n],
           V.paid = W.paid, V.held = W.held, V.elsewhere = W.elsewhere, NEW t \in Tokens
    PROVE  Booked(V, t) = Booked(W, t) - (IF j \in ToMaker(t) THEN n ELSE 0)
<1>1. W.delivered \in [DOMAIN Outs -> Int] /\ ToMaker(t) \subseteq DOMAIN Outs /\ IsFiniteSet(ToMaker(t))
  BY LegsFinite DEF Worlds, ToMaker
<1>2. SumFunctionOnSet(V.delivered, ToMaker(t)) =
        SumFunctionOnSet(W.delivered, ToMaker(t)) + (IF j \in ToMaker(t) THEN n ELSE 0)
  <2> DEFINE S == ToMaker(t)
             f == W.delivered
             g == V.delivered
  <2>1. IsFiniteSet(S) /\ \A y \in S : f[y] \in Int /\ g[y] \in Int
    BY <1>1
  <2>2. (j \in S => g[j] = f[j] + n) /\ \A y \in S \ {j} : g[y] = f[y]
    BY <1>1
  <2> HIDE DEF S, f, g
  <2>3. SumFunctionOnSet(g, S) = SumFunctionOnSet(f, S) + (IF j \in S THEN n ELSE 0)
    BY <2>1, <2>2, SumRaised
  <2> QED
    BY <2>3 DEF S, f, g
<1> QED
  BY <1>2, EstateTypes DEF Booked

LEMMA PaymentBooked ==
    ASSUME order \in Shapes, NEW W \in Worlds, NEW V, NEW i \in DOMAIN Ins, NEW n \in Int,
           V.paid = [W.paid EXCEPT ![i] = @ + n],
           V.delivered = W.delivered, V.held = W.held, V.elsewhere = W.elsewhere, NEW t \in Tokens
    PROVE  Booked(V, t) = Booked(W, t) + (IF order.inTok[i] = t THEN n ELSE 0)
<1>1. /\ W.paid \in [DOMAIN Ins -> Int] /\ OfMaker(t) \subseteq DOMAIN Ins /\ IsFiniteSet(OfMaker(t))
      /\ i \in OfMaker(t) <=> order.inTok[i] = t
  BY LegsFinite DEF Worlds, OfMaker
<1>2. SumFunctionOnSet(V.paid, OfMaker(t)) =
        SumFunctionOnSet(W.paid, OfMaker(t)) + (IF i \in OfMaker(t) THEN n ELSE 0)
  <2> DEFINE S == OfMaker(t)
             f == W.paid
             g == V.paid
  <2>1. IsFiniteSet(S) /\ \A y \in S : f[y] \in Int /\ g[y] \in Int
    BY <1>1
  <2>2. (i \in S => g[i] = f[i] + n) /\ \A y \in S \ {i} : g[y] = f[y]
    BY <1>1
  <2> HIDE DEF S, f, g
  <2>3. SumFunctionOnSet(g, S) = SumFunctionOnSet(f, S) + (IF i \in S THEN n ELSE 0)
    BY <2>1, <2>2, SumRaised
  <2> QED
    BY <2>3 DEF S, f, g
<1> QED
  BY <1>1, <1>2, EstateTypes DEF Booked

(* What is carried between the maker's side and others.                    *)
LEMMA CarriedPurse ==
    ASSUME order \in Shapes, NEW W \in Worlds, NEW V, NEW t \in Tokens,
           NEW from \in Accounts, NEW to \in Accounts, from # to, NEW n \in Nat,
           Carried(W, V, t, from, to, n), NEW u \in Tokens
    PROVE  Purse(V, u) = Purse(W, u)
                           + (IF u = t /\ to \in {Maker, Settlement, Module} THEN n ELSE 0)
                           - (IF u = t /\ from \in {Maker, Settlement, Module} THEN n ELSE 0)
<1>1. Maker \in Accounts /\ Settlement \in Accounts /\ Module \in Accounts
  BY DEF Accounts
<1>2. Maker # Settlement /\ Maker # Module /\ Settlement # Module
  BY ActorsAssumption
<1>3. /\ \A a \in Accounts : W.bal[a][u] \in Nat
      /\ W.stake[u] \in Int /\ V.stake = W.stake
  BY DEF Worlds, Carried
<1>4. \A a \in Accounts :
        V.bal[a][u] = W.bal[a][u] + (IF u = t /\ to = a THEN n ELSE 0) - (IF u = t /\ from = a THEN n ELSE 0)
  <2> TAKE a \in Accounts
  <2>1. W.bal[a][u] \in Nat
    BY <1>3
  <2>2. CASE u = t /\ a = to
    BY <2>1, <2>2 DEF Carried
  <2>3. CASE u = t /\ a = from
    BY <2>1, <2>3 DEF Carried
  <2>4. CASE u # t \/ a \notin {from, to}
    BY <2>1, <2>4 DEF Carried
  <2> QED
    BY <2>2, <2>3, <2>4
<1>5. W.bal[Maker][u] \in Nat /\ W.bal[Settlement][u] \in Nat /\ W.bal[Module][u] \in Nat
  BY <1>1, <1>3
<1>6. /\ V.bal[Maker][u] = W.bal[Maker][u] + (IF u = t /\ to = Maker THEN n ELSE 0)
                                           - (IF u = t /\ from = Maker THEN n ELSE 0)
      /\ V.bal[Settlement][u] = W.bal[Settlement][u] + (IF u = t /\ to = Settlement THEN n ELSE 0)
                                           - (IF u = t /\ from = Settlement THEN n ELSE 0)
      /\ V.bal[Module][u] = W.bal[Module][u] + (IF u = t /\ to = Module THEN n ELSE 0)
                                           - (IF u = t /\ from = Module THEN n ELSE 0)
  BY <1>1, <1>4
<1> QED
  BY <1>2, <1>3, <1>5, <1>6 DEF Purse

(* What the position is fed with is the maker's before and after.          *)
LEMMA FedPurse ==
    ASSUME order \in Shapes, NEW W \in Worlds, NEW V, NEW t \in Tokens,
           NEW from \in {Maker, Settlement, Module}, NEW n \in Int,
           Fed(W, V, t, from, n), NEW u \in Tokens
    PROVE  Purse(V, u) = Purse(W, u)
<1>1. Maker \in Accounts /\ Settlement \in Accounts /\ Module \in Accounts
  BY DEF Accounts
<1>2. Maker # Settlement /\ Maker # Module /\ Settlement # Module
  BY ActorsAssumption
<1>3. /\ W.bal[Maker][u] \in Nat /\ W.bal[Settlement][u] \in Nat /\ W.bal[Module][u] \in Nat
      /\ W.stake[u] \in Int
  BY EstateTypes
<1>4. \A a \in {Maker, Settlement, Module} :
        V.bal[a][u] = IF u = t /\ a = from THEN W.bal[a][u] - n ELSE W.bal[a][u]
  BY <1>1 DEF Fed
<1>5. V.stake[u] = IF u = t THEN W.stake[u] + n ELSE W.stake[u]
  BY DEF Fed
<1>6. /\ V.bal[Maker][u] = IF u = t /\ Maker = from THEN W.bal[Maker][u] - n ELSE W.bal[Maker][u]
      /\ V.bal[Settlement][u] = IF u = t /\ Settlement = from THEN W.bal[Settlement][u] - n ELSE W.bal[Settlement][u]
      /\ V.bal[Module][u] = IF u = t /\ Module = from THEN W.bal[Module][u] - n ELSE W.bal[Module][u]
  BY <1>4
<1> QED
  BY <1>2, <1>3, <1>5, <1>6 DEF Purse

-----------------------------------------------------------------------------
(* What an open fill has left to do, and what lies where meanwhile.        *)

(* Nothing is left at Settlement or the module, nor missing from the maker. *)
Closed(W) ==
    \A t \in Tokens :
      /\ \A a \in {Settlement, Module} : W.bal[a][t] = W.held[a][t]
      /\ Estate(W, t) >= order.wallet[t]

PayLeft(s, t) == \E i \in DOMAIN Ins : order.inTok[i] = t /\ Left(s, <<"pay", i>>)

(* Legs that the module received and no item has used.                     *)
Waiting(f, t) == {j \in DOMAIN Outs : order.outTok[j] = t /\ order.outTo[j] = Module /\ j \notin f.used}

(* No call of one kind comes after one of the other.                       *)
Before(s, a, b) == \A p, q \in DOMAIN s : p < q => ~(s[p][1] = b /\ s[q][1] = a)

(* Items run after every delivery and ahead of every payment.              *)
Ordered(s) ==
    /\ Before(s, "deliver", "item") /\ Before(s, "item", "pay")
    /\ \A j \in DOMAIN Outs, k \in DOMAIN order.items :
         Left(s, <<"deliver", j>>) => Left(s, <<"item", k>>)
    /\ \A k \in DOMAIN order.items, i \in DOMAIN Ins :
         Left(s, <<"item", k>>) => Left(s, <<"pay", i>>)

(* At Settlement lie, besides what is nobody's, the proceeds of inputs to  *)
(* be paid; at the module what legs sent ahead.                            *)
Pool(W, s, f) ==
    \A t \in Tokens :
      /\ f.base = None \/ ~PayLeft(s, t) => W.bal[Settlement][t] = W.held[Settlement][t]
      /\ f.base # None /\ PayLeft(s, t) => f.base[t] = W.held[Settlement][t]
      /\ W.bal[Module][t] = W.held[Module][t] + SumFunctionOnSet(f.outs, Waiting(f, t))

(* What was sent ahead has an item that will spend it.                     *)
SentAhead(s, f) ==
    \A j \in DOMAIN Outs :
      /\ Left(s, <<"deliver", j>>) => f.outs[j] = 0
      /\ j \in f.used => f.outs[j] # 0
      /\ order.outTo[j] = Module /\ j \notin f.used /\ f.outs[j] # 0 =>
           \E k \in DOMAIN order.items : Spends(order.items[k], j) /\ Left(s, <<"item", k>>)

(* The maker is not short, by what is still to be measured either.         *)
Solvent(W, s, f) ==
    /\ \A t \in Tokens : Estate(W, t) >= order.wallet[t]
    /\ order.verify => Measurable
    /\ order.verify => \A j \in DOMAIN Outs :
         order.outTo[j] = Maker /\ Left(s, <<"deliver", j>>) =>
           LET t == order.outTok[j]
           IN  Estate(W, t) >= order.wallet[t] + W.bal[Maker][t] - f.saved.bal[Maker][t]

Rest(W, s, f) == Ordered(s) /\ Pool(W, s, f) /\ SentAhead(s, f) /\ Solvent(W, s, f)

BooksInv ==
    IF todo = <<>> THEN Closed(world)
    ELSE Closed(frame.saved) /\ Rest(world, todo, frame)

(* The calls of an order that have gone are those ahead of what is left.   *)
LEMMA OrderedTail ==
    ASSUME NEW s \in Seq(Calls), s # <<>>, Distinct(s), Ordered(s)
    PROVE  /\ Ordered(Tail(s))
           /\ Head(s)[1] = "item" => \A j \in DOMAIN Outs : ~Left(s, <<"deliver", j>>)
           /\ Head(s)[1] = "pay" => \A k \in DOMAIN order.items : ~Left(s, <<"item", k>>)
<1>1. /\ Len(s) \in Nat \ {0} /\ DOMAIN s = 1..Len(s) /\ Head(s) = s[1]
      /\ DOMAIN Tail(s) = 1..(Len(s) - 1)
      /\ \A i \in 1..(Len(s) - 1) : Tail(s)[i] = s[i + 1]
  BY LenProperties, HeadTailProperties
<1>2. ASSUME NEW a, NEW b, Before(s, a, b) PROVE Before(Tail(s), a, b)
  <2> SUFFICES ASSUME NEW p \in 1..(Len(s) - 1), NEW q \in 1..(Len(s) - 1), p < q
               PROVE  ~(s[p + 1][1] = b /\ s[q + 1][1] = a)
    BY <1>1 DEF Before
  <2>1. p + 1 \in DOMAIN s /\ q + 1 \in DOMAIN s /\ p + 1 < q + 1
    BY <1>1
  <2> QED
    BY <1>2, <2>1 DEF Before
<1>3. ASSUME NEW a, NEW b, a # b, Before(s, a, b), Head(s)[1] = b, NEW i PROVE ~Left(s, <<a, i>>)
  <2> SUFFICES ASSUME NEW q \in DOMAIN s, s[q] = <<a, i>> PROVE FALSE
    BY DEF Left
  <2>1. s[q][1] = a /\ s[1][1] = b
    BY <1>1, <1>3
  <2>2. 1 \in DOMAIN s /\ 1 < q
    BY <1>1, <1>3, <2>1
  <2> QED
    BY <1>3, <2>1, <2>2 DEF Before
<1>4. /\ Head(s)[1] = "item" => \A j \in DOMAIN Outs : ~Left(s, <<"deliver", j>>)
      /\ Head(s)[1] = "pay" => \A k \in DOMAIN order.items : ~Left(s, <<"item", k>>)
  BY <1>3 DEF Ordered
<1>5. \A c : Left(Tail(s), c) <=> Left(s, c) /\ c # Head(s)
  BY TailResult
<1>6. \A a, i, b, k : <<a, i>> = Head(s) => Head(s)[1] = a
  BY <1>1
<1>7. \A j \in DOMAIN Outs, k \in DOMAIN order.items :
        Left(Tail(s), <<"deliver", j>>) => Left(Tail(s), <<"item", k>>)
  <2> SUFFICES ASSUME NEW j \in DOMAIN Outs, NEW k \in DOMAIN order.items, Left(Tail(s), <<"deliver", j>>)
               PROVE  Left(Tail(s), <<"item", k>>)
    OBVIOUS
  <2>1. Left(s, <<"deliver", j>>)
    BY <1>5
  <2>2. Left(s, <<"item", k>>) /\ Head(s)[1] # "item"
    BY <1>4, <2>1 DEF Ordered
  <2> QED
    BY <1>5, <1>6, <2>2
<1>8. \A k \in DOMAIN order.items, i \in DOMAIN Ins :
        Left(Tail(s), <<"item", k>>) => Left(Tail(s), <<"pay", i>>)
  <2> SUFFICES ASSUME NEW k \in DOMAIN order.items, NEW i \in DOMAIN Ins, Left(Tail(s), <<"item", k>>)
               PROVE  Left(Tail(s), <<"pay", i>>)
    OBVIOUS
  <2>1. Left(s, <<"item", k>>)
    BY <1>5
  <2>2. Left(s, <<"pay", i>>) /\ Head(s)[1] # "pay"
    BY <1>4, <2>1 DEF Ordered
  <2> QED
    BY <1>5, <1>6, <2>2
<1> QED
  BY <1>2, <1>4, <1>7, <1>8 DEF Ordered

(* Two lists of calls, one after the other, when no call of the second     *)
(* kind is in the first, or none of the first kind in the second.          *)
LEMMA ConcatBefore ==
    ASSUME NEW S, NEW T, NEW s \in Seq(S), NEW t \in Seq(T), NEW a, NEW b,
           Before(s, a, b), Before(t, a, b),
           (\A x \in S : x[1] # b) \/ (\A x \in T : x[1] # a)
    PROVE  Before(s \o t, a, b)
<1>1. s \in Seq(S \cup T) /\ t \in Seq(S \cup T)
  OBVIOUS
<1>2. /\ s \o t \in Seq(S \cup T) /\ Len(s \o t) = Len(s) + Len(t)
      /\ \A i \in 1..(Len(s) + Len(t)) : (s \o t)[i] = IF i <= Len(s) THEN s[i] ELSE t[i - Len(s)]
  BY <1>1, ConcatProperties
<1>3. /\ Len(s) \in Nat /\ Len(t) \in Nat /\ DOMAIN s = 1..Len(s) /\ DOMAIN t = 1..Len(t)
      /\ \A i \in DOMAIN s : s[i] \in S
      /\ \A i \in DOMAIN t : t[i] \in T
  BY LenProperties
<1>4. DOMAIN (s \o t) = 1..(Len(s) + Len(t))
  BY <1>2, LenProperties
<1> SUFFICES ASSUME NEW p \in 1..(Len(s) + Len(t)), NEW q \in 1..(Len(s) + Len(t)), p < q,
                    (s \o t)[p][1] = b, (s \o t)[q][1] = a
             PROVE  FALSE
  BY <1>4 DEF Before
<1>5. CASE q <= Len(s)
  <2>1. p \in DOMAIN s /\ q \in DOMAIN s /\ (s \o t)[p] = s[p] /\ (s \o t)[q] = s[q]
    BY <1>2, <1>3, <1>5
  <2> QED
    BY <2>1 DEF Before
<1>6. CASE p > Len(s)
  <2>1. /\ p - Len(s) \in DOMAIN t /\ q - Len(s) \in DOMAIN t /\ p - Len(s) < q - Len(s)
        /\ (s \o t)[p] = t[p - Len(s)] /\ (s \o t)[q] = t[q - Len(s)]
    BY <1>2, <1>3, <1>6
  <2> QED
    BY <2>1 DEF Before
<1>7. CASE p <= Len(s) /\ q > Len(s)
  <2>1. /\ p \in DOMAIN s /\ q - Len(s) \in DOMAIN t
        /\ (s \o t)[p] = s[p] /\ (s \o t)[q] = t[q - Len(s)]
    BY <1>2, <1>3, <1>7
  <2> QED
    BY <1>3, <2>1
<1> QED
  BY <1>3, <1>5, <1>6, <1>7

(* A plan is in order.                                                     *)
LEMMA PlanOrdered ==
    ASSUME order \in Shapes, NEW entry, entry \in InputsFirst => order.items = <<>>
    PROVE  Ordered(Plan(entry))
<1> DEFINE D == Steps("deliver", Outs)
           I == Steps("item", order.items)
           P == Steps("pay", Ins)
           SD == {"deliver"} \X DOMAIN Outs
           SI == {"item"} \X DOMAIN order.items
           SP == {"pay"} \X DOMAIN Ins
           F == D \o I
           SF == SD \cup SI
<1>1. Outs \in Seq(Legs) /\ Ins \in Seq(Legs) /\ order.items \in Seq(Items)
  BY OrderFields
<1>2. /\ D \in Seq(SD) /\ I \in Seq(SI) /\ P \in Seq(SP)
      /\ Distinct(D) /\ Distinct(I) /\ Distinct(P)
      /\ \A k \in DOMAIN order.items : Left(I, <<"item", k>>)
  BY <1>1, StepsResult
<1>3. ASSUME NEW kind, NEW seq, NEW a, NEW b, a # b PROVE Before(Steps(kind, seq), a, b)
  BY <1>3 DEF Before, Steps
<1>4. /\ Before(D, "deliver", "item") /\ Before(D, "item", "pay")
      /\ Before(I, "deliver", "item") /\ Before(I, "item", "pay")
      /\ Before(P, "deliver", "item") /\ Before(P, "item", "pay")
  BY <1>3
<1>5. Plan(entry) = IF entry \in InputsFirst THEN P \o D ELSE F \o P
  <2>1. (D \o I) \o P = D \o I \o P
    OBVIOUS
  <2> QED
    BY <2>1 DEF Plan
<1>6. /\ \A x \in SD : x[1] = "deliver"
      /\ \A x \in SI : x[1] = "item"
      /\ \A x \in SP : x[1] = "pay"
      /\ \A x \in SF : x[1] \in {"deliver", "item"}
      /\ SD \cap SI = {} /\ SF \cap SP = {}
  OBVIOUS
<1>7. /\ \A j \in DOMAIN Outs : Left(Plan(entry), <<"deliver", j>>)
      /\ \A i \in DOMAIN Ins : Left(Plan(entry), <<"pay", i>>)
  BY PlanResult
<1>8. F \in Seq(SF) /\ Distinct(F) /\ \A c : Left(D, c) \/ Left(I, c) => Left(F, c)
  <2> HIDE DEF D, I, SD, SI
  <2> QED
    BY <1>2, <1>6, ConcatResult
<1> HIDE DEF D, I, P, SD, SI, SP
<1>9. Before(F, "deliver", "item") /\ Before(F, "item", "pay")
  BY <1>2, <1>4, <1>6, ConcatBefore
<1> HIDE DEF F, SF
<1>10. Before(P \o D, "deliver", "item") /\ Before(P \o D, "item", "pay")
  BY <1>2, <1>4, <1>6, ConcatBefore
<1>11. Before(F \o P, "deliver", "item") /\ Before(F \o P, "item", "pay")
  BY <1>2, <1>4, <1>6, <1>8, <1>9, ConcatBefore
<1>12. \A k \in DOMAIN order.items : Left(Plan(entry), <<"item", k>>)
  <2>1. CASE entry \in InputsFirst
    <3>1. DOMAIN order.items = {}
      BY <2>1
    <3> QED
      BY <3>1
  <2>2. CASE entry \notin InputsFirst
    <3>1. \A c : Left(F, c) \/ Left(P, c) => Left(F \o P, c)
      BY <1>2, <1>6, <1>8, ConcatResult
    <3> QED
      BY <1>2, <1>5, <1>8, <2>2, <3>1
  <2> QED
    BY <2>1, <2>2
<1> QED
  BY <1>5, <1>7, <1>10, <1>11, <1>12 DEF Ordered

(* A fill that has nothing left to do leaves nothing.                      *)
LEMMA RestClosed ==
    ASSUME order \in Shapes, NEW W \in Worlds, NEW f \in Frames, Rest(W, <<>>, f)
    PROVE  Closed(W)
<1>1. \A c : ~Left(<<>>, c)
  BY DEF Left
<1>2. \A t \in Tokens : ~PayLeft(<<>>, t)
  BY <1>1 DEF PayLeft
<1>3. ASSUME NEW t \in Tokens PROVE SumFunctionOnSet(f.outs, Waiting(f, t)) = 0
  <2>1. \A j \in Waiting(f, t) : f.outs[j] = 0
    BY <1>1 DEF Rest, SentAhead, Waiting
  <2>2. IsFiniteSet(Waiting(f, t))
    <3>1. Waiting(f, t) \subseteq DOMAIN Outs
      BY DEF Waiting
    <3> QED
      BY <3>1, LegsFinite, FS_Subset
  <2> QED
    BY <2>1, <2>2, SumZero
<1>4. ASSUME NEW t \in Tokens PROVE W.bal[Settlement][t] = W.held[Settlement][t] /\ W.bal[Module][t] = W.held[Module][t]
  <2>1. W.held[Module][t] \in Nat
    BY EstateTypes
  <2>2. W.bal[Module][t] = W.held[Module][t] + SumFunctionOnSet(f.outs, Waiting(f, t))
    BY DEF Rest, Pool
  <2>3. W.bal[Settlement][t] = W.held[Settlement][t]
    BY <1>2 DEF Rest, Pool
  <2> QED
    BY <1>3, <2>1, <2>2, <2>3
<1> QED
  BY <1>4 DEF Closed, Rest, Solvent

(* A call that has gone changes nothing for the payments that are left,    *)
(* unless it is one.                                                       *)
LEMMA CallGone ==
    ASSUME TypeOK, todo # <<>>, Distinct(todo), Ordered(todo)
    PROVE  /\ Ordered(Tail(todo))
           /\ \A c : Left(Tail(todo), c) <=> Left(todo, c) /\ c # Head(todo)
           /\ Left(todo, Head(todo))
           /\ \A t : PayLeft(Tail(todo), t) => PayLeft(todo, t)
           /\ ~Due("pay") => \A t : PayLeft(Tail(todo), t) <=> PayLeft(todo, t)
           /\ Due("item") => /\ \A j \in DOMAIN Outs : ~Left(todo, <<"deliver", j>>)
                             /\ \A i \in DOMAIN Ins : Left(todo, <<"pay", i>>)
           /\ Due("pay") => \A k \in DOMAIN order.items : ~Left(todo, <<"item", k>>)
<1>1. todo \in Seq(Calls)
  BY DEF TypeOK
<1>2. \A c : Left(Tail(todo), c) <=> Left(todo, c) /\ c # Head(todo)
  BY <1>1, TailResult
<1>3. Left(todo, Head(todo))
  <2>1. 1 \in DOMAIN todo /\ todo[1] = Head(todo)
    BY <1>1, LenProperties, HeadTailProperties
  <2> QED
    BY <2>1 DEF Left
<1>4. /\ Ordered(Tail(todo))
      /\ Due("item") => \A j \in DOMAIN Outs : ~Left(todo, <<"deliver", j>>)
      /\ Due("pay") => \A k \in DOMAIN order.items : ~Left(todo, <<"item", k>>)
  BY <1>1, OrderedTail DEF Due
<1>5. \A t : PayLeft(Tail(todo), t) => PayLeft(todo, t)
  BY <1>2 DEF PayLeft
<1>6. ASSUME ~Due("pay"), NEW t PROVE PayLeft(Tail(todo), t) <=> PayLeft(todo, t)
  <2>1. \A i : <<"pay", i>> # Head(todo)
    BY <1>6 DEF Due
  <2> QED
    BY <1>2, <2>1 DEF PayLeft
<1>7. ASSUME Due("item"), NEW i \in DOMAIN Ins PROVE Left(todo, <<"pay", i>>)
  <2>1. At \in DOMAIN order.items /\ Head(todo) = <<"item", At>>
    BY <1>7, NextCall
  <2> QED
    BY <1>3, <2>1 DEF Ordered
<1> QED
  BY <1>2, <1>3, <1>4, <1>5, <1>6, <1>7

(* What an order leaves nowhere.                                           *)
LEMMA NothingLeft ==
    ASSUME order \in Shapes, LeavesNothing(order)
    PROVE  /\ \A j \in DOMAIN Outs :
                /\ order.outTo[j] # Settlement
                /\ order.outTo[j] = Module =>
                     ~order.verify /\ \E k \in DOMAIN order.items : Spends(order.items[k], j)
           /\ \A k \in DOMAIN order.items :
                order.items[k].op # "make" /\ order.items[k].to = Settlement =>
                  \E i \in DOMAIN Ins : order.inTok[i] = order.items[k].token
           /\ \A k \in DOMAIN order.items : Described(order.items[k])
<1>1. /\ order.outTo \in [DOMAIN Outs -> Accounts \ {Filler}]
      /\ order.inTok \in [DOMAIN Ins -> Tokens]
  BY ShapesAssumption DEF Outs, Ins, Terms
<1>2. DOMAIN order.outTo = DOMAIN Outs /\ DOMAIN order.inTok = DOMAIN Ins
  BY <1>1
<1>3. \A k \in DOMAIN order.items : Described(order.items[k])
  BY ShapesAssumption
<1> QED
  BY <1>2, <1>3 DEF LeavesNothing

-----------------------------------------------------------------------------
(* What each call moves.                                                   *)

(* A delivery: the leg's due from the filler to the receiver, or nothing   *)
(* when it is measured there.                                              *)
LEMMA DeliverMoves ==
    ASSUME TypeOK, Deliver
    PROVE  \E V : LET t == order.outTok[At]
                      to == order.outTo[At]
                      n == OutputAt(Buy, Outs[At], frame.ctx)
                  IN  /\ Step(V, [frame EXCEPT !.outs[At] = n]) /\ V \in Worlds
                      /\ V.delivered = [world.delivered EXCEPT ![At] = @ + n]
                      /\ V.paid = world.paid /\ V.held = world.held /\ V.elsewhere = world.elsewhere
                      /\ order.verify => /\ V.bal = world.bal /\ V.stake = world.stake
                                         /\ n # 0 => world.bal[to][t] >= frame.saved.bal[to][t] + n
                      /\ ~order.verify =>
                           \E W \in Worlds : /\ Carried(world, W, t, Filler, to, n)
                                             /\ V.bal = W.bal /\ V.stake = W.stake
<1> DEFINE t == order.outTok[At]
           to == order.outTo[At]
           n == OutputAt(Buy, Outs[At], frame.ctx)
<1>1. todo # <<>> /\ Due("deliver")
  BY DEF Deliver, Due
<1>2. At \in DOMAIN Outs /\ Head(todo) = <<"deliver", At>>
  BY <1>1, NextCall
<1>3. order \in Shapes /\ world \in Worlds /\ Opened(frame)
  BY <1>1 DEF TypeOK
<1>4. t \in Tokens /\ to \in Accounts /\ to # Filler /\ n \in Nat
  BY <1>2, <1>3, OrderFields, DueNat
<1>5. PICK W \in Delivered(t, to, n) :
        Step([W EXCEPT !.delivered[At] = @ + IF order.verify THEN n ELSE W.bal[to][t] - world.bal[to][t]],
             [frame EXCEPT !.outs[At] = n])
  BY DEF Deliver
<1>6. PICK V, g : /\ Step(V, g) /\ Good(V) /\ V.paid = world.paid
                  /\ V.delivered = [world.delivered EXCEPT ![At] = @ + n]
  BY DeliverResult
<1> HIDE DEF t, to, n
<1>7. /\ order.verify \/ n = 0 => W = world
      /\ order.verify /\ n # 0 => world.bal[to][t] >= frame.saved.bal[to][t] + n
  BY <1>5 DEF Delivered
<1>8. ~order.verify => Carried(world, W, t, Filler, to, n)
  <2>0. Filler \in Accounts /\ Filler \in {Maker, Filler}
    BY Actors
  <2>1. CASE n = 0
    <3>1. Unmoved(world, world)
      BY <1>3 DEF Unmoved, Unbooked, Kept
    <3>2. Carried(world, world, t, Filler, to, 0)
      BY <1>3, <1>4, <2>0, <3>1, UnmovedIsCarried
    <3> QED
      BY <1>7, <2>1, <3>2
  <2>2. CASE n # 0 /\ ~order.verify /\ frame.direct
    <3>1. W \in Move(world, t, Filler, to, n)
      BY <1>5, <2>2 DEF Delivered
    <3> QED
      BY <1>3, <1>4, <2>0, <3>1, MoveCarries
  <2>3. CASE n # 0 /\ ~order.verify /\ ~frame.direct
    <3>1. W \in Pull(world, t, Filler, to, n)
      BY <1>5, <2>3 DEF Delivered
    <3> QED
      BY <1>3, <1>4, <2>0, <3>1, PullCarries
  <2> QED
    BY <2>1, <2>2, <2>3
<1>9. W \in Worlds /\ Unbooked(world, W)
  <2>1. CASE order.verify
    BY <1>3, <1>7, <2>1 DEF Unbooked, Kept
  <2>2. CASE ~order.verify
    BY <1>8, <2>2 DEF Carried
  <2> QED
    BY <2>1, <2>2
<1>10. V = [W EXCEPT !.delivered[At] = @ + IF order.verify THEN n ELSE W.bal[to][t] - world.bal[to][t]]
  BY <1>5, <1>6 DEF Step
<1>11. V.bal = W.bal /\ V.stake = W.stake /\ V.held = W.held /\ V.elsewhere = W.elsewhere
  BY <1>9, <1>10 DEF Worlds
<1>12. V \in Worlds /\ V.held = world.held /\ V.elsewhere = world.elsewhere
  BY <1>6, <1>9, <1>11 DEF Good, Unbooked
<1>13. Step(V, [frame EXCEPT !.outs[At] = n])
  BY <1>5, <1>10
<1>14. /\ order.verify => /\ V.bal = world.bal /\ V.stake = world.stake
                          /\ n # 0 => world.bal[to][t] >= frame.saved.bal[to][t] + n
       /\ ~order.verify => \E X \in Worlds : /\ Carried(world, X, t, Filler, to, n)
                                             /\ V.bal = X.bal /\ V.stake = X.stake
  BY <1>7, <1>8, <1>9, <1>11
<1> QED
  BY <1>6, <1>12, <1>13, <1>14 DEF t, to, n

(* What lies at Settlement and the module for the fill, and what the maker *)
(* has, after a delivery.                                                  *)
LEMMA DeliverKeeps ==
    ASSUME Inv, BooksInv, LeavesNothing(order), Deliver
    PROVE  \E V, f : Step(V, f) /\ V \in Worlds /\ f \in Frames /\ f.saved = frame.saved /\ Rest(V, Tail(todo), f)
<1> DEFINE t == order.outTok[At]
           to == order.outTo[At]
           n == OutputAt(Buy, Outs[At], frame.ctx)
           f == [frame EXCEPT !.outs[At] = n]
<1>1. todo # <<>> /\ Due("deliver") /\ ~Due("pay") /\ ~Due("item")
  BY DEF Deliver, Due
<1>2. /\ TypeOK /\ order \in Shapes /\ world \in Worlds /\ Opened(frame) /\ frame \in Frames
      /\ Distinct(todo) /\ Rest(world, todo, frame)
  BY <1>1 DEF Inv, TypeOK, Opened, Moved, BooksInv
<1>3. At \in DOMAIN Outs /\ Head(todo) = <<"deliver", At>>
  BY <1>1, <1>2, NextCall
<1>4. t \in Tokens /\ to \in Accounts /\ to # Filler /\ n \in Nat
  BY <1>2, <1>3, OrderFields, DueNat
<1>5. /\ to # Settlement
      /\ to = Module => ~order.verify /\ \E k \in DOMAIN order.items : Spends(order.items[k], At)
  BY <1>2, <1>3, NothingLeft
<1>6. PICK V :
        /\ Step(V, f) /\ V \in Worlds
        /\ V.delivered = [world.delivered EXCEPT ![At] = @ + n]
        /\ V.paid = world.paid /\ V.held = world.held /\ V.elsewhere = world.elsewhere
        /\ order.verify => /\ V.bal = world.bal /\ V.stake = world.stake
                           /\ n # 0 => world.bal[to][t] >= frame.saved.bal[to][t] + n
        /\ ~order.verify =>
             \E W \in Worlds : /\ Carried(world, W, t, Filler, to, n)
                               /\ V.bal = W.bal /\ V.stake = W.stake
  BY <1>2, DeliverMoves
<1>7. /\ frame.outs \in [DOMAIN Outs -> Nat]
      /\ f \in Frames /\ f.outs = [frame.outs EXCEPT ![At] = n]
      /\ f.saved = frame.saved /\ f.used = frame.used /\ f.base = frame.base
  <2>1. frame.outs \in [DOMAIN Outs -> Nat]
    BY <1>2 DEF Frames
  <2>2. [frame.outs EXCEPT ![At] = n] \in [DOMAIN Outs -> Nat]
    BY <1>4, <2>1
  <2>3. f = [frame EXCEPT !.outs = [frame.outs EXCEPT ![At] = n]]
    BY <1>2 DEF Frames
  <2> HIDE DEF f, n
  <2> QED
    BY <1>2, <2>1, <2>2, <2>3 DEF Frames
<1>8. At \in ToMaker(t) <=> to \in {Maker, Module}
  BY <1>3 DEF ToMaker
<1>9. \A u \in Tokens : At \in ToMaker(u) <=> u = t /\ to \in {Maker, Module}
  BY <1>3 DEF ToMaker
<1>10. PICK s : s = Tail(todo)
  OBVIOUS
<1>11. /\ Ordered(s)
       /\ \A c : Left(s, c) <=> Left(todo, c) /\ c # Head(todo)
       /\ Left(todo, <<"deliver", At>>)
       /\ \A u : PayLeft(s, u) <=> PayLeft(todo, u)
  BY <1>1, <1>2, <1>3, <1>10, CallGone DEF Rest
<1>12. /\ frame.outs[At] = 0 /\ At \notin frame.used
       /\ order.verify => Measurable
  BY <1>2, <1>3, <1>11 DEF Rest, SentAhead, Solvent
<1>13. \A j \in DOMAIN Outs : order.outTo[j] = to => (j \in Waiting(frame, order.outTok[j]) <=> to = Module /\ j \notin frame.used)
  BY DEF Waiting
<1> HIDE DEF f, n, t, to
<1>14. ASSUME NEW u \in Tokens
       PROVE  Booked(V, u) = Booked(world, u) - (IF u = t /\ to \in {Maker, Module} THEN n ELSE 0)
  <2>1. Booked(V, u) = Booked(world, u) - (IF At \in ToMaker(u) THEN n ELSE 0)
    BY <1>2, <1>3, <1>4, <1>6, DeliveryBooked
  <2> QED
    BY <1>9, <2>1
<1>15. ASSUME NEW u \in Tokens, ~order.verify
       PROVE  /\ Purse(V, u) = Purse(world, u) + (IF u = t /\ to \in {Maker, Module} THEN n ELSE 0)
              /\ V.bal[Settlement][u] = world.bal[Settlement][u]
              /\ V.bal[Module][u] = world.bal[Module][u] + (IF u = t /\ to = Module THEN n ELSE 0)
  <2>1. PICK W \in Worlds : Carried(world, W, t, Filler, to, n) /\ V.bal = W.bal /\ V.stake = W.stake
    BY <1>6, <1>15
  <2>2. Purse(V, u) = Purse(W, u)
    BY <2>1 DEF Purse
  <2>3. /\ Filler \in Accounts /\ Settlement \in Accounts /\ Module \in Accounts
        /\ Filler \notin {Maker, Settlement, Module} /\ Settlement # Module
    BY ActorsAssumption DEF Accounts
  <2>4. Purse(W, u) = Purse(world, u) + (IF u = t /\ to \in {Maker, Settlement, Module} THEN n ELSE 0)
                                      - (IF u = t /\ Filler \in {Maker, Settlement, Module} THEN n ELSE 0)
    BY <1>2, <1>4, <2>1, <2>3, CarriedPurse
  <2>5. Purse(world, u) \in Int /\ world.bal[Module][u] \in Nat
    BY <1>2, EstateTypes
  <2>6. Purse(W, u) = Purse(world, u) + (IF u = t /\ to \in {Maker, Module} THEN n ELSE 0)
    BY <1>4, <1>5, <2>3, <2>4, <2>5
  <2>7. V.bal[Settlement][u] = world.bal[Settlement][u]
    BY <1>5, <2>1, <2>3 DEF Carried
  <2>8. V.bal[Module][u] = world.bal[Module][u] + (IF u = t /\ to = Module THEN n ELSE 0)
    <3>1. CASE u = t /\ to = Module
      BY <2>1, <3>1 DEF Carried
    <3>2. CASE ~(u = t /\ to = Module)
      BY <2>1, <2>3, <2>5, <3>2 DEF Carried
    <3> QED
      BY <3>1, <3>2
  <2> QED
    BY <2>2, <2>6, <2>7, <2>8
<1>16. ASSUME NEW u \in Tokens, order.verify
       PROVE  /\ Purse(V, u) = Purse(world, u)
              /\ V.bal[Settlement][u] = world.bal[Settlement][u]
              /\ V.bal[Module][u] = world.bal[Module][u]
  BY <1>6, <1>16 DEF Purse
<1>17. Pool(V, s, f)
  <2> SUFFICES ASSUME NEW u \in Tokens
               PROVE  /\ f.base = None \/ ~PayLeft(s, u) => V.bal[Settlement][u] = V.held[Settlement][u]
                      /\ f.base # None /\ PayLeft(s, u) => f.base[u] = V.held[Settlement][u]
                      /\ V.bal[Module][u] = V.held[Module][u] + SumFunctionOnSet(f.outs, Waiting(f, u))
    BY DEF Pool
  <2>1. /\ frame.base = None \/ ~PayLeft(todo, u) => world.bal[Settlement][u] = world.held[Settlement][u]
        /\ frame.base # None /\ PayLeft(todo, u) => frame.base[u] = world.held[Settlement][u]
        /\ world.bal[Module][u] = world.held[Module][u] + SumFunctionOnSet(frame.outs, Waiting(frame, u))
    BY <1>2 DEF Rest, Pool
  <2>2. V.bal[Settlement][u] = world.bal[Settlement][u]
    BY <1>15, <1>16
  <2>3. V.bal[Module][u] = world.bal[Module][u] + (IF u = t /\ to = Module THEN n ELSE 0)
    <3>1. world.bal[Module][u] \in Nat
      BY <1>2, EstateTypes
    <3> QED
      BY <1>5, <1>15, <1>16, <3>1
  <2>4. Waiting(f, u) = Waiting(frame, u)
    BY <1>7 DEF Waiting
  <2> DEFINE S == Waiting(frame, u)
  <2>5. S \subseteq DOMAIN Outs /\ (At \in S <=> u = t /\ to = Module)
    BY <1>3, <1>12 DEF Waiting, t, to
  <2>6. IsFiniteSet(S)
    BY <1>2, <2>5, LegsFinite, FS_Subset
  <2> HIDE DEF S
  <2>7. /\ SumFunctionOnSet(frame.outs, S) \in Int
        /\ SumFunctionOnSet(f.outs, S) = SumFunctionOnSet(frame.outs, S) + (IF At \in S THEN n ELSE 0)
    <3> DEFINE a == frame.outs
               b == f.outs
    <3>1. \A x \in S : a[x] \in Int /\ b[x] \in Int
      BY <1>4, <1>7, <2>5
    <3>2. (At \in S => b[At] = a[At] + n) /\ \A x \in S \ {At} : b[x] = a[x]
      BY <1>3, <1>4, <1>7, <1>12, <2>5
    <3> HIDE DEF a, b
    <3>3. /\ SumFunctionOnSet(a, S) \in Int
          /\ SumFunctionOnSet(b, S) = SumFunctionOnSet(a, S) + (IF At \in S THEN n ELSE 0)
      BY <1>4, <2>6, <3>1, <3>2, SumRaised
    <3> QED
      BY <3>3 DEF a, b
  <2>8. world.held[Module][u] \in Nat
    BY <1>2, EstateTypes
  <2>9. V.bal[Module][u] = V.held[Module][u] + SumFunctionOnSet(f.outs, Waiting(f, u))
    BY <1>4, <1>6, <2>1, <2>3, <2>4, <2>5, <2>7, <2>8 DEF S
  <2> QED
    BY <1>6, <1>7, <1>11, <2>1, <2>2, <2>9
<1>18. SentAhead(s, f)
  <2> SUFFICES ASSUME NEW j \in DOMAIN Outs
               PROVE  /\ Left(s, <<"deliver", j>>) => f.outs[j] = 0
                      /\ j \in f.used => f.outs[j] # 0
                      /\ order.outTo[j] = Module /\ j \notin f.used /\ f.outs[j] # 0 =>
                           \E k \in DOMAIN order.items : Spends(order.items[k], j) /\ Left(s, <<"item", k>>)
    BY DEF SentAhead
  <2>1. /\ Left(todo, <<"deliver", j>>) => frame.outs[j] = 0
        /\ j \in frame.used => frame.outs[j] # 0
        /\ order.outTo[j] = Module /\ j \notin frame.used /\ frame.outs[j] # 0 =>
             \E k \in DOMAIN order.items : Spends(order.items[k], j) /\ Left(todo, <<"item", k>>)
    BY <1>2 DEF Rest, SentAhead
  <2>2. \A k \in DOMAIN order.items : Left(s, <<"item", k>>)
    <3>1. \A k \in DOMAIN order.items : Left(todo, <<"item", k>>)
      BY <1>2, <1>3, <1>11 DEF Rest, Ordered
    <3>2. \A k : <<"item", k>> # Head(todo)
      BY <1>3
    <3> QED
      BY <1>11, <3>1, <3>2
  <2>3. CASE j = At
    <3>1. ~Left(s, <<"deliver", j>>) /\ j \notin f.used
      BY <1>3, <1>7, <1>11, <1>12, <2>3
    <3>2. order.outTo[j] = Module => \E k \in DOMAIN order.items : Spends(order.items[k], j)
      BY <1>5, <2>3 DEF to
    <3> QED
      BY <2>2, <3>1, <3>2
  <2>4. CASE j # At
    <3>1. f.outs[j] = frame.outs[j]
      BY <1>7, <2>4
    <3>2. Left(s, <<"deliver", j>>) => Left(todo, <<"deliver", j>>)
      BY <1>11
    <3> QED
      BY <1>7, <2>1, <2>2, <3>1, <3>2
  <2> QED
    BY <2>3, <2>4
<1>19. ASSUME NEW u \in Tokens
       PROVE  /\ Estate(world, u) \in Int /\ order.wallet[u] \in Nat /\ Estate(world, u) >= order.wallet[u]
              /\ ~order.verify => Estate(V, u) = Estate(world, u)
              /\ order.verify => Estate(V, u) = Estate(world, u) - (IF u = t /\ to = Maker THEN n ELSE 0)
  <2>1. /\ Purse(world, u) \in Int /\ Booked(world, u) \in Int /\ order.wallet[u] \in Nat
        /\ Estate(world, u) \in Int
    BY <1>2, EstateTypes
  <2>2. Estate(world, u) >= order.wallet[u]
    BY <1>2 DEF Rest, Solvent
  <2>3. CASE ~order.verify
    BY <1>4, <1>14, <1>15, <2>1, <2>2, <2>3 DEF Estate
  <2>4. CASE order.verify
    BY <1>4, <1>5, <1>14, <1>16, <2>1, <2>2, <2>4 DEF Estate
  <2> QED
    BY <2>3, <2>4
<1>20. ASSUME order.verify, NEW j \in DOMAIN Outs, order.outTo[j] = Maker, Left(todo, <<"deliver", j>>)
       PROVE  LET u == order.outTok[j]
              IN  /\ u \in Tokens
                  /\ Estate(world, u) >= order.wallet[u] + world.bal[Maker][u] - frame.saved.bal[Maker][u]
                  /\ world.bal[Maker][u] \in Nat /\ frame.saved.bal[Maker][u] \in Nat
  <2>1. order.outTok[j] \in Tokens /\ frame.saved \in Worlds
    BY <1>2, OrderFields DEF Frames
  <2> QED
    BY <1>2, <1>20, <2>1, EstateTypes DEF Rest, Solvent
<1>21. Solvent(V, s, f)
  <2>1. ASSUME NEW u \in Tokens PROVE Estate(V, u) >= order.wallet[u]
    <3>1. CASE order.verify /\ u = t /\ to = Maker /\ n # 0
      <4>1. Estate(world, u) >= order.wallet[u] + world.bal[Maker][u] - frame.saved.bal[Maker][u]
        BY <1>3, <1>11, <1>20, <3>1 DEF t, to
      <4>2. world.bal[Maker][u] >= frame.saved.bal[Maker][u] + n
        BY <1>6, <3>1
      <4>3. world.bal[Maker][u] \in Nat /\ frame.saved.bal[Maker][u] \in Nat
        BY <1>3, <1>11, <1>20, <3>1 DEF t, to
      <4> QED
        BY <1>4, <1>19, <3>1, <4>1, <4>2, <4>3
    <3>2. CASE ~(order.verify /\ u = t /\ to = Maker /\ n # 0)
      BY <1>19, <3>2
    <3> QED
      BY <3>1, <3>2
  <2>2. ASSUME order.verify, NEW j \in DOMAIN Outs, order.outTo[j] = Maker, Left(s, <<"deliver", j>>)
        PROVE  LET u == order.outTok[j]
               IN  Estate(V, u) >= order.wallet[u] + V.bal[Maker][u] - f.saved.bal[Maker][u]
    <3> DEFINE u == order.outTok[j]
    <3>1. j # At /\ Left(todo, <<"deliver", j>>)
      BY <1>3, <1>11, <2>2
    <3>2. ~(u = t /\ to = Maker)
      BY <1>3, <1>12, <2>2, <3>1 DEF Measurable, t, to
    <3>3. u \in Tokens /\ Estate(world, u) >= order.wallet[u] + world.bal[Maker][u] - frame.saved.bal[Maker][u]
      BY <1>20, <2>2, <3>1
    <3> HIDE DEF u
    <3>4. Estate(V, u) = Estate(world, u)
      BY <1>19, <2>2, <3>2, <3>3
    <3>5. Estate(V, u) >= order.wallet[u] + V.bal[Maker][u] - f.saved.bal[Maker][u]
      BY <1>6, <1>7, <2>2, <3>3, <3>4
    <3> QED
      BY <3>5 DEF u
  <2> QED
    BY <1>12, <2>1, <2>2 DEF Solvent
<1> QED
  BY <1>6, <1>7, <1>10, <1>11, <1>17, <1>18, <1>21 DEF Rest

(* What keeps the maker's purse and its books.                             *)
Steady(W, V) == V \in Worlds /\ Unbooked(W, V) /\ \A u \in Tokens : Purse(V, u) = Purse(W, u)

(* An item takes from the module what a leg sent ahead for it, all of it   *)
(* and once, or nothing.                                                   *)
Spent(V, used, item) ==
    /\ frame.used \subseteq used /\ used \subseteq DOMAIN Outs
    /\ \/ /\ \A j \in used \ frame.used : frame.outs[j] # 0 /\ order.outTo[j] = Maker
          /\ \A u \in Tokens : V.bal[Module][u] = world.bal[Module][u]
          /\ \A j \in DOMAIN Outs : Spends(item, j) => frame.outs[j] = 0
       \/ \E j \in DOMAIN Outs :
            /\ order.outTo[j] = Module /\ frame.outs[j] # 0 /\ j \notin frame.used
            /\ used = frame.used \cup {j} /\ Spends(item, j)
            /\ \A u \in Tokens :
                 V.bal[Module][u] = world.bal[Module][u] - (IF u = order.outTok[j] THEN frame.outs[j] ELSE 0)

(* What funds an item, out of a leg or not.                                *)
LEMMA FundOfLeg ==
    ASSUME TypeOK, todo # <<>>, NEW fund \in Funds, NEW m \in ForSlice(fund), m # 0
    PROVE  /\ m \in Nat
           /\ fund.how = "prefund" =>
                /\ fund.n \in DOMAIN Outs /\ order.outTo[fund.n] = Module
                /\ order.outTok[fund.n] = fund.token /\ m = frame.outs[fund.n]
                /\ fund.n \notin frame.used /\ UsedBy(fund) = frame.used \cup {fund.n}
           /\ fund.how # "prefund" =>
                /\ frame.used \subseteq UsedBy(fund) /\ UsedBy(fund) \subseteq DOMAIN Outs
                /\ \A j \in UsedBy(fund) \ frame.used : frame.outs[j] # 0 /\ order.outTo[j] = Maker
<1>1. m \in Nat
  BY SliceNat
<1>2. frame \in Frames /\ frame.used \subseteq DOMAIN Outs
  BY DEF TypeOK, Opened, Frames
<1>3. fund.how \in {"leg", "prefund"} =>
        /\ fund.n \in DOMAIN Outs /\ m = frame.outs[fund.n] /\ fund.n \notin frame.used
        /\ IF fund.how = "leg" THEN order.outTo[fund.n] = Maker
           ELSE order.outTo[fund.n] = Module /\ order.outTok[fund.n] = fund.token
  BY DEF ForSlice, Usable
<1>4. CASE fund.how = "prefund"
  BY <1>1, <1>3, <1>4 DEF UsedBy
<1>5. CASE fund.how # "prefund"
  BY <1>1, <1>2, <1>3, <1>5 DEF UsedBy
<1> QED
  BY <1>4, <1>5

(* A position that is fed keeps the maker's purse, whoever it is fed from. *)
LEMMA FedSteady ==
    ASSUME order \in Shapes, NEW W \in Worlds, NEW V, NEW t \in Tokens,
           NEW from \in {Maker, Settlement, Module}, NEW n \in Int, Fed(W, V, t, from, n)
    PROVE  /\ Steady(W, V)
           /\ \A u \in Tokens :
                /\ V.bal[Settlement][u] = IF u = t /\ from = Settlement THEN W.bal[Settlement][u] - n
                                          ELSE W.bal[Settlement][u]
                /\ V.bal[Module][u] = IF u = t /\ from = Module THEN W.bal[Module][u] - n ELSE W.bal[Module][u]
<1>1. Settlement \in Accounts /\ Module \in Accounts
  BY DEF Accounts
<1>2. Steady(W, V)
  BY FedPurse DEF Steady, Fed
<1> QED
  BY <1>1, <1>2 DEF Fed

(* ... and does so from where the item's fund is.                          *)
LEMMA FundedItem ==
    ASSUME TypeOK, todo # <<>>, NEW item \in Items, item.op # "take",
           NEW m \in ForSlice(item.fund), m # 0,
           NEW W, Unmoved(world, W), NEW V \in Supply(W, item.fund, item.fund.token, m)
    PROVE  /\ Steady(world, V) /\ Spent(V, UsedBy(item.fund), item)
           /\ \A u \in Tokens : V.bal[Settlement][u] = world.bal[Settlement][u]
<1> DEFINE fund == item.fund
           from == IF fund.how = "prefund" THEN Module ELSE Maker
<1>1. /\ order \in Shapes /\ world \in Worlds /\ W \in Worlds /\ fund \in Funds /\ fund.token \in Tokens
      /\ W.bal = world.bal /\ W.stake = world.stake /\ Unbooked(world, W)
  BY DEF TypeOK, Unmoved, Items, Funds
<1>2. m \in Nat /\ m \in Int
  BY <1>1, FundOfLeg
<1>3. Fed(W, V, fund.token, from, m)
  BY <1>1, <1>2, SupplyFeeds
<1>4. from \in {Maker, Settlement, Module} /\ (from = Module <=> fund.how = "prefund") /\ from # Settlement
  BY ActorsAssumption
<1> HIDE DEF from
<1>5. /\ Steady(W, V)
      /\ \A u \in Tokens :
           /\ V.bal[Settlement][u] = W.bal[Settlement][u]
           /\ V.bal[Module][u] = IF u = fund.token /\ from = Module THEN W.bal[Module][u] - m ELSE W.bal[Module][u]
  <2> HIDE DEF fund
  <2>1. /\ Steady(W, V)
        /\ \A u \in Tokens :
             /\ V.bal[Settlement][u] = IF u = fund.token /\ from = Settlement THEN W.bal[Settlement][u] - m
                                       ELSE W.bal[Settlement][u]
             /\ V.bal[Module][u] = IF u = fund.token /\ from = Module THEN W.bal[Module][u] - m ELSE W.bal[Module][u]
    BY <1>1, <1>2, <1>3, <1>4, FedSteady
  <2> QED
    BY <1>4, <2>1
<1>6. Steady(world, V)
  BY <1>1, <1>5 DEF Steady, Unbooked, Kept, Purse
<1>7. Spent(V, UsedBy(fund), item)
  <2>1. CASE fund.how = "prefund"
    <3>1. /\ fund.n \in DOMAIN Outs /\ order.outTo[fund.n] = Module
          /\ order.outTok[fund.n] = fund.token /\ m = frame.outs[fund.n]
          /\ fund.n \notin frame.used /\ UsedBy(fund) = frame.used \cup {fund.n}
      BY <1>1, <2>1, FundOfLeg
    <3>2. \A u \in Tokens : world.bal[Module][u] \in Nat
      BY <1>1, EstateTypes
    <3>3. \A u \in Tokens :
            V.bal[Module][u] = world.bal[Module][u] - (IF u = order.outTok[fund.n] THEN frame.outs[fund.n] ELSE 0)
      BY <1>1, <1>4, <1>5, <2>1, <3>1, <3>2
    <3>4. Spends(item, fund.n)
      BY <2>1 DEF Spends
    <3>5. frame.used \subseteq DOMAIN Outs
      BY DEF TypeOK, Opened, Frames
    <3> QED
      BY <3>1, <3>3, <3>4, <3>5 DEF Spent
  <2>2. CASE fund.how # "prefund"
    <3>1. \A j : ~Spends(item, j)
      BY <2>2 DEF Spends
    <3>2. /\ frame.used \subseteq UsedBy(fund) /\ UsedBy(fund) \subseteq DOMAIN Outs
          /\ \A j \in UsedBy(fund) \ frame.used : frame.outs[j] # 0 /\ order.outTo[j] = Maker
      BY <1>1, <2>2, FundOfLeg
    <3> QED
      BY <1>1, <1>4, <1>5, <2>2, <3>1, <3>2 DEF Spent
  <2> QED
    BY <2>1, <2>2
<1> QED
  BY <1>1, <1>5, <1>6, <1>7

(* An item that nothing funds uses nothing.                                *)
LEMMA Unfunded ==
    ASSUME TypeOK, todo # <<>>, NEW item \in Items, item.fund.how \notin {"leg", "prefund"} \/ item.op = "take",
           Described(item), NEW V, \A u \in Tokens : V.bal[Module][u] = world.bal[Module][u]
    PROVE  Spent(V, UsedBy(item.fund), item)
<1>1. item.fund.how \notin {"leg", "prefund"}
  BY DEF Described
<1>2. UsedBy(item.fund) = frame.used /\ \A j : ~Spends(item, j)
  BY <1>1 DEF UsedBy, Spends
<1>3. frame.used \subseteq DOMAIN Outs
  BY DEF TypeOK, Opened, Frames
<1> QED
  BY <1>2, <1>3 DEF Spent

(* A draw on a position is authorised and funded first.                    *)
LEMMA TakeFunded ==
    ASSUME TypeOK, todo # <<>>, NEW item \in Items, item.op # "make", Described(item), NEW n \in Nat,
           NEW V \in Take(item, n)
    PROVE  \E X : /\ Steady(world, X) /\ Spent(X, UsedBy(item.fund), item)
                  /\ \A u \in Tokens : X.bal[Settlement][u] = world.bal[Settlement][u]
                  /\ V \in Draw(X, item, n)
<1>1. order \in Shapes /\ world \in Worlds /\ item.fund \in Funds
  BY DEF TypeOK, Items
<1>2. PICK W \in Authorised(item, n) :
        V \in Then(IF item.op = "take" THEN {W}
                   ELSE Then(ForSlice(item.fund), LAMBDA m :
                          IF m = 0 THEN {} ELSE Supply(W, item.fund, item.fund.token, m)),
                   LAMBDA X : Draw(X, item, n))
  BY DEF Take, Then
<1>3. Unmoved(world, W)
  BY <1>2, AuthorisedMovesNothing
<1>4. PICK X \in (IF item.op = "take" THEN {W}
                  ELSE Then(ForSlice(item.fund), LAMBDA m :
                         IF m = 0 THEN {} ELSE Supply(W, item.fund, item.fund.token, m))) :
        V \in Draw(X, item, n)
  BY <1>2 DEF Then
<1>5. /\ Steady(world, X) /\ Spent(X, UsedBy(item.fund), item)
      /\ \A u \in Tokens : X.bal[Settlement][u] = world.bal[Settlement][u]
  <2>1. CASE item.op = "take"
    <3>1. X = W
      BY <1>4, <2>1
    <3>2. Steady(world, X)
      BY <1>3, <3>1 DEF Steady, Unmoved, Purse
    <3> QED
      BY <1>3, <2>1, <3>1, <3>2, Unfunded DEF Unmoved
  <2>2. CASE item.op # "take"
    <3>1. PICK m \in ForSlice(item.fund) : m # 0 /\ X \in Supply(W, item.fund, item.fund.token, m)
      BY <1>4, <2>2 DEF Then
    <3> QED
      BY <1>3, <2>2, <3>1, FundedItem
  <2> QED
    BY <2>1, <2>2
<1> QED
  BY <1>4, <1>5

(* Wherever it goes, the maker's purse is the same.                        *)
LEMMA TakeMoves ==
    ASSUME TypeOK, todo # <<>>, NEW item \in Items, item.op # "make", Described(item), NEW n \in Nat,
           NEW V \in Take(item, n)
    PROVE  /\ Steady(world, V) /\ Spent(V, UsedBy(item.fund), item)
           /\ \A u \in Tokens : V.bal[Settlement][u] # world.bal[Settlement][u] =>
                u = item.token /\ item.to = Settlement
<1>1. order \in Shapes /\ item.token \in Tokens /\ item.to \in {Settlement, Maker}
  BY DEF TypeOK, Items
<1>2. PICK X : /\ Steady(world, X) /\ Spent(X, UsedBy(item.fund), item)
               /\ \A u \in Tokens : X.bal[Settlement][u] = world.bal[Settlement][u]
               /\ V \in Draw(X, item, n)
  BY TakeFunded
<1>3. PICK d \in Int : d = -n
  OBVIOUS
<1>4. X \in Worlds /\ Fed(X, V, item.token, item.to, d)
  BY <1>2, <1>3, DrawFeeds DEF Steady
<1>5. item.to \in {Maker, Settlement, Module} /\ item.to # Module
  BY <1>1, ActorsAssumption
<1>6. /\ Steady(X, V)
      /\ \A u \in Tokens :
           /\ V.bal[Settlement][u] = IF u = item.token /\ item.to = Settlement THEN X.bal[Settlement][u] - d
                                     ELSE X.bal[Settlement][u]
           /\ V.bal[Module][u] = IF u = item.token /\ item.to = Module THEN X.bal[Module][u] - d
                                 ELSE X.bal[Module][u]
  <2>1. PICK t \in Tokens, to \in {Maker, Settlement, Module} : t = item.token /\ to = item.to
    BY <1>1, <1>5
  <2>2. X \in Worlds /\ Fed(X, V, t, to, d) /\ order \in Shapes /\ t \in Tokens /\ d \in Int
        /\ to \in {Maker, Settlement, Module}
    BY <1>1, <1>4, <2>1
  <2>3. /\ Steady(X, V)
        /\ \A u \in Tokens :
             /\ V.bal[Settlement][u] = IF u = t /\ to = Settlement THEN X.bal[Settlement][u] - d
                                       ELSE X.bal[Settlement][u]
             /\ V.bal[Module][u] = IF u = t /\ to = Module THEN X.bal[Module][u] - d ELSE X.bal[Module][u]
    BY <2>2, FedSteady
  <2> QED
    BY <2>1, <2>3
<1>7. Steady(world, V)
  BY <1>2, <1>6 DEF Steady, Unbooked, Kept
<1>8. Spent(V, UsedBy(item.fund), item)
  <2>1. \A u \in Tokens : V.bal[Module][u] = X.bal[Module][u]
    BY <1>5, <1>6
  <2> QED
    BY <1>2, <2>1 DEF Spent
<1> QED
  BY <1>2, <1>6, <1>7, <1>8

(* A supply.                                                               *)
LEMMA MakeMoves ==
    ASSUME TypeOK, todo # <<>>, NEW item \in Items, item.op = "make", Described(item),
           NEW n \in Slice(item), n # 0, NEW V \in Make(item, n)
    PROVE  /\ Steady(world, V) /\ Spent(V, UsedBy(item.fund), item)
           /\ \A u \in Tokens : V.bal[Settlement][u] = world.bal[Settlement][u]
<1>1. /\ order \in Shapes /\ world \in Worlds /\ item.fund \in Funds /\ item.token \in Tokens
      /\ n \in Nat /\ n \in Int
  BY SliceNat DEF TypeOK, Items
<1>2. Unmoved(world, world)
  BY <1>1 DEF Unmoved, Unbooked, Kept
<1>3. CASE item.fund.how = "prefund"
  <2>1. n \in ForSlice(item.fund) /\ item.token = item.fund.token
    BY <1>3 DEF Slice, Described
  <2> QED
    BY <1>2, <2>1, FundedItem DEF Make
<1>4. CASE item.fund.how # "prefund"
  <2>1. Fed(world, V, item.token, Maker, n)
    BY <1>1, <1>4, SupplyFeeds DEF Make
  <2>2. Maker \notin {Settlement, Module}
    BY ActorsAssumption
  <2>3. /\ Steady(world, V)
        /\ \A u \in Tokens : /\ V.bal[Settlement][u] = world.bal[Settlement][u]
                             /\ V.bal[Module][u] = world.bal[Module][u]
    BY <1>1, <2>1, <2>2, FedSteady
  <2>4. item.fund.how \notin {"leg", "prefund"}
    BY <1>4 DEF Described
  <2> QED
    BY <2>3, <2>4, Unfunded
<1> QED
  BY <1>3, <1>4

(* An item, run or skipped.                                                *)
LEMMA ItemMoves ==
    ASSUME TypeOK, RunItem
    PROVE  \E V, f :
             /\ Step(V, f) /\ Steady(world, V) /\ f \in Frames
             /\ f.saved = frame.saved /\ f.outs = frame.outs
             /\ f.base = IF frame.base = None THEN world.bal[Settlement] ELSE frame.base
             /\ Spent(V, f.used, order.items[At])
             /\ \A u \in Tokens : V.bal[Settlement][u] # world.bal[Settlement][u] =>
                  LET item == order.items[At]
                  IN  item.op # "make" /\ u = item.token /\ item.to = Settlement
<1> DEFINE item == order.items[At]
<1>1. todo # <<>> /\ Due("item")
  BY DEF RunItem, Due
<1>2. At \in DOMAIN order.items
  BY <1>1, NextCall
<1>3. order \in Shapes /\ world \in Worlds /\ Opened(frame) /\ frame \in Frames
  BY <1>1 DEF TypeOK, Opened
<1>4. item \in Items /\ item.fund \in Funds /\ Described(item)
  <2>1. item \in Items
    BY <1>2, <1>3, OrderFields
  <2> QED
    BY <1>2, <1>3, <2>1, ShapesAssumption DEF Items
<1>5. /\ Based \in Frames /\ Based.saved = frame.saved /\ Based.outs = frame.outs /\ Based.used = frame.used
      /\ Based.base = IF frame.base = None THEN world.bal[Settlement] ELSE frame.base
  <2>1. world.bal[Settlement] \in [Tokens -> Nat]
    BY <1>3, Actors DEF Worlds
  <2> QED
    BY <1>3, <2>1 DEF Based, Frames
<1>6. UsedBy(item.fund) \subseteq DOMAIN Outs
  BY <1>3 DEF UsedBy, Frames
<1>7. PICK n \in Slice(item) :
        IF n = 0
        THEN item.op # "take_for" /\ Step(world, Based)
        ELSE \E W \in IF item.op = "make" THEN Make(item, n) ELSE Take(item, n) :
               Step(W, [Based EXCEPT !.used = UsedBy(item.fund),
                                     !.permit = IF item.op = "take" THEN {} ELSE @])
  BY DEF RunItem
<1>8. n \in Nat
  BY <1>1, <1>4, SliceNat
<1> HIDE DEF item
<1>9. CASE n = 0
  <2>1. Step(world, Based) /\ item.op # "take_for"
    BY <1>7, <1>9
  <2>2. Steady(world, world)
    BY <1>3 DEF Steady, Unbooked, Kept
  <2>3. ASSUME NEW j \in DOMAIN Outs, Spends(item, j) PROVE frame.outs[j] = 0
    <3>1. item.op = "make" /\ item.fund.how = "prefund" /\ item.fund.n = j
      BY <1>4, <2>1, <2>3 DEF Spends, Items
    <3>2. n = frame.outs[j]
      BY <3>1 DEF Slice, ForSlice
    <3> QED
      BY <1>9, <3>2
  <2>4. Spent(world, Based.used, item)
    BY <1>3, <1>5, <2>3 DEF Spent, Frames
  <2> QED
    BY <1>5, <2>1, <2>2, <2>4 DEF item
<1>10. CASE n # 0
  <2> DEFINE f == [Based EXCEPT !.used = UsedBy(item.fund),
                                !.permit = IF item.op = "take" THEN {} ELSE @]
  <2>1. PICK W \in (IF item.op = "make" THEN Make(item, n) ELSE Take(item, n)) : Step(W, f)
    BY <1>7, <1>10
  <2>2. /\ f \in Frames /\ f.saved = frame.saved /\ f.outs = frame.outs /\ f.used = UsedBy(item.fund)
        /\ f.base = IF frame.base = None THEN world.bal[Settlement] ELSE frame.base
    BY <1>5, <1>6 DEF Frames
  <2> HIDE DEF f
  <2>3. /\ Steady(world, W) /\ Spent(W, UsedBy(item.fund), item)
        /\ \A u \in Tokens : W.bal[Settlement][u] # world.bal[Settlement][u] =>
             item.op # "make" /\ u = item.token /\ item.to = Settlement
    <3>1. CASE item.op = "make"
      BY <1>1, <1>4, <1>10, <2>1, <3>1, MakeMoves
    <3>2. CASE item.op # "make"
      BY <1>1, <1>4, <1>8, <2>1, <3>2, TakeMoves
    <3> QED
      BY <3>1, <3>2
  <2> QED
    BY <2>1, <2>2, <2>3 DEF item
<1> QED
  BY <1>9, <1>10

(* What funds an item was this order's, and what it draws to Settlement    *)
(* will be paid out from there.                                            *)
LEMMA ItemKeeps ==
    ASSUME Inv, BooksInv, LeavesNothing(order), RunItem
    PROVE  \E V, f : Step(V, f) /\ V \in Worlds /\ f \in Frames /\ f.saved = frame.saved /\ Rest(V, Tail(todo), f)
<1> DEFINE item == order.items[At]
<1>1. todo # <<>> /\ Due("item") /\ ~Due("pay")
  BY DEF RunItem, Due
<1>2. /\ TypeOK /\ order \in Shapes /\ world \in Worlds /\ Opened(frame) /\ frame \in Frames
      /\ Distinct(todo) /\ Rest(world, todo, frame)
  BY <1>1 DEF Inv, TypeOK, Opened, Moved, BooksInv
<1>3. At \in DOMAIN order.items /\ Head(todo) = <<"item", At>>
  BY <1>1, <1>2, NextCall
<1>4. PICK V, f :
        /\ Step(V, f) /\ Steady(world, V) /\ f \in Frames
        /\ f.saved = frame.saved /\ f.outs = frame.outs
        /\ f.base = IF frame.base = None THEN world.bal[Settlement] ELSE frame.base
        /\ Spent(V, f.used, item)
        /\ \A u \in Tokens : V.bal[Settlement][u] # world.bal[Settlement][u] =>
             item.op # "make" /\ u = item.token /\ item.to = Settlement
  BY <1>2, ItemMoves
<1>5. PICK s : s = Tail(todo)
  OBVIOUS
<1>6. /\ Ordered(s)
      /\ \A c : Left(s, c) <=> Left(todo, c) /\ c # Head(todo)
      /\ \A u : PayLeft(s, u) <=> PayLeft(todo, u)
      /\ \A j \in DOMAIN Outs : ~Left(todo, <<"deliver", j>>)
      /\ \A i \in DOMAIN Ins : Left(todo, <<"pay", i>>)
  BY <1>1, <1>2, <1>5, CallGone DEF Rest
<1>7. V \in Worlds /\ V.held = world.held /\ \A u \in Tokens : Estate(V, u) = Estate(world, u)
  BY <1>4, UnbookedKeeps DEF Steady, Unbooked, Estate
<1>8. \A u \in Tokens : V.bal[Settlement][u] # world.bal[Settlement][u] => PayLeft(s, u)
  <2> SUFFICES ASSUME NEW u \in Tokens, V.bal[Settlement][u] # world.bal[Settlement][u] PROVE PayLeft(s, u)
    OBVIOUS
  <2>1. item.op # "make" /\ u = item.token /\ item.to = Settlement
    BY <1>4
  <2>2. PICK i \in DOMAIN Ins : order.inTok[i] = u
    BY <1>2, <1>3, <2>1, NothingLeft
  <2>3. Left(todo, <<"pay", i>>)
    BY <1>6
  <2>4. PayLeft(todo, u)
    BY <2>2, <2>3 DEF PayLeft
  <2> QED
    BY <1>6, <2>4
<1> HIDE DEF item
<1>9. f.base # None
  <2>1. world.bal[Settlement] \in [Tokens -> Nat]
    BY <1>2, Actors DEF Worlds
  <2> QED
    BY <1>4, <2>1, ActorsAssumption
<1>10. Pool(V, s, f)
  <2> SUFFICES ASSUME NEW u \in Tokens
               PROVE  /\ ~PayLeft(s, u) => V.bal[Settlement][u] = V.held[Settlement][u]
                      /\ PayLeft(s, u) => f.base[u] = V.held[Settlement][u]
                      /\ V.bal[Module][u] = V.held[Module][u] + SumFunctionOnSet(f.outs, Waiting(f, u))
    BY <1>9 DEF Pool
  <2>1. /\ frame.base = None \/ ~PayLeft(todo, u) => world.bal[Settlement][u] = world.held[Settlement][u]
        /\ frame.base # None /\ PayLeft(todo, u) => frame.base[u] = world.held[Settlement][u]
        /\ world.bal[Module][u] = world.held[Module][u] + SumFunctionOnSet(frame.outs, Waiting(frame, u))
    BY <1>2 DEF Rest, Pool
  <2> DEFINE S == Waiting(frame, u)
  <2>2. S \subseteq DOMAIN Outs /\ \A j \in S : frame.outs[j] \in Int
    BY <1>2 DEF Waiting, Frames
  <2>3. IsFiniteSet(S)
    BY <1>2, <2>2, LegsFinite, FS_Subset
  <2>4. world.held[Module][u] \in Nat /\ world.bal[Module][u] \in Nat
    BY <1>2, EstateTypes
  <2>5. V.bal[Module][u] = world.held[Module][u] + SumFunctionOnSet(frame.outs, Waiting(f, u))
    <3>1. CASE /\ \A j \in f.used \ frame.used : frame.outs[j] # 0 /\ order.outTo[j] = Maker
               /\ V.bal[Module][u] = world.bal[Module][u]
      <4>1. Waiting(f, u) = S
        BY <1>4, <3>1, ActorsAssumption DEF Waiting, Spent
      <4> QED
        BY <2>1, <3>1, <4>1
    <3>2. ASSUME NEW j \in DOMAIN Outs, order.outTo[j] = Module, j \notin frame.used,
                 f.used = frame.used \cup {j},
                 V.bal[Module][u] = world.bal[Module][u] - (IF u = order.outTok[j] THEN frame.outs[j] ELSE 0)
          PROVE  V.bal[Module][u] = world.held[Module][u] + SumFunctionOnSet(frame.outs, Waiting(f, u))
      <4>1. Waiting(f, u) = S \ {j} /\ (j \in S <=> u = order.outTok[j])
        BY <3>2 DEF Waiting
      <4> HIDE DEF S
      <4>2. CASE j \in S
        <5>1. SumFunctionOnSet(frame.outs, S) = frame.outs[j] + SumFunctionOnSet(frame.outs, S \ {j})
          BY <2>2, <2>3, <4>2, SumRemove
        <5>2. IsFiniteSet(S \ {j}) /\ \A x \in S \ {j} : frame.outs[x] \in Int
          BY <2>2, <2>3, FS_Subset
        <5>3. SumFunctionOnSet(frame.outs, S \ {j}) \in Int /\ frame.outs[j] \in Int
          BY <2>2, <4>2, <5>2, SumType
        <5>4. V.bal[Module][u] = world.bal[Module][u] - frame.outs[j]
          BY <3>2, <4>1, <4>2
        <5>5. world.bal[Module][u] = world.held[Module][u] + SumFunctionOnSet(frame.outs, S)
          BY <2>1 DEF S
        <5> QED
          BY <2>4, <4>1, <5>1, <5>3, <5>4, <5>5
      <4>3. CASE j \notin S
        <5>1. Waiting(f, u) = S /\ V.bal[Module][u] = world.bal[Module][u]
          BY <2>4, <3>2, <4>1, <4>3
        <5> QED
          BY <2>1, <5>1 DEF S
      <4> QED
        BY <4>2, <4>3
    <3> QED
      BY <1>4, <3>1, <3>2 DEF Spent
  <2>6. V.bal[Settlement][u] = world.bal[Settlement][u] \/ PayLeft(s, u)
    BY <1>8
  <2> QED
    BY <1>4, <1>6, <1>7, <2>1, <2>5, <2>6
<1>11. SentAhead(s, f)
  <2> SUFFICES ASSUME NEW j \in DOMAIN Outs
               PROVE  /\ ~Left(s, <<"deliver", j>>)
                      /\ j \in f.used => f.outs[j] # 0
                      /\ order.outTo[j] = Module /\ j \notin f.used /\ f.outs[j] # 0 =>
                           \E k \in DOMAIN order.items : Spends(order.items[k], j) /\ Left(s, <<"item", k>>)
    BY DEF SentAhead
  <2>1. /\ j \in frame.used => frame.outs[j] # 0
        /\ order.outTo[j] = Module /\ j \notin frame.used /\ frame.outs[j] # 0 =>
             \E k \in DOMAIN order.items : Spends(order.items[k], j) /\ Left(todo, <<"item", k>>)
    BY <1>2 DEF Rest, SentAhead
  <2>2. j \in f.used => f.outs[j] # 0
    BY <1>4, <2>1 DEF Spent
  <2>3. ASSUME order.outTo[j] = Module, j \notin f.used, f.outs[j] # 0
        PROVE  \E k \in DOMAIN order.items : Spends(order.items[k], j) /\ Left(s, <<"item", k>>)
    <3>1. j \notin frame.used /\ frame.outs[j] # 0
      BY <1>4, <2>3 DEF Spent
    <3>2. PICK k \in DOMAIN order.items : Spends(order.items[k], j) /\ Left(todo, <<"item", k>>)
      BY <2>1, <2>3, <3>1
    <3>3. ~Spends(item, j)
      <4>1. \A i : Spends(item, i) /\ Spends(item, j) => i = j
        BY DEF Spends
      <4> QED
        BY <1>4, <2>3, <3>1, <4>1 DEF Spent
    <3>4. <<"item", k>> # Head(todo)
      BY <1>3, <3>2, <3>3 DEF item
    <3> QED
      BY <1>6, <3>2, <3>4
  <2> QED
    BY <1>6, <2>2, <2>3
<1>12. Solvent(V, s, f)
  BY <1>2, <1>6, <1>7 DEF Solvent, Rest
<1> QED
  BY <1>4, <1>5, <1>6, <1>7, <1>10, <1>11, <1>12 DEF Rest

(* A payment takes the proceeds from Settlement, all of them, and what     *)
(* they fall short of from the maker.                                      *)
LEMMA PaidMoves ==
    ASSUME order \in Shapes, NEW A \in Worlds, NEW t \in Tokens, NEW owed \in Nat, NEW proceeds \in Nat,
           NEW W \in Move(A, t, Settlement, Filler, Least(owed, proceeds)),
           NEW X \in Move(W, t, Settlement, Maker, Less(proceeds, owed)),
           NEW V \in Pull(X, t, Maker, Filler, Less(owed, proceeds))
    PROVE  /\ V \in Worlds /\ Unbooked(A, V)
           /\ \A u \in Tokens :
                /\ Purse(V, u) = Purse(A, u) - (IF u = t THEN owed ELSE 0)
                /\ V.bal[Settlement][u] = A.bal[Settlement][u] - (IF u = t THEN proceeds ELSE 0)
                /\ V.bal[Module][u] = A.bal[Module][u]
                /\ u # t => V.bal[Maker][u] = A.bal[Maker][u]
<1>1. /\ Settlement \in Accounts /\ Filler \in Accounts /\ Maker \in Accounts /\ Module \in Accounts
      /\ Maker \in {Maker, Filler}
      /\ Maker # Filler /\ Settlement # Filler /\ Settlement # Maker
      /\ Module \notin {Settlement, Filler, Maker}
  BY ActorsAssumption DEF Accounts
<1>2. PICK a \in Nat, b \in Nat, c \in Nat :
        /\ a = Least(owed, proceeds) /\ b = Less(proceeds, owed) /\ c = Less(owed, proceeds)
        /\ a + c = owed /\ a + b = proceeds
  BY DEF Least, Less
<1>3. W \in Worlds /\ Carried(A, W, t, Settlement, Filler, a)
  <2>1. Carried(A, W, t, Settlement, Filler, a)
    BY <1>1, <1>2, MoveCarries
  <2> QED
    BY <2>1 DEF Carried
<1>4. X \in Worlds /\ Carried(W, X, t, Settlement, Maker, b)
  <2>1. Carried(W, X, t, Settlement, Maker, b)
    BY <1>1, <1>2, <1>3, MoveCarries
  <2> QED
    BY <2>1 DEF Carried
<1>5. V \in Worlds /\ Carried(X, V, t, Maker, Filler, c)
  <2>1. Carried(X, V, t, Maker, Filler, c)
    BY <1>1, <1>2, <1>4, PullCarries
  <2> QED
    BY <2>1 DEF Carried
<1>6. Unbooked(A, V)
  BY <1>3, <1>4, <1>5 DEF Carried, Unbooked, Kept
<1>7. ASSUME NEW u \in Tokens PROVE Purse(V, u) = Purse(A, u) - (IF u = t THEN owed ELSE 0)
  <2>1. Purse(W, u) = Purse(A, u) + (IF u = t /\ Filler \in {Maker, Settlement, Module} THEN a ELSE 0)
                                  - (IF u = t /\ Settlement \in {Maker, Settlement, Module} THEN a ELSE 0)
    BY <1>1, <1>3, CarriedPurse
  <2>2. Purse(X, u) = Purse(W, u) + (IF u = t /\ Maker \in {Maker, Settlement, Module} THEN b ELSE 0)
                                  - (IF u = t /\ Settlement \in {Maker, Settlement, Module} THEN b ELSE 0)
    BY <1>1, <1>3, <1>4, CarriedPurse
  <2>3. Purse(V, u) = Purse(X, u) + (IF u = t /\ Filler \in {Maker, Settlement, Module} THEN c ELSE 0)
                                  - (IF u = t /\ Maker \in {Maker, Settlement, Module} THEN c ELSE 0)
    BY <1>1, <1>4, <1>5, CarriedPurse
  <2>4. Purse(A, u) \in Int /\ Purse(W, u) \in Int /\ Purse(X, u) \in Int
    BY <1>3, <1>4, EstateTypes
  <2>5. Filler \notin {Maker, Settlement, Module}
    BY <1>1
  <2>6. Purse(W, u) = Purse(A, u) - (IF u = t THEN a ELSE 0)
    BY <2>1, <2>4, <2>5
  <2>7. Purse(X, u) = Purse(W, u)
    BY <2>2, <2>4
  <2>8. Purse(V, u) = Purse(X, u) - (IF u = t THEN c ELSE 0)
    BY <2>3, <2>4, <2>5
  <2> QED
    BY <1>2, <2>4, <2>6, <2>7, <2>8
<1>8. ASSUME NEW u \in Tokens
      PROVE  /\ V.bal[Settlement][u] = A.bal[Settlement][u] - (IF u = t THEN proceeds ELSE 0)
             /\ V.bal[Module][u] = A.bal[Module][u]
             /\ u # t => V.bal[Maker][u] = A.bal[Maker][u]
  <2>1. /\ W.bal[Module][u] = A.bal[Module][u] /\ X.bal[Module][u] = W.bal[Module][u]
        /\ V.bal[Module][u] = X.bal[Module][u]
    BY <1>1, <1>3, <1>4, <1>5 DEF Carried
  <2>2. u # t => /\ W.bal[Maker][u] = A.bal[Maker][u] /\ X.bal[Maker][u] = W.bal[Maker][u]
                 /\ V.bal[Maker][u] = X.bal[Maker][u]
    BY <1>1, <1>3, <1>4, <1>5 DEF Carried
  <2>3. A.bal[Settlement][u] \in Nat /\ W.bal[Settlement][u] \in Nat /\ X.bal[Settlement][u] \in Nat
    BY <1>3, <1>4, EstateTypes
  <2>4. CASE u = t
    <3>1. W.bal[Settlement][u] = A.bal[Settlement][u] - a
      BY <1>3, <2>4 DEF Carried
    <3>2. X.bal[Settlement][u] = W.bal[Settlement][u] - b
      BY <1>4, <2>4 DEF Carried
    <3>3. V.bal[Settlement][u] = X.bal[Settlement][u]
      BY <1>1, <1>5 DEF Carried
    <3> QED
      BY <1>2, <2>1, <2>2, <2>3, <2>4, <3>1, <3>2, <3>3
  <2>5. CASE u # t
    <3>1. /\ W.bal[Settlement][u] = A.bal[Settlement][u] /\ X.bal[Settlement][u] = W.bal[Settlement][u]
          /\ V.bal[Settlement][u] = X.bal[Settlement][u]
      BY <1>1, <1>3, <1>4, <1>5, <2>5 DEF Carried
    <3> QED
      BY <2>1, <2>2, <2>3, <2>5, <3>1
  <2> QED
    BY <2>4, <2>5
<1> QED
  BY <1>5, <1>6, <1>7, <1>8

LEMMA PayMoves ==
    ASSUME TypeOK, Pay
    PROVE  \E V : LET t == order.inTok[At]
                      n == InputOwed(Buy, Ins[At], frame.ctx)
                  IN  /\ Step(V, frame) /\ V \in Worlds /\ Proceeds(t) \in Nat
                      /\ V.paid = [world.paid EXCEPT ![At] = @ + n] /\ V.delivered = world.delivered
                      /\ V.held = world.held /\ V.elsewhere = world.elsewhere
                      /\ \A u \in Tokens :
                           /\ Purse(V, u) = Purse(world, u) - (IF u = t THEN n ELSE 0)
                           /\ V.bal[Settlement][u] = world.bal[Settlement][u] - (IF u = t THEN Proceeds(t) ELSE 0)
                           /\ V.bal[Module][u] = world.bal[Module][u]
                           /\ u # t => V.bal[Maker][u] = world.bal[Maker][u]
<1> DEFINE t == order.inTok[At]
           n == InputOwed(Buy, Ins[At], frame.ctx)
<1>1. todo # <<>> /\ Due("pay")
  BY DEF Pay, Due
<1>2. At \in DOMAIN Ins
  BY <1>1, NextCall
<1>3. order \in Shapes /\ world \in Worlds /\ Opened(frame) /\ frame \in Frames
  BY <1>1 DEF TypeOK, Opened
<1>4. t \in Tokens /\ n \in Nat
  BY <1>2, <1>3, OrderFields, DueNat
<1>5. Proceeds(t) >= 0
  BY DEF Pay
<1>6. PICK W \in PaidInput(t, n, Proceeds(t)) :
        Step([W EXCEPT !.paid[At] = @ + W.bal[Filler][t] - world.bal[Filler][t]], frame)
  BY DEF Pay
<1>7. PICK V, g : /\ Step(V, g) /\ Good(V) /\ V.delivered = world.delivered
                  /\ V.paid = [world.paid EXCEPT ![At] = @ + n]
  BY PayResult
<1>8. Proceeds(t) \in Nat
  <2>1. world.bal[Settlement][t] \in Nat /\ (frame.base = None \/ frame.base[t] \in Nat)
    BY <1>3, <1>4, Actors DEF Worlds, Frames
  <2>2. Proceeds(t) \in Int
    BY <2>1 DEF Proceeds
  <2> QED
    BY <1>5, <2>2
<1> HIDE DEF t, n
<1>9. PICK X \in Move(world, t, Settlement, Filler, Least(n, Proceeds(t))) :
        \E Y \in Move(X, t, Settlement, Maker, Less(Proceeds(t), n)) :
          W \in Pull(Y, t, Maker, Filler, Less(n, Proceeds(t)))
  <2>1. PICK X \in Move(world, t, Settlement, Filler, Least(n, Proceeds(t))) :
          W \in Then(Move(X, t, Settlement, Maker, Less(Proceeds(t), n)), LAMBDA Y :
                     Pull(Y, t, Maker, Filler, Less(n, Proceeds(t))))
    BY <1>6 DEF PaidInput, Then
  <2> QED
    BY <2>1 DEF Then
<1>10. /\ W \in Worlds /\ Unbooked(world, W)
       /\ \A u \in Tokens :
            /\ Purse(W, u) = Purse(world, u) - (IF u = t THEN n ELSE 0)
            /\ W.bal[Settlement][u] = world.bal[Settlement][u] - (IF u = t THEN Proceeds(t) ELSE 0)
            /\ W.bal[Module][u] = world.bal[Module][u]
            /\ u # t => W.bal[Maker][u] = world.bal[Maker][u]
  <2>1. PICK Y \in Move(X, t, Settlement, Maker, Less(Proceeds(t), n)) :
          W \in Pull(Y, t, Maker, Filler, Less(n, Proceeds(t)))
    BY <1>9
  <2>2. PICK p \in Nat : p = Proceeds(t)
    BY <1>8
  <2> QED
    BY <1>3, <1>4, <2>1, <2>2, PaidMoves
<1>11. V = [W EXCEPT !.paid[At] = @ + W.bal[Filler][t] - world.bal[Filler][t]]
  BY <1>6, <1>7 DEF Step
<1>12. /\ V.bal = W.bal /\ V.stake = W.stake /\ V.held = world.held /\ V.elsewhere = world.elsewhere
       /\ V \in Worlds
  BY <1>7, <1>10, <1>11 DEF Worlds, Unbooked, Good
<1>13. \A u \in Tokens : Purse(V, u) = Purse(W, u)
  BY <1>12 DEF Purse
<1>14. Step(V, frame)
  BY <1>6, <1>11
<1> QED
  BY <1>7, <1>8, <1>10, <1>12, <1>13, <1>14 DEF t, n

(* What is paid out was drawn for the order, and nothing of it stays.      *)
LEMMA PayKeeps ==
    ASSUME Inv, BooksInv, LeavesNothing(order), Pay
    PROVE  \E V, f : Step(V, f) /\ V \in Worlds /\ f \in Frames /\ f.saved = frame.saved /\ Rest(V, Tail(todo), f)
<1> DEFINE t == order.inTok[At]
           n == InputOwed(Buy, Ins[At], frame.ctx)
<1>1. todo # <<>> /\ Due("pay")
  BY DEF Pay, Due
<1>2. /\ TypeOK /\ order \in Shapes /\ world \in Worlds /\ Opened(frame) /\ frame \in Frames
      /\ Distinct(todo) /\ Rest(world, todo, frame)
  BY <1>1 DEF Inv, TypeOK, Opened, Moved, BooksInv
<1>3. At \in DOMAIN Ins /\ Head(todo) = <<"pay", At>>
  BY <1>1, <1>2, NextCall
<1>4. t \in Tokens /\ n \in Nat
  BY <1>2, <1>3, OrderFields, DueNat
<1>5. PICK V :
        /\ Step(V, frame) /\ V \in Worlds /\ Proceeds(t) \in Nat
        /\ V.paid = [world.paid EXCEPT ![At] = @ + n] /\ V.delivered = world.delivered
        /\ V.held = world.held /\ V.elsewhere = world.elsewhere
        /\ \A u \in Tokens :
             /\ Purse(V, u) = Purse(world, u) - (IF u = t THEN n ELSE 0)
             /\ V.bal[Settlement][u] = world.bal[Settlement][u] - (IF u = t THEN Proceeds(t) ELSE 0)
             /\ V.bal[Module][u] = world.bal[Module][u]
             /\ u # t => V.bal[Maker][u] = world.bal[Maker][u]
  BY <1>2, PayMoves
<1>6. PICK s : s = Tail(todo)
  OBVIOUS
<1>7. /\ Ordered(s)
      /\ \A c : Left(s, c) <=> Left(todo, c) /\ c # Head(todo)
      /\ Left(todo, <<"pay", At>>)
      /\ \A u : PayLeft(s, u) => PayLeft(todo, u)
      /\ \A k \in DOMAIN order.items : ~Left(todo, <<"item", k>>)
  BY <1>1, <1>2, <1>3, <1>6, CallGone DEF Rest
<1>8. PayLeft(todo, t)
  BY <1>3, <1>7 DEF PayLeft
<1>9. \A u : u # t /\ PayLeft(todo, u) => PayLeft(s, u)
  <2> SUFFICES ASSUME NEW u, u # t, NEW i \in DOMAIN Ins, order.inTok[i] = u, Left(todo, <<"pay", i>>)
               PROVE  PayLeft(s, u)
    BY DEF PayLeft
  <2>1. <<"pay", i>> # Head(todo)
    BY <1>3
  <2> QED
    BY <1>7, <2>1 DEF PayLeft
<1>10. order.verify => \A j \in DOMAIN Outs : order.outTok[j] # t
  BY <1>2, <1>3 DEF Rest, Solvent, Measurable
<1>11. \A u \in Tokens : Estate(V, u) = Estate(world, u)
  <2> SUFFICES ASSUME NEW u \in Tokens PROVE Estate(V, u) = Estate(world, u)
    OBVIOUS
  <2>1. Booked(V, u) = Booked(world, u) + (IF order.inTok[At] = u THEN n ELSE 0)
    <3> HIDE DEF n
    <3> QED
      BY <1>2, <1>3, <1>4, <1>5, PaymentBooked
  <2>2. Purse(V, u) = Purse(world, u) - (IF u = t THEN n ELSE 0)
    BY <1>5
  <2>3. Purse(world, u) \in Int /\ Booked(world, u) \in Int
    BY <1>2, EstateTypes
  <2> QED
    BY <1>4, <2>1, <2>2, <2>3 DEF Estate
<1> HIDE DEF t, n
<1>12. Pool(V, s, frame)
  <2> SUFFICES ASSUME NEW u \in Tokens
               PROVE  /\ frame.base = None \/ ~PayLeft(s, u) => V.bal[Settlement][u] = V.held[Settlement][u]
                      /\ frame.base # None /\ PayLeft(s, u) => frame.base[u] = V.held[Settlement][u]
                      /\ V.bal[Module][u] = V.held[Module][u] + SumFunctionOnSet(frame.outs, Waiting(frame, u))
    BY DEF Pool
  <2>1. /\ frame.base = None \/ ~PayLeft(todo, u) => world.bal[Settlement][u] = world.held[Settlement][u]
        /\ frame.base # None /\ PayLeft(todo, u) => frame.base[u] = world.held[Settlement][u]
        /\ world.bal[Module][u] = world.held[Module][u] + SumFunctionOnSet(frame.outs, Waiting(frame, u))
    BY <1>2 DEF Rest, Pool
  <2>2. world.bal[Settlement][u] \in Nat /\ world.held[Settlement][u] \in Nat
    BY <1>2, EstateTypes
  <2>3. /\ frame.base = None \/ ~PayLeft(s, u) => V.bal[Settlement][u] = V.held[Settlement][u]
        /\ frame.base # None /\ PayLeft(s, u) => frame.base[u] = V.held[Settlement][u]
    <3>1. CASE u = t /\ frame.base = None
      <4>1. Proceeds(t) = 0
        BY <3>1 DEF Proceeds
      <4> QED
        BY <1>5, <2>1, <2>2, <3>1, <4>1
    <3>2. CASE u = t /\ frame.base # None
      <4>1. Proceeds(t) = world.bal[Settlement][u] - frame.base[u]
        BY <3>2 DEF Proceeds
      <4>2. frame.base[u] = world.held[Settlement][u]
        BY <1>8, <2>1, <3>2
      <4>3. V.bal[Settlement][u] = world.bal[Settlement][u] - Proceeds(t)
        BY <1>5, <3>2
      <4> QED
        BY <1>5, <2>2, <3>2, <4>1, <4>2, <4>3
    <3>3. CASE u # t
      <4>1. V.bal[Settlement][u] = world.bal[Settlement][u]
        BY <1>5, <2>2, <3>3
      <4> QED
        BY <1>5, <1>7, <1>9, <2>1, <3>3, <4>1
    <3> QED
      BY <3>1, <3>2, <3>3
  <2> QED
    BY <1>5, <2>1, <2>3
<1>13. SentAhead(s, frame)
  BY <1>2, <1>7 DEF Rest, SentAhead
<1>14. Solvent(V, s, frame)
  <2>1. \A u \in Tokens : Estate(V, u) >= order.wallet[u]
    BY <1>2, <1>11 DEF Rest, Solvent
  <2>2. order.verify => Measurable
    BY <1>2 DEF Rest, Solvent
  <2>3. ASSUME order.verify, NEW j \in DOMAIN Outs, order.outTo[j] = Maker, Left(s, <<"deliver", j>>)
        PROVE  LET u == order.outTok[j]
               IN  Estate(V, u) >= order.wallet[u] + V.bal[Maker][u] - frame.saved.bal[Maker][u]
    <3> DEFINE u == order.outTok[j]
    <3>1. u \in Tokens /\ u # t /\ Left(todo, <<"deliver", j>>)
      BY <1>2, <1>7, <1>10, <2>3, OrderFields
    <3>2. Estate(world, u) >= order.wallet[u] + world.bal[Maker][u] - frame.saved.bal[Maker][u]
      BY <1>2, <2>3, <3>1 DEF Rest, Solvent
    <3>3. V.bal[Maker][u] = world.bal[Maker][u] /\ Estate(V, u) = Estate(world, u)
      BY <1>5, <1>11, <3>1
    <3> QED
      BY <3>2, <3>3
  <2> QED
    BY <2>1, <2>2, <2>3 DEF Solvent
<1> QED
  BY <1>2, <1>5, <1>6, <1>7, <1>12, <1>13, <1>14 DEF Rest

(* Others take from the maker only what its books say, and what they leave *)
(* at Settlement or the module is nobody's, unless it is measured there.   *)
Apart(V) ==
    \A u \in Tokens :
      /\ Estate(V, u) >= Estate(world, u)
      /\ Estate(V, u) - V.bal[Maker][u] >= Estate(world, u) - world.bal[Maker][u]
      /\ V.bal[Module][u] - V.held[Module][u] = world.bal[Module][u] - world.held[Module][u]
      /\ IF Measured(Settlement, u) THEN V.held[Settlement][u] = world.held[Settlement][u]
         ELSE V.bal[Settlement][u] - V.held[Settlement][u] = world.bal[Settlement][u] - world.held[Settlement][u]

(* What is not moved is where it was, ...                                  *)
LEMMA StillApart ==
    ASSUME order \in Shapes, world \in Worlds, NEW V \in Worlds, Kept(world, V),
           V.bal = world.bal, V.stake = world.stake, V.held = world.held, V.elsewhere = world.elsewhere
    PROVE  Apart(V)
<1>1. \A u \in Tokens : Estate(V, u) = Estate(world, u)
  BY DEF Estate, Purse, Booked, Kept
<1>2. \A u \in Tokens : /\ Estate(world, u) \in Int /\ world.bal[Maker][u] \in Nat
                        /\ world.bal[Settlement][u] \in Nat /\ world.held[Settlement][u] \in Nat
                        /\ world.bal[Module][u] \in Nat /\ world.held[Module][u] \in Nat
  BY EstateTypes
<1> QED
  BY <1>1, <1>2 DEF Apart

(* ... a gift adds to what it is given to, ...                             *)
LEMMA GiftApart ==
    ASSUME order \in Shapes, world \in Worlds, NEW V \in Worlds, Kept(world, V),
           NEW a \in {Maker, Settlement, Module, Treasury}, NEW t \in Tokens, NEW n \in Nat,
           V.bal = [world.bal EXCEPT ![a][t] = @ + n],
           V.held = IF a \in {Settlement, Module} /\ ~Measured(a, t)
                    THEN [world.held EXCEPT ![a][t] = @ + n] ELSE world.held,
           V.stake = world.stake, V.elsewhere = world.elsewhere
    PROVE  Apart(V)
<1>1. /\ Maker \in Accounts /\ Settlement \in Accounts /\ Module \in Accounts /\ a \in Accounts
      /\ Maker \notin {Settlement, Module} /\ Settlement # Module
  BY ActorsAssumption DEF Accounts
<1>2. /\ world.bal \in [Accounts -> [Tokens -> Nat]]
      /\ world.held \in [{Settlement, Module} -> [Tokens -> Nat]]
  BY DEF Worlds
<1>3. \A b \in Accounts, u \in Tokens :
        V.bal[b][u] = world.bal[b][u] + (IF b = a /\ u = t THEN n ELSE 0)
  <2> TAKE b \in Accounts, u \in Tokens
  <2>1. world.bal[b][u] \in Nat
    BY <1>2
  <2> QED
    BY <1>2, <2>1
<1>4. \A b \in {Settlement, Module}, u \in Tokens :
        V.held[b][u] = world.held[b][u] + (IF b = a /\ u = t /\ ~Measured(b, u) THEN n ELSE 0)
  <2> TAKE b \in {Settlement, Module}, u \in Tokens
  <2>1. world.held[b][u] \in Nat
    BY <1>2
  <2>2. CASE b = a /\ u = t
    BY <1>2, <2>1, <2>2
  <2>3. CASE ~(b = a /\ u = t)
    BY <1>2, <2>1, <2>3
  <2> QED
    BY <2>2, <2>3
<1>5. \A u : ~Measured(Module, u)
  BY <1>1 DEF Measured
<1> SUFFICES ASSUME NEW u \in Tokens
             PROVE  /\ Estate(V, u) >= Estate(world, u)
                    /\ Estate(V, u) - V.bal[Maker][u] >= Estate(world, u) - world.bal[Maker][u]
                    /\ V.bal[Module][u] - V.held[Module][u] = world.bal[Module][u] - world.held[Module][u]
                    /\ IF Measured(Settlement, u) THEN V.held[Settlement][u] = world.held[Settlement][u]
                       ELSE V.bal[Settlement][u] - V.held[Settlement][u] =
                              world.bal[Settlement][u] - world.held[Settlement][u]
  BY DEF Apart
<1>6. /\ world.bal[Maker][u] \in Nat /\ world.stake[u] \in Int
      /\ world.bal[Settlement][u] \in Nat /\ world.held[Settlement][u] \in Nat
      /\ world.bal[Module][u] \in Nat /\ world.held[Module][u] \in Nat /\ world.elsewhere[u] \in Nat
      /\ SumFunctionOnSet(world.paid, OfMaker(u)) \in Int
      /\ SumFunctionOnSet(world.delivered, ToMaker(u)) \in Int
  BY EstateTypes
<1>7. /\ V.bal[Maker][u] = world.bal[Maker][u] + (IF Maker = a /\ u = t THEN n ELSE 0)
      /\ V.bal[Settlement][u] = world.bal[Settlement][u] + (IF Settlement = a /\ u = t THEN n ELSE 0)
      /\ V.bal[Module][u] = world.bal[Module][u] + (IF Module = a /\ u = t THEN n ELSE 0)
      /\ V.held[Settlement][u] =
           world.held[Settlement][u] + (IF Settlement = a /\ u = t /\ ~Measured(Settlement, u) THEN n ELSE 0)
      /\ V.held[Module][u] = world.held[Module][u] + (IF Module = a /\ u = t THEN n ELSE 0)
  BY <1>1, <1>3, <1>4, <1>5
<1>8. PICK p \in Int, d \in Int :
        /\ p = SumFunctionOnSet(world.paid, OfMaker(u)) /\ d = SumFunctionOnSet(world.delivered, ToMaker(u))
  BY <1>6
<1>9. /\ Estate(world, u) = world.bal[Maker][u] + world.stake[u] + world.bal[Settlement][u] + world.bal[Module][u]
                            + (world.elsewhere[u] - world.held[Settlement][u] - world.held[Module][u] + p - d)
      /\ Estate(V, u) = V.bal[Maker][u] + world.stake[u] + V.bal[Settlement][u] + V.bal[Module][u]
                            + (world.elsewhere[u] - V.held[Settlement][u] - V.held[Module][u] + p - d)
  BY <1>8 DEF Estate, Purse, Booked, Kept
<1>10. CASE u = t /\ a \in {Maker, Settlement, Module}
  <2>1. CASE a = Maker
    BY <1>1, <1>6, <1>7, <1>9, <1>10, <2>1
  <2>2. CASE a = Settlement
    BY <1>1, <1>6, <1>7, <1>9, <1>10, <2>2
  <2>3. CASE a = Module
    BY <1>1, <1>6, <1>7, <1>9, <1>10, <2>3
  <2> QED
    BY <1>10, <2>1, <2>2, <2>3
<1>11. CASE ~(u = t /\ a \in {Maker, Settlement, Module})
  <2>1. /\ V.bal[Maker][u] = world.bal[Maker][u] /\ V.bal[Settlement][u] = world.bal[Settlement][u]
        /\ V.bal[Module][u] = world.bal[Module][u]
        /\ V.held[Settlement][u] = world.held[Settlement][u] /\ V.held[Module][u] = world.held[Module][u]
    BY <1>6, <1>7, <1>11
  <2> QED
    BY <1>6, <1>9, <2>1
<1> QED
  BY <1>10, <1>11

(* ... and what another spender takes is booked as that.                   *)
LEMMA DrainApart ==
    ASSUME order \in Shapes, world \in Worlds, NEW V \in Worlds, Kept(world, V),
           NEW t \in Tokens, NEW n \in Nat,
           V.bal = [world.bal EXCEPT ![Maker][t] = @ - n],
           V.elsewhere = [world.elsewhere EXCEPT ![t] = @ + n],
           V.stake = world.stake, V.held = world.held
    PROVE  Apart(V)
<1>1. /\ Maker \in Accounts /\ Settlement \in Accounts /\ Module \in Accounts
      /\ Maker \notin {Settlement, Module} /\ Settlement # Module
  BY ActorsAssumption DEF Accounts
<1>2. /\ world.bal \in [Accounts -> [Tokens -> Nat]] /\ world.elsewhere \in [Tokens -> Nat]
  BY DEF Worlds
<1> SUFFICES ASSUME NEW u \in Tokens
             PROVE  /\ Estate(V, u) >= Estate(world, u)
                    /\ Estate(V, u) - V.bal[Maker][u] >= Estate(world, u) - world.bal[Maker][u]
                    /\ V.bal[Module][u] - V.held[Module][u] = world.bal[Module][u] - world.held[Module][u]
                    /\ IF Measured(Settlement, u) THEN V.held[Settlement][u] = world.held[Settlement][u]
                       ELSE V.bal[Settlement][u] - V.held[Settlement][u] =
                              world.bal[Settlement][u] - world.held[Settlement][u]
  BY DEF Apart
<1>3. /\ world.bal[Maker][u] \in Nat /\ world.stake[u] \in Int
      /\ world.bal[Settlement][u] \in Nat /\ world.held[Settlement][u] \in Nat
      /\ world.bal[Module][u] \in Nat /\ world.held[Module][u] \in Nat /\ world.elsewhere[u] \in Nat
      /\ SumFunctionOnSet(world.paid, OfMaker(u)) \in Int
      /\ SumFunctionOnSet(world.delivered, ToMaker(u)) \in Int
  BY EstateTypes
<1>4. /\ V.bal[Maker][u] = world.bal[Maker][u] - (IF u = t THEN n ELSE 0)
      /\ V.elsewhere[u] = world.elsewhere[u] + (IF u = t THEN n ELSE 0)
      /\ V.bal[Settlement][u] = world.bal[Settlement][u] /\ V.bal[Module][u] = world.bal[Module][u]
  <2>1. CASE u = t
    BY <1>1, <1>2, <1>3, <2>1
  <2>2. CASE u # t
    BY <1>1, <1>2, <1>3, <2>2
  <2> QED
    BY <2>1, <2>2
<1>5. PICK p \in Int, d \in Int :
        /\ p = SumFunctionOnSet(world.paid, OfMaker(u)) /\ d = SumFunctionOnSet(world.delivered, ToMaker(u))
  BY <1>3
<1>6. /\ Estate(world, u) = world.bal[Maker][u] + world.stake[u] + world.bal[Settlement][u] + world.bal[Module][u]
                            + (world.elsewhere[u] - world.held[Settlement][u] - world.held[Module][u] + p - d)
      /\ Estate(V, u) = V.bal[Maker][u] + world.stake[u] + V.bal[Settlement][u] + V.bal[Module][u]
                            + (V.elsewhere[u] - world.held[Settlement][u] - world.held[Module][u] + p - d)
  BY <1>5 DEF Estate, Purse, Booked, Kept
<1>7. Estate(V, u) = Estate(world, u) /\ Estate(V, u) \in Int
  BY <1>3, <1>4, <1>6
<1> QED
  BY <1>3, <1>4, <1>7

(* Each thing others do is one of these.                                   *)
LEMMA GiftKeepsApart ==
    ASSUME TypeOK, world' \in Worlds, Kept(world, world'),
           NEW a \in {Maker, Settlement, Module, Treasury}, NEW t \in Tokens, NEW n \in Gifts, Gift(a, t, n)
    PROVE  Apart(world')
<1>1. world \in Worlds /\ order \in Shapes /\ n \in Nat
  BY ActorsAssumption DEF TypeOK
<1>2. DOMAIN world.held = {Settlement, Module}
  BY <1>1 DEF Worlds
<1> DEFINE X == [world EXCEPT !.bal[a][t] = @ + n]
<1>3. /\ X.bal = [world.bal EXCEPT ![a][t] = @ + n] /\ X.held = world.held
      /\ X.stake = world.stake /\ X.elsewhere = world.elsewhere
      /\ DOMAIN X = DOMAIN world
  BY <1>1 DEF Worlds
<1>4. CASE a \in {Settlement, Module} /\ ~Measured(a, t)
  <2>1. Stir([X EXCEPT !.held[a][t] = @ + n])
    BY <1>2, <1>3, <1>4 DEF Gift
  <2> HIDE DEF X
  <2>2. /\ world'.bal = X.bal /\ world'.stake = X.stake /\ world'.elsewhere = X.elsewhere
        /\ world'.held = [X.held EXCEPT ![a][t] = @ + n]
    BY <1>1, <1>3, <2>1 DEF Stir, Worlds
  <2> QED
    BY <1>1, <1>3, <1>4, <2>2, GiftApart
<1>5. CASE ~(a \in {Settlement, Module} /\ ~Measured(a, t))
  <2>1. Stir(X)
    BY <1>2, <1>3, <1>5 DEF Gift
  <2> HIDE DEF X
  <2>2. /\ world'.bal = X.bal /\ world'.stake = X.stake /\ world'.elsewhere = X.elsewhere
        /\ world'.held = X.held
    BY <1>1, <1>3, <2>1 DEF Stir, Worlds
  <2>3. /\ world'.bal = [world.bal EXCEPT ![a][t] = @ + n]
        /\ world'.held = IF a \in {Settlement, Module} /\ ~Measured(a, t)
                         THEN [world.held EXCEPT ![a][t] = @ + n] ELSE world.held
        /\ world'.stake = world.stake /\ world'.elsewhere = world.elsewhere
    BY <1>3, <1>5, <2>2
  <2> QED
    BY <1>1, <2>3, GiftApart
<1> QED
  BY <1>4, <1>5

LEMMA DrainKeepsApart ==
    ASSUME TypeOK, world' \in Worlds, Kept(world, world'), NEW W \in Worlds, Unmoved(world, W),
           NEW t \in Tokens, NEW n \in Nat,
           Stir([W EXCEPT !.bal[Maker][t] = @ - n, !.elsewhere[t] = @ + n])
    PROVE  Apart(world')
<1>1. world \in Worlds /\ order \in Shapes
  BY DEF TypeOK
<1>2. /\ world'.bal = [W.bal EXCEPT ![Maker][t] = @ - n]
      /\ world'.elsewhere = [W.elsewhere EXCEPT ![t] = @ + n]
      /\ world'.stake = W.stake /\ world'.held = W.held
  BY DEF Stir, Worlds
<1>3. W.bal = world.bal /\ W.elsewhere = world.elsewhere /\ W.stake = world.stake /\ W.held = world.held
  BY DEF Unmoved, Unbooked
<1> QED
  BY <1>1, <1>2, <1>3, DrainApart

(* Everything else that others do changes the books and moves nothing.     *)
Untouched(W) == W.bal = world.bal /\ W.stake = world.stake /\ W.held = world.held /\ W.elsewhere = world.elsewhere

LEMMA CallsTouchNothing ==
    ASSUME TypeOK, SubmitBatch \/ MakerLowers \/ MakerRaises
    PROVE  Untouched(world')
<1>1. world \in Worlds
  BY DEF TypeOK
<1>2. ASSUME NEW H, Stir([world EXCEPT !.hub = H]) PROVE Untouched(world')
  BY <1>1, <1>2 DEF Stir, Worlds, Untouched
<1>3. ASSUME NEW D, Stir([world EXCEPT !.direct = D]) PROVE Untouched(world')
  BY <1>1, <1>3 DEF Stir, Worlds, Untouched
<1>4. CASE SubmitBatch
  BY <1>2, <1>4 DEF SubmitBatch
<1>5. CASE MakerLowers
  <2>1. \/ \E H : Stir([world EXCEPT !.hub = H])
        \/ Stir([world EXCEPT !.direct = {d \in @ : d[1] # Maker}])
    BY <1>5 DEF MakerLowers, MakerCalls
  <2> QED
    BY <1>2, <1>3, <2>1
<1>6. CASE MakerRaises
  <2>1. ASSUME NEW g \in Renewals,
               Stir([world EXCEPT !.hub = Approve(@, Maker, g), !.net[g.spender][g.key] = @ - g.amount])
        PROVE  Untouched(world')
    <3>1. PICK V : V = [world EXCEPT !.hub = Approve(@, Maker, g), !.net[g.spender][g.key] = @ - g.amount]
      OBVIOUS
    <3>2. Untouched(V) /\ DOMAIN V = DOMAIN world
      BY <1>1, <3>1 DEF Worlds, Untouched
    <3>3. world' = [V EXCEPT !.stirred = @ + 1]
      BY <2>1, <3>1 DEF Stir
    <3> QED
      BY <1>1, <3>2, <3>3 DEF Worlds, Untouched
  <2>2. \/ \E g \in Renewals :
             Stir([world EXCEPT !.hub = Approve(@, Maker, g), !.net[g.spender][g.key] = @ - g.amount])
        \/ \E H : Stir([world EXCEPT !.hub = H])
        \/ Stir([world EXCEPT !.direct = @ \cup ({Maker} \X Tokens)])
    BY <1>6 DEF MakerRaises, MakerCalls
  <2> QED
    BY <1>2, <1>3, <2>1, <2>2
<1> QED
  BY <1>4, <1>5, <1>6

LEMMA OthersApart ==
    ASSUME TypeOK, Others
    PROVE  /\ order' = order /\ todo' = todo /\ frame' = frame
           /\ world' \in Worlds /\ Kept(world, world') /\ Apart(world')
<1>1. world \in Worlds /\ order \in Shapes /\ Gifts \subseteq Nat /\ Tokens \subseteq Keys
  BY ActorsAssumption, Actors DEF TypeOK
<1>2. /\ order' = order /\ todo' = todo /\ frame' = frame
      /\ world' \in Worlds /\ Kept(world, world')
  <2>1. PICK W : Stir(W) /\ Even(world, W)
    BY OthersResult
  <2> QED
    BY <2>1, StirResult
<1>3. ASSUME NEW a \in {Maker, Settlement, Module, Treasury}, NEW t \in Tokens, NEW n \in Gifts, Gift(a, t, n)
      PROVE  Apart(world')
  BY <1>2, <1>3, GiftKeepsApart
<1>4. ASSUME NEW t \in Tokens, NEW n \in Gifts, DappDraws(t, n) PROVE Apart(world')
  <2>1. PICK W \in Drawn(world, Maker, Dapp, t, n) :
          Stir([W EXCEPT !.bal[Maker][t] = @ - n, !.elsewhere[t] = @ + n])
    BY <1>4 DEF DappDraws
  <2>2. Unmoved(world, W) /\ W \in Worlds
    <3>1. Maker \in Users /\ Dapp \in Spenders /\ t \in Keys /\ n \in Nat
      BY <1>1, ActorsAssumption
    <3> QED
      BY <1>1, <2>1, <3>1, DrawnMovesNothing DEF Unmoved
  <2> QED
    BY <1>1, <1>2, <2>1, <2>2, DrainKeepsApart
<1>5. ASSUME NEW n \in Gifts, DappUsesPermit(n) PROVE Apart(world')
  <2>1. PICK p \in order.shots : \E H : Stir([world EXCEPT !.hub = H, !.uses[p.nonce] = @ + 1,
                                                             !.bal[Maker][p.key] = @ - n, !.elsewhere[p.key] = @ + n])
    BY <1>5 DEF DappUsesPermit
  <2>2. PICK t \in Tokens : t = p.key
    BY <1>1, <2>1, ShapesAssumption
  <2>3. /\ world'.bal = [world.bal EXCEPT ![Maker][t] = @ - n]
        /\ world'.elsewhere = [world.elsewhere EXCEPT ![t] = @ + n]
        /\ world'.stake = world.stake /\ world'.held = world.held
    BY <1>1, <2>1, <2>2 DEF Stir, Worlds
  <2> QED
    BY <1>1, <1>2, <2>3, DrainApart
<1>6. CASE SubmitBatch \/ MakerLowers \/ MakerRaises
  BY <1>1, <1>2, <1>6, CallsTouchNothing, StillApart DEF Untouched
<1> QED
  BY <1>2, <1>3, <1>4, <1>5, <1>6 DEF Others

-----------------------------------------------------------------------------
(* The books hold throughout.                                              *)

(* What others do leaves them as they are, between fills ...               *)
LEMMA ApartClosed ==
    ASSUME order \in Shapes, world \in Worlds, todo = <<>>, NEW V \in Worlds, Apart(V), Closed(world)
    PROVE  Closed(V)
<1>1. \A u : ~Measured(Settlement, u)
  BY DEF Measured
<1> SUFFICES ASSUME NEW u \in Tokens
             PROVE  /\ V.bal[Settlement][u] = V.held[Settlement][u] /\ V.bal[Module][u] = V.held[Module][u]
                    /\ Estate(V, u) >= order.wallet[u]
  BY DEF Closed
<1>2. /\ world.bal[Settlement][u] = world.held[Settlement][u] /\ world.bal[Module][u] = world.held[Module][u]
      /\ Estate(world, u) >= order.wallet[u]
  BY DEF Closed
<1>3. /\ Estate(V, u) >= Estate(world, u)
      /\ V.bal[Module][u] - V.held[Module][u] = world.bal[Module][u] - world.held[Module][u]
      /\ V.bal[Settlement][u] - V.held[Settlement][u] = world.bal[Settlement][u] - world.held[Settlement][u]
  BY <1>1 DEF Apart
<1>4. /\ Estate(V, u) \in Int /\ Estate(world, u) \in Int /\ order.wallet[u] \in Nat
      /\ world.bal[Settlement][u] \in Nat /\ world.held[Settlement][u] \in Nat
      /\ world.bal[Module][u] \in Nat /\ world.held[Module][u] \in Nat
      /\ V.bal[Settlement][u] \in Nat /\ V.held[Settlement][u] \in Nat
      /\ V.bal[Module][u] \in Nat /\ V.held[Module][u] \in Nat
  BY EstateTypes
<1>5. V.bal[Settlement][u] = V.held[Settlement][u]
  BY <1>2, <1>3, <1>4
<1>6. V.bal[Module][u] = V.held[Module][u]
  BY <1>2, <1>3, <1>4
<1>7. Estate(V, u) >= order.wallet[u]
  BY <1>2, <1>3, <1>4
<1> QED
  BY <1>5, <1>6, <1>7

(* ... and in the middle of one.                                           *)
LEMMA ApartRest ==
    ASSUME TypeOK, todo # <<>>, NEW V \in Worlds, Apart(V), Rest(world, todo, frame)
    PROVE  Rest(V, todo, frame)
<1>1. /\ order \in Shapes /\ world \in Worlds /\ frame \in Frames /\ todo \in Seq(Calls)
      /\ frame.saved \in Worlds
  BY DEF TypeOK, Opened, Frames
<1>2. \A u \in Tokens : Measured(Settlement, u) <=> frame.base # None /\ PayLeft(todo, u)
  <2> TAKE u \in Tokens
  <2>1. \A k \in DOMAIN todo : todo[k] \in Calls
    BY <1>1
  <2>2. ASSUME NEW k \in DOMAIN todo, todo[k][1] = "pay"
        PROVE  todo[k][2] \in DOMAIN Ins /\ todo[k] = <<"pay", todo[k][2]>>
    BY <2>1, <2>2 DEF Calls
  <2>3. (\E k \in DOMAIN todo : todo[k][1] = "pay" /\ order.inTok[todo[k][2]] = u) => PayLeft(todo, u)
    BY <2>2 DEF PayLeft, Left
  <2>4. PayLeft(todo, u) => (\E k \in DOMAIN todo : todo[k][1] = "pay" /\ order.inTok[todo[k][2]] = u)
    <3> SUFFICES ASSUME NEW i \in DOMAIN Ins, order.inTok[i] = u, NEW k \in DOMAIN todo, todo[k] = <<"pay", i>>
                 PROVE  todo[k][1] = "pay" /\ order.inTok[todo[k][2]] = u
      BY DEF PayLeft, Left
    <3> QED
      OBVIOUS
  <2> QED
    BY <2>3, <2>4 DEF Measured
<1>3. \A u \in Tokens :
        /\ Estate(V, u) \in Int /\ Estate(world, u) \in Int /\ order.wallet[u] \in Nat
        /\ V.bal[Maker][u] \in Nat /\ world.bal[Maker][u] \in Nat /\ frame.saved.bal[Maker][u] \in Nat
        /\ world.bal[Settlement][u] \in Nat /\ world.held[Settlement][u] \in Nat
        /\ world.bal[Module][u] \in Nat /\ world.held[Module][u] \in Nat
        /\ V.bal[Settlement][u] \in Nat /\ V.held[Settlement][u] \in Nat
        /\ V.bal[Module][u] \in Nat /\ V.held[Module][u] \in Nat
  BY <1>1, EstateTypes
<1>4. ASSUME NEW u \in Tokens
      PROVE  /\ frame.base = None \/ ~PayLeft(todo, u) => V.bal[Settlement][u] = V.held[Settlement][u]
             /\ frame.base # None /\ PayLeft(todo, u) => frame.base[u] = V.held[Settlement][u]
             /\ V.bal[Module][u] = V.held[Module][u] + SumFunctionOnSet(frame.outs, Waiting(frame, u))
  <2>1. /\ frame.base = None \/ ~PayLeft(todo, u) => world.bal[Settlement][u] = world.held[Settlement][u]
        /\ frame.base # None /\ PayLeft(todo, u) => frame.base[u] = world.held[Settlement][u]
        /\ world.bal[Module][u] = world.held[Module][u] + SumFunctionOnSet(frame.outs, Waiting(frame, u))
    BY DEF Rest, Pool
  <2>2. PICK n \in Int : n = SumFunctionOnSet(frame.outs, Waiting(frame, u))
    <3>1. Waiting(frame, u) \subseteq DOMAIN Outs
      BY DEF Waiting
    <3>2. IsFiniteSet(Waiting(frame, u)) /\ \A j \in Waiting(frame, u) : frame.outs[j] \in Int
      BY <1>1, <3>1, LegsFinite, FS_Subset DEF Frames
    <3> QED
      BY <3>2, SumType
  <2>3. /\ V.bal[Module][u] - V.held[Module][u] = world.bal[Module][u] - world.held[Module][u]
        /\ IF Measured(Settlement, u) THEN V.held[Settlement][u] = world.held[Settlement][u]
           ELSE V.bal[Settlement][u] - V.held[Settlement][u] = world.bal[Settlement][u] - world.held[Settlement][u]
    BY DEF Apart
  <2>4. V.bal[Module][u] = V.held[Module][u] + n
    <3>1. /\ V.bal[Module][u] \in Nat /\ V.held[Module][u] \in Nat
          /\ world.bal[Module][u] \in Nat /\ world.held[Module][u] \in Nat
      BY <1>3
    <3>2. world.bal[Module][u] = world.held[Module][u] + n
      BY <2>1, <2>2
    <3> QED
      BY <2>2, <2>3, <3>1, <3>2
  <2>5. /\ frame.base = None \/ ~PayLeft(todo, u) => V.bal[Settlement][u] = V.held[Settlement][u]
        /\ frame.base # None /\ PayLeft(todo, u) => frame.base[u] = V.held[Settlement][u]
    BY <1>2, <1>3, <2>1, <2>3
  <2> QED
    BY <2>2, <2>4, <2>5
<1>5. Pool(V, todo, frame)
  BY <1>4 DEF Pool
<1>6. Solvent(V, todo, frame)
  <2>1. \A u \in Tokens : Estate(V, u) >= order.wallet[u]
    <3> TAKE u \in Tokens
    <3>1. Estate(V, u) >= Estate(world, u) /\ Estate(world, u) >= order.wallet[u]
      BY DEF Apart, Rest, Solvent
    <3> QED
      BY <1>3, <3>1
  <2>2. ASSUME order.verify, NEW j \in DOMAIN Outs, order.outTo[j] = Maker, Left(todo, <<"deliver", j>>)
        PROVE  LET u == order.outTok[j]
               IN  Estate(V, u) >= order.wallet[u] + V.bal[Maker][u] - frame.saved.bal[Maker][u]
    <3>1. PICK u \in Tokens : u = order.outTok[j]
      BY <1>1, <2>2, OrderFields
    <3>2. Estate(world, u) >= order.wallet[u] + world.bal[Maker][u] - frame.saved.bal[Maker][u]
      BY <2>2, <3>1 DEF Rest, Solvent
    <3>3. Estate(V, u) - V.bal[Maker][u] >= Estate(world, u) - world.bal[Maker][u]
      BY DEF Apart
    <3>4. Estate(V, u) >= order.wallet[u] + V.bal[Maker][u] - frame.saved.bal[Maker][u]
      BY <1>3, <3>2, <3>3
    <3> QED
      BY <3>1, <3>4
  <2> QED
    BY <2>1, <2>2 DEF Rest, Solvent
<1> QED
  BY <1>5, <1>6 DEF Rest

(* A fill opens on books that are closed, with everything left to do.      *)
LEMMA OpenBooks ==
    ASSUME Inv, BooksInv,
           NEW entry \in Entries, NEW delta \in Sizes, NEW m \in Days, NEW premium \in {0, Terms.premium},
           Open(entry, delta, m, premium)
    PROVE  Closed(frame'.saved) /\ Rest(world', todo', frame')
<1>1. /\ TypeOK /\ Honest(world) /\ order \in Shapes /\ world \in Worlds
  BY DEF Inv, TypeOK
<1>2. /\ todo = <<>> /\ todo' = Plan(entry) /\ order' = order /\ world' \in Worlds
      /\ Opened(frame') /\ frame'.saved = world
  BY <1>1, OpenResult
<1>3. frame' \in Frames /\ Closed(world)
  BY <1>2 DEF Opened, BooksInv
<1>4. PICK V, f : V = world' /\ f = frame'
  OBVIOUS
<1>12. PICK H, bump :
         /\ world' = [world EXCEPT !.hub = H, !.now = m.tick, !.filled = @ + delta]
         /\ frame' = [saved |-> world, direct |-> entry \in {"direct", "direct inputs"},
                      ctx |-> [anchor |-> Terms.anchor, prev |-> world.filled,
                               new |-> world.filled + delta, bump |-> bump, override |-> premium],
                      outs |-> [j \in DOMAIN Outs |-> 0], used |-> {}, base |-> None,
                      permit |-> IF entry = "take" THEN order.take ELSE {}]
  BY DEF Open
<1>5. /\ V \in Worlds /\ f \in Frames /\ f.saved = world
      /\ V.bal = world.bal /\ V.stake = world.stake /\ V.held = world.held /\ V.elsewhere = world.elsewhere
      /\ V.delivered = world.delivered /\ V.paid = world.paid
      /\ f.outs = [j \in DOMAIN Outs |-> 0] /\ f.used = {} /\ f.base = None
  <2>1. /\ V.bal = world.bal /\ V.stake = world.stake /\ V.held = world.held /\ V.elsewhere = world.elsewhere
        /\ V.delivered = world.delivered /\ V.paid = world.paid
    BY <1>1, <1>4, <1>12 DEF Worlds
  <2>2. f.saved = world /\ f.outs = [j \in DOMAIN Outs |-> 0] /\ f.used = {} /\ f.base = None
    BY <1>4, <1>12
  <2> QED
    BY <1>2, <1>3, <1>4, <2>1, <2>2
<1>6. (entry \in InputsFirst => order.items = <<>>) /\ (order.verify => Measurable)
  BY DEF Open
<1>7. Ordered(Plan(entry))
  BY <1>1, <1>6, PlanOrdered
<1>8. \A u \in Tokens : Estate(V, u) = Estate(world, u)
  BY <1>5 DEF Estate, Purse, Booked
<1>9. Pool(V, Plan(entry), f)
  <2> SUFFICES ASSUME NEW u \in Tokens
               PROVE  /\ V.bal[Settlement][u] = V.held[Settlement][u]
                      /\ V.bal[Module][u] = V.held[Module][u] + SumFunctionOnSet(f.outs, Waiting(f, u))
    BY <1>5 DEF Pool
  <2>1. world.bal[Settlement][u] = world.held[Settlement][u] /\ world.bal[Module][u] = world.held[Module][u]
    BY <1>3 DEF Closed
  <2>2. world.held[Module][u] \in Nat
    BY <1>1, EstateTypes
  <2>3. Waiting(f, u) \subseteq DOMAIN Outs
    BY DEF Waiting
  <2>4. IsFiniteSet(Waiting(f, u)) /\ \A j \in Waiting(f, u) : f.outs[j] = 0
    BY <1>1, <1>5, <2>3, LegsFinite, FS_Subset
  <2>5. SumFunctionOnSet(f.outs, Waiting(f, u)) = 0
    BY <2>4, SumZero
  <2> QED
    BY <1>5, <2>1, <2>2, <2>5
<1>10. SentAhead(Plan(entry), f)
  BY <1>5 DEF SentAhead
<1>11. Solvent(V, Plan(entry), f)
  <2>1. \A u \in Tokens : Estate(V, u) >= order.wallet[u]
    BY <1>3, <1>8 DEF Closed
  <2>2. ASSUME NEW j \in DOMAIN Outs
        PROVE  LET u == order.outTok[j]
               IN  Estate(V, u) >= order.wallet[u] + V.bal[Maker][u] - f.saved.bal[Maker][u]
    <3>1. PICK u \in Tokens : u = order.outTok[j]
      BY <1>1, <2>2, OrderFields
    <3>2. V.bal[Maker][u] = f.saved.bal[Maker][u] /\ V.bal[Maker][u] \in Nat /\ order.wallet[u] \in Nat
      BY <1>1, <1>5, EstateTypes
    <3>3. Estate(V, u) >= order.wallet[u] + V.bal[Maker][u] - f.saved.bal[Maker][u]
      BY <2>1, <3>2
    <3> QED
      BY <3>1, <3>3
  <2> QED
    BY <1>6, <2>1, <2>2 DEF Solvent
<1> QED
  BY <1>2, <1>3, <1>4, <1>5, <1>7, <1>9, <1>10, <1>11 DEF Rest

(* What must be shown of the next state.                                   *)
LEMMA BooksNext ==
    ASSUME order' = order,
           todo' = <<>> => Closed(world'),
           todo' # <<>> => Closed(frame'.saved) /\ Rest(world', todo', frame')
    PROVE  BooksInv'
<1>1. Terms' = Terms /\ Buy' = Buy /\ Outs' = Outs /\ Ins' = Ins
  BY SameOrder
<1>2. \A t : ToMaker(t)' = ToMaker(t) /\ OfMaker(t)' = OfMaker(t)
  BY <1>1 DEF ToMaker, OfMaker
<1>3. todo' = <<>> => (Closed(world))'
  BY <1>1, <1>2 DEF Closed, Estate, Purse, Booked
<1>4. ASSUME todo' # <<>> PROVE (Closed(frame.saved))' /\ (Rest(world, todo, frame))'
  <2>1. (Closed(frame.saved))'
    BY <1>1, <1>2, <1>4 DEF Closed, Estate, Purse, Booked
  <2>2. \A f, t : Waiting(f, t)' = Waiting(f, t)
    BY <1>1 DEF Waiting
  <2>3. (Ordered(todo))'
    BY <1>1, <1>4 DEF Rest, Ordered, Before, Left
  <2>4. (Pool(world, todo, frame))'
    BY <1>1, <1>4, <2>2 DEF Rest, Pool, PayLeft, Left
  <2>5. (SentAhead(todo, frame))'
    BY <1>1, <1>4 DEF Rest, SentAhead, Left, Spends
  <2>6. Measurable' <=> Measurable
    BY <1>1 DEF Measurable
  <2>7. (Solvent(world, todo, frame))'
    BY <1>1, <1>2, <1>4, <2>6 DEF Rest, Solvent, Estate, Purse, Booked, Left
  <2> QED
    BY <2>1, <2>3, <2>4, <2>5, <2>7 DEF Rest
<1> QED
  BY <1>3, <1>4 DEF BooksInv

(* Before anything is filled there is nothing to book.                     *)
LEMMA InitBooks == Init => BooksInv
<1> SUFFICES ASSUME Init PROVE Closed(world)
  BY DEF Init, BooksInv
<1>1. order \in Shapes /\ world \in Worlds
  BY InitInv DEF Inv, TypeOK
<1> SUFFICES ASSUME NEW u \in Tokens
             PROVE  /\ world.bal[Settlement][u] = world.held[Settlement][u]
                    /\ world.bal[Module][u] = world.held[Module][u]
                    /\ Estate(world, u) >= order.wallet[u]
  BY DEF Closed
<1>2. /\ Maker \in Accounts /\ Settlement \in Accounts /\ Module \in Accounts
      /\ Maker \notin {Settlement, Module} /\ Filler \notin {Settlement, Module}
  BY ActorsAssumption DEF Accounts
<1>3. /\ world.bal[Maker][u] = order.wallet[u] /\ world.bal[Settlement][u] = 0 /\ world.bal[Module][u] = 0
      /\ world.held[Settlement][u] = 0 /\ world.held[Module][u] = 0
      /\ world.stake[u] = 0 /\ world.elsewhere[u] = 0
      /\ \A j \in DOMAIN Outs : world.delivered[j] = 0
      /\ \A i \in DOMAIN Ins : world.paid[i] = 0
  BY <1>2 DEF Init
<1>4. SumFunctionOnSet(world.paid, OfMaker(u)) = 0
  <2>1. IsFiniteSet(OfMaker(u)) /\ \A i \in OfMaker(u) : world.paid[i] = 0
    BY <1>1, <1>3, LegsFinite DEF OfMaker
  <2> QED
    BY <2>1, SumZero
<1>5. SumFunctionOnSet(world.delivered, ToMaker(u)) = 0
  <2>1. IsFiniteSet(ToMaker(u)) /\ \A j \in ToMaker(u) : world.delivered[j] = 0
    BY <1>1, <1>3, LegsFinite DEF ToMaker
  <2> QED
    BY <2>1, SumZero
<1>6. order.wallet[u] \in Nat
  BY <1>1, EstateTypes
<1>7. Estate(world, u) = order.wallet[u]
  BY <1>3, <1>4, <1>5, <1>6 DEF Estate, Purse, Booked
<1> QED
  BY <1>3, <1>6, <1>7

(* Every step keeps them, if the order leaves nothing anywhere.            *)
LEMMA StepKeepsBooks ==
    ASSUME \A o \in Shapes : LeavesNothing(o)
    PROVE  Inv /\ BooksInv /\ [Next]_vars => BooksInv'
<1> SUFFICES ASSUME Inv, BooksInv, [Next]_vars PROVE BooksInv'
  OBVIOUS
<1>1. TypeOK /\ order \in Shapes /\ world \in Worlds /\ LeavesNothing(order)
  BY DEF Inv, TypeOK
<1>2. ASSUME NEW entry \in Entries, NEW delta \in Sizes, NEW m \in Days,
             NEW premium \in {0, Terms.premium}, Open(entry, delta, m, premium)
      PROVE  BooksInv'
  <2>1. Closed(frame'.saved) /\ Rest(world', todo', frame')
    BY <1>2, OpenBooks
  <2>2. order' = order /\ world' \in Worlds /\ Opened(frame')
    BY <1>1, <1>2, OpenResult DEF Inv
  <2>3. todo' = <<>> => Closed(world')
    BY <1>1, <2>1, <2>2, RestClosed DEF Opened
  <2> QED
    BY <2>1, <2>2, <2>3, BooksNext
<1>3. CASE Deliver \/ RunItem \/ Pay
  <2>1. PICK V, f :
          Step(V, f) /\ V \in Worlds /\ f \in Frames /\ f.saved = frame.saved /\ Rest(V, Tail(todo), f)
    BY <1>1, <1>3, DeliverKeeps, ItemKeeps, PayKeeps
  <2>2. todo # <<>>
    BY <1>3 DEF Deliver, RunItem, Pay, Due
  <2>3. /\ order' = order /\ world' = V /\ todo' = Tail(todo)
        /\ todo' # <<>> => frame' = f
    BY <2>1 DEF Step
  <2>4. todo' = <<>> => Closed(world')
    BY <1>1, <2>1, <2>3, RestClosed
  <2>5. Closed(f.saved)
    BY <2>1, <2>2 DEF BooksInv
  <2> QED
    BY <2>1, <2>3, <2>4, <2>5, BooksNext
<1>4. CASE Revert
  <2>1. todo # <<>> /\ world' = frame.saved /\ todo' = <<>> /\ order' = order
    BY <1>4 DEF Revert
  <2>2. Closed(frame.saved)
    BY <2>1 DEF BooksInv
  <2> QED
    BY <2>1, <2>2, BooksNext
<1>5. CASE Others
  <2>1. /\ order' = order /\ todo' = todo /\ frame' = frame
        /\ world' \in Worlds /\ Apart(world')
    BY <1>1, <1>5, OthersApart
  <2>2. todo = <<>> => Closed(world')
    BY <1>1, <2>1, ApartClosed DEF BooksInv
  <2>3. todo # <<>> => Closed(frame.saved) /\ Rest(world', todo, frame)
    BY <1>1, <2>1, ApartRest DEF BooksInv
  <2> QED
    BY <2>1, <2>2, <2>3, BooksNext
<1>6. CASE UNCHANGED vars
  <2>1. order' = order /\ todo' = todo /\ frame' = frame /\ world' = world
    BY <1>6 DEF vars
  <2>2. /\ todo = <<>> => Closed(world)
        /\ todo # <<>> => Closed(frame.saved) /\ Rest(world, todo, frame)
    BY DEF BooksInv
  <2> QED
    BY <2>1, <2>2, BooksNext
<1> QED
  BY <1>2, <1>3, <1>4, <1>5, <1>6 DEF Next

(* What lies with Settlement or a module and belongs to no fill stays      *)
(* there, and no fill leaves anything behind: through callbacks, reverts   *)
(* and gifts in the middle of a fill, no item is funded, and no filler     *)
(* paid, with what is not this order's, and whatever a leg sent ahead to a *)
(* module is spent by one item of the same fill - for every order that     *)
(* parks nothing where no fill takes it from (Base._snapshotInputs,        *)
(* _forSlice "one delivery funds one item", SettleSliceZero).              *)
THEOREM NothingStays ==
    ASSUME \A o \in Shapes : LeavesNothing(o)
    PROVE  Spec => []PoolIsNobodys
<1>1. Inv /\ BooksInv => PoolIsNobodys
  BY DEF BooksInv, Closed, PoolIsNobodys
<1>2. Inv /\ BooksInv /\ [Next]_vars => BooksInv'
  BY StepKeepsBooks
<1>3. Init => BooksInv
  BY InitBooks
<1>4. Spec => []Inv
  BY InvHolds
<1> QED
  BY <1>1, <1>2, <1>3, <1>4, PTL DEF Spec

(* What a maker is worth once nothing lies elsewhere on its behalf.        *)
LEMMA WorthWhenClosed ==
    ASSUME order \in Shapes, NEW W \in Worlds, NEW t \in Tokens, Closed(W)
    PROVE  Worth(W, t) >=
             order.wallet[t] + SumFunctionOnSet(W.delivered, ToMaker(t))
               - SumFunctionOnSet(W.paid, OfMaker(t)) - W.elsewhere[t]
<1>1. PICK p \in Int, d \in Int : /\ p = SumFunctionOnSet(W.paid, OfMaker(t))
                                  /\ d = SumFunctionOnSet(W.delivered, ToMaker(t))
  BY EstateTypes
<1>2. /\ W.bal[Maker][t] \in Nat /\ W.bal[Settlement][t] \in Nat /\ W.bal[Module][t] \in Nat
      /\ W.stake[t] \in Int
      /\ W.held[Settlement][t] \in Nat /\ W.held[Module][t] \in Nat /\ W.elsewhere[t] \in Nat
      /\ order.wallet[t] \in Nat
  BY EstateTypes
<1>3. /\ W.bal[Settlement][t] = W.held[Settlement][t] /\ W.bal[Module][t] = W.held[Module][t]
      /\ Estate(W, t) >= order.wallet[t]
  BY DEF Closed
<1>4. Estate(W, t) = W.bal[Maker][t] + W.stake[t] + W.bal[Settlement][t] + W.bal[Module][t]
                       + (W.elsewhere[t] - W.held[Settlement][t] - W.held[Module][t] + p - d)
  BY <1>1 DEF Estate, Purse, Booked
<1>5. Estate(W, t) = W.bal[Maker][t] + W.stake[t] + W.elsewhere[t] + p - d
  BY <1>1, <1>2, <1>3, <1>4
<1>6. W.bal[Maker][t] + W.stake[t] >= order.wallet[t] + d - p - W.elsewhere[t]
  BY <1>1, <1>2, <1>3, <1>5
<1> QED
  BY <1>1, <1>6 DEF Worth

(* Between fills, wallet and position together, a maker has what it had,   *)
(* and what its legs received, less what its legs paid and what the other  *)
(* spenders it approved took: a loan, its proceeds and their surplus, a    *)
(* deposit funded by a leg cost it nothing, and what an output measured at *)
(* it is counted to one leg of one fill (Base._runItem,                    *)
(* Core._payInputsToSolver, _snapshotOutRecipients).                       *)
THEOREM MakerComesOut ==
    ASSUME \A o \in Shapes : LeavesNothing(o)
    PROVE  Spec => []MakerIsPaid
<1>1. Inv /\ BooksInv => MakerIsPaid
  <2> SUFFICES ASSUME Inv, BooksInv, todo = <<>>, NEW t \in Tokens
               PROVE  Worth(world, t) >=
                        order.wallet[t] + SumFunctionOnSet(world.delivered, ToMaker(t))
                          - SumFunctionOnSet(world.paid, OfMaker(t)) - world.elsewhere[t]
    BY DEF MakerIsPaid, ToMaker, OfMaker
  <2> QED
    BY WorthWhenClosed DEF Inv, TypeOK, BooksInv
<1>2. Inv /\ BooksInv /\ [Next]_vars => BooksInv'
  BY StepKeepsBooks
<1>3. Init => BooksInv
  BY InitBooks
<1>4. Spec => []Inv
  BY InvHolds
<1> QED
  BY <1>1, <1>2, <1>3, <1>4, PTL DEF Spec
=============================================================================

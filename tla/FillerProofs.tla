----------------------------- MODULE FillerProofs -----------------------------
(***************************************************************************)
(* What the filler holds to: its guard, for every number of keys, caps,    *)
(* times, upsets and sends, when the ticker is the only one that sends; its*)
(* engine, for every number of orders, values, caps and upsets.            *)
(***************************************************************************)
EXTENDS FillerGuard, Engine, SumProofs, SequenceTheorems

(* With one caller, what is at its await is all that goes on.              *)
Stage == pc[Ticker].at
Record == pc[Ticker].p

Charges == UNION {[T -> Entries] : T \in SUBSET Txs}
States == [pending : Records \cup {None}, charges : Charges]

GuardType == mem \in States /\ disk \in States

WorldType ==
    /\ nonce \in Nat /\ network \subseteq Txs /\ node \subseteq network
    /\ receipts \in UNION {[T -> [ok : BOOLEAN, gas : Nat]] : T \in SUBSET Txs}
    /\ sent \in UNION {[T -> 0..(Window - 1)] : T \in SUBSET Txs}
    /\ dropped \subseteq Txs /\ undone \subseteq Txs
    /\ sends \in 0..MaxSends /\ foreign \in Nat /\ crashes \in Nat

(* A caller under way has a record, and one about to broadcast again a try *)
(* left and an age short of the drop.                                      *)
Busy == Awaits \ {"idle", "save"}
CallerType ==
    /\ pc \in [Senders -> [at : Awaits, p : Records \cup {None}]]
    /\ \A s \in Senders :
         /\ pc[s].at \in Busy => pc[s].p # None
         /\ pc[s].at = "lost" => pc[s].p.tries < MaxTries /\ pc[s].p.age < Drop

TypeOK == GuardType /\ WorldType /\ CallerType

(* What a node may mine is still to be mined, what was mined is past, and  *)
(* cost no more than its limit.                                            *)
Mempool ==
    /\ \A t \in network : t.nonce >= nonce
    /\ \A t \in DOMAIN receipts : t.nonce < nonce /\ receipts[t].gas <= GasLimit[t.key]

(* Transactions are numbered as they are begun, and until its first send   *)
(* nobody has seen the one under way.                                      *)
Began(n) == \A t \in network \cup DOMAIN receipts : t.copy <= n
Numbered ==
    /\ Began(sends) /\ \A t \in DOMAIN sent : t.copy <= sends
    /\ \A state \in {mem, disk} : state.pending # None => state.pending.tx.copy <= sends
    /\ Stage \in {"latest", "tag", "commit", "send"} => Record.tx.copy = sends /\ Began(sends - 1)
    /\ Stage \in {"latest", "tag"} =>
         /\ \A t \in DOMAIN sent : t.copy < sends
         /\ disk.pending # None => disk.pending.tx.copy < sends

(* The record at an await is the one outstanding, which the store has too  *)
(* but while it is being committed; before that the guard is free.         *)
Outstanding ==
    /\ Stage \in {"latest", "tag"} => mem.pending = None
    /\ Stage \in Busy \ {"latest", "tag"} => mem.pending = Record
    /\ mem.pending # None /\ Stage # "commit" => disk.pending # None /\ disk.pending.tx = mem.pending.tx

(* What the ticker knows of the chain still holds when it acts on it.      *)
Informed == Stage = "reread" => nonce > Record.tx.nonce

(* A ledger, in memory or in the store, is dated right, holds its pending  *)
(* transaction at the limit, covers all that may have been spent, but for  *)
(* what is gone, and is within the caps.                                   *)
Live(t, net, rec) == t \in net \/ t \in DOMAIN rec
Gas(t, net, rec) == IF t \in DOMAIN rec THEN rec[t].gas ELSE IF t \in net THEN GasLimit[t.key] ELSE 0
Out(t, net, rec) == IF t \in net \/ (t \in DOMAIN rec /\ rec[t].ok) THEN Outflow[t.key] ELSE 0

Dated(state, table) == \A t \in DOMAIN state.charges : t \in DOMAIN table /\ state.charges[t].age = table[t]

Full(state, t) ==
    /\ t \in DOMAIN state.charges
    /\ state.charges[t].gas = GasLimit[t.key] /\ state.charges[t].out = Outflow[t.key]

Reserved(state, table) ==
    state.pending # None /\ state.pending.tx \in DOMAIN table => Full(state, state.pending.tx)

Covers(state, table, gone, net, rec) == \A t \in DOMAIN table \ gone : Live(t, net, rec) =>
    /\ t \in DOMAIN state.charges
    /\ Gas(t, net, rec) <= state.charges[t].gas /\ Out(t, net, rec) <= state.charges[t].out

Capped(state, gas, out) == GasUsed(state) + gas <= GasCap /\ OutUsed(state) + out <= OutCap

Ledger(state) ==
    /\ Dated(state, sent) /\ Reserved(state, sent)
    /\ Covers(state, sent, undone, network, receipts) /\ Capped(state, 0, 0)

Ledgers ==
    /\ IsFiniteSet(DOMAIN sent)
    /\ Ledger(mem) /\ Ledger(disk)
    /\ Stage \in {"latest", "tag"} => Capped(mem, GasLimit[Record.tx.key], Outflow[Record.tx.key])

Inv == Mempool /\ Numbered /\ Outstanding /\ Informed /\ OneOutstanding /\ Ledgers

-----------------------------------------------------------------------------
(* The operators on the guard's state                                      *)

LEMMA StateShape ==
    ASSUME NEW state \in States
    PROVE  /\ state = [pending |-> state.pending, charges |-> state.charges]
           /\ state.pending \in Records \cup {None}
           /\ state.charges = [t \in DOMAIN state.charges |-> state.charges[t]]
           /\ DOMAIN state.charges \subseteq Txs
           /\ \A t \in DOMAIN state.charges : state.charges[t] \in Entries
BY DEF States, Charges

LEMMA StateMade ==
    ASSUME NEW r \in Records \cup {None}, NEW c, DOMAIN c \subseteq Txs,
           c = [t \in DOMAIN c |-> c[t]], \A t \in DOMAIN c : c[t] \in Entries
    PROVE  [pending |-> r, charges |-> c] \in States
BY DEF States, Charges

LEMMA PendingSet ==
    ASSUME NEW state \in States, NEW r \in Records \cup {None}
    PROVE  /\ [state EXCEPT !.pending = r] \in States
           /\ [state EXCEPT !.pending = r].pending = r
           /\ [state EXCEPT !.pending = r].charges = state.charges
BY DEF States

LEMMA ChargesSet ==
    ASSUME NEW state \in States, NEW c
    PROVE  [state EXCEPT !.charges = c] = [pending |-> state.pending, charges |-> c]
BY DEF States

LEMMA Forgotten ==
    ASSUME NEW state \in States
    PROVE  Forget(state) \in States /\ Forget(state).pending = None /\ Forget(state).charges = state.charges
BY PendingSet DEF Forget

LEMMA Charged ==
    ASSUME NEW state \in States, NEW t \in Txs
    PROVE  /\ Charge(state, t) \in States /\ Charge(state, t).pending = state.pending
           /\ DOMAIN Charge(state, t).charges = DOMAIN state.charges \cup {t}
           /\ Charge(state, t).charges[t] = [gas |-> GasLimit[t.key], out |-> Outflow[t.key], age |-> 0]
           /\ \A u \in DOMAIN state.charges \ {t} : Charge(state, t).charges[u] = state.charges[u]
<1> DEFINE e == [gas |-> GasLimit[t.key], out |-> Outflow[t.key], age |-> 0]
           c == With(state.charges, t, e)
<1>1. e \in Entries
  BY CapsAssumption, TimesAssumption DEF Entries, Txs
<1>2. c = [u \in DOMAIN state.charges \cup {t} |-> IF u = t THEN e ELSE state.charges[u]]
  BY DEF With
<1>3. Charge(state, t) = [pending |-> state.pending, charges |-> c]
  BY ChargesSet DEF Charge
<1> HIDE DEF e, c
<1>4. DOMAIN c = DOMAIN state.charges \cup {t} /\ c[t] = e
      /\ (\A u \in DOMAIN state.charges \ {t} : c[u] = state.charges[u]) /\ c = [u \in DOMAIN c |-> c[u]]
  BY <1>2
<1>5. DOMAIN c \subseteq Txs /\ \A u \in DOMAIN c : c[u] \in Entries
  BY <1>1, <1>4, StateShape
<1>6. [pending |-> state.pending, charges |-> c] \in States
  BY <1>4, <1>5, StateShape, StateMade
<1> QED
  BY <1>3, <1>4, <1>6 DEF e

LEMMA Uncharged ==
    ASSUME NEW state \in States, NEW t
    PROVE  /\ Uncharge(state, t) \in States /\ Uncharge(state, t).pending = state.pending
           /\ DOMAIN Uncharge(state, t).charges = DOMAIN state.charges \ {t}
           /\ \A u \in DOMAIN state.charges \ {t} : Uncharge(state, t).charges[u] = state.charges[u]
<1> DEFINE c == Restrict(state.charges, DOMAIN state.charges \ {t})
<1>1. c = [u \in DOMAIN state.charges \ {t} |-> state.charges[u]]
  BY DEF Restrict
<1>2. Uncharge(state, t) = [pending |-> state.pending, charges |-> c]
  BY ChargesSet DEF Uncharge
<1> HIDE DEF c
<1>3. /\ DOMAIN c = DOMAIN state.charges \ {t} /\ c = [u \in DOMAIN c |-> c[u]]
      /\ \A u \in DOMAIN state.charges \ {t} : c[u] = state.charges[u]
  BY <1>1
<1>4. DOMAIN c \subseteq Txs /\ \A u \in DOMAIN c : c[u] \in Entries
  BY <1>3, StateShape
<1>5. [pending |-> state.pending, charges |-> c] \in States
  BY <1>3, <1>4, StateShape, StateMade
<1> QED
  BY <1>2, <1>3, <1>5

LEMMA Resettled ==
    ASSUME NEW state \in States, NEW t, NEW gas \in Nat, NEW release \in BOOLEAN
    PROVE  /\ Resettle(state, t, gas, release) \in States
           /\ Resettle(state, t, gas, release).pending = state.pending
           /\ DOMAIN Resettle(state, t, gas, release).charges = DOMAIN state.charges
           /\ \A u \in DOMAIN state.charges :
                Resettle(state, t, gas, release).charges[u] =
                  IF u = t THEN [gas |-> gas, out |-> IF release THEN 0 ELSE state.charges[t].out, age |-> state.charges[t].age]
                           ELSE state.charges[u]
<1>1. CASE t \notin DOMAIN state.charges
  BY <1>1 DEF Resettle
<1>2. CASE t \in DOMAIN state.charges
  <2>1. PICK z : z = IF release THEN 0 ELSE state.charges[t].out
    OBVIOUS
  <2>2. PICK d \in Entries : d = state.charges[t]
    BY <1>2, StateShape
  <2> DEFINE e == [gas |-> gas, out |-> z, age |-> d.age]
             c == [u \in DOMAIN state.charges |-> IF u = t THEN e ELSE state.charges[u]]
  <2>3. z \in Nat /\ e \in Entries
    BY <2>1, <2>2 DEF Entries
  <2>4. e = [gas |-> gas, out |-> IF release THEN 0 ELSE d.out, age |-> d.age]
    BY <2>1, <2>2
  <2> HIDE DEF e
  <2>5. /\ DOMAIN c = DOMAIN state.charges /\ c = [u \in DOMAIN c |-> c[u]]
        /\ \A u \in DOMAIN state.charges : c[u] = IF u = t THEN e ELSE state.charges[u]
    OBVIOUS
  <2>6. [state.charges EXCEPT ![t] = e] = c
    BY <1>2, StateShape
  <2>7. Resettle(state, t, gas, release) = [state EXCEPT !.charges = [state.charges EXCEPT ![t] = e]]
    BY <1>2, <2>1, <2>2, <2>4 DEF Resettle
  <2> HIDE DEF c
  <2>8. DOMAIN c \subseteq Txs /\ \A u \in DOMAIN c : c[u] \in Entries
    BY <2>3, <2>5, StateShape
  <2>9. [pending |-> state.pending, charges |-> c] \in States
    BY <2>5, <2>8, StateShape, StateMade
  <2>10. Resettle(state, t, gas, release) = [pending |-> state.pending, charges |-> c]
    BY <2>6, <2>7, ChargesSet
  <2> QED
    BY <2>1, <2>2, <2>5, <2>9, <2>10 DEF e
<1> QED
  BY <1>1, <1>2

LEMMA AgedState ==
    ASSUME NEW state \in States
    PROVE  /\ Aged(state) \in States
           /\ Aged(state).pending = None <=> state.pending = None
           /\ state.pending # None => Aged(state).pending.tx = state.pending.tx
           /\ DOMAIN Aged(state).charges = {t \in DOMAIN state.charges : state.charges[t].age + 1 < Window}
           /\ \A t \in DOMAIN Aged(state).charges :
                /\ Aged(state).charges[t].gas = state.charges[t].gas
                /\ Aged(state).charges[t].out = state.charges[t].out
                /\ Aged(state).charges[t].age = state.charges[t].age + 1
<1> DEFINE c == Lapse(state.charges)
<1>1. /\ Older(state.pending) \in Records \cup {None}
      /\ Older(state.pending) = None <=> state.pending = None
      /\ state.pending # None => Older(state.pending).tx = state.pending.tx
  <2>1. CASE state.pending = None
    BY <2>1 DEF Older
  <2>2. CASE state.pending # None
    <3>1. PICK r \in Records : r = state.pending
      BY <2>2, StateShape
    <3>2. Earlier(r.age + 1, Drop) \in 0..Drop /\ Earlier(r.since + 1, Overdue) \in 0..Overdue
      BY <3>1, TimesAssumption DEF Records, Earlier
    <3>3. Older(r) = [r EXCEPT !.age = Earlier(r.age + 1, Drop), !.since = Earlier(r.since + 1, Overdue)]
      BY <2>2, <3>1 DEF Older
    <3>4. Older(r) \in Records /\ Older(r).tx = r.tx
      BY <3>2, <3>3 DEF Records
    <3> QED
      BY <2>2, <3>1, <3>4, NoneAssumption
  <2> QED
    BY <2>1, <2>2
<1>2. c = [t \in {u \in DOMAIN state.charges : state.charges[u].age + 1 < Window} |->
             [state.charges[t] EXCEPT !.age = @ + 1]]
  BY DEF Lapse
<1> HIDE DEF c
<1>3. /\ DOMAIN c = {t \in DOMAIN state.charges : state.charges[t].age + 1 < Window} /\ c = [t \in DOMAIN c |-> c[t]]
      /\ \A t \in DOMAIN c : c[t] = [state.charges[t] EXCEPT !.age = @ + 1]
  BY <1>2
<1>4. ASSUME NEW t \in DOMAIN c
      PROVE  /\ c[t] \in Entries /\ c[t].gas = state.charges[t].gas /\ c[t].out = state.charges[t].out
             /\ c[t].age = state.charges[t].age + 1
  <2>1. PICK e \in Entries : e = state.charges[t]
    BY <1>3, StateShape
  <2>2. e.age + 1 < Window /\ c[t] = [e EXCEPT !.age = e.age + 1]
    BY <1>3, <2>1
  <2> QED
    BY <2>1, <2>2, TimesAssumption DEF Entries
<1>5. [pending |-> Older(state.pending), charges |-> c] \in States
  BY <1>1, <1>3, <1>4, StateShape, StateMade
<1> QED
  BY <1>1, <1>3, <1>4, <1>5 DEF Aged, c

-----------------------------------------------------------------------------
(* Types, for any number of callers                                        *)

LEMMA Moved ==
    ASSUME CallerType, NEW s \in Senders, NEW a \in Awaits, NEW r \in Records \cup {None}, Goto(s, a, r)
    PROVE  /\ pc' \in [Senders -> [at : Awaits, p : Records \cup {None}]]
           /\ pc'[s].at = a /\ pc'[s].p = r
           /\ \A q \in Senders \ {s} : pc'[q] = pc[q]
BY DEF CallerType, Goto

LEMMA MovedType ==
    ASSUME CallerType, NEW s \in Senders, NEW a \in Awaits, NEW r \in Records \cup {None}, Goto(s, a, r),
           a \in Busy => r # None, a = "lost" => r.tries < MaxTries /\ r.age < Drop
    PROVE  CallerType'
BY Moved DEF CallerType

LEMMA Recorded ==
    ASSUME CallerType, NEW s \in Senders, pc[s].at \in Busy
    PROVE  pc[s].p \in Records
BY DEF CallerType

LEMMA Wound ==
    ASSUME GuardType, NEW s \in Senders, NEW r \in Records, NEW cur \in Records \cup {None}, NEW absent,
           Wind(s, r, cur, absent)
    PROVE  /\ Goto(s, "save", None)
           /\ \/ mem' = mem /\ dropped' = dropped
              \/ /\ cur # None /\ dropped' = dropped
                 /\ \E q \in Records : q.tx = cur.tx /\ mem' = [mem EXCEPT !.pending = q]
              \/ /\ cur # None /\ absent /\ r.age >= Drop
                 /\ mem' = Forget(mem) /\ dropped' = dropped \cup {cur.tx}
<1>1. CASE cur = None
  BY <1>1 DEF Wind
<1>2. CASE cur # None
  <2>1. PICK q : q = [cur EXCEPT !.timedOut = TRUE]
    OBVIOUS
  <2>2. q \in Records /\ q.tx = cur.tx /\ cur \in Records
    BY <1>2, <2>1 DEF Records
  <2> QED
    BY <1>2, <2>1, <2>2 DEF Wind
<1> QED
  BY <1>1, <1>2

LEMMA Signed ==
    ASSUME GuardType, NEW r \in Records
    PROVE  /\ [Charge(mem, r.tx) EXCEPT !.pending = r] \in States
           /\ [Charge(mem, r.tx) EXCEPT !.pending = r].pending = r
           /\ [Charge(mem, r.tx) EXCEPT !.pending = r].charges = Charge(mem, r.tx).charges
<1>1. r.tx \in Txs /\ mem \in States
  BY DEF Records, GuardType
<1>2. Charge(mem, r.tx) \in States
  BY <1>1, Charged
<1> QED
  BY <1>2, PendingSet

LEMMA Undone ==
    ASSUME GuardType, NEW t
    PROVE  /\ Forget(Uncharge(mem, t)) \in States
           /\ Forget(Uncharge(mem, t)).pending = None
           /\ Forget(Uncharge(mem, t)).charges = Uncharge(mem, t).charges
<1>1. mem \in States
  BY DEF GuardType
<1>2. Uncharge(mem, t) \in States
  BY <1>1, Uncharged
<1> QED
  BY <1>2, Forgotten

LEMMA ReceiptType ==
    ASSUME WorldType, NEW t \in DOMAIN receipts
    PROVE  t \in Txs /\ receipts[t].ok \in BOOLEAN /\ receipts[t].gas \in Nat
BY DEF WorldType

LEMMA AppliedState ==
    ASSUME GuardType, WorldType, NEW r \in Records, r.tx \in DOMAIN receipts
    PROVE  /\ Applied(r) \in States /\ Applied(r).pending = None
           /\ DOMAIN Applied(r).charges = DOMAIN mem.charges
           /\ \A u \in DOMAIN mem.charges :
                IF u = r.tx
                THEN /\ Applied(r).charges[u].gas = receipts[u].gas
                     /\ Applied(r).charges[u].out \in {0, mem.charges[u].out}
                     /\ receipts[u].ok => Applied(r).charges[u].out = mem.charges[u].out
                     /\ Applied(r).charges[u].age = mem.charges[u].age
                ELSE Applied(r).charges[u] = mem.charges[u]
<1>1. mem \in States
  BY DEF GuardType
<1>2. PICK gas \in Nat : gas = receipts[r.tx].gas
  BY ReceiptType
<1>3. PICK release \in BOOLEAN : release = (~receipts[r.tx].ok /\ ~r.timedOut)
  OBVIOUS
<1>4. Applied(r) = Forget(Resettle(mem, r.tx, gas, release))
  BY <1>2, <1>3 DEF Applied
<1>5. /\ Resettle(mem, r.tx, gas, release) \in States
      /\ DOMAIN Resettle(mem, r.tx, gas, release).charges = DOMAIN mem.charges
      /\ \A u \in DOMAIN mem.charges :
           Resettle(mem, r.tx, gas, release).charges[u] =
             IF u = r.tx THEN [gas |-> gas, out |-> IF release THEN 0 ELSE mem.charges[r.tx].out, age |-> mem.charges[r.tx].age]
                         ELSE mem.charges[u]
  BY <1>1, Resettled
<1>6. /\ Applied(r) \in States /\ Applied(r).pending = None
      /\ Applied(r).charges = Resettle(mem, r.tx, gas, release).charges
  BY <1>4, <1>5, Forgotten
<1> HIDE <1>4
<1>7. ASSUME NEW u \in DOMAIN mem.charges
      PROVE  IF u = r.tx
             THEN /\ Applied(r).charges[u].gas = receipts[u].gas
                  /\ Applied(r).charges[u].out \in {0, mem.charges[u].out}
                  /\ receipts[u].ok => Applied(r).charges[u].out = mem.charges[u].out
                  /\ Applied(r).charges[u].age = mem.charges[u].age
             ELSE Applied(r).charges[u] = mem.charges[u]
  <2>1. CASE u = r.tx
    <3>1. Applied(r).charges[u] = [gas |-> gas, out |-> IF release THEN 0 ELSE mem.charges[u].out, age |-> mem.charges[u].age]
      BY <1>5, <1>6, <2>1
    <3>2. receipts[u].ok => ~release
      BY <1>3, <2>1
    <3> QED
      BY <1>2, <2>1, <3>1, <3>2
  <2>2. CASE u # r.tx
    BY <1>5, <1>6, <2>2
  <2> QED
    BY <2>1, <2>2
<1> QED
  BY <1>5, <1>6, <1>7

LEMMA Retried ==
    ASSUME NEW r \in Records, r.tries < MaxTries
    PROVE  /\ [r EXCEPT !.tries = r.tries + 1, !.since = 0] \in Records
           /\ [r EXCEPT !.tries = r.tries + 1, !.since = 0].tx = r.tx
<1>1. r.tries + 1 \in 0..MaxTries /\ 0 \in 0..Overdue
  BY TimesAssumption DEF Records
<1> QED
  BY <1>1 DEF Records

LEMMA GuardTypeNext ==
    ASSUME TypeOK, Next
    PROVE  GuardType'
<1> USE DEF TypeOK, GuardType
<1>1. ASSUME UNCHANGED <<mem, disk>> PROVE GuardType'
  BY <1>1
<1>2. ASSUME NEW s \in Senders, Broadcast(s) PROVE GuardType'
  <2>1. ASSUME \/ Start(s) \/ Abort(s) \/ ReadLatest(s) \/ Refuse(s) \/ Send(s) \/ SendFails(s) \/ AskedKnown(s)
        PROVE  UNCHANGED <<mem, disk>>
    BY <2>1 DEF Start, Abort, ReadLatest, Refuse, Send, SendFails, AskedKnown
  <2>2. ASSUME Sign(s) PROVE GuardType'
    <3>1. PICK r \in Records : r = pc[s].p
      BY <2>2, Recorded DEF Sign, At, Busy, Awaits
    <3>2. mem' = [Charge(mem, r.tx) EXCEPT !.pending = r] /\ disk' = disk
      BY <2>2, <3>1 DEF Sign
    <3> QED
      BY <3>2, Signed
  <2>3. ASSUME CommitFails(s) \/ AskedUnknown(s) PROVE GuardType'
    <3>1. mem' = Forget(Uncharge(mem, pc[s].p.tx)) /\ disk' = disk
      BY <2>3 DEF CommitFails, AskedUnknown, Undo
    <3> QED
      BY <3>1, Undone
  <2>4. ASSUME Commit(s) \/ Save(s) PROVE GuardType'
    BY <2>4 DEF Commit, Save
  <2> QED
    BY <1>1, <1>2, <2>1, <2>2, <2>3, <2>4 DEF Broadcast
<1>3. ASSUME NEW s \in Senders, Resolve(s) PROVE GuardType'
  <2>1. ASSUME Tick(s) \/ NoncePast(s) \/ NonceNotPast(s) PROVE UNCHANGED <<mem, disk>>
    BY <2>1 DEF Tick, NoncePast, NonceNotPast
  <2>2. ASSUME ReceiptFound(s) \/ RereadFound(s) PROVE GuardType'
    <3>1. PICK r \in Records : r = pc[s].p
      BY <2>2, Recorded DEF ReceiptFound, RereadFound, At, Busy, Awaits
    <3>2. mem' = Applied(r) /\ r.tx \in DOMAIN receipts /\ disk' = disk
      BY <2>2, <3>1 DEF ReceiptFound, RereadFound
    <3> QED
      BY <3>2, AppliedState
  <2>3. ASSUME Replaced(s) PROVE GuardType'
    BY <2>3, Forgotten DEF Replaced
  <2>4. ASSUME NEW r \in Records, NEW cur \in Records \cup {None}, NEW absent, Wind(s, r, cur, absent), disk' = disk
        PROVE  GuardType'
    BY <2>4, Wound, PendingSet, Forgotten
  <2>5. ASSUME ReceiptMissing(s) \/ KnownOrError(s) \/ KnownAbsent(s) PROVE GuardType'
    <3>1. PICK r \in Records : r = pc[s].p
      BY <2>5, Recorded DEF ReceiptMissing, KnownOrError, KnownAbsent, At, Busy, Awaits
    <3>2. mem.pending \in Records \cup {None}
      BY StateShape
    <3>3. disk' = disk /\ (mem' = mem \/ \E absent \in BOOLEAN : Wind(s, r, mem.pending, absent))
      BY <2>5, <3>1 DEF ReceiptMissing, KnownOrError, KnownAbsent
    <3> QED
      BY <2>4, <3>2, <3>3
  <2>6. ASSUME Rebroadcast(s) PROVE GuardType'
    <3>1. PICK r \in Records : r = pc[s].p
      BY <2>6, Recorded DEF Rebroadcast, At, Busy, Awaits
    <3>2. [r EXCEPT !.tries = r.tries + 1, !.since = 0] \in Records
      <4>1. r.tries < MaxTries
        BY <2>6, <3>1 DEF Rebroadcast, At, CallerType
      <4> QED
        BY <4>1, Retried
    <3>3. Wind(s, r, [r EXCEPT !.tries = r.tries + 1, !.since = 0], TRUE) /\ disk' = disk
      BY <2>6, <3>1 DEF Rebroadcast
    <3> QED
      BY <2>4, <3>2, <3>3
  <2> QED
    BY <1>1, <1>3, <2>1, <2>2, <2>3, <2>5, <2>6 DEF Resolve
<1>4. ASSUME Chain PROVE GuardType'
  BY <1>1, <1>4 DEF Chain, Mine, MineForeign, Evict, Regossip, Vanish
<1>5. ASSUME Restart \/ Pass PROVE GuardType'
  BY <1>5, AgedState DEF Restart, Pass
<1> QED
  BY <1>2, <1>3, <1>4, <1>5 DEF Next

LEMMA CallerTypeNext ==
    ASSUME TypeOK, Next
    PROVE  CallerType'
<1> USE DEF TypeOK
<1>1. ASSUME pc' = pc PROVE CallerType'
  BY <1>1 DEF CallerType
<1>2. ASSUME NEW s \in Senders, Goto(s, "save", None) \/ pc' = [pc EXCEPT ![s] = Idle] PROVE CallerType'
  BY <1>2, MovedType DEF Goto, Idle, Awaits, Busy
<1>3. ASSUME NEW s \in Senders, NEW r \in Records, NEW a \in Busy \ {"lost"}, Goto(s, a, r) PROVE CallerType'
  <2>1. r # None /\ a \in Awaits /\ a # "lost"
    BY NoneAssumption DEF Busy
  <2> QED
    BY <1>3, <2>1, MovedType
<1>4. ASSUME NEW s \in Senders, Broadcast(s) PROVE CallerType'
  <2>1. ASSUME Start(s) PROVE CallerType'
    <3>1. PICK k \in Keys : Goto(s, "latest", [tx |-> [nonce |-> 0, key |-> k, copy |-> sends + 1], age |-> 0,
                                               since |-> 0, tries |-> 0, timedOut |-> FALSE])
      BY <2>1, CapsAssumption DEF Start
    <3>2. [tx |-> [nonce |-> 0, key |-> k, copy |-> sends + 1], age |-> 0,
           since |-> 0, tries |-> 0, timedOut |-> FALSE] \in Records
      BY <2>1, TimesAssumption DEF Start, Records, Txs, WorldType
    <3> QED
      BY <1>3, <3>1, <3>2 DEF Busy, Awaits
  <2>2. ASSUME ReadLatest(s) PROVE CallerType'
    <3>1. PICK r \in Records : r = pc[s].p
      BY <2>2, Recorded DEF ReadLatest, At, Busy, Awaits
    <3>2. [r EXCEPT !.tx.nonce = nonce] \in Records
      BY DEF Records, Txs, WorldType
    <3>3. Goto(s, "tag", [r EXCEPT !.tx.nonce = nonce])
      BY <2>2, <3>1 DEF ReadLatest
    <3> QED
      BY <1>3, <3>2, <3>3 DEF Busy, Awaits
  <2>3. ASSUME Sign(s) \/ Commit(s) \/ Send(s) \/ SendFails(s) PROVE CallerType'
    <3>1. PICK r \in Records : r = pc[s].p
      BY <2>3, Recorded DEF Sign, Commit, Send, SendFails, At, Busy, Awaits
    <3>2. Goto(s, "commit", r) \/ Goto(s, "send", r) \/ Goto(s, "asked", r) \/ Goto(s, "save", None)
      BY <2>3, <3>1 DEF Sign, Commit, Send, SendFails
    <3> QED
      BY <1>2, <1>3, <3>2 DEF Busy, Awaits
  <2>4. ASSUME \/ Abort(s) \/ Refuse(s) \/ CommitFails(s) \/ AskedKnown(s) \/ AskedUnknown(s) \/ Save(s)
        PROVE  CallerType'
    BY <1>2, <2>4 DEF Abort, Refuse, CommitFails, AskedKnown, AskedUnknown, Save
  <2> QED
    BY <1>4, <2>1, <2>2, <2>3, <2>4 DEF Broadcast
<1>5. ASSUME NEW s \in Senders, Resolve(s) PROVE CallerType'
  <2>1. ASSUME Tick(s) PROVE CallerType'
    <3>1. mem.pending \in Records
      BY <2>1, StateShape DEF Tick, GuardType
    <3> QED
      BY <1>3, <2>1, <3>1 DEF Tick, Busy, Awaits
  <2>2. ASSUME ReceiptFound(s) \/ RereadFound(s) \/ Replaced(s) PROVE CallerType'
    BY <1>2, <2>2 DEF ReceiptFound, RereadFound, Replaced
  <2>3. ASSUME NoncePast(s) \/ NonceNotPast(s) PROVE CallerType'
    <3>1. PICK r \in Records : r = pc[s].p
      BY <2>3, Recorded DEF NoncePast, NonceNotPast, At, Busy, Awaits
    <3>2. Goto(s, "reread", r) \/ Goto(s, "known", r)
      BY <2>3, <3>1 DEF NoncePast, NonceNotPast
    <3> QED
      BY <1>3, <3>2 DEF Busy, Awaits
  <2>4. ASSUME ReceiptMissing(s) \/ KnownOrError(s) \/ Rebroadcast(s) PROVE CallerType'
    <3>1. PICK r \in Records : r = pc[s].p
      BY <2>4, Recorded DEF ReceiptMissing, KnownOrError, Rebroadcast, At, Busy, Awaits
    <3>2. Goto(s, "nonce", r) \/ Goto(s, "save", None)
      BY <2>4, <3>1 DEF ReceiptMissing, KnownOrError, Rebroadcast, Wind
    <3> QED
      BY <1>2, <1>3, <3>2 DEF Busy, Awaits
  <2>5. ASSUME KnownAbsent(s) PROVE CallerType'
    <3>1. PICK r \in Records : r = pc[s].p
      BY <2>5, Recorded DEF KnownAbsent, At, Busy, Awaits
    <3>2. CASE Rebroadcasts(r)
      <4>1. Goto(s, "lost", r) /\ r # None /\ r.tries < MaxTries /\ r.age < Drop
        BY <2>5, <3>1, <3>2, NoneAssumption DEF KnownAbsent, Rebroadcasts
      <4> QED
        BY <4>1, MovedType DEF Awaits
    <3>3. CASE ~Rebroadcasts(r)
      BY <1>2, <2>5, <3>1, <3>3 DEF KnownAbsent, Wind
    <3> QED
      BY <3>2, <3>3
  <2> QED
    BY <1>5, <2>1, <2>2, <2>3, <2>4, <2>5 DEF Resolve
<1>6. ASSUME Restart PROVE CallerType'
  BY <1>6 DEF Restart, CallerType, Idle, Awaits, Busy
<1>7. ASSUME Chain \/ Pass PROVE CallerType'
  BY <1>1, <1>7 DEF Chain, Mine, MineForeign, Evict, Regossip, Vanish, Pass
<1> QED
  BY <1>4, <1>5, <1>6, <1>7 DEF Next

LEMMA WorldTypeNext ==
    ASSUME TypeOK, Next
    PROVE  WorldType'
<1> USE DEF TypeOK
<1>1. ASSUME UNCHANGED <<chain, ghosts, counters>> PROVE WorldType'
  BY <1>1 DEF WorldType, chain, ghosts, counters
<1>2. ASSUME NEW t \in Txs, NEW d \in SUBSET Txs,
             \/ node' = node \cup {t} /\ network' = network \cup {t}
             \/ node' = node /\ network' = network,
             UNCHANGED <<nonce, receipts, sent, undone, counters>>, dropped' = d
      PROVE  WorldType'
  BY <1>2 DEF WorldType, counters
<1>3. ASSUME NEW s \in Senders, Broadcast(s) PROVE WorldType'
  <2>1. ASSUME Start(s) PROVE WorldType'
    BY <2>1, TimesAssumption DEF Start, WorldType, chain, ghosts
  <2>2. ASSUME Sign(s) PROVE WorldType'
    <3>1. PICK r \in Records : r = pc[s].p
      BY <2>2, Recorded DEF Sign, At, Busy, Awaits
    <3>2. r.tx \in Txs /\ sent' = With(sent, r.tx, 0) /\ UNCHANGED <<nonce, node, network, receipts, dropped, undone, counters>>
      BY <2>2, <3>1 DEF Sign, Records, chain
    <3>3. sent' \in [DOMAIN sent \cup {r.tx} -> 0..(Window - 1)] /\ DOMAIN sent \cup {r.tx} \in SUBSET Txs
      BY <3>2, TimesAssumption DEF With, WorldType
    <3> QED
      BY <3>2, <3>3 DEF WorldType, counters
  <2>3. ASSUME Send(s) PROVE WorldType'
    <3>1. PICK t \in Txs : t = pc[s].p.tx
      BY <2>3, Recorded DEF Send, At, Busy, Awaits, Records
    <3>2. node' = node \cup {t} /\ network' = network \cup {t} /\ UNCHANGED <<nonce, receipts, sent, dropped, undone, counters>>
      BY <2>3, <3>1 DEF Send, Reaches, ghosts
    <3> QED
      BY <1>2, <3>2 DEF WorldType
  <2>4. ASSUME \/ Abort(s) \/ ReadLatest(s) \/ Refuse(s) \/ Commit(s) \/ CommitFails(s) \/ SendFails(s)
               \/ AskedKnown(s) \/ Save(s)
        PROVE  WorldType'
    BY <1>1, <2>4 DEF Abort, ReadLatest, Refuse, Commit, CommitFails, SendFails, AskedKnown, Save
  <2>5. ASSUME AskedUnknown(s) PROVE WorldType'
    BY <2>5 DEF AskedUnknown, WorldType, chain, counters
  <2> QED
    BY <1>3, <2>1, <2>2, <2>3, <2>4, <2>5 DEF Broadcast
<1>4. ASSUME NEW s \in Senders, Resolve(s) PROVE WorldType'
  <2>1. ASSUME Tick(s) \/ ReceiptFound(s) \/ NoncePast(s) \/ NonceNotPast(s) \/ RereadFound(s) PROVE WorldType'
    BY <1>1, <2>1 DEF Tick, ReceiptFound, NoncePast, NonceNotPast, RereadFound
  <2>2. ASSUME NEW r \in Records, NEW cur \in Records \cup {None}, NEW absent, Wind(s, r, cur, absent)
        PROVE  dropped' \in SUBSET Txs
    <3>1. dropped' = dropped \/ (cur \in Records /\ dropped' = dropped \cup {cur.tx})
      BY <2>2, Wound
    <3> QED
      BY <3>1 DEF WorldType, Records
  <2>3. ASSUME Replaced(s) \/ ReceiptMissing(s) \/ KnownOrError(s) \/ KnownAbsent(s) PROVE WorldType'
    <3>1. PICK r \in Records : r = pc[s].p
      BY <2>3, Recorded DEF Replaced, ReceiptMissing, KnownOrError, KnownAbsent, At, Busy, Awaits
    <3>2. mem.pending \in Records \cup {None}
      BY StateShape DEF GuardType
    <3>3. dropped' = dropped \/ dropped' = dropped \cup {r.tx} \/ \E absent \in BOOLEAN : Wind(s, r, mem.pending, absent)
      BY <2>3, <3>1 DEF Replaced, ReceiptMissing, KnownOrError, KnownAbsent
    <3>4. dropped' \in SUBSET Txs /\ r.tx \in Txs
      BY <2>2, <3>2, <3>3 DEF WorldType, Records
    <3>5. UNCHANGED <<nonce, node, network, receipts, sent, undone, counters>>
      BY <2>3 DEF Replaced, ReceiptMissing, KnownOrError, KnownAbsent, chain
    <3> QED
      BY <1>2, <3>4, <3>5
  <2>4. ASSUME Rebroadcast(s) PROVE WorldType'
    <3>1. PICK r \in Records : r = pc[s].p
      BY <2>4, Recorded DEF Rebroadcast, At, Busy, Awaits
    <3>2. r.tries < MaxTries
      BY <2>4, <3>1 DEF Rebroadcast, At, CallerType
    <3>3. [r EXCEPT !.tries = r.tries + 1, !.since = 0] \in Records
      BY <3>2, Retried
    <3>4. /\ Wind(s, r, [r EXCEPT !.tries = r.tries + 1, !.since = 0], TRUE)
          /\ UNCHANGED <<nonce, receipts, sent, undone, counters>>
          /\ \/ node' = node \cup {r.tx} /\ network' = network \cup {r.tx}
             \/ node' = node /\ network' = network
      BY <2>4, <3>1 DEF Rebroadcast, Reaches
    <3>5. dropped' \in SUBSET Txs /\ r.tx \in Txs
      BY <2>2, <3>3, <3>4 DEF Records
    <3> QED
      BY <1>2, <3>4, <3>5
  <2> QED
    BY <1>4, <2>1, <2>3, <2>4 DEF Resolve
<1>5. ASSUME Mine PROVE WorldType'
  <2>1. PICK t \in network : \E ok \in BOOLEAN, gas \in 1..GasLimit[t.key] :
          /\ receipts' = With(receipts, t, [ok |-> ok, gas |-> gas]) /\ Settled(nonce)
          /\ UNCHANGED <<ghosts, counters>>
    BY <1>5 DEF Mine
  <2>2. t \in Txs /\ GasLimit[t.key] \in Nat
    BY CapsAssumption DEF WorldType, Txs
  <2>3. /\ receipts' \in [DOMAIN receipts \cup {t} -> [ok : BOOLEAN, gas : Nat]]
        /\ DOMAIN receipts \cup {t} \in SUBSET Txs
    BY <2>1, <2>2 DEF With, WorldType
  <2> QED
    BY <2>1, <2>3 DEF WorldType, Settled, ghosts, counters
<1>6. ASSUME Chain, ~Mine PROVE WorldType'
  BY <1>6 DEF WorldType, Chain, MineForeign, Evict, Regossip, Vanish, Settled, ghosts, counters
<1>7. ASSUME Restart PROVE WorldType'
  BY <1>7 DEF WorldType, Restart, chain, ghosts
<1>8. ASSUME Pass PROVE WorldType'
  <2>1. PICK live \in SUBSET Txs : live = {u \in DOMAIN sent : sent[u] + 1 < Window}
    BY DEF WorldType
  <2>2. sent' = [t \in live |-> sent[t] + 1]
    BY <1>8, <2>1 DEF Pass
  <2>3. \A t \in live : sent[t] + 1 \in 0..(Window - 1)
    BY <2>1, TimesAssumption DEF WorldType
  <2>4. sent' \in [live -> 0..(Window - 1)]
    BY <2>2, <2>3
  <2> QED
    BY <1>8, <2>4 DEF Pass, WorldType, chain, counters
<1> QED
  BY <1>3, <1>4, <1>5, <1>6, <1>7, <1>8 DEF Next

(* The records and the ledgers are what the guard and the budgets keep,    *)
(* and the stages those of broadcast and resolvePending, for any callers.  *)
THEOREM TypeCorrect == Spec => []TypeOK
<1>1. Init => TypeOK
  <2> SUFFICES ASSUME Init PROVE TypeOK
    OBVIOUS
  <2>1. PICK c : c = <<>>
    OBVIOUS
  <2>2. DOMAIN c = {} /\ c = [t \in DOMAIN c |-> c[t]]
    BY <2>1
  <2>3. [pending |-> None, charges |-> c] \in States
    BY <2>2, StateMade
  <2>4. GuardType
    BY <2>1, <2>3 DEF Init, GuardType
  <2>5. CallerType
    BY DEF Init, CallerType, Idle, Awaits, Busy
  <2>6. c \in [{} -> [ok : BOOLEAN, gas : Nat]] /\ c \in [{} -> 0..(Window - 1)]
    BY <2>2
  <2>7. WorldType
    <3>1. receipts = c /\ sent = c /\ {} \in SUBSET Txs
      BY <2>1 DEF Init
    <3>2. /\ receipts \in UNION {[T -> [ok : BOOLEAN, gas : Nat]] : T \in SUBSET Txs}
          /\ sent \in UNION {[T -> 0..(Window - 1)] : T \in SUBSET Txs}
      BY <2>6, <3>1
    <3>3. /\ nonce \in Nat /\ network \subseteq Txs /\ node \subseteq network /\ dropped \subseteq Txs
          /\ undone \subseteq Txs /\ sends \in 0..MaxSends /\ foreign \in Nat /\ crashes \in Nat
      BY TimesAssumption DEF Init
    <3> QED
      BY <3>2, <3>3 DEF WorldType
  <2> QED
    BY <2>4, <2>5, <2>7 DEF TypeOK
<1>2. TypeOK /\ [Next]_vars => TypeOK'
  <2>1. ASSUME TypeOK, Next PROVE TypeOK'
    BY <2>1, GuardTypeNext, CallerTypeNext, WorldTypeNext DEF TypeOK
  <2>2. ASSUME TypeOK, UNCHANGED vars PROVE TypeOK'
    BY <2>2 DEF TypeOK, GuardType, CallerType, WorldType, vars, chain, ghosts, counters
  <2> QED
    BY <2>1, <2>2
<1> QED
  BY <1>1, <1>2, PTL DEF Spec

-----------------------------------------------------------------------------
(* Ledgers                                                                 *)

(* What is charged is a sum of naturals over finitely many transactions.   *)
LEMMA Terms ==
    ASSUME NEW state \in States
    PROVE  /\ [t \in DOMAIN state.charges |-> state.charges[t].gas] \in [DOMAIN state.charges -> Nat]
           /\ [t \in DOMAIN state.charges |-> state.charges[t].out] \in [DOMAIN state.charges -> Nat]
<1>1. \A t \in DOMAIN state.charges : state.charges[t].gas \in Nat /\ state.charges[t].out \in Nat
  BY StateShape DEF Entries
<1> QED
  BY <1>1

LEMMA UsedType ==
    ASSUME NEW state \in States, IsFiniteSet(DOMAIN state.charges)
    PROVE  GasUsed(state) \in Int /\ OutUsed(state) \in Int
<1> DEFINE f == [t \in DOMAIN state.charges |-> state.charges[t].gas]
           h == [t \in DOMAIN state.charges |-> state.charges[t].out]
<1>1. f \in [DOMAIN state.charges -> Int] /\ h \in [DOMAIN state.charges -> Int]
  BY Terms
<1> HIDE DEF f, h
<1>2. SumFunction(f) \in Int /\ SumFunction(h) \in Int
  BY <1>1, TotalType
<1> QED
  BY <1>2 DEF GasUsed, OutUsed, f, h

(* Dropping entries and lowering them never raises what is used.           *)
LEMMA UsedLess ==
    ASSUME NEW state \in States, NEW other \in States, IsFiniteSet(DOMAIN state.charges),
           DOMAIN other.charges \subseteq DOMAIN state.charges,
           \A t \in DOMAIN other.charges : /\ other.charges[t].gas <= state.charges[t].gas
                                           /\ other.charges[t].out <= state.charges[t].out
    PROVE  GasUsed(other) <= GasUsed(state) /\ OutUsed(other) <= OutUsed(state)
<1> DEFINE S == DOMAIN state.charges
           R == DOMAIN other.charges
           f == [t \in S |-> state.charges[t].gas]
           g == [t \in R |-> other.charges[t].gas]
           h == [t \in S |-> state.charges[t].out]
           k == [t \in R |-> other.charges[t].out]
<1>1. /\ f \in [S -> Nat] /\ g \in [R -> Nat] /\ \A t \in R : g[t] <= f[t]
      /\ h \in [S -> Nat] /\ k \in [R -> Nat] /\ \A t \in R : k[t] <= h[t]
      /\ IsFiniteSet(S) /\ R \in SUBSET S
  BY Terms
<1> HIDE DEF f, g, h, k, R, S
<1>2. SumFunction(g) <= SumFunction(f) /\ SumFunction(k) <= SumFunction(h)
  BY <1>1, TotalLess
<1> QED
  BY <1>2 DEF GasUsed, OutUsed, f, g, h, k, R, S

LEMMA UsedSame ==
    ASSUME NEW state, NEW other, other.charges = state.charges
    PROVE  GasUsed(other) = GasUsed(state) /\ OutUsed(other) = OutUsed(state)
BY DEF GasUsed, OutUsed

LEMMA UsedMore ==
    ASSUME NEW state \in States, NEW other \in States, IsFiniteSet(DOMAIN state.charges),
           NEW t \in Txs, t \notin DOMAIN state.charges, other.charges = Charge(state, t).charges
    PROVE  /\ GasUsed(other) = GasUsed(state) + GasLimit[t.key]
           /\ OutUsed(other) = OutUsed(state) + Outflow[t.key]
<1> DEFINE S == DOMAIN state.charges
           T == DOMAIN other.charges
           f == [u \in S |-> state.charges[u].gas]
           g == [u \in T |-> other.charges[u].gas]
           h == [u \in S |-> state.charges[u].out]
           k == [u \in T |-> other.charges[u].out]
<1>1. /\ T = S \cup {t} /\ \A u \in S : other.charges[u] = state.charges[u]
      /\ other.charges[t] = [gas |-> GasLimit[t.key], out |-> Outflow[t.key], age |-> 0]
  BY Charged
<1>2. /\ f \in [S -> Int] /\ g \in [T -> Int] /\ h \in [S -> Int] /\ k \in [T -> Int]
      /\ \A u \in S : g[u] = f[u] /\ k[u] = h[u]
      /\ g[t] = GasLimit[t.key] /\ k[t] = Outflow[t.key]
      /\ IsFiniteSet(S) /\ t \notin S
  BY <1>1, Terms
<1> HIDE DEF f, g, h, k, S, T
<1>3. SumFunction(g) = SumFunction(f) + g[t] /\ SumFunction(k) = SumFunction(h) + k[t]
  BY <1>1, <1>2, TotalExtend
<1> QED
  BY <1>2, <1>3 DEF GasUsed, OutUsed, f, g, h, k, S, T

(* The ledger of a state that keeps some of the charges, and whose pending *)
(* transaction, if any, is the same.                                       *)
LEMMA LedgerLess ==
    ASSUME NEW state \in States, NEW other \in States, NEW table, IsFiniteSet(DOMAIN table),
           Dated(state, table), Capped(state, 0, 0),
           DOMAIN other.charges \subseteq DOMAIN state.charges,
           \A t \in DOMAIN other.charges : /\ other.charges[t].gas <= state.charges[t].gas
                                           /\ other.charges[t].out <= state.charges[t].out
    PROVE  Capped(other, 0, 0)
<1>1. DOMAIN state.charges \subseteq DOMAIN table
  BY DEF Dated
<1>2. IsFiniteSet(DOMAIN state.charges) /\ IsFiniteSet(DOMAIN other.charges)
  BY <1>1, FS_Subset
<1>3. GasUsed(other) <= GasUsed(state) /\ OutUsed(other) <= OutUsed(state)
  BY <1>2, UsedLess
<1>4. /\ GasUsed(other) \in Int /\ GasUsed(state) \in Int /\ OutUsed(other) \in Int /\ OutUsed(state) \in Int
  BY <1>2, UsedType
<1> QED
  BY <1>3, <1>4, CapsAssumption DEF Capped

(* An unmined, unseen transaction is charged and becomes the pending one.  *)
LEMMA LedgerCharged ==
    ASSUME NEW state \in States, NEW other \in States, NEW table, NEW gone, NEW net, NEW rec, NEW t \in Txs,
           IsFiniteSet(DOMAIN table), t \notin DOMAIN table, ~Live(t, net, rec),
           Dated(state, table), Covers(state, table, gone, net, rec), Capped(state, GasLimit[t.key], Outflow[t.key]),
           other.charges = Charge(state, t).charges, other.pending.tx = t
    PROVE  /\ Dated(other, With(table, t, 0)) /\ Reserved(other, With(table, t, 0))
           /\ Covers(other, With(table, t, 0), gone, net, rec) /\ Capped(other, 0, 0)
<1>1. /\ DOMAIN other.charges = DOMAIN state.charges \cup {t}
      /\ other.charges[t] = [gas |-> GasLimit[t.key], out |-> Outflow[t.key], age |-> 0]
      /\ \A u \in DOMAIN state.charges \ {t} : other.charges[u] = state.charges[u]
  BY Charged
<1>2. DOMAIN state.charges \subseteq DOMAIN table /\ t \notin DOMAIN state.charges
  BY DEF Dated
<1>3. PICK table2 : table2 = With(table, t, 0)
  OBVIOUS
<1>4. DOMAIN table2 = DOMAIN table \cup {t} /\ table2[t] = 0 /\ \A u \in DOMAIN table : table2[u] = table[u]
  BY <1>3 DEF With
<1>5. Dated(other, table2)
  BY <1>1, <1>2, <1>4 DEF Dated
<1>6. Reserved(other, table2)
  BY <1>1 DEF Reserved, Full
<1>7. Covers(other, table2, gone, net, rec)
  BY <1>1, <1>2, <1>4 DEF Covers
<1>8. IsFiniteSet(DOMAIN state.charges)
  BY <1>2, FS_Subset
<1>9. GasUsed(other) = GasUsed(state) + GasLimit[t.key] /\ OutUsed(other) = OutUsed(state) + Outflow[t.key]
  BY <1>2, <1>8, UsedMore
<1>10. GasUsed(state) \in Int /\ OutUsed(state) \in Int /\ GasLimit[t.key] \in Int /\ Outflow[t.key] \in Int
  BY <1>8, UsedType, CapsAssumption DEF Txs
<1>11. Capped(other, 0, 0)
  BY <1>9, <1>10 DEF Capped
<1> QED
  BY <1>3, <1>5, <1>6, <1>7, <1>11

(* The charge of a transaction is taken back; one that somebody has is then*)
(* among those left out.                                                   *)
LEMMA LedgerUndone ==
    ASSUME NEW state \in States, NEW other \in States, NEW table, NEW gone, NEW more, NEW net, NEW rec, NEW t,
           IsFiniteSet(DOMAIN table), gone \subseteq more, Live(t, net, rec) => t \in more,
           Dated(state, table), Covers(state, table, gone, net, rec), Capped(state, 0, 0),
           other.charges = Uncharge(state, t).charges, other.pending = None
    PROVE  /\ Dated(other, table) /\ Reserved(other, table) /\ Covers(other, table, more, net, rec) /\ Capped(other, 0, 0)
<1>1. /\ DOMAIN other.charges = DOMAIN state.charges \ {t}
      /\ \A u \in DOMAIN state.charges \ {t} : other.charges[u] = state.charges[u]
  BY Uncharged
<1>2. Dated(other, table) /\ Reserved(other, table) /\ Covers(other, table, more, net, rec)
  BY <1>1 DEF Dated, Reserved, Covers
<1>3. \A u \in DOMAIN other.charges : /\ other.charges[u].gas <= state.charges[u].gas
                                      /\ other.charges[u].out <= state.charges[u].out
  <2>1. \A u \in DOMAIN state.charges : state.charges[u].gas \in Nat /\ state.charges[u].out \in Nat
    BY StateShape DEF Entries
  <2> QED
    BY <1>1, <2>1
<1>4. Capped(other, 0, 0)
  BY <1>1, <1>3, LedgerLess
<1> QED
  BY <1>2, <1>4

(* A transaction known to be mined is charged at what it cost.             *)
LEMMA LedgerApplied ==
    ASSUME NEW state \in States, NEW other \in States, NEW table, NEW gone, NEW net, NEW rec, NEW t \in DOMAIN rec,
           IsFiniteSet(DOMAIN table), t \notin net, rec[t].gas \in Nat, rec[t].gas <= GasLimit[t.key], t \in Txs,
           Dated(state, table), Covers(state, table, gone, net, rec), Capped(state, 0, 0),
           t \in DOMAIN table => Full(state, t),
           other.pending = None, DOMAIN other.charges = DOMAIN state.charges,
           \A u \in DOMAIN state.charges :
             IF u = t
             THEN /\ other.charges[u].gas = rec[u].gas
                  /\ other.charges[u].out \in {0, state.charges[u].out}
                  /\ rec[u].ok => other.charges[u].out = state.charges[u].out
                  /\ other.charges[u].age = state.charges[u].age
             ELSE other.charges[u] = state.charges[u]
    PROVE  /\ Dated(other, table) /\ Reserved(other, table) /\ Covers(other, table, gone, net, rec) /\ Capped(other, 0, 0)
<1>1. \A u \in DOMAIN state.charges : /\ state.charges[u].gas \in Nat /\ state.charges[u].out \in Nat
                                      /\ other.charges[u].out \in Nat
  BY StateShape DEF Entries
<1>2. Dated(other, table) /\ Reserved(other, table)
  BY DEF Dated, Reserved
<1>3. Covers(other, table, gone, net, rec)
  <2> SUFFICES ASSUME NEW u \in DOMAIN table \ gone, Live(u, net, rec)
               PROVE  /\ u \in DOMAIN other.charges
                      /\ Gas(u, net, rec) <= other.charges[u].gas /\ Out(u, net, rec) <= other.charges[u].out
    BY DEF Covers
  <2>1. /\ u \in DOMAIN state.charges
        /\ Gas(u, net, rec) <= state.charges[u].gas /\ Out(u, net, rec) <= state.charges[u].out
    BY DEF Covers
  <2>2. CASE u = t
    <3>1. Gas(t, net, rec) = rec[t].gas /\ Out(t, net, rec) = IF rec[t].ok THEN Outflow[t.key] ELSE 0
      BY DEF Gas, Out
    <3> QED
      BY <1>1, <2>1, <2>2, <3>1
  <2>3. CASE u # t
    BY <2>1, <2>3
  <2> QED
    BY <2>2, <2>3
<1>4. \A u \in DOMAIN other.charges : /\ other.charges[u].gas <= state.charges[u].gas
                                      /\ other.charges[u].out <= state.charges[u].out
  <2> SUFFICES ASSUME NEW u \in DOMAIN state.charges
               PROVE  /\ other.charges[u].gas <= state.charges[u].gas
                      /\ other.charges[u].out <= state.charges[u].out
    OBVIOUS
  <2>1. CASE u = t
    <3>1. t \in DOMAIN table /\ state.charges[t].gas = GasLimit[t.key]
      BY <2>1 DEF Dated, Full
    <3> QED
      BY <1>1, <2>1, <3>1
  <2>2. CASE u # t
    BY <1>1, <2>2
  <2> QED
    BY <2>1, <2>2
<1>5. Capped(other, 0, 0)
  BY <1>4, LedgerLess
<1> QED
  BY <1>2, <1>3, <1>5

(* Time passes, and what lapses in the budget lapses in the hour.          *)
LEMMA LedgerAged ==
    ASSUME NEW state \in States, NEW table, NEW gone, NEW net, NEW rec, NEW later,
           IsFiniteSet(DOMAIN table), Dated(state, table), Reserved(state, table),
           Covers(state, table, gone, net, rec), Capped(state, 0, 0),
           \A u \in DOMAIN table : table[u] \in Nat,
           DOMAIN later = {u \in DOMAIN table : table[u] + 1 < Window},
           \A u \in DOMAIN later : later[u] = table[u] + 1
    PROVE  /\ Dated(Aged(state), later) /\ Reserved(Aged(state), later)
           /\ Covers(Aged(state), later, gone, net, rec) /\ Capped(Aged(state), 0, 0)
<1>1. PICK other : other = Aged(state)
  OBVIOUS
<1>2. /\ other \in States /\ (other.pending = None <=> state.pending = None)
      /\ state.pending # None => other.pending.tx = state.pending.tx
      /\ DOMAIN other.charges = {t \in DOMAIN state.charges : state.charges[t].age + 1 < Window}
      /\ \A t \in DOMAIN other.charges :
           /\ other.charges[t].gas = state.charges[t].gas
           /\ other.charges[t].out = state.charges[t].out
           /\ other.charges[t].age = state.charges[t].age + 1
  BY <1>1, AgedState
<1>3. \A t \in DOMAIN later : t \in DOMAIN state.charges => t \in DOMAIN other.charges
  BY <1>2 DEF Dated
<1>4. Dated(other, later)
  BY <1>2 DEF Dated
<1>5. Reserved(other, later)
  BY <1>2, <1>3 DEF Reserved, Full
<1>6. Covers(other, later, gone, net, rec)
  BY <1>2, <1>3 DEF Covers
<1>7. \A t \in DOMAIN other.charges : /\ other.charges[t].gas <= state.charges[t].gas
                                      /\ other.charges[t].out <= state.charges[t].out
  <2>1. \A t \in DOMAIN state.charges : state.charges[t].gas \in Nat /\ state.charges[t].out \in Nat
    BY StateShape DEF Entries
  <2> QED
    BY <1>2, <2>1
<1>8. Capped(other, 0, 0)
  BY <1>2, <1>7, LedgerLess
<1> QED
  BY <1>1, <1>4, <1>5, <1>6, <1>8

(* What the ledger covers is within the caps.                              *)
LEMMA CoveredIsCapped ==
    ASSUME TypeOK, Ledgers
    PROVE  WithinBudget
<1> DEFINE S == DOMAIN sent \ undone
           A == DOMAIN mem.charges
           R == A \ undone
           e == [t \in A |-> mem.charges[t].gas]
           f == [t \in R |-> mem.charges[t].gas]
           g == [t \in S |-> GasOf(t)]
           d == [t \in A |-> mem.charges[t].out]
           h == [t \in R |-> mem.charges[t].out]
           k == [t \in S |-> OutOf(t)]
<1>1. mem \in States /\ A \subseteq DOMAIN sent /\ IsFiniteSet(DOMAIN sent)
  BY DEF TypeOK, GuardType, Ledgers, Ledger, Dated
<1>1a. R \in SUBSET S /\ R \in SUBSET A /\ IsFiniteSet(S) /\ IsFiniteSet(A) /\ IsFiniteSet(R)
  <2>1. R \subseteq A /\ S \subseteq DOMAIN sent
    OBVIOUS
  <2> QED
    BY <1>1, <2>1, FS_Subset
<1>2. \A t \in S : GasOf(t) = Gas(t, network, receipts) /\ OutOf(t) = Out(t, network, receipts)
  BY DEF GasOf, OutOf, Gas, Out
<1>3. ASSUME NEW t \in S PROVE GasOf(t) \in Nat /\ OutOf(t) \in Nat
  <2>1. t \in Txs
    BY DEF TypeOK, WorldType
  <2>2. GasLimit[t.key] \in Nat /\ Outflow[t.key] \in Nat
    BY <2>1, CapsAssumption DEF Txs
  <2>3. t \in DOMAIN receipts => receipts[t].gas \in Nat
    BY ReceiptType DEF TypeOK
  <2> QED
    BY <2>2, <2>3 DEF GasOf, OutOf
<1>4. ASSUME NEW t \in S
      PROVE  IF t \in R THEN GasOf(t) <= mem.charges[t].gas /\ OutOf(t) <= mem.charges[t].out
                        ELSE GasOf(t) = 0 /\ OutOf(t) = 0
  <2>1. CASE Live(t, network, receipts)
    BY <1>2, <2>1 DEF Ledgers, Ledger, Covers
  <2>2. CASE ~Live(t, network, receipts)
    <3>1. GasOf(t) = 0 /\ OutOf(t) = 0
      BY <2>2 DEF Live, GasOf, OutOf
    <3>2. t \in R => mem.charges[t].gas \in Nat /\ mem.charges[t].out \in Nat
      BY <1>1, StateShape DEF Entries
    <3> QED
      BY <3>1, <3>2
  <2> QED
    BY <2>1, <2>2
<1>5. /\ e \in [A -> Nat] /\ d \in [A -> Nat] /\ \A t \in R : e[t] = f[t] /\ d[t] = h[t]
      /\ f \in [R -> Nat] /\ g \in [S -> Nat] /\ h \in [R -> Nat] /\ k \in [S -> Nat]
      /\ \A t \in R : g[t] <= f[t] /\ k[t] <= h[t]
      /\ \A t \in S \ R : g[t] = 0 /\ k[t] = 0
  BY <1>1, <1>3, <1>4, Terms
<1>6. Capped(mem, 0, 0)
  BY DEF Ledgers, Ledger
<1>7. GasUsed(mem) = SumFunction(e) /\ OutUsed(mem) = SumFunction(d)
  BY DEF GasUsed, OutUsed
<1> HIDE DEF d, e, f, g, h, k, A, R, S
<1>8. SumFunction(g) <= SumFunction(f) /\ SumFunction(k) <= SumFunction(h)
  BY <1>5, <1>1a, TotalSupport
<1>9. SumFunction(f) <= SumFunction(e) /\ SumFunction(h) <= SumFunction(d)
  <2>1. \A t \in R : f[t] \in Nat /\ f[t] <= e[t] /\ h[t] \in Nat /\ h[t] <= d[t]
    BY <1>5
  <2> QED
    BY <1>5, <1>1a, <2>1, TotalLess
<1>10. /\ SumFunction(e) \in Int /\ SumFunction(f) \in Int /\ SumFunction(g) \in Int
       /\ SumFunction(d) \in Int /\ SumFunction(h) \in Int /\ SumFunction(k) \in Int
  <2>1. /\ e \in [A -> Int] /\ f \in [R -> Int] /\ g \in [S -> Int]
        /\ d \in [A -> Int] /\ h \in [R -> Int] /\ k \in [S -> Int]
    BY <1>5
  <2> QED
    BY <1>1a, <2>1, TotalType
<1>12. SumFunction(g) <= GasCap /\ SumFunction(k) <= OutCap
  BY <1>6, <1>7, <1>8, <1>9, <1>10, CapsAssumption DEF Capped
<1> QED
  BY <1>12 DEF WithinBudget, g, k, S

-----------------------------------------------------------------------------
(* The chain, for any number of callers                                    *)

LEMMA MempoolNext ==
    ASSUME TypeOK, Mempool, Next
    PROVE  Mempool'
<1> USE DEF TypeOK
<1>1. ASSUME UNCHANGED <<nonce, network, receipts>> PROVE Mempool'
  BY <1>1 DEF Mempool
<1>2. ASSUME NEW s \in Senders, Broadcast(s) PROVE Mempool'
  <2>1. CASE Send(s)
    BY <2>1 DEF Send, Reaches, Mempool
  <2>2. CASE ~Send(s)
    BY <1>1, <1>2, <2>2 DEF Broadcast, Start, Abort, ReadLatest, Refuse, Sign, Commit, CommitFails,
                             SendFails, AskedKnown, AskedUnknown, Save, chain
  <2> QED
    BY <2>1, <2>2
<1>3. ASSUME NEW s \in Senders, Resolve(s) PROVE Mempool'
  <2>1. CASE Rebroadcast(s)
    <3>1. /\ UNCHANGED <<nonce, receipts>>
          /\ network' = network \/ (pc[s].p.tx.nonce >= nonce /\ network' = network \cup {pc[s].p.tx})
      BY <2>1 DEF Rebroadcast, Reaches
    <3> QED
      BY <3>1 DEF Mempool
  <2>2. CASE ~Rebroadcast(s)
    BY <1>1, <1>3, <2>2 DEF Resolve, Tick, ReceiptFound, ReceiptMissing, NoncePast, NonceNotPast, RereadFound,
                             Replaced, KnownOrError, KnownAbsent, chain
  <2> QED
    BY <2>1, <2>2
<1>4. CASE Mine
  <2>1. PICK t \in network : \E ok \in BOOLEAN, gas \in 1..GasLimit[t.key] :
          /\ receipts' = With(receipts, t, [ok |-> ok, gas |-> gas]) /\ Settled(nonce) /\ t.nonce = nonce
    BY <1>4 DEF Mine
  <2>2. t \in Txs /\ GasLimit[t.key] \in Nat /\ nonce \in Nat
    BY CapsAssumption DEF WorldType, Txs
  <2>3. PICK e : receipts' = With(receipts, t, e) /\ e.gas <= GasLimit[t.key]
    BY <2>1, <2>2
  <2>4. /\ DOMAIN receipts' = DOMAIN receipts \cup {t} /\ receipts'[t].gas <= GasLimit[t.key]
        /\ \A u \in DOMAIN receipts \ {t} : receipts'[u] = receipts[u]
    BY <2>3 DEF With
  <2>5. nonce' = nonce + 1 /\ network' = {u \in network : u.nonce > nonce} /\ t.nonce = nonce
    BY <2>1 DEF Settled
  <2>6. ASSUME NEW u \in network' PROVE u.nonce >= nonce'
    <3>1. u.nonce \in Nat /\ u.nonce > nonce
      BY <2>5 DEF WorldType, Txs
    <3> QED
      BY <2>2, <2>5, <3>1
  <2>7. ASSUME NEW u \in DOMAIN receipts' PROVE u.nonce < nonce' /\ receipts'[u].gas <= GasLimit[u.key]
    <3>1. CASE u = t
      BY <2>2, <2>4, <2>5, <3>1
    <3>2. CASE u # t
      <4>1. u \in DOMAIN receipts /\ u.nonce < nonce /\ receipts[u].gas <= GasLimit[u.key]
        BY <2>4, <3>2 DEF Mempool
      <4>2. u.nonce \in Nat
        BY <4>1 DEF WorldType, Txs
      <4> QED
        BY <2>2, <2>4, <2>5, <3>2, <4>1, <4>2
    <3> QED
      BY <3>1, <3>2
  <2> QED
    BY <2>6, <2>7 DEF Mempool
<1>5. CASE MineForeign
  <2>1. nonce' = nonce + 1 /\ network' = {u \in network : u.nonce > nonce} /\ receipts' = receipts
    BY <1>5 DEF MineForeign, Settled
  <2>2. \A u \in network \cup DOMAIN receipts : u.nonce \in Nat
    BY DEF WorldType, Txs
  <2> QED
    BY <2>1, <2>2 DEF Mempool, WorldType
<1>6. CASE Evict \/ Regossip \/ Vanish
  BY <1>6 DEF Evict, Regossip, Vanish, Mempool
<1>7. CASE Restart \/ Pass
  BY <1>1, <1>7 DEF Restart, Pass, chain
<1> QED
  BY <1>2, <1>3, <1>4, <1>5, <1>6, <1>7 DEF Next, Chain

-----------------------------------------------------------------------------
(* One caller: what its steps leave of the invariant                       *)

LEMMA Goes ==
    ASSUME CallerType, NEW a \in Awaits, NEW r \in Records \cup {None}, Goto(Ticker, a, r)
    PROVE  Stage' = a /\ Record' = r
BY Moved, CapsAssumption DEF Stage, Record

(* A ledger with the same charges, and the same transaction pending or     *)
(* none.                                                                   *)
LEMMA LedgerKept ==
    ASSUME NEW state, NEW other, NEW table, NEW gone, NEW net, NEW rec,
           Dated(state, table), Reserved(state, table), Covers(state, table, gone, net, rec), Capped(state, 0, 0),
           other.charges = state.charges,
           other.pending # None => state.pending # None /\ other.pending.tx = state.pending.tx
    PROVE  /\ Dated(other, table) /\ Reserved(other, table) /\ Covers(other, table, gone, net, rec) /\ Capped(other, 0, 0)
<1>1. Capped(other, 0, 0)
  BY UsedSame DEF Capped
<1> QED
  BY <1>1 DEF Dated, Reserved, Covers, Full

(* Its pending transaction reaches a node.                                 *)
LEMMA LedgerReached ==
    ASSUME NEW state, NEW table, NEW gone, NEW net, NEW rec, NEW t \in Txs, Covers(state, table, gone, net, rec),
           t \notin DOMAIN rec, t \in DOMAIN table => Full(state, t)
    PROVE  Covers(state, table, gone, net \cup {t}, rec)
<1> SUFFICES ASSUME NEW u \in DOMAIN table \ gone, Live(u, net \cup {t}, rec)
             PROVE  /\ u \in DOMAIN state.charges
                    /\ Gas(u, net \cup {t}, rec) <= state.charges[u].gas
                    /\ Out(u, net \cup {t}, rec) <= state.charges[u].out
  BY DEF Covers
<1>1. CASE u = t
  <2>1. Gas(u, net \cup {t}, rec) = GasLimit[t.key] /\ Out(u, net \cup {t}, rec) = Outflow[t.key]
    BY <1>1 DEF Gas, Out
  <2>2. GasLimit[t.key] \in Nat /\ Outflow[t.key] \in Nat
    BY CapsAssumption DEF Txs
  <2> QED
    BY <1>1, <2>1, <2>2 DEF Full
<1>2. CASE u # t
  <2>1. Live(u, net, rec)
    BY <1>2 DEF Live
  <2>2. Gas(u, net \cup {t}, rec) = Gas(u, net, rec) /\ Out(u, net \cup {t}, rec) = Out(u, net, rec)
    BY <1>2 DEF Gas, Out
  <2> QED
    BY <2>1, <2>2 DEF Covers
<1> QED
  BY <1>1, <1>2

(* Nodes lose transactions, or a block takes one.                          *)
LEMMA LedgerChain ==
    ASSUME NEW state, state \in States, NEW table, DOMAIN table \subseteq Txs,
           NEW gone, NEW net, NEW rec, NEW fewer \in SUBSET net, NEW rec2,
           Covers(state, table, gone, net, rec),
           \/ rec2 = rec
           \/ \E t \in net : \E e : /\ rec2 = With(rec, t, e) /\ t \notin DOMAIN rec
                                /\ e.gas \in Nat /\ e.gas <= GasLimit[t.key]
    PROVE  Covers(state, table, gone, fewer, rec2)
<1> SUFFICES ASSUME NEW u \in DOMAIN table \ gone, Live(u, fewer, rec2)
             PROVE  /\ u \in DOMAIN state.charges
                    /\ Gas(u, fewer, rec2) <= state.charges[u].gas
                    /\ Out(u, fewer, rec2) <= state.charges[u].out
  BY DEF Covers
<1>1. GasLimit[u.key] \in Nat /\ Outflow[u.key] \in Nat
  BY CapsAssumption DEF Txs
<1>2. ASSUME Live(u, net, rec)
      PROVE  /\ u \in DOMAIN state.charges
             /\ Gas(u, net, rec) <= state.charges[u].gas /\ Out(u, net, rec) <= state.charges[u].out
             /\ state.charges[u].gas \in Nat /\ state.charges[u].out \in Nat
  <2>1. /\ u \in DOMAIN state.charges
        /\ Gas(u, net, rec) <= state.charges[u].gas /\ Out(u, net, rec) <= state.charges[u].out
    BY <1>2 DEF Covers
  <2>2. state.charges[u].gas \in Nat /\ state.charges[u].out \in Nat
    BY <2>1, StateShape DEF Entries
  <2> QED
    BY <2>1, <2>2
<1>3. CASE rec2 = rec
  <2>1. Live(u, net, rec)
    BY <1>3 DEF Live
  <2>2. Gas(u, fewer, rec) = Gas(u, net, rec) /\ (Out(u, fewer, rec) = Out(u, net, rec) \/ Out(u, fewer, rec) = 0)
    BY <1>3 DEF Gas, Out, Live
  <2> QED
    BY <1>2, <1>3, <2>1, <2>2
<1>4. ASSUME NEW t \in net, NEW e, rec2 = With(rec, t, e), t \notin DOMAIN rec, e.gas \in Nat, e.gas <= GasLimit[t.key]
      PROVE  /\ u \in DOMAIN state.charges
             /\ Gas(u, fewer, rec2) <= state.charges[u].gas
             /\ Out(u, fewer, rec2) <= state.charges[u].out
  <2>1. DOMAIN rec2 = DOMAIN rec \cup {t} /\ rec2[t] = e /\ \A v \in DOMAIN rec : rec2[v] = rec[v]
    BY <1>4 DEF With
  <2>2. Live(u, net, rec)
    BY <2>1 DEF Live
  <2>3. CASE u = t
    <3>1. Gas(u, net, rec) = GasLimit[t.key] /\ Out(u, net, rec) = Outflow[t.key]
      BY <1>4, <2>3 DEF Gas, Out
    <3>2. Gas(u, fewer, rec2) = e.gas /\ (Out(u, fewer, rec2) = Outflow[t.key] \/ Out(u, fewer, rec2) = 0)
      BY <2>1, <2>3 DEF Gas, Out
    <3> QED
      BY <1>1, <1>2, <1>4, <2>2, <2>3, <3>1, <3>2
  <2>4. CASE u # t
    <3>1. Gas(u, fewer, rec2) = Gas(u, net, rec)
      BY <2>1, <2>4 DEF Gas, Live
    <3>2. Out(u, fewer, rec2) = Out(u, net, rec) \/ Out(u, fewer, rec2) = 0
      BY <2>1, <2>4 DEF Out
    <3> QED
      BY <1>2, <2>2, <3>1, <3>2
  <2> QED
    BY <2>3, <2>4
<1> QED
  BY <1>3, <1>4

(* A caller asks the chain or gives up, and nothing else changes.          *)
LEMMA InvAsks ==
    ASSUME TypeOK, Inv, UNCHANGED <<mem, disk, chain, ghosts, sends>>, Stage # "commit",
           Stage' \notin {"latest", "tag", "commit", "send"},
           Stage' \in Busy => mem.pending = Record', Informed'
    PROVE  Inv'
<1> USE DEF chain, ghosts
<1>1. Mempool'
  BY DEF Inv, Mempool
<1>2. Numbered'
  BY DEF Inv, Numbered, Began
<1>3. Outstanding'
  BY DEF Inv, Outstanding, Busy, Awaits
<1>4. OneOutstanding'
  BY DEF Inv, OneOutstanding
<1>5. Ledgers'
  BY DEF Inv, Ledgers, Ledger
<1> QED
  BY <1>1, <1>2, <1>3, <1>4, <1>5 DEF Inv

(* The end of a look at the pending transaction: it stays the one          *)
(* outstanding, once more sent perhaps, or is given up.                    *)
LEMMA InvWinds ==
    ASSUME TypeOK, TypeOK', Inv, Mempool', NEW r \in Records, mem.pending = r,
           Stage \in Busy \ {"latest", "tag", "commit"}, Stage' = "save",
           UNCHANGED <<disk, nonce, receipts, sent, undone, sends>>,
           \/ network' = network
           \/ network' = network \cup {r.tx} /\ r.tx.nonce >= nonce,
           \/ mem' = mem /\ dropped' = dropped
           \/ dropped' = dropped /\ \E q \in Records : q.tx = r.tx /\ mem' = [mem EXCEPT !.pending = q]
           \/ mem' = Forget(mem) /\ dropped' = dropped \cup {r.tx}
    PROVE  Inv'
<1>1. /\ mem \in States /\ disk \in States /\ mem' \in States /\ mem'.charges = mem.charges
      /\ mem'.pending = None \/ (mem'.pending # None /\ mem'.pending.tx = r.tx)
      /\ mem'.pending # None => dropped' = dropped
      /\ mem'.pending = None => dropped' = dropped \cup {r.tx}
      /\ r # None /\ r.tx \in Txs
  <2>1. mem \in States /\ disk \in States /\ mem' \in States /\ r # None /\ r.tx \in Txs
    BY NoneAssumption DEF TypeOK, GuardType, Records
  <2>2. CASE mem' = mem /\ dropped' = dropped
    BY <2>1, <2>2
  <2>3. ASSUME NEW q \in Records, q.tx = r.tx, mem' = [mem EXCEPT !.pending = q], dropped' = dropped
        PROVE  mem'.charges = mem.charges /\ mem'.pending # None /\ mem'.pending.tx = r.tx
    BY <2>1, <2>3, PendingSet, NoneAssumption
  <2>4. CASE mem' = Forget(mem) /\ dropped' = dropped \cup {r.tx}
    BY <2>1, <2>4, Forgotten
  <2> QED
    BY <2>1, <2>2, <2>3, <2>4
<1>2. /\ disk.pending # None /\ disk.pending.tx = r.tx
      /\ \A t \in network \ (dropped \cup undone) : t = r.tx
  BY <1>1 DEF Inv, Outstanding, OneOutstanding
<1>3. r.tx.copy <= sends
  BY <1>1 DEF Inv, Numbered
<1>4. Numbered'
  BY <1>1, <1>2, <1>3 DEF Inv, Numbered, Began
<1>5. Outstanding'
  BY <1>1, <1>2 DEF Outstanding, Busy
<1>6. Informed'
  BY DEF Informed
<1>7. OneOutstanding'
  BY <1>1, <1>2 DEF OneOutstanding
<1>8. ASSUME network' = network \cup {r.tx}, r.tx.nonce >= nonce PROVE r.tx \notin DOMAIN receipts
  <2>1. r.tx.nonce \in Nat /\ nonce \in Nat
    BY <1>1 DEF TypeOK, WorldType, Txs
  <2> QED
    BY <1>8, <2>1 DEF Inv, Mempool
<1>9. ASSUME NEW state \in {mem, disk}
      PROVE  /\ Dated(state, sent) /\ Reserved(state, sent) /\ Covers(state, sent, undone, network', receipts)
             /\ Capped(state, 0, 0)
  <2>1. /\ Dated(state, sent) /\ Reserved(state, sent) /\ Covers(state, sent, undone, network, receipts)
        /\ Capped(state, 0, 0)
    BY DEF Inv, Ledgers, Ledger
  <2>2. state.pending # None /\ state.pending.tx = r.tx
    BY <1>1, <1>2
  <2>3. r.tx \in DOMAIN sent => Full(state, r.tx)
    BY <2>1, <2>2 DEF Reserved
  <2> QED
    BY <1>1, <1>8, <2>1, <2>3, LedgerReached
<1>10. PICK other : other = mem'
  OBVIOUS
<1>11. /\ Dated(other, sent) /\ Reserved(other, sent) /\ Covers(other, sent, undone, network', receipts)
       /\ Capped(other, 0, 0)
  BY <1>1, <1>9, <1>10, LedgerKept
<1>12. Ledgers'
  BY <1>9, <1>10, <1>11 DEF Inv, Ledgers, Ledger
<1> QED
  BY <1>4, <1>5, <1>6, <1>7, <1>12 DEF Inv

(* An operation that did not come to pass, or is over.                     *)
LEMMA InvEnds ==
    ASSUME TypeOK, TypeOK', Inv, NEW r \in Records, mem.pending = r,
           Stage \in Busy \ {"latest", "tag"}, Stage' = "save",
           UNCHANGED <<disk, chain, sent, dropped, sends>>,
           undone \subseteq undone', r.tx \in network => r.tx \in undone',
           mem'.pending = None,
           /\ Dated(mem', sent) /\ Reserved(mem', sent)
           /\ Covers(mem', sent, undone', network, receipts) /\ Capped(mem', 0, 0)
    PROVE  Inv'
<1> USE DEF chain
<1>1. Mempool'
  BY DEF Inv, Mempool
<1>2. Numbered'
  BY DEF Inv, Numbered, Began
<1>3. Outstanding'
  BY DEF Outstanding, Busy
<1>4. Informed'
  BY DEF Informed
<1>5. OneOutstanding'
  BY NoneAssumption DEF Inv, OneOutstanding
<1>6. Covers(disk, sent, undone', network, receipts)
  BY DEF Inv, Ledgers, Ledger, Covers
<1>7. Ledgers'
  BY <1>6 DEF Inv, Ledgers, Ledger
<1> QED
  BY <1>1, <1>2, <1>3, <1>4, <1>5, <1>7 DEF Inv

(* The wallet's nonce moves on, nodes forget and learn.                    *)
LEMMA InvChain ==
    ASSUME TypeOK, TypeOK', Inv, Mempool', UNCHANGED <<mem, disk, pc, ghosts, sends>>,
           network' \in SUBSET network, nonce' >= nonce,
           \/ receipts' = receipts
           \/ \E t \in network : \E e : /\ receipts' = With(receipts, t, e) /\ t \notin DOMAIN receipts
                                    /\ e.gas \in Nat /\ e.gas <= GasLimit[t.key]
    PROVE  Inv'
<1> USE DEF ghosts
<1>1. Stage' = Stage /\ Record' = Record
  BY DEF Stage, Record
<1>2. DOMAIN receipts' \subseteq DOMAIN receipts \cup network
  BY DEF With
<1>3. Numbered'
  BY <1>1, <1>2 DEF Inv, Numbered, Began
<1>4. Outstanding'
  BY <1>1 DEF Inv, Outstanding
<1>5. Informed'
  <2>1. Stage = "reread" => Record \in Records
    BY Recorded, CapsAssumption DEF Stage, Record, Busy, Awaits, TypeOK
  <2>2. Stage = "reread" => Record.tx.nonce \in Nat
    BY <2>1 DEF Records, Txs
  <2>3. nonce \in Nat /\ nonce' \in Nat
    BY DEF TypeOK, WorldType
  <2> QED
    BY <1>1, <2>2, <2>3 DEF Inv, Informed
<1>6. OneOutstanding'
  BY DEF Inv, OneOutstanding
<1>7. ASSUME NEW state \in {mem, disk} PROVE Covers(state, sent, undone, network', receipts')
  <2>1. state \in States /\ DOMAIN sent \subseteq Txs
    BY DEF TypeOK, GuardType, WorldType
  <2>2. Covers(state, sent, undone, network, receipts)
    BY DEF Inv, Ledgers, Ledger
  <2> QED
    BY <2>1, <2>2, LedgerChain
<1>8. Ledgers'
  BY <1>1, <1>7 DEF Inv, Ledgers, Ledger
<1> QED
  BY <1>3, <1>4, <1>5, <1>6, <1>8 DEF Inv

(* The caller's own record, at an await.                                   *)
LEMMA AtRecord ==
    ASSUME TypeOK, Inv, Stage \in Busy
    PROVE  Record \in Records /\ (Stage \notin {"latest", "tag"} => mem.pending = Record)
<1>1. Record \in Records
  BY Recorded, CapsAssumption DEF Stage, Record, TypeOK
<1> QED
  BY <1>1 DEF Inv, Outstanding

LEMMA BroadcastInv ==
    ASSUME TypeOK, TypeOK', Inv, Mempool', Broadcast(Ticker)
    PROVE  Inv'
<1> USE DEF TypeOK, At
<1>1. CASE Start(Ticker)
  <2>1. PICK k \in Duties[Ticker] :
          /\ Capped(mem, GasLimit[k], Outflow[k])
          /\ Goto(Ticker, "latest", [tx |-> [nonce |-> 0, key |-> k, copy |-> sends + 1], age |-> 0,
                                     since |-> 0, tries |-> 0, timedOut |-> FALSE])
    BY <1>1 DEF Start, Capped
  <2>2. PICK r : r = [tx |-> [nonce |-> 0, key |-> k, copy |-> sends + 1], age |-> 0,
                      since |-> 0, tries |-> 0, timedOut |-> FALSE]
    OBVIOUS
  <2>3. k \in Keys /\ sends' = sends + 1 /\ sends \in Nat /\ sends' \in 0..MaxSends
    BY <1>1, CapsAssumption DEF Start, WorldType
  <2>4. r \in Records /\ r.tx.copy = sends + 1 /\ r.tx.key = k
    BY <2>2, <2>3, TimesAssumption DEF Records, Txs
  <2>5. Stage' = "latest" /\ Record' = r
    BY <2>1, <2>2, <2>4, Goes DEF Awaits
  <2>6. mem.pending = None /\ Stage = "idle" /\ UNCHANGED <<mem, disk, chain, ghosts>>
    BY <1>1 DEF Start, Stage
  <2> HIDE <1>1
  <2>7. \A t \in network \cup DOMAIN receipts \cup DOMAIN sent : t.copy \in Nat /\ t.copy <= sends
    BY DEF WorldType, Txs, Inv, Numbered, Began
  <2>8. ASSUME NEW state \in {mem, disk}, state.pending # None PROVE state.pending.tx.copy \in Nat /\ state.pending.tx.copy <= sends
    <3>1. state.pending \in Records
      BY <2>8, StateShape DEF GuardType
    <3> QED
      BY <2>8, <3>1 DEF Records, Txs, Inv, Numbered
  <2>9. Numbered'
    BY <2>3, <2>4, <2>5, <2>6, <2>7, <2>8 DEF Numbered, Began, chain, ghosts
  <2>10. Mempool' /\ OneOutstanding'
    BY <2>6 DEF Inv, OneOutstanding, chain, ghosts
  <2>11. Outstanding' /\ Informed'
    BY <2>5, <2>6 DEF Outstanding, Informed, Busy
  <2>12. Ledgers'
    BY <2>1, <2>4, <2>5, <2>6 DEF Inv, Ledgers, Ledger, Capped, chain, ghosts
  <2> QED
    BY <2>9, <2>10, <2>11, <2>12 DEF Inv
<1>2. CASE Abort(Ticker) \/ Refuse(Ticker) \/ AskedKnown(Ticker)
  <2>1. Stage' \in {"idle", "save"}
    BY <1>2, Goes DEF Abort, Refuse, AskedKnown, Idle, Goto, Awaits
  <2>2. UNCHANGED <<mem, disk, chain, ghosts, sends>> /\ Stage \in {"latest", "tag", "asked"}
    BY <1>2 DEF Abort, Refuse, AskedKnown, Stage, counters
  <2>3. Informed'
    BY <2>1 DEF Informed
  <2> QED
    BY <2>1, <2>2, <2>3, InvAsks DEF Busy
<1>3. CASE ReadLatest(Ticker)
  <2>1. Stage = "latest" /\ UNCHANGED <<mem, disk, chain, ghosts, sends>>
        /\ Goto(Ticker, "tag", [Record EXCEPT !.tx.nonce = nonce])
    BY <1>3 DEF ReadLatest, Stage, Record, counters
  <2>2. PICK r \in Records : r = Record
    BY <2>1, AtRecord DEF Busy, Awaits
  <2>3. PICK q : q = [r EXCEPT !.tx.nonce = nonce]
    OBVIOUS
  <2>4. q \in Records /\ q.tx.copy = r.tx.copy /\ q.tx.key = r.tx.key
    BY <2>3 DEF Records, Txs, WorldType
  <2>5. Stage' = "tag" /\ Record' = q
    BY <2>1, <2>2, <2>3, <2>4, Goes DEF Awaits
  <2> HIDE <1>3
  <2>6. Mempool' /\ OneOutstanding'
    BY <2>1 DEF Inv, OneOutstanding, chain, ghosts
  <2>7. Numbered'
    BY <2>1, <2>2, <2>4, <2>5 DEF Inv, Numbered, Began, chain, ghosts
  <2>8. Outstanding' /\ Informed'
    BY <2>1, <2>5 DEF Inv, Outstanding, Informed, Busy
  <2>9. Ledgers'
    BY <2>1, <2>2, <2>4, <2>5 DEF Inv, Ledgers, Ledger, Capped, chain, ghosts
  <2> QED
    BY <2>6, <2>7, <2>8, <2>9 DEF Inv
<1>4. CASE Sign(Ticker)
  <2>1. Stage = "tag" /\ UNCHANGED <<disk, chain, dropped, undone, sends>>
    BY <1>4 DEF Sign, Stage, counters
  <2>2. PICK r \in Records : r = Record
    BY <2>1, AtRecord DEF Busy, Awaits
  <2>3. /\ mem' = [Charge(mem, r.tx) EXCEPT !.pending = r] /\ sent' = With(sent, r.tx, 0)
        /\ Goto(Ticker, "commit", r)
    BY <1>4, <2>2 DEF Sign, Record
  <2>4. /\ mem' \in States /\ mem'.pending = r /\ mem'.charges = Charge(mem, r.tx).charges
        /\ r.tx \in Txs /\ r # None
    BY <2>3, Signed, NoneAssumption DEF Records
  <2>5. Stage' = "commit" /\ Record' = r
    BY <2>3, Goes DEF Awaits
  <2> HIDE <1>4, <2>3
  <2>6. /\ r.tx.copy = sends /\ Began(sends - 1) /\ \A t \in DOMAIN sent : t.copy < sends
        /\ mem.pending = None /\ Capped(mem, GasLimit[r.tx.key], Outflow[r.tx.key])
    BY <2>1, <2>2 DEF Inv, Numbered, Outstanding, Ledgers
  <2>7. sent' = With(sent, r.tx, 0) /\ DOMAIN sent' = DOMAIN sent \cup {r.tx}
    BY <2>3 DEF With
  <2>8. sends \in Nat
    BY DEF WorldType
  <2>9. r.tx \notin network /\ r.tx \notin DOMAIN receipts /\ r.tx \notin DOMAIN sent
    BY <2>6, <2>8 DEF Began
  <2>10. Mempool'
    BY <2>1 DEF Inv, Mempool, chain
  <2>11. Numbered'
    BY <2>1, <2>4, <2>5, <2>6, <2>7, <2>8 DEF Inv, Numbered, Began, chain
  <2>12. Outstanding' /\ Informed'
    BY <2>4, <2>5 DEF Outstanding, Informed
  <2>13. OneOutstanding'
    BY <2>1, <2>6 DEF Inv, OneOutstanding, chain
  <2>14. Ledger(mem)'
    <3>1. /\ mem \in States /\ IsFiniteSet(DOMAIN sent) /\ Dated(mem, sent) /\ Covers(mem, sent, undone, network, receipts)
      BY DEF Inv, Ledgers, Ledger, GuardType
    <3>2. ~Live(r.tx, network, receipts)
      BY <2>9 DEF Live
    <3>3. PICK other \in States : other = mem'
      BY <2>4
    <3>4. /\ Dated(other, With(sent, r.tx, 0)) /\ Reserved(other, With(sent, r.tx, 0))
          /\ Covers(other, With(sent, r.tx, 0), undone, network, receipts) /\ Capped(other, 0, 0)
      BY <2>4, <2>6, <2>9, <3>1, <3>2, <3>3, LedgerCharged
    <3> QED
      BY <2>1, <2>7, <3>3, <3>4 DEF Ledger, chain
  <2>15. Ledger(disk)'
    <3>1. /\ Dated(disk, sent) /\ Reserved(disk, sent) /\ Covers(disk, sent, undone, network, receipts) /\ Capped(disk, 0, 0)
      BY DEF Inv, Ledgers, Ledger
    <3>2. disk.pending # None => disk.pending.tx # r.tx
      BY <2>1, <2>6, <2>8 DEF Inv, Numbered
    <3>3. Dated(disk, sent')
      BY <2>7, <2>9, <3>1 DEF Dated, With
    <3>4. Reserved(disk, sent')
      BY <2>7, <3>1, <3>2 DEF Reserved
    <3>5. Covers(disk, sent', undone, network, receipts)
      BY <2>7, <2>9, <3>1 DEF Covers, Live
    <3> QED
      BY <2>1, <3>1, <3>3, <3>4, <3>5 DEF Ledger, chain
  <2>16. IsFiniteSet(DOMAIN sent')
    BY <2>7, FS_AddElement DEF Inv, Ledgers
  <2>17. Ledgers'
    BY <2>5, <2>14, <2>15, <2>16 DEF Ledgers
  <2> QED
    BY <2>10, <2>11, <2>12, <2>13, <2>17 DEF Inv
<1>5. CASE Commit(Ticker)
  <2>1. Stage = "commit" /\ disk' = mem /\ UNCHANGED <<mem, chain, ghosts, sends>> /\ Goto(Ticker, "send", Record)
    BY <1>5 DEF Commit, Stage, Record, counters
  <2>2. PICK r \in Records : r = Record /\ mem.pending = r
    BY <2>1, AtRecord DEF Busy, Awaits
  <2>3. Stage' = "send" /\ Record' = r
    BY <2>1, <2>2, Goes DEF Awaits
  <2> HIDE <1>5
  <2>4. Mempool'
    BY <2>1 DEF Inv, Mempool, chain
  <2>5. Numbered'
    BY <2>1, <2>2, <2>3 DEF Inv, Numbered, Began, chain, ghosts
  <2>6. Outstanding' /\ Informed'
    BY <2>1, <2>2, <2>3 DEF Outstanding, Informed, Busy
  <2>7. OneOutstanding'
    BY <2>1 DEF Inv, OneOutstanding, chain, ghosts
  <2>8. Ledgers'
    BY <2>1, <2>3 DEF Inv, Ledgers, Ledger, chain, ghosts
  <2> QED
    BY <2>4, <2>5, <2>6, <2>7, <2>8 DEF Inv
<1>6. CASE CommitFails(Ticker) \/ AskedUnknown(Ticker)
  <2>1. /\ Stage \in {"commit", "asked"} /\ Goto(Ticker, "save", None)
        /\ UNCHANGED <<disk, chain, sent, dropped, sends>> /\ mem' = Forget(Uncharge(mem, Record.tx))
        /\ undone \subseteq undone'
        /\ Stage = "asked" => Record.tx \notin DOMAIN receipts /\ (Record.tx \in network => Record.tx \in undone')
    BY <1>6 DEF CommitFails, AskedUnknown, Known, Undo, Stage, Record, ghosts, counters
  <2>2. PICK r \in Records : r = Record /\ mem.pending = r
    BY <2>1, AtRecord DEF Busy, Awaits
  <2>3. Stage' = "save"
    BY <2>1, Goes DEF Awaits
  <2> HIDE <1>6
  <2>4. Live(r.tx, network, receipts) => r.tx \in network /\ r.tx \in undone'
    <3>1. CASE Stage = "commit"
      <4>1. r.tx.copy = sends /\ Began(sends - 1) /\ sends \in Nat
        BY <2>2, <3>1 DEF Inv, Numbered, WorldType
      <4> QED
        BY <4>1 DEF Began, Live
    <3>2. CASE Stage = "asked"
      BY <2>1, <2>2, <3>2 DEF Live
    <3> QED
      BY <2>1, <3>1, <3>2
  <2>5. PICK other \in States : other = mem' /\ other.pending = None /\ other.charges = Uncharge(mem, r.tx).charges
    BY <2>1, <2>2, Undone
  <2>6. mem \in States /\ IsFiniteSet(DOMAIN sent) /\ Dated(mem, sent) /\ Covers(mem, sent, undone, network, receipts) /\ Capped(mem, 0, 0)
    BY DEF GuardType, Inv, Ledgers, Ledger
  <2>7. /\ Dated(other, sent) /\ Reserved(other, sent)
        /\ Covers(other, sent, undone', network, receipts) /\ Capped(other, 0, 0)
    BY <2>1, <2>4, <2>5, <2>6, LedgerUndone
  <2>8. (r.tx \in network => r.tx \in undone') /\ Stage \in Busy \ {"latest", "tag"}
    BY <2>1, <2>4 DEF Live, Busy, Awaits
  <2> QED
    BY <2>1, <2>2, <2>3, <2>5, <2>7, <2>8, InvEnds
<1>7. CASE Send(Ticker)
  <2>1. /\ Stage = "send" /\ UNCHANGED <<mem, disk, nonce, receipts, ghosts, sends>>
        /\ Goto(Ticker, "save", None) \/ Goto(Ticker, "asked", Record)
        /\ Record.tx.nonce >= nonce /\ node' = node \cup {Record.tx} /\ network' = network \cup {Record.tx}
    BY <1>7 DEF Send, Reaches, Stage, Record, counters
  <2>2. PICK r \in Records : r = Record /\ mem.pending = r
    BY <2>1, AtRecord DEF Busy, Awaits
  <2>3. Stage' = "save" \/ (Stage' = "asked" /\ Record' = r)
    BY <2>1, <2>2, Goes DEF Awaits
  <2> HIDE <1>7
  <2>4. r \in Records /\ r # None /\ r.tx \in Txs /\ r.tx.copy = sends
    BY <2>1, <2>2, NoneAssumption DEF Records, Inv, Numbered
  <2>5. disk.pending # None /\ disk.pending.tx = r.tx
    BY <2>1, <2>2, <2>4 DEF Inv, Outstanding
  <2>6. Numbered'
    BY <2>1, <2>2, <2>3, <2>4 DEF Inv, Numbered, Began, ghosts
  <2>7. Outstanding' /\ Informed'
    BY <2>1, <2>2, <2>3, <2>5 DEF Outstanding, Informed, Busy
  <2>8. OneOutstanding'
    BY <2>1, <2>2, <2>4, <2>5 DEF Inv, OneOutstanding, ghosts
  <2>9. r.tx \notin DOMAIN receipts
    <3>1. r.tx.nonce \in Nat /\ nonce \in Nat
      BY <2>4 DEF WorldType, Txs
    <3> QED
      BY <2>1, <2>2, <3>1 DEF Inv, Mempool
  <2>10. ASSUME NEW state \in {mem, disk} PROVE Covers(state, sent, undone, network', receipts)
    <3>1. Reserved(state, sent) /\ Covers(state, sent, undone, network, receipts)
      BY DEF Inv, Ledgers, Ledger
    <3>2. r.tx \in DOMAIN sent => Full(state, r.tx)
      BY <2>2, <2>4, <2>5, <3>1 DEF Reserved
    <3> QED
      BY <2>1, <2>2, <2>4, <2>9, <3>1, <3>2, LedgerReached
  <2>11. Ledgers'
    BY <2>1, <2>3, <2>10 DEF Inv, Ledgers, Ledger, ghosts
  <2> QED
    BY <2>6, <2>7, <2>8, <2>11 DEF Inv
<1>8. CASE SendFails(Ticker)
  <2>1. /\ Stage = "send" /\ UNCHANGED <<mem, disk, chain, ghosts, sends>> /\ Goto(Ticker, "asked", Record)
    BY <1>8 DEF SendFails, Stage, Record, counters
  <2>2. PICK r \in Records : r = Record /\ mem.pending = r
    BY <2>1, AtRecord DEF Busy, Awaits
  <2>3. Stage' = "asked" /\ Record' = r
    BY <2>1, <2>2, Goes DEF Awaits
  <2>4. Informed'
    BY <2>3 DEF Informed
  <2> QED
    BY <2>1, <2>2, <2>3, <2>4, InvAsks
<1>9. CASE Save(Ticker)
  <2>1. Stage = "save" /\ disk' \in {mem, disk} /\ UNCHANGED <<mem, chain, ghosts, sends>>
    BY <1>9 DEF Save, Stage, counters
  <2>2. Stage' = "idle"
    BY <1>9, Goes DEF Save, Idle, Goto, Awaits
  <2> HIDE <1>9
  <2>3. Mempool'
    BY <2>1 DEF Inv, Mempool, chain
  <2>4. Numbered'
    BY <2>1, <2>2 DEF Inv, Numbered, Began, chain, ghosts
  <2>5. Outstanding' /\ Informed'
    BY <2>1, <2>2 DEF Inv, Outstanding, Informed, Busy
  <2>6. OneOutstanding'
    BY <2>1 DEF Inv, OneOutstanding, chain, ghosts
  <2>7. Ledgers'
    BY <2>1, <2>2 DEF Inv, Ledgers, Ledger, chain, ghosts
  <2> QED
    BY <2>3, <2>4, <2>5, <2>6, <2>7 DEF Inv
<1> QED
  BY <1>1, <1>2, <1>3, <1>4, <1>5, <1>6, <1>7, <1>8, <1>9 DEF Broadcast

LEMMA ResolveInv ==
    ASSUME TypeOK, TypeOK', Inv, Mempool', Resolve(Ticker)
    PROVE  Inv'
<1> USE DEF TypeOK, At
<1>1. CASE Tick(Ticker)
  <2>1. /\ Stage = "idle" /\ UNCHANGED <<mem, disk, chain, ghosts, sends>> /\ mem.pending # None
        /\ Goto(Ticker, "receipt", mem.pending)
    BY <1>1 DEF Tick, Stage, counters
  <2>2. mem.pending \in Records
    BY <2>1, StateShape DEF GuardType
  <2>3. Stage' = "receipt" /\ Record' = mem.pending
    BY <2>1, <2>2, Goes DEF Awaits
  <2>4. Informed'
    BY <2>3 DEF Informed
  <2> QED
    BY <2>1, <2>3, <2>4, InvAsks
<1>2. CASE ReceiptFound(Ticker) \/ RereadFound(Ticker)
  <2>1. /\ Stage \in {"receipt", "reread"} /\ UNCHANGED <<disk, chain, ghosts, sends>>
        /\ Record.tx \in DOMAIN receipts /\ mem' = Applied(Record) /\ Goto(Ticker, "save", None)
    BY <1>2 DEF ReceiptFound, RereadFound, Stage, Record, counters
  <2>2. PICK r \in Records : r = Record /\ mem.pending = r
    BY <2>1, AtRecord DEF Busy, Awaits
  <2>3. Stage' = "save"
    BY <2>1, Goes DEF Awaits
  <2> HIDE <1>2
  <2>4. PICK other \in States :
          /\ other = mem' /\ other.pending = None /\ DOMAIN other.charges = DOMAIN mem.charges
          /\ \A u \in DOMAIN mem.charges :
               IF u = r.tx
               THEN /\ other.charges[u].gas = receipts[u].gas
                    /\ other.charges[u].out \in {0, mem.charges[u].out}
                    /\ receipts[u].ok => other.charges[u].out = mem.charges[u].out
                    /\ other.charges[u].age = mem.charges[u].age
               ELSE other.charges[u] = mem.charges[u]
    BY <2>1, <2>2, AppliedState
  <2>5. /\ mem \in States /\ IsFiniteSet(DOMAIN sent) /\ Dated(mem, sent) /\ Covers(mem, sent, undone, network, receipts)
        /\ Capped(mem, 0, 0) /\ (r.tx \in DOMAIN sent => Full(mem, r.tx))
    BY <2>2, NoneAssumption DEF GuardType, Inv, Ledgers, Ledger, Reserved
  <2>6. /\ r.tx \in Txs /\ receipts[r.tx].gas \in Nat /\ receipts[r.tx].gas <= GasLimit[r.tx.key]
        /\ r.tx \notin network
    <3>1. r.tx \in DOMAIN receipts /\ r.tx \in Txs /\ receipts[r.tx].gas \in Nat
      BY <2>1, <2>2, ReceiptType
    <3>2. r.tx.nonce \in Nat /\ nonce \in Nat
      BY <3>1 DEF WorldType, Txs
    <3> QED
      BY <3>1, <3>2 DEF Inv, Mempool
  <2>7. r.tx \in DOMAIN receipts
    BY <2>1, <2>2
  <2>8. /\ Dated(other, sent) /\ Reserved(other, sent)
        /\ Covers(other, sent, undone, network, receipts) /\ Capped(other, 0, 0)
    BY <2>4, <2>5, <2>6, <2>7, LedgerApplied
  <2>9. Stage \in Busy \ {"latest", "tag"}
    BY <2>1 DEF Busy, Awaits
  <2>10. UNCHANGED <<sent, dropped, undone>>
    BY <2>1 DEF ghosts
  <2> QED
    BY <2>1, <2>2, <2>3, <2>4, <2>6, <2>8, <2>9, <2>10, InvEnds
<1>3. CASE NoncePast(Ticker) \/ NonceNotPast(Ticker)
  <2>1. /\ Stage = "nonce" /\ UNCHANGED <<mem, disk, chain, ghosts, sends>>
        /\ (nonce > Record.tx.nonce /\ Goto(Ticker, "reread", Record)) \/ Goto(Ticker, "known", Record)
    BY <1>3 DEF NoncePast, NonceNotPast, Stage, Record, counters
  <2>2. PICK r \in Records : r = Record /\ mem.pending = r
    BY <2>1, AtRecord DEF Busy, Awaits
  <2>3. Record' = r /\ ((Stage' = "reread" /\ nonce > r.tx.nonce) \/ Stage' = "known")
    BY <2>1, <2>2, Goes DEF Awaits
  <2>4. Informed'
    BY <2>1, <2>3 DEF Informed, chain
  <2> QED
    BY <2>1, <2>2, <2>3, <2>4, InvAsks
<1>4. ASSUME Stage \in {"receipt", "reread", "known"}, UNCHANGED <<disk, chain, sent, undone, sends>>,
             \/ Goto(Ticker, "nonce", Record) /\ UNCHANGED <<mem, dropped>>
             \/ Goto(Ticker, "lost", Record) /\ UNCHANGED <<mem, dropped>>
             \/ \E absent \in BOOLEAN : Wind(Ticker, Record, mem.pending, absent)
             \/ Goto(Ticker, "save", None) /\ mem' = Forget(mem) /\ dropped' = dropped \cup {Record.tx}
      PROVE  Inv'
  <2>1. PICK r \in Records : r = Record /\ mem.pending = r
    BY <1>4, AtRecord DEF Busy, Awaits
  <2>2. CASE (Goto(Ticker, "nonce", r) \/ Goto(Ticker, "lost", r)) /\ UNCHANGED <<mem, dropped>>
    <3>1. Record' = r /\ Stage' \in {"nonce", "lost"}
      BY <2>2, Goes DEF Awaits
    <3>2. Informed'
      BY <3>1 DEF Informed
    <3> QED
      BY <1>4, <2>1, <2>2, <3>1, <3>2, InvAsks DEF ghosts
  <2>3. ASSUME Goto(Ticker, "save", None),
               \/ mem' = mem /\ dropped' = dropped
               \/ dropped' = dropped /\ \E q \in Records : q.tx = r.tx /\ mem' = [mem EXCEPT !.pending = q]
               \/ mem' = Forget(mem) /\ dropped' = dropped \cup {r.tx}
        PROVE  Inv'
    <3>1. Stage' = "save"
      BY <2>3, Goes DEF Awaits
    <3>2. Stage \in Busy \ {"latest", "tag", "commit"} /\ UNCHANGED <<disk, nonce, receipts, sent, undone, sends>> /\ network' = network
      BY <1>4 DEF Busy, Awaits, chain
    <3> QED
      BY <2>1, <2>3, <3>1, <3>2, InvWinds
  <2>4. ASSUME NEW absent \in BOOLEAN, Wind(Ticker, r, r, absent) PROVE Inv'
    <3>1. /\ Goto(Ticker, "save", None)
          /\ \/ mem' = mem /\ dropped' = dropped
             \/ dropped' = dropped /\ \E q \in Records : q.tx = r.tx /\ mem' = [mem EXCEPT !.pending = q]
             \/ mem' = Forget(mem) /\ dropped' = dropped \cup {r.tx}
      BY <2>4, Wound, CapsAssumption
    <3> QED
      BY <2>3, <3>1
  <2> QED
    BY <1>4, <2>1, <2>2, <2>3, <2>4
<1>5. CASE ReceiptMissing(Ticker) \/ Replaced(Ticker) \/ KnownOrError(Ticker) \/ KnownAbsent(Ticker)
  <2>1. Stage \in {"receipt", "reread", "known"} /\ UNCHANGED <<disk, chain, sent, undone, sends>>
    BY <1>5 DEF ReceiptMissing, Replaced, KnownOrError, KnownAbsent, Stage, counters
  <2>2. \/ Goto(Ticker, "nonce", Record) /\ UNCHANGED <<mem, dropped>>
        \/ Goto(Ticker, "lost", Record) /\ UNCHANGED <<mem, dropped>>
        \/ \E absent \in BOOLEAN : Wind(Ticker, Record, mem.pending, absent)
        \/ Goto(Ticker, "save", None) /\ mem' = Forget(mem) /\ dropped' = dropped \cup {Record.tx}
    BY <1>5 DEF ReceiptMissing, Replaced, KnownOrError, KnownAbsent, Record
  <2> QED
    BY <1>4, <2>1, <2>2
<1>6. CASE Rebroadcast(Ticker)
  <2>1. PICK r \in Records : r = Record /\ mem.pending = r /\ Stage = "lost"
    BY <1>6, AtRecord DEF Rebroadcast, Stage, Busy, Awaits
  <2>2. r.tries < MaxTries
    BY <2>1, CapsAssumption DEF CallerType, Stage, Record
  <2>3. PICK cur \in Records : cur = [r EXCEPT !.tries = r.tries + 1, !.since = 0] /\ cur.tx = r.tx
    BY <2>2, Retried
  <2>4. /\ Wind(Ticker, r, cur, TRUE) /\ UNCHANGED <<disk, nonce, receipts, sent, undone, sends>>
        /\ \/ network' = network
           \/ network' = network \cup {r.tx} /\ r.tx.nonce >= nonce
    BY <1>6, <2>1, <2>3 DEF Rebroadcast, Reaches, Record, counters
  <2>5. /\ Goto(Ticker, "save", None)
        /\ \/ mem' = mem /\ dropped' = dropped
           \/ dropped' = dropped /\ \E q \in Records : q.tx = r.tx /\ mem' = [mem EXCEPT !.pending = q]
           \/ mem' = Forget(mem) /\ dropped' = dropped \cup {r.tx}
    BY <2>3, <2>4, Wound, CapsAssumption
  <2>6. Stage' = "save" /\ Stage \in Busy \ {"latest", "tag", "commit"}
    BY <2>1, <2>5, Goes DEF Awaits, Busy
  <2> HIDE <1>6
  <2> QED
    BY <2>1, <2>4, <2>5, <2>6, InvWinds
<1> QED
  BY <1>1, <1>2, <1>3, <1>5, <1>6 DEF Resolve

LEMMA InvNext ==
    ASSUME Senders = {Ticker}, TypeOK, TypeOK', Inv, Next
    PROVE  Inv'
<1> USE DEF TypeOK
<1>1. Mempool'
  BY MempoolNext DEF Inv
<1>2. CASE \E s \in Senders : Broadcast(s) \/ Resolve(s)
  BY <1>1, <1>2, BroadcastInv, ResolveInv
<1>3. CASE Mine
  <2>1. PICK t \in network : \E ok \in BOOLEAN, gas \in 1..GasLimit[t.key] :
          /\ receipts' = With(receipts, t, [ok |-> ok, gas |-> gas]) /\ Settled(nonce) /\ t.nonce = nonce
          /\ UNCHANGED <<mem, disk, pc, ghosts, counters>>
    BY <1>3 DEF Mine
  <2>2. t \in Txs /\ GasLimit[t.key] \in Nat /\ nonce \in Nat
    BY CapsAssumption DEF WorldType, Txs
  <2>3. \E e : receipts' = With(receipts, t, e) /\ e.gas \in Nat /\ e.gas <= GasLimit[t.key]
    <3>1. PICK ok \in BOOLEAN, gas \in 1..GasLimit[t.key] : receipts' = With(receipts, t, [ok |-> ok, gas |-> gas])
      BY <2>1
    <3>2. [ok |-> ok, gas |-> gas].gas \in Nat /\ [ok |-> ok, gas |-> gas].gas <= GasLimit[t.key]
      BY <2>2
    <3> QED
      BY <3>1, <3>2
  <2>4. t \notin DOMAIN receipts
    BY <2>1, <2>2 DEF Inv, Mempool
  <2>5. /\ nonce' = nonce + 1 /\ network' = {u \in network : u.nonce > nonce} /\ node' = {u \in node : u.nonce > nonce}
        /\ UNCHANGED <<mem, disk, pc, ghosts, sends>>
    BY <2>1 DEF Settled, counters
  <2>6. network' \in SUBSET network /\ nonce' >= nonce
    BY <2>2, <2>5
  <2> QED
    BY <1>1, <2>3, <2>4, <2>5, <2>6, InvChain
<1>4. CASE MineForeign
  <2>1. /\ nonce' = nonce + 1 /\ network' = {u \in network : u.nonce > nonce} /\ node' = {u \in node : u.nonce > nonce}
        /\ UNCHANGED <<mem, disk, pc, receipts, ghosts, sends>> /\ nonce \in Nat
    BY <1>4 DEF MineForeign, Settled, WorldType
  <2>2. network' \in SUBSET network /\ nonce' >= nonce
    BY <2>1
  <2> QED
    BY <1>1, <2>1, <2>2, InvChain
<1>5. CASE Evict \/ Regossip \/ Vanish
  <2>1. /\ UNCHANGED <<mem, disk, pc, nonce, receipts, ghosts, sends>> /\ nonce \in Nat
        /\ network' \in SUBSET network
    BY <1>5 DEF Evict, Regossip, Vanish, counters, WorldType
  <2>2. nonce' >= nonce
    BY <2>1
  <2> QED
    BY <1>1, <2>1, <2>2, InvChain
<1>6. CASE Restart
  <2>1. mem' = disk /\ UNCHANGED <<disk, chain, ghosts, sends>> /\ Stage' = "idle"
    BY <1>6, CapsAssumption DEF Restart, Stage, Idle
  <2>2. Numbered'
    BY <2>1 DEF Inv, Numbered, Began, chain, ghosts
  <2>3. Outstanding' /\ Informed'
    BY <2>1 DEF Outstanding, Informed, Busy
  <2>4. OneOutstanding'
    BY <2>1 DEF Inv, OneOutstanding, chain, ghosts
  <2>5. Ledgers'
    BY <2>1 DEF Inv, Ledgers, Ledger, chain, ghosts
  <2> QED
    BY <1>1, <2>2, <2>3, <2>4, <2>5 DEF Inv
<1>7. CASE Pass
  <2>1. /\ Stage = "idle" /\ Stage' = "idle" /\ mem' = Aged(mem) /\ disk' = Aged(disk)
        /\ sent' = [t \in {u \in DOMAIN sent : sent[u] + 1 < Window} |-> sent[t] + 1]
        /\ UNCHANGED <<chain, dropped, undone, sends>>
    BY <1>7, CapsAssumption DEF Pass, Stage, At, counters
  <2>2. PICK mem2, disk2, sent2 : mem2 = mem' /\ disk2 = disk' /\ sent2 = sent'
    OBVIOUS
  <2>3. /\ (mem2.pending = None <=> mem.pending = None) /\ (mem.pending # None => mem2.pending.tx = mem.pending.tx)
        /\ (disk2.pending = None <=> disk.pending = None) /\ (disk.pending # None => disk2.pending.tx = disk.pending.tx)
        /\ mem \in States /\ disk \in States
    BY <2>1, <2>2, AgedState DEF GuardType
  <2>4. /\ DOMAIN sent2 = {u \in DOMAIN sent : sent[u] + 1 < Window}
        /\ \A u \in DOMAIN sent2 : sent2[u] = sent[u] + 1
    BY <2>1, <2>2
  <2>5. Numbered'
    BY <2>1, <2>2, <2>3, <2>4 DEF Inv, Numbered, Began, chain
  <2>6. Outstanding' /\ Informed'
    BY <2>1, <2>2, <2>3 DEF Inv, Outstanding, Informed, Busy
  <2>7. OneOutstanding'
    BY <2>1, <2>2, <2>3 DEF Inv, OneOutstanding, chain
  <2>8. ASSUME NEW state \in {mem, disk}
        PROVE  /\ Dated(Aged(state), sent2) /\ Reserved(Aged(state), sent2)
               /\ Covers(Aged(state), sent2, undone, network, receipts) /\ Capped(Aged(state), 0, 0)
    <3>1. \A u \in DOMAIN sent : sent[u] \in Nat
      BY TimesAssumption DEF WorldType
    <3>2. /\ state \in States /\ IsFiniteSet(DOMAIN sent) /\ Dated(state, sent) /\ Reserved(state, sent)
          /\ Covers(state, sent, undone, network, receipts) /\ Capped(state, 0, 0)
      BY <2>3 DEF Inv, Ledgers, Ledger
    <3> QED
      BY <2>4, <3>1, <3>2, LedgerAged
  <2>9. IsFiniteSet(DOMAIN sent2)
    <3>1. DOMAIN sent2 \subseteq DOMAIN sent /\ IsFiniteSet(DOMAIN sent)
      BY <2>4 DEF Inv, Ledgers
    <3> QED
      BY <3>1, FS_Subset
  <2>10. Ledgers'
    BY <2>1, <2>2, <2>8, <2>9 DEF Ledgers, Ledger, chain
  <2> QED
    BY <1>1, <2>5, <2>6, <2>7, <2>10 DEF Inv
<1> QED
  BY <1>2, <1>3, <1>4, <1>5, <1>6, <1>7 DEF Next, Chain

LEMMA InvInit ==
    ASSUME Init
    PROVE  Inv
<1>1. PICK c : c = <<>>
  OBVIOUS
<1>2. DOMAIN c = {}
  BY <1>1
<1>3. /\ mem = [pending |-> None, charges |-> c] /\ disk = mem /\ receipts = c /\ sent = c
      /\ network = {} /\ node = {} /\ nonce = 0 /\ sends = 0 /\ Stage = "idle"
  BY <1>1, CapsAssumption DEF Init, Stage, Idle
<1>4. Mempool /\ Numbered /\ Outstanding /\ Informed /\ OneOutstanding
  BY <1>2, <1>3 DEF Mempool, Numbered, Began, Outstanding, Informed, OneOutstanding, Busy
<1>5. GasUsed(mem) = 0 /\ OutUsed(mem) = 0
  <2> DEFINE f == [t \in DOMAIN mem.charges |-> mem.charges[t].gas]
             h == [t \in DOMAIN mem.charges |-> mem.charges[t].out]
  <2>1. f \in [{} -> Int] /\ h \in [{} -> Int] /\ IsFiniteSet({})
    BY <1>2, <1>3, FS_EmptySet
  <2> HIDE DEF f, h
  <2>2. SumFunction(f) = 0 /\ SumFunction(h) = 0
    BY <2>1, TotalZero
  <2> QED
    BY <2>2 DEF GasUsed, OutUsed, f, h
<1>6. Ledger(mem)
  BY <1>2, <1>3, <1>5, CapsAssumption DEF Ledger, Dated, Reserved, Covers, Capped
<1>7. Ledgers
  BY <1>2, <1>3, <1>6, FS_EmptySet DEF Ledgers
<1> QED
  BY <1>4, <1>7 DEF Inv

(* The inductive invariant: whatever may still mine is on record, and what *)
(* was charged for it covers what it may cost; dropped or undone sends     *)
(* excepted (guard.ts, broadcast and resolvePending).                      *)
THEOREM Invariance ==
    ASSUME Senders = {Ticker}
    PROVE  Spec => []Inv
<1>1. TypeOK /\ TypeOK' /\ Inv /\ [Next]_vars => Inv'
  <2>1. ASSUME TypeOK, Inv, UNCHANGED vars PROVE Inv'
    BY <2>1 DEF vars, chain, ghosts, counters, Inv, Mempool, Numbered, Began, Outstanding, Informed, OneOutstanding,
                Ledgers, Ledger, Stage, Record
  <2> QED
    BY <2>1, InvNext
<1> QED
  BY <1>1, InvInit, TypeCorrect, PTL DEF Spec

-----------------------------------------------------------------------------
(* Results                                                                 *)

(* While only the ticker sends, a transaction that a node may still mine   *)
(* is the one the guard holds, in memory and in the store, or one it gave  *)
(* up, or took back on a "not found" while another node had it; through    *)
(* every crash, failed save and lost answer (guard.ts, broadcast and       *)
(* resolvePending).                                                        *)
THEOREM OneAtATime ==
    ASSUME Senders = {Ticker}
    PROVE  Spec => []OneOutstanding
<1>1. Inv => OneOutstanding
  BY DEF Inv
<1> QED
  BY <1>1, Invariance, PTL

(* And what it has really spent within the hour, or may yet, of gas and of *)
(* outflow, stays within the hourly budgets (policy.ts, Budget), by every  *)
(* send but those taken back while another node had them.                  *)
THEOREM BudgetsHold ==
    ASSUME Senders = {Ticker}
    PROVE  Spec => []WithinBudget
<1>1. TypeOK /\ Inv => WithinBudget
  BY CoveredIsCapped DEF Inv
<1> QED
  BY <1>1, Invariance, TypeCorrect, PTL

(* A step of the guard that lets go of its transaction.                    *)
LEMMA LetsGo ==
    ASSUME Senders = {Ticker}, TypeOK, TypeOK', Inv, Next, NEW t \in node,
           mem.pending # None, mem.pending.tx = t, mem'.pending = None
    PROVE  crashes' # crashes
<1> USE DEF TypeOK
<1>1. t \in Txs /\ t \in network /\ t \notin DOMAIN receipts /\ t.nonce \in Nat /\ t.nonce >= nonce /\ nonce \in Nat
  BY DEF WorldType, Txs, Inv, Mempool
<1>2. mem' # mem
  OBVIOUS
<1>3. ASSUME NEW r \in Records, NEW cur \in Records \cup {None}, NEW absent, Wind(Ticker, r, cur, absent)
      PROVE  absent /\ r.age >= Drop
  <2>1. \A q \in Records : [mem EXCEPT !.pending = q].pending # None
    BY PendingSet, NoneAssumption DEF GuardType
  <2>2. \/ mem' = mem
        \/ \E q \in Records : mem' = [mem EXCEPT !.pending = q]
        \/ absent /\ r.age >= Drop
    <3>1. GuardType /\ Ticker \in Senders
      BY CapsAssumption
    <3> QED
      BY <1>3, <3>1, Wound
  <2> QED
    BY <1>2, <2>1, <2>2
<1>4. ASSUME Broadcast(Ticker) PROVE FALSE
  <2>1. CASE Sign(Ticker)
    <3>1. PICK r \in Records : r = Record
      BY <2>1, AtRecord DEF Sign, At, Stage, Busy, Awaits
    <3>2. mem'.pending = r
      BY <2>1, <3>1, Signed DEF Sign, Record
    <3> QED
      BY <3>2, NoneAssumption
  <2>2. CASE CommitFails(Ticker)
    <3>1. Stage = "commit" /\ mem.pending = Record
      BY <2>2, AtRecord DEF CommitFails, At, Stage, Busy, Awaits
    <3>2. t.copy = sends /\ Began(sends - 1) /\ sends \in Nat
      BY <3>1 DEF Inv, Numbered, WorldType
    <3> QED
      BY <1>1, <3>2 DEF Began
  <2>3. CASE AskedUnknown(Ticker)
    <3>1. mem.pending = Record
      BY <2>3, AtRecord DEF AskedUnknown, At, Stage, Busy, Awaits
    <3> QED
      BY <2>3, <3>1 DEF AskedUnknown, Known, Record
  <2>4. CASE \/ Start(Ticker) \/ Abort(Ticker) \/ ReadLatest(Ticker) \/ Refuse(Ticker) \/ Commit(Ticker)
             \/ Send(Ticker) \/ SendFails(Ticker) \/ AskedKnown(Ticker) \/ Save(Ticker)
    BY <1>2, <2>4 DEF Start, Abort, ReadLatest, Refuse, Commit, Send, SendFails, AskedKnown, Save
  <2> QED
    BY <1>4, <2>1, <2>2, <2>3, <2>4 DEF Broadcast
<1>5. ASSUME Resolve(Ticker) PROVE FALSE
  <2>1. Stage # "idle" => Record \in Records /\ mem.pending = Record /\ Record.tx = t
    BY <1>5, AtRecord DEF Resolve, Tick, ReceiptFound, ReceiptMissing, NoncePast, NonceNotPast, RereadFound,
                          Replaced, KnownOrError, KnownAbsent, Rebroadcast, At, Stage, Busy, Awaits
  <2>2. CASE Tick(Ticker) \/ NoncePast(Ticker) \/ NonceNotPast(Ticker)
    BY <1>2, <2>2 DEF Tick, NoncePast, NonceNotPast
  <2>3. CASE ReceiptFound(Ticker) \/ RereadFound(Ticker)
    BY <1>1, <2>1, <2>3 DEF ReceiptFound, RereadFound, At, Stage, Record
  <2>4. CASE Replaced(Ticker)
    BY <1>1, <2>1, <2>4 DEF Replaced, At, Stage, Record, Inv, Informed
  <2>5. CASE ReceiptMissing(Ticker) \/ KnownOrError(Ticker)
    <3>1. Record \in Records /\ mem.pending = Record
      BY <2>1, <2>5 DEF ReceiptMissing, KnownOrError, At, Stage
    <3>2. Wind(Ticker, Record, Record, FALSE)
      BY <1>2, <2>5, <3>1 DEF ReceiptMissing, KnownOrError, Record
    <3> QED
      BY <1>3, <3>1, <3>2
  <2>6. CASE KnownAbsent(Ticker)
    BY <2>1, <2>6 DEF KnownAbsent, Known, At, Stage, Record
  <2>7. CASE Rebroadcast(Ticker)
    <3>1. PICK r \in Records : r = Record /\ r.tries < MaxTries /\ r.age < Drop
      BY <2>1, <2>7, CapsAssumption DEF Rebroadcast, At, Stage, Record, CallerType
    <3>2. [r EXCEPT !.tries = r.tries + 1, !.since = 0] \in Records
      BY <3>1, Retried
    <3>3. Wind(Ticker, r, [r EXCEPT !.tries = r.tries + 1, !.since = 0], TRUE)
      BY <2>7, <3>1 DEF Rebroadcast, Record
    <3>4. r.age >= Drop
      BY <1>3, <3>2, <3>3
    <3>5. r.age \in Nat /\ Drop \in Nat
      BY TimesAssumption DEF Records
    <3> QED
      BY <3>1, <3>4, <3>5
  <2> QED
    BY <1>5, <2>2, <2>3, <2>4, <2>5, <2>6, <2>7 DEF Resolve
<1>6. CASE Chain
  BY <1>2, <1>6 DEF Chain, Mine, MineForeign, Evict, Regossip, Vanish
<1>7. CASE Restart
  BY <1>7 DEF Restart, WorldType
<1>8. CASE Pass
  BY <1>8, AgedState DEF Pass, GuardType
<1> QED
  BY <1>4, <1>5, <1>6, <1>7, <1>8 DEF Next

(* Only a crash makes the guard forget a transaction that the node it asks *)
(* holds: not a missing receipt, nor an error, nor a replacement           *)
(* (guard.ts, resolvePending).                                             *)
THEOREM OnlyTheGone ==
    ASSUME Senders = {Ticker}
    PROVE  Spec => ForgetsOnlyGone
<1>1. TypeOK /\ TypeOK' /\ Inv /\ [Next]_vars =>
        [\A t \in node : (mem.pending # None /\ mem.pending.tx = t /\ mem'.pending = None) => crashes' # crashes]_vars
  BY LetsGo
<1> QED
  BY <1>1, Invariance, TypeCorrect, PTL DEF Spec, ForgetsOnlyGone

-----------------------------------------------------------------------------
(* The engine.                                                             *)

Kinds == {"filled", "passed"}
Figures == Nat \cup {Nothing}
HoldTable == UNION {[S -> [fillable : Nat, why : Kinds, over : BOOLEAN]] : S \in SUBSET Orders}
Pendings == [order : Orders, fillable : Figures]
Places == {"idle", "price", "fetch", "sweep", "asked", "sent"}

EngineTypeOK ==
    /\ room \in [Orders -> Nat] /\ served \in [Orders -> Nat]
    /\ fate \in {"flying", "mined", "reverted", "lost"}
    /\ seen \subseteq Orders /\ holds \in HoldTable /\ filled \in Nat /\ took \in Int
    /\ pending \in Pendings \cup {Nothing}
    /\ saved.filled \in Nat /\ saved.pending \in Pendings \cup {Nothing}
    /\ saved.ownFills \in UNION {[S -> Nat] : S \in SUBSET Orders}
    /\ own \subseteq Orders
    /\ tick.at \in Places /\ tick.queue \in Seq(Orders)
    /\ tick.at \in {"sweep", "asked", "sent"} => tick.fillable \in [Orders -> Nat]
    /\ tick.at \in {"asked", "sent"} => tick.queue # <<>>

(* The transaction in memory is the one on disk, but between its landing   *)
(* and the save that counts it.                                            *)
OnRecord ==
    /\ saved.filled = filled
    /\ tick.at = "price" => pending = Nothing /\ fate = "mined" /\ saved.pending # Nothing /\ tick.tx = saved.pending
    /\ tick.at # "price" => saved.pending = pending
    /\ tick.at \in {"fetch", "sweep", "asked"} => pending = Nothing
    /\ tick.at = "sent" /\ pending # Nothing => pending.fillable = Nothing

(* What was mined is counted, or is the outstanding transaction; nothing is*)
(* sent but below the cap.                                                 *)
InFlight == IF saved.pending # Nothing /\ fate = "mined" THEN Value[saved.pending.order] ELSE 0
Counted ==
    /\ took = filled + InFlight
    /\ tick.at \in {"sweep", "asked"} \/ saved.pending # Nothing => filled < Cap
    /\ \E o \in Orders : filled < Cap + Value[o]

(* The outstanding transaction filled o at the figure still served.        *)
ToLand(p, o) == p # Nothing /\ fate = "mined" /\ p.order = o /\ p.fillable = served[o]

(* A hold of an own fill, at a figure, that lasts.                         *)
Holds(h, o, figure) == o \in DOMAIN h /\ h[o].why = "filled" /\ h[o].over = FALSE /\ h[o].fillable = figure

(* Every own fill the book must not offer is held at the figure it serves, *)
(* in memory and on disk, or its transaction is still to land; no other    *)
(* transaction of that order is outstanding; and none of them is in line.  *)
OwnHeld == \A o \in own :
    /\ ToLand(pending, o) \/ Holds(holds, o, served[o])
    /\ ToLand(saved.pending, o) \/ (o \in DOMAIN saved.ownFills /\ saved.ownFills[o] = served[o])
    /\ saved.pending # Nothing /\ saved.pending.order = o => ToLand(saved.pending, o)
NotInLine == tick.at \in {"sweep", "asked"} => tick.queue \in Seq(Orders \ own)

EngineInv == EngineTypeOK /\ OnRecord /\ Counted /\ OwnHeld /\ NotInLine

-----------------------------------------------------------------------------
(* What is saved, and the tables of holds.                                 *)

LEMMA HoldTyped ==
    ASSUME holds \in HoldTable, NEW o \in Orders, NEW f \in Nat, NEW why \in Kinds
    PROVE  Hold(o, f, why) \in HoldTable
<1>1. PICK S \in SUBSET Orders : holds \in [S -> [fillable : Nat, why : Kinds, over : BOOLEAN]]
  BY DEF HoldTable
<1>2. Hold(o, f, why) \in [S \cup {o} -> [fillable : Nat, why : Kinds, over : BOOLEAN]]
  BY <1>1 DEF Hold
<1> QED
  BY <1>2 DEF HoldTable

LEMMA FewerHolds ==
    ASSUME holds \in HoldTable, NEW S
    PROVE  Restrict(holds, DOMAIN holds \cap S) \in HoldTable /\ Restrict(holds, DOMAIN holds \ S) \in HoldTable
<1>1. PICK T \in SUBSET Orders : holds \in [T -> [fillable : Nat, why : Kinds, over : BOOLEAN]]
  BY DEF HoldTable
<1>2. /\ Restrict(holds, DOMAIN holds \cap S) \in [T \cap S -> [fillable : Nat, why : Kinds, over : BOOLEAN]]
      /\ Restrict(holds, DOMAIN holds \ S) \in [T \ S -> [fillable : Nat, why : Kinds, over : BOOLEAN]]
  BY <1>1 DEF Restrict
<1> QED
  BY <1>2 DEF HoldTable

(* What is saved of the holds is the own fills that still last.            *)
LEMMA SavedHolds ==
    ASSUME NEW h \in HoldTable
    PROVE  /\ OwnFills(h) \in UNION {[S -> Nat] : S \in SUBSET Orders}
           /\ \A o \in DOMAIN h : h[o].why = "filled" /\ ~h[o].over =>
                 o \in DOMAIN OwnFills(h) /\ OwnFills(h)[o] = h[o].fillable
<1>1. PICK T \in SUBSET Orders : h \in [T -> [fillable : Nat, why : Kinds, over : BOOLEAN]]
  BY DEF HoldTable
<1> DEFINE S == {p \in DOMAIN h : h[p].why = "filled" /\ ~h[p].over}
<1>2. S \in SUBSET Orders /\ OwnFills(h) \in [S -> Nat]
  BY <1>1 DEF OwnFills
<1> QED
  BY <1>1, <1>2 DEF OwnFills
(* The initial state holds nothing, and nothing is outstanding.            *)
LEMMA EngineInitInv == EngineInit => EngineInv
<1> SUFFICES ASSUME EngineInit PROVE EngineInv
  OBVIOUS
<1>1. EngineTypeOK
  <2>1. holds \in HoldTable
    <3>1. holds \in [{} -> [fillable : Nat, why : Kinds, over : BOOLEAN]]
      BY DEF EngineInit
    <3> QED
      BY <3>1 DEF HoldTable
  <2>2. saved.ownFills \in UNION {[S -> Nat] : S \in SUBSET Orders}
    <3>1. saved.ownFills \in [{} -> Nat]
      BY DEF EngineInit
    <3> QED
      BY <3>1
  <2>3. tick.at = "idle" /\ tick.queue = <<>> /\ <<>> \in Seq(Orders)
    BY DEF EngineInit, NoTick
  <2>4. served \in [Orders -> Nat] /\ room \in [Orders -> Nat]
    BY EngineAssumption DEF EngineInit
  <2>5. saved.filled \in Nat /\ saved.pending = Nothing
    BY DEF EngineInit
  <2>6. fate = "lost" /\ seen = {} /\ filled = 0 /\ took = 0 /\ pending = Nothing /\ own = {}
    BY DEF EngineInit
  <2> QED
    BY <2>1, <2>2, <2>3, <2>4, <2>5, <2>6 DEF EngineTypeOK, Places
<1>2. OnRecord
  BY DEF EngineInit, OnRecord, NoTick
<1>3. Counted
  <2>1. PICK o \in Orders : TRUE
    BY EngineAssumption
  <2>2. Cap \in Nat \ {0} /\ Value[o] \in Nat
    BY EngineAssumption
  <2> QED
    BY <2>1, <2>2 DEF EngineInit, Counted, InFlight, NoTick
<1>4. OwnHeld /\ NotInLine
  BY DEF EngineInit, OwnHeld, NotInLine, NoTick
<1> QED
  BY <1>1, <1>2, <1>3, <1>4 DEF EngineInv

(* What lies in memory covers the own fills when nothing is to land.       *)
LEMMA CoveredUnlessToLand ==
    ASSUME EngineInv, pending = Nothing \/ fate # "mined"
    PROVE  \A o \in own : Holds(holds, o, served[o])
BY DEF EngineInv, OwnHeld, ToLand

(* Saving such a memory covers the disk.                                   *)
LEMMA SaveCovers ==
    ASSUME NEW h \in HoldTable, NEW S, NEW f, \A o \in S : Holds(h, o, f[o])
    PROVE  \A o \in S : o \in DOMAIN OwnFills(h) /\ OwnFills(h)[o] = f[o]
BY SavedHolds DEF Holds

(* A step of the tick that leaves what is outstanding as it is, but for    *)
(* what is held of other orders, and saves or does not.                    *)
LEMMA MemoryOnly ==
    ASSUME EngineInv, pending = Nothing, holds' \in HoldTable, own' \subseteq own, \A o \in own' : Holds(holds', o, served[o]),
           UNCHANGED <<served, fate, pending, filled, took>>, tick'.at # "sent", tick'.at # "price",
           tick.at # "price", tick'.at \in {"sweep", "asked"} => filled < Cap,
           saved' = saved \/ saved' = Snapshot(holds', cursor', filled', pending')
    PROVE  /\ saved'.filled \in Nat /\ saved'.pending \in Pendings \cup {Nothing}
           /\ saved'.ownFills \in UNION {[S -> Nat] : S \in SUBSET Orders}
           /\ OnRecord' /\ Counted' /\ OwnHeld'
<1>1. saved.pending = Nothing /\ saved.filled = filled /\ filled \in Nat /\ own \subseteq Orders
  BY DEF EngineInv, OnRecord, EngineTypeOK
<1>2. CASE saved' = saved
  <2>1. \A o \in own' : served'[o] = served[o] /\ o \in own
    OBVIOUS
  <2> QED
    BY <1>1, <1>2, <2>1 DEF EngineInv, EngineTypeOK, OnRecord, Counted, InFlight, OwnHeld, ToLand
<1>3. CASE saved' = Snapshot(holds', cursor', filled', pending')
  <2>1. saved'.filled = filled /\ saved'.pending = Nothing /\ saved'.ownFills = OwnFills(holds')
    BY <1>3 DEF Snapshot
  <2>2. \A o \in own' : o \in DOMAIN OwnFills(holds') /\ OwnFills(holds')[o] = served'[o]
    BY SaveCovers
  <2>3. OwnFills(holds') \in UNION {[S -> Nat] : S \in SUBSET Orders}
    BY SavedHolds
  <2> QED
    BY <1>1, <2>1, <2>2, <2>3 DEF EngineInv, EngineTypeOK, OnRecord, Counted, InFlight, OwnHeld, ToLand
<1> QED
  BY <1>2, <1>3

(* What every step of the sweep leaves alone, or moves within its types.   *)
LEMMA TickTyped ==
    ASSUME EngineInv, room' = room, served' = served, fate' = fate, seen' \subseteq Orders, holds' \in HoldTable,
           filled' = filled, took' = took, pending' \in Pendings \cup {Nothing}, own' \subseteq own,
           saved'.filled \in Nat, saved'.pending \in Pendings \cup {Nothing},
           saved'.ownFills \in UNION {[S -> Nat] : S \in SUBSET Orders},
           tick'.at \in Places, tick'.queue \in Seq(Orders),
           tick'.at \in {"sweep", "asked", "sent"} => tick'.fillable \in [Orders -> Nat],
           tick'.at \in {"asked", "sent"} => tick'.queue # <<>>
    PROVE  EngineTypeOK'
<1>1. own' \subseteq Orders
  BY DEF EngineInv, EngineTypeOK
<1> QED
  BY <1>1 DEF EngineInv, EngineTypeOK

LEMMA IdleTyped ==
    /\ NoTick.at = "idle" /\ NoTick.queue = <<>> /\ NoTick.queue \in Seq(Orders)
    /\ [NoTick EXCEPT !.at = "fetch"].at = "fetch" /\ [NoTick EXCEPT !.at = "fetch"].queue = <<>>
BY DEF NoTick

(* The order in hand is no own fill, and passing it leaves the others.     *)
LEMMA InHand ==
    ASSUME EngineInv, tick.at \in {"sweep", "asked"}, tick.queue # <<>>
    PROVE  /\ Front1 \in Orders \ own /\ tick.fillable[Front1] \in Nat
           /\ Tail(tick.queue) \in Seq(Orders \ own) /\ Tail(tick.queue) \in Seq(Orders)
<1>1. tick.queue \in Seq(Orders \ own)
  BY DEF EngineInv, NotInLine
<1>2. Front1 \in Orders \ own /\ Tail(tick.queue) \in Seq(Orders \ own)
  BY <1>1 DEF Front1
<1>3. Tail(tick.queue) \in Seq(Orders)
  BY DEF EngineInv, EngineTypeOK
<1>4. tick.fillable[Front1] \in Nat
  BY <1>2 DEF EngineInv, EngineTypeOK
<1> QED
  BY <1>2, <1>3, <1>4

(* An order is passed: what is held of it may change, nothing of others.   *)
LEMMA PassedInv ==
    ASSUME EngineInv, tick.at \in {"sweep", "asked"}, tick.queue # <<>>,
           holds' \in {holds, Restrict(holds, DOMAIN holds \ {Front1}), Hold(Front1, tick.fillable[Front1], "passed")},
           seen' \in {seen, seen \cup {Front1}},
           tick'.at = "sweep", tick'.queue = Tail(tick.queue), tick'.fillable = tick.fillable,
           UNCHANGED <<room, served, fate, filled, pending, saved, took, own>>
    PROVE  EngineInv'
<1>1. pending = Nothing /\ saved.pending = Nothing /\ filled < Cap
  BY DEF EngineInv, OnRecord, Counted
<1>2. holds' \in HoldTable
  BY InHand, HoldTyped, FewerHolds DEF EngineInv, EngineTypeOK, Kinds
<1>3. ASSUME NEW o \in own' PROVE Holds(holds', o, served'[o])
  <2>1. Holds(holds, o, served[o]) /\ o # Front1
    BY <1>1, CoveredUnlessToLand, InHand
  <2> QED
    BY <2>1 DEF Holds, Hold, Restrict
<1>4. /\ saved'.filled \in Nat /\ saved'.pending \in Pendings \cup {Nothing}
      /\ saved'.ownFills \in UNION {[S -> Nat] : S \in SUBSET Orders}
      /\ OnRecord' /\ Counted' /\ OwnHeld'
  BY <1>1, <1>2, <1>3, MemoryOnly
<1>5. EngineTypeOK'
  <2>1. seen' \subseteq Orders /\ tick'.fillable \in [Orders -> Nat] /\ pending' \in Pendings \cup {Nothing}
    BY InHand DEF EngineInv, EngineTypeOK
  <2> QED
    BY <1>2, <1>4, <2>1, InHand, TickTyped DEF Places
<1>6. NotInLine'
  BY InHand DEF NotInLine
<1> QED
  BY <1>4, <1>5, <1>6 DEF EngineInv

(* The tick ends with nothing outstanding, and what changed is saved.      *)
LEMMA EndedInv ==
    ASSUME EngineInv, tick.at \in {"fetch", "sweep", "asked"}, Ended,
           UNCHANGED <<room, served, fate, seen, holds, filled, pending, took, own>>
    PROVE  EngineInv'
<1>1. pending = Nothing /\ holds \in HoldTable
  BY DEF EngineInv, OnRecord, EngineTypeOK
<1>2. \A o \in own' : Holds(holds', o, served'[o])
  BY <1>1, CoveredUnlessToLand
<1>3. tick' = NoTick /\ saved' = Snapshot(holds', cursor', filled', pending')
  BY DEF Ended
<1>4. /\ saved'.filled \in Nat /\ saved'.pending \in Pendings \cup {Nothing}
      /\ saved'.ownFills \in UNION {[S -> Nat] : S \in SUBSET Orders}
      /\ OnRecord' /\ Counted' /\ OwnHeld'
  BY <1>1, <1>2, <1>3, IdleTyped, MemoryOnly
<1>5. EngineTypeOK'
  BY <1>1, <1>3, <1>4, IdleTyped, TickTyped DEF EngineInv, EngineTypeOK, Places
<1>6. NotInLine'
  BY <1>3, IdleTyped DEF NotInLine
<1> QED
  BY <1>4, <1>5, <1>6 DEF EngineInv

LEMMA LargerSetOfSequences ==
    ASSUME NEW S, NEW T, NEW U, NEW q \in Seq(S), S \subseteq T, T \subseteq U
    PROVE  q \in Seq(U)
OBVIOUS

(* The lines of a set are sequences of it.                                 *)
LEMMA LinesAreSequences ==
    ASSUME NEW S \in SUBSET Orders, NEW q \in Lines(S)
    PROVE  q \in Seq(S)
<1>1. IsFiniteSet(S)
  BY EngineAssumption, FS_Subset
<1>2. Cardinality(S) \in Nat
  BY <1>1, FS_CardinalityType
<1> QED
  BY <1>2 DEF Lines

-----------------------------------------------------------------------------
(* The steps of the tick.                                                  *)

LEMMA WaitsInv == ASSUME EngineInv, Waits PROVE EngineInv'
<1>1. /\ tick.at = "idle" /\ pending # Nothing /\ fate = "flying" /\ saved' = Snapshot(holds, cursor, filled, pending)
      /\ UNCHANGED <<room, served, fate, seen, holds, cursor, filled, pending, tick, took, own>>
  BY DEF Waits, Resolved, memory
<1>2. saved.pending = pending /\ holds \in HoldTable /\ own \subseteq Orders /\ filled \in Nat
  BY <1>1 DEF EngineInv, OnRecord, EngineTypeOK
<1>3. saved'.filled = filled /\ saved'.pending = pending /\ saved'.ownFills = OwnFills(holds)
  BY <1>1 DEF Snapshot
<1>4. \A o \in own : Holds(holds, o, served[o])
  BY <1>1, CoveredUnlessToLand
<1>5. /\ saved'.ownFills \in UNION {[S -> Nat] : S \in SUBSET Orders}
      /\ \A o \in own : o \in DOMAIN OwnFills(holds) /\ OwnFills(holds)[o] = served[o]
  BY <1>2, <1>3, <1>4, SaveCovers, SavedHolds
<1>6. EngineTypeOK'
  BY <1>1, <1>2, <1>3, <1>5 DEF EngineInv, EngineTypeOK
<1>7. OnRecord' /\ Counted'
  BY <1>1, <1>2, <1>3 DEF EngineInv, OnRecord, Counted, InFlight
<1>8. OwnHeld' /\ NotInLine'
  BY <1>1, <1>2, <1>3, <1>5 DEF EngineInv, OwnHeld, NotInLine, ToLand
<1> QED
  BY <1>6, <1>7, <1>8 DEF EngineInv

LEMMA LandsInv == ASSUME EngineInv, Lands PROVE EngineInv'
<1>1. /\ tick.at = "idle" /\ pending # Nothing /\ fate = "mined" /\ pending' = Nothing
      /\ holds' = IF pending.fillable = Nothing THEN holds ELSE Hold(pending.order, pending.fillable, "filled")
      /\ own' = IF pending.fillable = served[pending.order] THEN own \cup {pending.order} ELSE own
      /\ tick' = [tick EXCEPT !.at = "price", !.tx = pending]
      /\ UNCHANGED <<room, served, fate, seen, cursor, filled, saved, took>>
  BY DEF Lands, Resolved
<1>2. /\ saved.pending = pending /\ pending.order \in Orders /\ pending.fillable \in Nat \cup {Nothing}
      /\ served \in [Orders -> Nat] /\ Nothing \notin Nat
  BY <1>1, EngineAssumption DEF EngineInv, OnRecord, EngineTypeOK, Pendings, Figures
<1>3. holds' \in HoldTable
  BY <1>1, <1>2, HoldTyped DEF EngineInv, EngineTypeOK, Kinds
<1>4. tick'.at = "price" /\ tick'.tx = pending /\ tick'.queue = tick.queue
  BY <1>1
<1>5. EngineTypeOK'
  BY <1>1, <1>2, <1>3 DEF EngineInv, EngineTypeOK, Places
<1>6. OnRecord' /\ Counted' /\ NotInLine'
  BY <1>1, <1>2, <1>4 DEF EngineInv, OnRecord, Counted, InFlight, NotInLine
<1>7. ASSUME NEW o \in own' PROVE Holds(holds', o, served'[o])
  <2>1. CASE o = pending.order
    <3>1. pending.fillable = served[o]
      BY <1>1, <1>2, <1>7, <2>1 DEF EngineInv, OwnHeld, ToLand
    <3> QED
      BY <1>1, <1>2, <2>1, <3>1 DEF Holds, Hold
  <2>2. CASE o # pending.order
    <3>1. o \in own /\ Holds(holds, o, served[o])
      BY <1>1, <1>7, <2>2 DEF EngineInv, OwnHeld, ToLand
    <3> QED
      BY <1>1, <2>2, <3>1 DEF Holds, Hold
  <2> QED
    BY <2>1, <2>2
<1>8. ASSUME NEW o \in own'
      PROVE  /\ ToLand(saved.pending, o)' \/ (o \in DOMAIN saved.ownFills /\ saved.ownFills[o] = served[o])
             /\ saved.pending # Nothing /\ saved.pending.order = o => ToLand(saved.pending, o)'
  BY <1>1, <1>2, <1>8 DEF EngineInv, OwnHeld, ToLand
<1>9. OwnHeld'
  BY <1>1, <1>7, <1>8 DEF OwnHeld
<1> QED
  BY <1>5, <1>6, <1>9 DEF EngineInv

(* The fill is counted, or cannot be and leaves the count of those that    *)
(* could; either way the record of it goes, and memory is saved.           *)
LEMMA CountedInv ==
    ASSUME EngineInv, tick.at = "price", filled' \in Nat, took' = filled',
           filled' = filled \/ filled' = filled + Value[tick.tx.order],
           saved' = Snapshot(holds, cursor, filled', pending), tick' = [NoTick EXCEPT !.at = "fetch"],
           UNCHANGED <<room, served, fate, seen, holds, pending, own>>
    PROVE  EngineInv'
<1>1. /\ pending = Nothing /\ saved.pending # Nothing /\ tick.tx = saved.pending /\ holds \in HoldTable
      /\ own \subseteq Orders /\ filled \in Nat
  BY DEF EngineInv, OnRecord, EngineTypeOK
<1>2. tick.tx.order \in Orders /\ filled < Cap
  BY <1>1 DEF EngineInv, EngineTypeOK, Counted, Pendings
<1>3. saved'.filled = filled' /\ saved'.pending = Nothing /\ saved'.ownFills = OwnFills(holds)
  BY <1>1 DEF Snapshot
<1>4. \A o \in own : Holds(holds, o, served[o])
  BY <1>1, CoveredUnlessToLand
<1>5. /\ saved'.ownFills \in UNION {[S -> Nat] : S \in SUBSET Orders}
      /\ \A o \in own : o \in DOMAIN OwnFills(holds) /\ OwnFills(holds)[o] = served[o]
  BY <1>1, <1>3, <1>4, SaveCovers, SavedHolds
<1>6. tick'.at = "fetch" /\ tick'.queue \in Seq(Orders)
  BY IdleTyped DEF NoTick
<1>7. EngineTypeOK'
  BY <1>1, <1>3, <1>5, <1>6 DEF EngineInv, EngineTypeOK, Places
<1>8. \E o \in Orders : filled' < Cap + Value[o]
  <2>1. Cap \in Nat /\ Value[tick.tx.order] \in Nat
    BY <1>2, EngineAssumption
  <2> QED
    BY <1>1, <1>2, <2>1
<1>9. OnRecord' /\ Counted' /\ NotInLine'
  BY <1>1, <1>3, <1>6, <1>8 DEF OnRecord, Counted, InFlight, NotInLine
<1>10. OwnHeld'
  BY <1>1, <1>3, <1>4, <1>5 DEF OwnHeld, ToLand
<1> QED
  BY <1>7, <1>9, <1>10 DEF EngineInv

LEMMA PricedInv == ASSUME EngineInv, Priced \/ Unpriced PROVE EngineInv'
<1>1. tick.at = "price"
  BY DEF Priced, Unpriced
<1>2. /\ filled \in Nat /\ took = filled + Value[tick.tx.order]
      /\ Value[tick.tx.order] \in Nat
  BY <1>1, EngineAssumption DEF EngineInv, OnRecord, Counted, InFlight, EngineTypeOK, Pendings
<1>3. CASE Priced
  BY <1>1, <1>2, <1>3, CountedInv DEF Priced
<1>4. CASE Unpriced
  <2>1. took' = took - Value[tick.tx.order] /\ filled' = filled
    BY <1>4 DEF Unpriced, memory
  <2>2. took' = filled
    BY <1>2, <2>1
  <2> QED
    BY <1>1, <1>2, <1>4, <2>1, <2>2, CountedInv DEF Unpriced, memory
<1> QED
  BY <1>3, <1>4

LEMMA FailsInv == ASSUME EngineInv, Fails PROVE EngineInv'
<1>1. /\ tick.at = "idle" /\ pending # Nothing /\ fate # "mined" /\ pending' = Nothing
      /\ saved' = Snapshot(holds, cursor, filled, Nothing) /\ tick' = [NoTick EXCEPT !.at = "fetch"]
      /\ UNCHANGED <<room, served, fate, seen, holds, cursor, filled, took, own>>
  BY DEF Fails, Resolved
<1>2. saved.pending = pending /\ holds \in HoldTable /\ own \subseteq Orders /\ filled \in Nat
  BY <1>1 DEF EngineInv, OnRecord, EngineTypeOK
<1>3. saved'.filled = filled /\ saved'.pending = Nothing /\ saved'.ownFills = OwnFills(holds)
  BY <1>1 DEF Snapshot
<1>4. \A o \in own : Holds(holds, o, served[o])
  BY <1>1, CoveredUnlessToLand
<1>5. /\ saved'.ownFills \in UNION {[S -> Nat] : S \in SUBSET Orders}
      /\ \A o \in own : o \in DOMAIN OwnFills(holds) /\ OwnFills(holds)[o] = served[o]
  BY <1>2, <1>3, <1>4, SaveCovers, SavedHolds
<1>6. tick'.at = "fetch" /\ tick'.queue \in Seq(Orders)
  BY <1>1, IdleTyped
<1>7. EngineTypeOK'
  BY <1>1, <1>2, <1>3, <1>5, <1>6 DEF EngineInv, EngineTypeOK, Places
<1>8. OnRecord' /\ Counted' /\ NotInLine'
  BY <1>1, <1>2, <1>3, <1>6 DEF EngineInv, OnRecord, Counted, InFlight, NotInLine
<1>9. OwnHeld'
  BY <1>1, <1>3, <1>4, <1>5 DEF OwnHeld, ToLand
<1> QED
  BY <1>7, <1>8, <1>9 DEF EngineInv

LEMMA NothingPendingInv == ASSUME EngineInv, NothingPending PROVE EngineInv'
<1>1. /\ tick.at = "idle" /\ pending = Nothing /\ tick' = [NoTick EXCEPT !.at = "fetch"]
      /\ UNCHANGED <<room, served, fate, seen, holds, cursor, filled, pending, saved, took, own>>
  BY DEF NothingPending, memory
<1>2. tick'.at = "fetch" /\ tick'.queue \in Seq(Orders)
  BY <1>1, IdleTyped
<1>3. EngineTypeOK' /\ OnRecord' /\ Counted'
  BY <1>1, <1>2 DEF EngineInv, EngineTypeOK, OnRecord, Counted, InFlight, Places
<1>4. OwnHeld' /\ NotInLine'
  BY <1>1, <1>2 DEF EngineInv, OwnHeld, NotInLine, ToLand
<1> QED
  BY <1>3, <1>4 DEF EngineInv

LEMMA FetchInv == ASSUME EngineInv, Fetch PROVE EngineInv'
<1> DEFINE listed == {o \in Orders : served[o] > 0}
           kept == Restrict(holds, DOMAIN holds \cap listed)
           inLine == {o \in listed : ~Held(o, kept, served)}
<1>1. PICK fresh \in Lines(inLine \ seen), round \in Lines(inLine \cap seen) :
        /\ tick.at = "fetch" /\ ~CapReached
        /\ holds' = kept /\ seen' = seen \cap listed /\ own' = own \cap listed
        /\ tick' = [NoTick EXCEPT !.at = "sweep", !.fillable = served, !.queue = fresh \o round]
        /\ UNCHANGED <<room, served, fate, cursor, filled, pending, saved, left, took>>
  BY DEF Fetch
<1>2. pending = Nothing /\ holds \in HoldTable /\ filled \in Nat /\ served \in [Orders -> Nat]
  BY <1>1 DEF EngineInv, OnRecord, EngineTypeOK
<1>3. holds' \in HoldTable
  BY <1>1, <1>2, FewerHolds
<1>4. ASSUME NEW o \in own' PROVE Holds(holds', o, served'[o]) /\ Held(o, kept, served)
  <2>1. Holds(holds, o, served[o]) /\ o \in listed
    BY <1>1, <1>2, CoveredUnlessToLand
  <2> QED
    BY <1>1, <2>1 DEF Holds, Held, Restrict
<1>5. fresh \o round \in Seq(Orders \ own') /\ fresh \o round \in Seq(Orders)
  <2>1. fresh \in Seq(inLine \ seen) /\ round \in Seq(inLine \cap seen)
    BY LinesAreSequences
  <2>2. inLine \subseteq Orders \ own'
    BY <1>4
  <2>3. fresh \in Seq(Orders \ own') /\ round \in Seq(Orders \ own')
    <3>1. inLine \ seen \subseteq inLine /\ inLine \cap seen \subseteq inLine
      OBVIOUS
    <3> HIDE DEF inLine
    <3> QED
      BY <2>1, <2>2, <3>1, LargerSetOfSequences
  <2> QED
    BY <2>3
<1>6. tick'.at = "sweep" /\ tick'.fillable = served /\ tick'.queue = fresh \o round
  BY <1>1 DEF NoTick
<1>7. filled < Cap
  BY <1>1, <1>2, EngineAssumption DEF CapReached
<1>8. /\ saved'.filled \in Nat /\ saved'.pending \in Pendings \cup {Nothing}
      /\ saved'.ownFills \in UNION {[S -> Nat] : S \in SUBSET Orders}
      /\ OnRecord' /\ Counted' /\ OwnHeld'
  <2>1. own' \subseteq own /\ saved' = saved
    BY <1>1
  <2>2. \A o \in own' : Holds(holds', o, served[o])
    BY <1>1, <1>4
  <2> QED
    BY <1>1, <1>2, <1>3, <1>6, <1>7, <2>1, <2>2, MemoryOnly
<1>9. EngineTypeOK'
  <2>1. seen' \subseteq Orders /\ own' \subseteq own /\ pending' \in Pendings \cup {Nothing}
    BY <1>1 DEF EngineInv, EngineTypeOK
  <2> QED
    BY <1>1, <1>2, <1>3, <1>5, <1>6, <1>8, <2>1, TickTyped DEF Places
<1>10. NotInLine'
  BY <1>5, <1>6 DEF NotInLine
<1> QED
  BY <1>8, <1>9, <1>10 DEF EngineInv

LEMMA SweepSteps ==
    ASSUME EngineInv, StageDead \/ StageFails \/ Unfit \/ Rests \/ Skips
    PROVE  EngineInv'
<1>1. tick.at \in {"sweep", "asked"} /\ tick.queue # <<>>
  <2>1. tick.at = "asked" => tick.queue # <<>>
    BY DEF EngineInv, EngineTypeOK
  <2> QED
    BY <2>1 DEF StageDead, StageFails, Unfit, Rests, Skips, AtOrder, Asked
<1>2. /\ tick'.at = "sweep" /\ tick'.queue = Tail(tick.queue) /\ tick'.fillable = tick.fillable
      /\ holds' \in {holds, Restrict(holds, DOMAIN holds \ {Front1}), Hold(Front1, tick.fillable[Front1], "passed")}
      /\ seen' \in {seen, seen \cup {Front1}}
      /\ UNCHANGED <<room, served, fate, filled, pending, saved, took, own>>
  <2>1. CASE StageDead
    BY <2>1 DEF StageDead, Passed
  <2>2. CASE StageFails
    BY <2>2 DEF StageFails, Passed
  <2>3. CASE Unfit
    BY <2>3 DEF Unfit, Passed
  <2>4. CASE Rests
    BY <2>4 DEF Rests, Passed
  <2>5. CASE Skips
    BY <2>5 DEF Skips, Passed, memory
  <2> QED
    BY <2>1, <2>2, <2>3, <2>4, <2>5
<1> QED
  BY <1>1, <1>2, PassedInv

LEMMA EndingSteps ==
    ASSUME EngineInv, NoSweep \/ SweepEnds \/ Throws
    PROVE  EngineInv'
BY EndedInv DEF NoSweep, SweepEnds, Throws, Asked, memory

LEMMA EvaluateInv == ASSUME EngineInv, Evaluate PROVE EngineInv'
<1>1. /\ tick.at = "sweep" /\ tick.queue # <<>>
      /\ holds' = Restrict(holds, DOMAIN holds \ {Front1}) /\ seen' = seen \cup {Front1}
      /\ tick'.at = "asked" /\ tick'.queue = tick.queue /\ tick'.fillable = tick.fillable
      /\ UNCHANGED <<room, served, fate, filled, pending, saved, took, own>>
  BY DEF Evaluate, AtOrder
<1>2. pending = Nothing /\ filled < Cap
  BY <1>1 DEF EngineInv, OnRecord, Counted
<1>3. holds' \in HoldTable
  BY <1>1, FewerHolds DEF EngineInv, EngineTypeOK
<1>4. ASSUME NEW o \in own' PROVE Holds(holds', o, served'[o])
  <2>1. Holds(holds, o, served[o]) /\ o # Front1
    BY <1>1, <1>2, CoveredUnlessToLand, InHand
  <2> QED
    BY <1>1, <2>1 DEF Holds, Restrict
<1>5. /\ saved'.filled \in Nat /\ saved'.pending \in Pendings \cup {Nothing}
      /\ saved'.ownFills \in UNION {[S -> Nat] : S \in SUBSET Orders}
      /\ OnRecord' /\ Counted' /\ OwnHeld'
  BY <1>1, <1>2, <1>3, <1>4, MemoryOnly
<1>6. EngineTypeOK'
  <2>1. /\ seen' \subseteq Orders /\ tick'.fillable \in [Orders -> Nat] /\ pending' \in Pendings \cup {Nothing}
        /\ tick'.queue \in Seq(Orders) /\ tick'.queue # <<>>
    BY <1>1, InHand DEF EngineInv, EngineTypeOK
  <2> QED
    BY <1>1, <1>3, <1>5, <2>1, TickTyped DEF Places
<1>7. NotInLine'
  BY <1>1 DEF EngineInv, NotInLine
<1> QED
  BY <1>5, <1>6, <1>7 DEF EngineInv

(* A fill goes out: the order is no own fill, and the cap is not reached.  *)
LEMMA SendsInv == ASSUME EngineInv, Sends PROVE EngineInv'
<1>1. /\ tick.at = "asked" /\ pending' = [order |-> Front1, fillable |-> Nothing] /\ fate' = "flying"
      /\ saved' = Snapshot(holds, cursor, filled, pending') /\ tick' = [tick EXCEPT !.at = "sent"]
      /\ UNCHANGED <<room, served, seen, holds, cursor, filled, took, own>>
  BY DEF Sends, Asked
<1>2. /\ pending = Nothing /\ saved.pending = Nothing /\ filled < Cap /\ holds \in HoldTable
      /\ filled \in Nat /\ own \subseteq Orders /\ tick.queue # <<>>
  BY <1>1 DEF EngineInv, OnRecord, Counted, EngineTypeOK
<1>3. Front1 \in Orders \ own
  BY <1>1, <1>2, InHand
<1>4. saved'.filled = filled /\ saved'.pending = pending' /\ saved'.ownFills = OwnFills(holds)
  BY <1>1 DEF Snapshot
<1>5. \A o \in own : Holds(holds, o, served[o])
  BY <1>2, CoveredUnlessToLand
<1>6. /\ saved'.ownFills \in UNION {[S -> Nat] : S \in SUBSET Orders}
      /\ \A o \in own : o \in DOMAIN OwnFills(holds) /\ OwnFills(holds)[o] = served[o]
  BY <1>2, <1>4, <1>5, SaveCovers, SavedHolds
<1>7. pending' \in Pendings /\ pending'.order = Front1 /\ pending'.fillable = Nothing
  BY <1>1, <1>3 DEF Pendings, Figures
<1>8. tick'.at = "sent" /\ tick'.queue = tick.queue /\ tick'.fillable = tick.fillable
  BY <1>1
<1>9. EngineTypeOK'
  BY <1>1, <1>2, <1>4, <1>6, <1>7, <1>8 DEF EngineInv, EngineTypeOK, Places
<1>10. OnRecord' /\ Counted' /\ NotInLine'
  BY <1>1, <1>2, <1>4, <1>7, <1>8 DEF EngineInv, OnRecord, Counted, InFlight, NotInLine
<1>11. OwnHeld'
  BY <1>1, <1>3, <1>4, <1>5, <1>6, <1>7 DEF OwnHeld, ToLand
<1> QED
  BY <1>9, <1>10, <1>11 DEF EngineInv

LEMMA SentInv == ASSUME EngineInv, Sent PROVE EngineInv'
<1>1. /\ tick.at = "sent"
      /\ pending' = IF pending = Nothing THEN Nothing ELSE [pending EXCEPT !.fillable = tick.fillable[Front1]]
      /\ tick' = NoTick /\ saved' = Snapshot(holds', cursor', filled', pending')
      /\ UNCHANGED <<room, served, fate, seen, holds, cursor, filled, took, own>>
  BY DEF Sent, Ended
<1>2. /\ saved.pending = pending /\ holds \in HoldTable /\ filled \in Nat /\ own \subseteq Orders
      /\ tick.queue # <<>> /\ tick.queue \in Seq(Orders) /\ tick.fillable \in [Orders -> Nat]
      /\ served \in [Orders -> Nat] /\ Nothing \notin Nat /\ pending \in Pendings \cup {Nothing}
      /\ pending # Nothing => pending.fillable = Nothing
  BY <1>1, EngineAssumption DEF EngineInv, OnRecord, EngineTypeOK
<1>3. tick.fillable[Front1] \in Nat
  BY <1>2 DEF Front1
<1>4. /\ pending' \in Pendings \cup {Nothing} /\ (pending' = Nothing <=> pending = Nothing)
      /\ pending # Nothing => pending'.order = pending.order
  BY <1>1, <1>2, <1>3, EngineAssumption DEF Pendings, Figures
<1>5. ASSUME NEW o \in own
      PROVE  Holds(holds, o, served[o]) /\ (pending # Nothing => pending.order # o)
  <2>1. served[o] # Nothing
    BY <1>2
  <2> QED
    BY <1>2, <2>1 DEF EngineInv, OwnHeld, ToLand
<1>6. saved'.filled = filled /\ saved'.pending = pending' /\ saved'.ownFills = OwnFills(holds)
  BY <1>1 DEF Snapshot
<1>7. /\ saved'.ownFills \in UNION {[S -> Nat] : S \in SUBSET Orders}
      /\ \A o \in own : o \in DOMAIN OwnFills(holds) /\ OwnFills(holds)[o] = served[o]
  <2>1. (\A o \in own : Holds(holds, o, served[o])) /\ holds \in HoldTable
    BY <1>2, <1>5
  <2>2. \A o \in own : o \in DOMAIN OwnFills(holds) /\ OwnFills(holds)[o] = served[o]
    BY <2>1, SaveCovers
  <2>3. OwnFills(holds) \in UNION {[S -> Nat] : S \in SUBSET Orders}
    BY <2>1, SavedHolds
  <2> QED
    BY <1>6, <2>2, <2>3
<1>8. EngineTypeOK'
  BY <1>1, <1>2, <1>4, <1>6, <1>7, IdleTyped DEF EngineInv, EngineTypeOK, Places
<1>9. OnRecord' /\ Counted' /\ NotInLine'
  BY <1>1, <1>2, <1>4, <1>6, IdleTyped DEF EngineInv, OnRecord, Counted, InFlight, NotInLine
<1>10. OwnHeld'
  <2>1. ASSUME NEW o \in own
        PROVE  /\ Holds(holds, o, served[o])
               /\ o \in DOMAIN OwnFills(holds) /\ OwnFills(holds)[o] = served[o]
               /\ pending' # Nothing => pending'.order # o
    BY <1>4, <1>5, <1>7
  <2> HIDE <1>5, <1>7
  <2> QED
    BY <1>1, <1>6, <2>1 DEF OwnHeld, ToLand
<1> QED
  BY <1>8, <1>9, <1>10 DEF EngineInv

-----------------------------------------------------------------------------
(* The chain, the book and the process.                                    *)

LEMMA MinedInv == ASSUME EngineInv, Mined PROVE EngineInv'
<1>1. /\ pending # Nothing /\ fate = "flying" /\ fate' \in {"mined", "reverted"}
      /\ fate' = "mined" => took' = took + Value[pending.order] /\ room[pending.order] > 0
                            /\ room' = [room EXCEPT ![pending.order] = @ - 1]
      /\ fate' # "mined" => took' = took /\ room' = room
      /\ UNCHANGED <<served, seen, holds, cursor, filled, pending, saved, tick, own>>
  BY DEF Mined, memory
<1>2. saved.pending = pending /\ pending \in Pendings /\ tick.at # "price"
  BY <1>1 DEF EngineInv, OnRecord, EngineTypeOK
<1>3. pending.order \in Orders /\ Value[pending.order] \in Nat
  BY <1>2, EngineAssumption DEF Pendings
<1>4. EngineTypeOK'
  <2>1. room' \in [Orders -> Nat]
    <3>1. room \in [Orders -> Nat] /\ room[pending.order] \in Nat
      BY <1>3 DEF EngineInv, EngineTypeOK
    <3>2. CASE fate' = "mined"
      <4>1. room[pending.order] - 1 \in Nat
        BY <1>1, <3>1, <3>2
      <4> QED
        BY <1>1, <3>1, <3>2, <4>1
    <3> QED
      BY <1>1, <3>1, <3>2
  <2> QED
    BY <1>1, <1>3, <2>1 DEF EngineInv, EngineTypeOK
<1>5. OnRecord' /\ Counted' /\ NotInLine'
  BY <1>1, <1>2, <1>3 DEF EngineInv, EngineTypeOK, OnRecord, Counted, InFlight, NotInLine
<1>6. OwnHeld'
  BY <1>1, <1>2 DEF EngineInv, OwnHeld, ToLand
<1> QED
  BY <1>4, <1>5, <1>6 DEF EngineInv

LEMMA LostInv == ASSUME EngineInv, Lost PROVE EngineInv'
<1>1. /\ pending # Nothing /\ fate = "flying" /\ fate' = "lost"
      /\ UNCHANGED <<room, served, seen, holds, cursor, filled, pending, saved, tick, took, own>>
  BY DEF Lost, memory
<1>2. tick.at # "price"
  BY <1>1 DEF EngineInv, OnRecord
<1> QED
  BY <1>1, <1>2 DEF EngineInv, EngineTypeOK, OnRecord, Counted, InFlight, OwnHeld, NotInLine, ToLand

LEMMA RivalInv == ASSUME EngineInv, Rival PROVE EngineInv'
<1>1. /\ room' \in [Orders -> Nat]
      /\ UNCHANGED <<served, fate, seen, holds, cursor, filled, pending, saved, tick, took, own>>
  BY DEF Rival, memory, EngineInv, EngineTypeOK
<1> QED
  BY <1>1 DEF EngineInv, EngineTypeOK, OnRecord, Counted, InFlight, OwnHeld, NotInLine, ToLand

(* Fewer own fills are to be held back: all else as it was, but for the    *)
(* figures and the holds of those let go.                                  *)
LEMMA FewerOwn ==
    ASSUME EngineInv, own' \subseteq own, holds' \in HoldTable, served' \in [Orders -> Nat],
           \A o \in own' : served'[o] = served[o] /\ (Holds(holds, o, served[o]) => Holds(holds', o, served[o])),
           UNCHANGED <<room, fate, seen, filled, pending, saved, tick, took>>
    PROVE  EngineInv'
<1>1. EngineTypeOK' /\ OnRecord' /\ Counted'
  BY DEF EngineInv, EngineTypeOK, OnRecord, Counted, InFlight
<1>2. OwnHeld'
  <2> SUFFICES ASSUME NEW o \in own'
               PROVE  /\ ToLand(pending, o)' \/ Holds(holds', o, served'[o])
                      /\ ToLand(saved.pending, o)' \/ (o \in DOMAIN saved.ownFills /\ saved.ownFills[o] = served'[o])
                      /\ saved.pending # Nothing /\ saved.pending.order = o => ToLand(saved.pending, o)'
    BY DEF OwnHeld
  <2>1. o \in own /\ served'[o] = served[o]
    OBVIOUS
  <2> QED
    BY <2>1 DEF EngineInv, OwnHeld, ToLand
<1>3. NotInLine'
  <2> SUFFICES ASSUME tick.at \in {"sweep", "asked"} PROVE tick.queue \in Seq(Orders \ own')
    BY DEF NotInLine
  <2>1. tick.queue \in Seq(Orders \ own) /\ Orders \ own \subseteq Orders \ own'
    BY DEF EngineInv, NotInLine
  <2> QED
    BY <2>1
<1> QED
  BY <1>1, <1>2, <1>3 DEF EngineInv

LEMMA IndexInv == ASSUME EngineInv, Index PROVE EngineInv'
<1>1. PICK o \in Orders :
        /\ served' = [served EXCEPT ![o] = room[o]] /\ own' = own \ {o}
        /\ UNCHANGED <<room, fate, seen, holds, cursor, filled, pending, saved, tick, took>>
  BY DEF Index, memory
<1>2. holds \in HoldTable /\ served' \in [Orders -> Nat] /\ own \subseteq Orders
  BY <1>1 DEF EngineInv, EngineTypeOK
<1>3. \A p \in own' : served'[p] = served[p]
  BY <1>1, <1>2 DEF EngineInv, EngineTypeOK
<1> QED
  BY <1>1, <1>2, <1>3, FewerOwn

LEMMA LapseInv == ASSUME EngineInv, NEW o \in Orders, HoldLapses(o) PROVE EngineInv'
<1>1. /\ o \in DOMAIN holds /\ holds' = [holds EXCEPT ![o].over = TRUE] /\ own' = own \ {o}
      /\ UNCHANGED <<room, served, fate, seen, cursor, filled, pending, saved, tick, took>>
  BY DEF HoldLapses
<1>2. PICK S \in SUBSET Orders : holds \in [S -> [fillable : Nat, why : Kinds, over : BOOLEAN]]
  BY DEF EngineInv, EngineTypeOK, HoldTable
<1>3. holds' \in [S -> [fillable : Nat, why : Kinds, over : BOOLEAN]]
  BY <1>1, <1>2
<1>4. holds' \in HoldTable /\ served' \in [Orders -> Nat] /\ own' \subseteq own
  BY <1>1, <1>3 DEF HoldTable, EngineInv, EngineTypeOK
<1>5. \A p \in own' : served'[p] = served[p] /\ (Holds(holds, p, served[p]) => Holds(holds', p, served[p]))
  BY <1>1, <1>2 DEF Holds
<1> QED
  BY <1>1, <1>4, <1>5, FewerOwn

(* The process comes back with what it last saved.                         *)
LEMMA RestartInv == ASSUME EngineInv, EngineRestart PROVE EngineInv'
<1>1. /\ seen' = {} /\ cursor' = saved.cursor /\ filled' = saved.filled /\ pending' = saved.pending
      /\ holds' = [o \in DOMAIN saved.ownFills |-> [fillable |-> saved.ownFills[o], why |-> "filled", over |-> FALSE]]
      /\ tick' = NoTick
      /\ UNCHANGED <<room, served, fate, saved, took, own>>
  BY DEF EngineRestart
<1>2. saved.filled = filled
  BY DEF EngineInv, OnRecord
<1>3. holds' \in HoldTable
  <2>1. PICK S \in SUBSET Orders : saved.ownFills \in [S -> Nat]
    BY DEF EngineInv, EngineTypeOK
  <2>2. holds' \in [S -> [fillable : Nat, why : Kinds, over : BOOLEAN]]
    BY <1>1, <2>1 DEF Kinds
  <2> QED
    BY <2>2 DEF HoldTable
<1>4. EngineTypeOK'
  BY <1>1, <1>3, IdleTyped DEF EngineInv, EngineTypeOK, Places
<1>5. OnRecord' /\ Counted' /\ NotInLine'
  BY <1>1, <1>2, IdleTyped DEF EngineInv, OnRecord, Counted, InFlight, NotInLine
<1>6. OwnHeld'
  BY <1>1 DEF EngineInv, OwnHeld, ToLand, Holds
<1> QED
  BY <1>4, <1>5, <1>6 DEF EngineInv

-----------------------------------------------------------------------------
LEMMA StepKeepsInv == EngineInv /\ [EngineNext]_engineVars => EngineInv'
<1> SUFFICES ASSUME EngineInv, [EngineNext]_engineVars PROVE EngineInv'
  OBVIOUS
<1>1. CASE EngineNext
  BY <1>1, WaitsInv, LandsInv, PricedInv, FailsInv, NothingPendingInv, FetchInv, SweepSteps, EndingSteps,
     EvaluateInv, SendsInv, SentInv, MinedInv, LostInv, RivalInv, IndexInv, LapseInv, RestartInv
  DEF EngineNext, EngineTick
<1>2. CASE UNCHANGED engineVars
  BY <1>2 DEF engineVars, memory, EngineInv, EngineTypeOK, OnRecord, Counted, InFlight, OwnHeld, ToLand, NotInLine
<1> QED
  BY <1>1, <1>2

LEMMA InvHolds == EngineSpec => []EngineInv
<1> QED
  BY EngineInitInv, StepKeepsInv, PTL DEF EngineSpec

(* The fills that could be priced pass the total cap by less than one fill,*)
(* whatever fails, is lost or restarts in between (engine.ts, totalCap.ts).*)
THEOREM CapIsKept == EngineSpec => []CapKept
<1>1. EngineInv => CapKept
  <2> SUFFICES ASSUME EngineInv PROVE CapKept
    OBVIOUS
  <2>1. CASE InFlight = 0
    BY <2>1 DEF EngineInv, Counted, CapKept, EngineTypeOK
  <2>2. CASE saved.pending # Nothing /\ InFlight = Value[saved.pending.order]
    <3>1. saved.pending.order \in Orders
      BY <2>2 DEF EngineInv, EngineTypeOK, Pendings
    <3>2. Value[saved.pending.order] \in Nat /\ Cap \in Nat
      BY <3>1, EngineAssumption
    <3>3. took < Cap + Value[saved.pending.order]
      BY <2>2, <3>2 DEF EngineInv, Counted, EngineTypeOK
    <3> QED
      BY <3>1, <3>3 DEF CapKept
  <2> QED
    BY <2>1, <2>2 DEF InFlight
<1> QED
  BY <1>1, InvHolds, PTL

(* An order whose fill landed is not put to the strategies again while the *)
(* book serves the figure it was sized by and the hold lasts, over restarts*)
(* at any point (engine.ts: ownFills, holds).                              *)
THEOREM OwnFillsAreHeld == EngineSpec => []OwnFillHeld
<1>1. EngineInv => OwnFillHeld
  BY InHand DEF OwnFillHeld, EngineInv, EngineTypeOK
<1> QED
  BY <1>1, InvHolds, PTL
=============================================================================

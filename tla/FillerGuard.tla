----------------------------- MODULE FillerGuard -----------------------------
(***************************************************************************)
(* beta-filler's guard.ts: one hot wallet, at most one transaction         *)
(* outstanding, an hourly budget for gas and one for outflow.              *)
(*                                                                         *)
(* A transaction is signed, charged at its limit, recorded and committed   *)
(* to the store, and only then sent; a later tick reads what became of it. *)
(* Every await is a step of its own, so that the chain, a crash, a failed  *)
(* save or another caller may come between any two.                        *)
(*                                                                         *)
(* `mem` is the engine's state and `disk` its last saved snapshot.  The    *)
(* node the filler asks holds `node`; `network` is what some node holds    *)
(* and may still mine.  A tick is short against a unit of time.  Left out: *)
(* the backoff of an order, which can only make a send not happen.         *)
(***************************************************************************)
EXTENDS Integers, FiniteSets, Functions

CONSTANTS
    Senders,        \* callers of the engine; Ticker is the one that resolves
    Ticker,
    Keys,           \* what is sent: an order's fill, a rebalancer step
    Duties,         \* Senders -> the keys it sends
    GasLimit,       \* Keys -> gas limit x price
    Outflow,        \* Keys -> the reservation a send makes in its budget
    GasCap,         \* HOURLY_GAS_RBTC
    OutCap,         \* the strategy's hourly budget
    Overdue,        \* REBROADCAST.afterMs
    Timeout,        \* RECEIPT_TIMEOUT_MS
    Drop,           \* BACKOFF.pendingDropMs
    Window,         \* Budget.windowMs
    MaxTries,       \* REBROADCAST.max
    TagMayFail,     \* the node may not serve the pending tag
    MaxSends,       \* bound: sends begun
    MaxUpsets,      \* bound: restarts, and sends by another hand from the wallet
    None

ASSUME TimesAssumption ==
    /\ {Overdue, Timeout, Drop, Window} \subseteq Nat
    /\ 0 < Overdue /\ Overdue <= Drop /\ Timeout <= Drop /\ Drop < Window
    /\ {MaxTries, MaxSends, MaxUpsets} \subseteq Nat

ASSUME CapsAssumption ==
    /\ GasLimit \in [Keys -> Nat \ {0}] /\ Outflow \in [Keys -> Nat]
    /\ GasCap \in Nat /\ OutCap \in Nat
    /\ Duties \in [Senders -> SUBSET Keys] /\ Ticker \in Senders
    /\ TagMayFail \in BOOLEAN

VARIABLES
    mem,            \* [pending, charges]: Guard.pendingTx and the budgets' entries
    disk,           \* the same, as the store holds it
    pc,             \* Senders -> [at, p]: the await a caller stands at, its local record
    nonce,          \* the wallet's mined nonce
    node, network,  \* unmined transactions of ours
    receipts,       \* mined transactions of ours -> [ok, gas]
    sent,           \* ghost: transaction -> time since it was last signed to be sent
    dropped,        \* ghost: transactions given up as lost
    undone,         \* ghost: sends taken back while some other node had them
    sends, foreign, crashes

chain == <<nonce, node, network, receipts>>
ghosts == <<sent, dropped, undone>>
counters == <<sends, foreign, crashes>>
vars == <<mem, disk, pc, chain, ghosts, counters>>

(* copy tells apart transactions whose signed bytes differ otherwise.      *)
Txs == [nonce : Nat, key : Keys, copy : 0..MaxSends]
Records == [tx : Txs, age : 0..Drop, since : 0..Overdue, tries : 0..MaxTries, timedOut : BOOLEAN]
Entries == [gas : Nat, out : Nat, age : 0..(Window - 1)]
Awaits == {"idle", "latest", "tag", "commit", "send", "asked", "receipt", "nonce", "reread", "known", "lost", "save"}

ASSUME NoneAssumption == None \notin Records

(* A table with one entry set, new or not.                                 *)
With(f, x, v) == [y \in DOMAIN f \cup {x} |-> IF y = x THEN v ELSE f[y]]

Idle == [at |-> "idle", p |-> None]
Goto(s, at, p) == pc' = [pc EXCEPT ![s] = [at |-> at, p |-> p]]
At(s, at) == pc[s].at = at

Init ==
    /\ mem = [pending |-> None, charges |-> <<>>] /\ disk = mem
    /\ pc = [s \in Senders |-> Idle]
    /\ nonce = 0 /\ node = {} /\ network = {} /\ receipts = <<>>
    /\ sent = <<>> /\ dropped = {} /\ undone = {}
    /\ sends = 0 /\ foreign = 0 /\ crashes = 0

-----------------------------------------------------------------------------
(* Budgets.  An entry is dated by its charge and lapses with the window.   *)

GasUsed(state) == SumFunction([t \in DOMAIN state.charges |-> state.charges[t].gas])
OutUsed(state) == SumFunction([t \in DOMAIN state.charges |-> state.charges[t].out])

(* Budget.spend: an entry with the same hash is replaced, not added.       *)
Charge(state, t) ==
    [state EXCEPT !.charges = With(@, t, [gas |-> GasLimit[t.key], out |-> Outflow[t.key], age |-> 0])]

(* settle(hash, .., 0n) on both budgets.                                   *)
Uncharge(state, t) == [state EXCEPT !.charges = Restrict(@, DOMAIN @ \ {t})]

(* settle(hash, GAS, cost), and the reservation when it is released.       *)
Resettle(state, t, gas, release) ==
    IF t \notin DOMAIN state.charges THEN state
    ELSE [state EXCEPT !.charges[t] = [gas |-> gas, out |-> IF release THEN 0 ELSE @.out, age |-> @.age]]

Forget(state) == [state EXCEPT !.pending = None]

-----------------------------------------------------------------------------
(* broadcast                                                               *)

(* The checks before the first await; the caller has checked its budget.   *)
Start(s) == \E k \in Duties[s] :
    /\ At(s, "idle") /\ mem.pending = None /\ sends < MaxSends
    /\ GasUsed(mem) + GasLimit[k] <= GasCap /\ OutUsed(mem) + Outflow[k] <= OutCap
    /\ LET tx == [nonce |-> 0, key |-> k, copy |-> sends + 1]
       IN  Goto(s, "latest", [tx |-> tx, age |-> 0, since |-> 0, tries |-> 0, timedOut |-> FALSE])
    /\ sends' = sends + 1
    /\ UNCHANGED <<mem, disk, chain, ghosts, foreign, crashes>>

(* The RPC, or anything else awaited before a commit, throws.              *)
Abort(s) ==
    /\ At(s, "latest")
    /\ pc' = [pc EXCEPT ![s] = Idle]
    /\ UNCHANGED <<mem, disk, chain, ghosts, counters>>

ReadLatest(s) ==
    /\ At(s, "latest")
    /\ Goto(s, "tag", [pc[s].p EXCEPT !.tx.nonce = nonce])
    /\ UNCHANGED <<mem, disk, chain, ghosts, counters>>

(* The pending tag is ahead, with a transaction of ours or another hand's. *)
Refuse(s) ==
    /\ At(s, "tag")
    /\ pc' = [pc EXCEPT ![s] = Idle]
    /\ UNCHANGED <<mem, disk, chain, ghosts, counters>>

(* It is not, or the node could not say: sign, charge, record.             *)
Sign(s) ==
    /\ At(s, "tag")
    /\ TagMayFail \/ \A t \in node : t.nonce < pc[s].p.tx.nonce
    /\ mem' = [Charge(mem, pc[s].p.tx) EXCEPT !.pending = pc[s].p]
    /\ sent' = With(sent, pc[s].p.tx, 0)
    /\ Goto(s, "commit", pc[s].p)
    /\ UNCHANGED <<disk, chain, dropped, undone, counters>>

(* Mutant: the send does not wait for the store.                           *)
CommitUnawaited(s) ==
    /\ At(s, "commit")
    /\ Goto(s, "send", pc[s].p)
    /\ UNCHANGED <<mem, disk, chain, ghosts, counters>>

Commit(s) ==
    /\ At(s, "commit")
    /\ disk' = mem
    /\ Goto(s, "send", pc[s].p)
    /\ UNCHANGED <<mem, chain, ghosts, counters>>

Undo(s) == mem' = Forget(Uncharge(mem, pc[s].p.tx))

(* The store refuses: everything is undone and the error rethrown.         *)
CommitFails(s) ==
    /\ At(s, "commit")
    /\ Undo(s)
    /\ Goto(s, "save", None)
    /\ UNCHANGED <<disk, chain, ghosts, counters>>

(* A node takes what carries a nonce that is not yet mined.                *)
Reaches(t) == t.nonce >= nonce /\ node' = node \cup {t} /\ network' = network \cup {t}

Send(s) ==
    /\ At(s, "send")
    /\ Reaches(pc[s].p.tx)
    /\ \/ Goto(s, "save", None)
       \/ Goto(s, "asked", pc[s].p)     \* it arrived, and the answer was lost
    /\ UNCHANGED <<mem, disk, nonce, receipts, ghosts, counters>>

SendFails(s) ==
    /\ At(s, "send")
    /\ Goto(s, "asked", pc[s].p)
    /\ UNCHANGED <<mem, disk, chain, ghosts, counters>>

(* getTransaction after an error: what the node knows, or an error again.  *)
Known(t) == t \in node \cup DOMAIN receipts

AskedKnown(s) ==
    /\ At(s, "asked")
    /\ Goto(s, "save", None)
    /\ UNCHANGED <<mem, disk, chain, ghosts, counters>>

(* One "not found" is taken for a refusal and everything is undone, though *)
(* the bytes may have gone out by way of another node.                     *)
AskedUnknown(s) ==
    /\ At(s, "asked") /\ ~Known(pc[s].p.tx)
    /\ Undo(s)
    /\ undone' = undone \cup ({pc[s].p.tx} \cap network)
    /\ Goto(s, "save", None)
    /\ UNCHANGED <<disk, chain, sent, dropped, counters>>

(* commit or saveIfDirty at the end of an operation; it may fail.          *)
Save(s) ==
    /\ At(s, "save")
    /\ disk' \in {mem, disk}
    /\ pc' = [pc EXCEPT ![s] = Idle]
    /\ UNCHANGED <<mem, chain, ghosts, counters>>

-----------------------------------------------------------------------------
(* resolvePending, by the ticker                                           *)

(* Mutant: the reservation is released whatever the receipt says.          *)
AppliedReleases(p) == Forget(Resettle(mem, p.tx, receipts[p.tx].gas, ~p.timedOut))

Applied(p) == LET r == receipts[p.tx] IN
    Forget(Resettle(mem, p.tx, r.gas, ~r.ok /\ ~p.timedOut))

Tick(s) ==
    /\ s = Ticker /\ At(s, "idle") /\ mem.pending # None
    /\ Goto(s, "receipt", mem.pending)
    /\ UNCHANGED <<mem, disk, chain, ghosts, counters>>

ReceiptFound(s) ==
    /\ At(s, "receipt") /\ pc[s].p.tx \in DOMAIN receipts
    /\ mem' = Applied(pc[s].p)
    /\ Goto(s, "save", None)
    /\ UNCHANGED <<disk, chain, ghosts, counters>>

(* Mutant: a timed-out transaction times out again, and never drops.       *)
WindTimesOutAgain(s, p, cur, absent) ==
    /\ Goto(s, "save", None)
    /\ IF cur = None THEN UNCHANGED <<mem, dropped>>
       ELSE IF p.age >= Timeout
         THEN mem' = [mem EXCEPT !.pending = [cur EXCEPT !.timedOut = TRUE]] /\ UNCHANGED dropped
       ELSE IF p.age >= Drop /\ absent
         THEN mem' = Forget(mem) /\ dropped' = dropped \cup {cur.tx}
         ELSE mem' = [mem EXCEPT !.pending = cur] /\ UNCHANGED dropped

(* The tail of resolvePending: p as it was read, cur as it is now; without *)
(* a cur the code throws.                                                  *)
Wind(s, p, cur, absent) ==
    /\ Goto(s, "save", None)
    /\ IF cur = None THEN UNCHANGED <<mem, dropped>>
       ELSE IF ~cur.timedOut /\ p.age >= Timeout
         THEN mem' = [mem EXCEPT !.pending = [cur EXCEPT !.timedOut = TRUE]] /\ UNCHANGED dropped
       ELSE IF p.age >= Drop /\ absent
         THEN mem' = Forget(mem) /\ dropped' = dropped \cup {cur.tx}
         ELSE mem' = [mem EXCEPT !.pending = cur] /\ UNCHANGED dropped

(* No receipt, or an error that reads as none.                             *)
ReceiptMissing(s) ==
    /\ At(s, "receipt")
    /\ LET p == pc[s].p IN
         IF p.since >= Overdue \/ p.age >= Drop
           THEN Goto(s, "nonce", p) /\ UNCHANGED <<mem, dropped>>
           ELSE Wind(s, p, mem.pending, FALSE)
    /\ UNCHANGED <<disk, chain, sent, undone, counters>>

NoncePast(s) ==
    /\ At(s, "nonce") /\ nonce > pc[s].p.tx.nonce
    /\ Goto(s, "reread", pc[s].p)
    /\ UNCHANGED <<mem, disk, chain, ghosts, counters>>

NonceNotPast(s) ==
    /\ At(s, "nonce")                   \* or the read failed
    /\ Goto(s, "known", pc[s].p)
    /\ UNCHANGED <<mem, disk, chain, ghosts, counters>>

RereadFound(s) ==
    /\ At(s, "reread") /\ pc[s].p.tx \in DOMAIN receipts
    /\ mem' = Applied(pc[s].p)
    /\ Goto(s, "save", None)
    /\ UNCHANGED <<disk, chain, ghosts, counters>>

(* Dropped as replaced, also when the second read merely failed.           *)
Replaced(s) ==
    /\ At(s, "reread")
    /\ mem' = Forget(mem)
    /\ dropped' = dropped \cup {pc[s].p.tx}
    /\ Goto(s, "save", None)
    /\ UNCHANGED <<disk, chain, sent, undone, counters>>

(* Mutant: an error on the question is taken for a definite no.            *)
KnownOrErrorIsAbsent(s) ==
    /\ At(s, "known")
    /\ Wind(s, pc[s].p, mem.pending, TRUE)
    /\ UNCHANGED <<disk, chain, sent, undone, counters>>

KnownOrError(s) ==
    /\ At(s, "known")
    /\ Wind(s, pc[s].p, mem.pending, FALSE)
    /\ UNCHANGED <<disk, chain, sent, undone, counters>>

Rebroadcasts(p) == p.tries < MaxTries /\ p.since >= Overdue /\ p.age < Drop

KnownAbsent(s) ==
    /\ At(s, "known") /\ ~Known(pc[s].p.tx)
    /\ LET p == pc[s].p IN
         IF Rebroadcasts(p) THEN Goto(s, "lost", p) /\ UNCHANGED <<mem, dropped>>
                            ELSE Wind(s, p, mem.pending, TRUE)
    /\ UNCHANGED <<disk, chain, sent, undone, counters>>

(* The recorded bytes once more; an error is recorded and changes nothing. *)
Rebroadcast(s) ==
    /\ At(s, "lost")
    /\ Reaches(pc[s].p.tx) \/ UNCHANGED <<node, network>>
    /\ LET p == pc[s].p IN Wind(s, p, [p EXCEPT !.tries = @ + 1, !.since = 0], TRUE)
    /\ UNCHANGED <<disk, nonce, receipts, sent, undone, counters>>

-----------------------------------------------------------------------------
(* The world: blocks, other hands, the node's memory, crashes, the clock.  *)

Settled(n) == /\ nonce' = n + 1
              /\ node' = {t \in node : t.nonce > n}
              /\ network' = {t \in network : t.nonce > n}

Mine == \E t \in network, ok \in BOOLEAN :
    /\ t.nonce = nonce
    /\ \E gas \in 1..GasLimit[t.key] : receipts' = With(receipts, t, [ok |-> ok, gas |-> gas])
    /\ Settled(nonce)
    /\ UNCHANGED <<mem, disk, pc, ghosts, counters>>

MineForeign ==
    /\ foreign + crashes < MaxUpsets
    /\ foreign' = foreign + 1
    /\ Settled(nonce)
    /\ UNCHANGED <<mem, disk, pc, receipts, ghosts, sends, crashes>>

(* The node forgets a transaction, or another backend answers for it that  *)
(* has not seen it, and others keep it; or it learns it anew.              *)
Evict == \E t \in node :
    /\ node' = node \ {t}
    /\ UNCHANGED <<mem, disk, pc, nonce, network, receipts, ghosts, counters>>

Regossip == \E t \in network \ node :
    /\ node' = node \cup {t}
    /\ UNCHANGED <<mem, disk, pc, nonce, network, receipts, ghosts, counters>>

Vanish == \E t \in network :
    /\ node' = node \ {t} /\ network' = network \ {t}
    /\ UNCHANGED <<mem, disk, pc, nonce, receipts, ghosts, counters>>

Restart ==
    /\ foreign + crashes < MaxUpsets
    /\ crashes' = crashes + 1
    /\ mem' = disk /\ pc' = [s \in Senders |-> Idle]
    /\ UNCHANGED <<disk, chain, ghosts, sends, foreign>>

Earlier(a, b) == IF a < b THEN a ELSE b
Older(p) == IF p = None THEN None
            ELSE [p EXCEPT !.age = Earlier(@ + 1, Drop), !.since = Earlier(@ + 1, Overdue)]
Lapse(f) == LET live == {t \in DOMAIN f : f[t].age + 1 < Window}
            IN  [t \in live |-> [f[t] EXCEPT !.age = @ + 1]]
Aged(state) == [pending |-> Older(state.pending), charges |-> Lapse(state.charges)]

Pass ==
    /\ \A s \in Senders : At(s, "idle")
    /\ mem' = Aged(mem) /\ disk' = Aged(disk)
    /\ sent' = [t \in {u \in DOMAIN sent : sent[u] + 1 < Window} |-> sent[t] + 1]
    /\ UNCHANGED <<pc, chain, dropped, undone, counters>>

Broadcast(s) == \/ Start(s) \/ Abort(s) \/ ReadLatest(s) \/ Refuse(s) \/ Sign(s) \/ Commit(s) \/ CommitFails(s)
                \/ Send(s) \/ SendFails(s) \/ AskedKnown(s) \/ AskedUnknown(s) \/ Save(s)
Resolve(s) == \/ Tick(s) \/ ReceiptFound(s) \/ ReceiptMissing(s) \/ NoncePast(s) \/ NonceNotPast(s) \/ RereadFound(s)
              \/ Replaced(s) \/ KnownOrError(s) \/ KnownAbsent(s) \/ Rebroadcast(s)
Chain == Mine \/ MineForeign \/ Evict \/ Regossip \/ Vanish

Next == (\E s \in Senders : Broadcast(s) \/ Resolve(s)) \/ Chain \/ Restart \/ Pass

Spec == Init /\ [][Next]_vars

(* Ticks keep coming and each ends; time passes between them; the node     *)
(* answers now and then what it knows; what nodes hold is mined or lost.   *)
Fairness ==
    /\ WF_vars(Resolve(Ticker) \/ Broadcast(Ticker)) /\ SF_vars(Pass)
    /\ SF_vars(ReceiptFound(Ticker)) /\ SF_vars(KnownAbsent(Ticker))
    /\ WF_vars(Mine \/ Vanish)

LiveSpec == Spec /\ Fairness

-----------------------------------------------------------------------------
(* Properties                                                              *)

(* A transaction of ours that a node may still mine is the one outstanding,*)
(* in memory and, for a crash to find, in the store; or it was given up as *)
(* lost; or its send failed after another node had it, which src/tasks/22  *)
(* has as open.                                                            *)
OneOutstanding == \A t \in network \ (dropped \cup undone) : \A state \in {mem, disk} :
    state.pending # None /\ state.pending.tx = t

(* What may have cost gas or outflow, of what was signed within the hour:  *)
(* what was mined, at its receipt, and what may yet be, at its limit.      *)
GasOf(t) == IF t \in DOMAIN receipts THEN receipts[t].gas
            ELSE IF t \in network THEN GasLimit[t.key] ELSE 0
OutOf(t) == IF t \in network \/ (t \in DOMAIN receipts /\ receipts[t].ok) THEN Outflow[t.key] ELSE 0

(* The hourly budgets bound the gas and the outflow really spent, through  *)
(* crashes, drops, replacements, late receipts and refused sends, though a *)
(* reverted fill gives its reservation back.  They miss what was undone    *)
(* while another node had it (src/tasks/22), and nothing else.             *)
WithinBudget ==
    /\ SumFunction([t \in DOMAIN sent \ undone |-> GasOf(t)]) <= GasCap
    /\ SumFunction([t \in DOMAIN sent \ undone |-> OutOf(t)]) <= OutCap

(* The guard lets go of its transaction only when the node it asks does    *)
(* not hold it; an error of the RPC is never taken for that.               *)
ForgetsOnlyGone == [][
    \A t \in node : (mem.pending # None /\ mem.pending.tx = t /\ mem'.pending = None) => crashes' # crashes ]_vars

(* However answers fail, whatever is outstanding is resolved in the end.   *)
Resolves == (mem.pending # None) ~> (mem.pending = None)
=============================================================================

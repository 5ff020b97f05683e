---------------------------- MODULE WorkerFills ----------------------------
(***************************************************************************)
(* The durable order book and fill ledger of the orderbook worker          *)
(* (orderbook-worker/src/core.ts): the alarm that scans confirmed logs and *)
(* rechecks the book, fill reports from receipts, and orders posted, all   *)
(* interleaved at their RPC awaits over one SQL store, with a chain that   *)
(* may lose its last block and an object that may be restarted.            *)
(*                                                                         *)
(* The transaction and log index of an event are its id.  Left out: caps,  *)
(* soft cancels and rate limits of a post; the order bodies attached to    *)
(* rows; the ring bound of the ledger; `dirty` and `checked_at`, which put *)
(* off a recheck and decide nothing else.                                  *)
(***************************************************************************)
EXTENDS Integers, Sequences, FiniteSets, SequencesExt, FiniteSetsExt, Functions

CONSTANTS
    Orders,         \* order -> [anchor, once, mates], mates sharing maker and nonce
    Reporters,      \* fill reports served at once
    Events,         \* id -> a fill [kind, order, amount] or a cancel [kind, kills, byHash]
    Confirmations,  \* how deep a block is when it is scanned
    MaxLogRange,    \* blocks asked for at once, at most
    NodeRange,      \* blocks the node answers for at once
    MaxStrikes,     \* inconclusive rechecks an order survives
    Weathers,       \* [events] of a behaviour and bounds on its posts, reports, reorgs, failures, crashes, expiries
    MaxBlocks,      \* bound: blocks of the chain
    None

ASSUME WorkerAssumption ==
    /\ {MaxLogRange, NodeRange, MaxStrikes, MaxBlocks} \subseteq Nat \ {0}
    /\ Confirmations \in Nat
    /\ \A w \in Weathers : w.reorgs <= Confirmations

VARIABLES
    chain,          \* Seq of blocks, a block being a Seq of ids
    expired,        \* orders past their expiry
    orders,         \* the book: order -> [filled, strikes]
    graves,         \* order -> the reason it left
    fills,          \* the ledger: id -> [block, index, cumulative, amount, held, by]
    pending,        \* broadcast fills: [order, tx]
    cursor, span,   \* the next block to scan, and how many at once
    alarm,          \* [at, to, verdicts]
    work,           \* the applyLogs under way of the alarm and of each report
    posting,        \* orders verified and not yet admitted
    left,           \* what the behaviour still may do of its Weather
    relisted        \* ghost: orders admitted when their grave said filled

store == <<orders, graves, fills, pending>>
vars == <<chain, expired, store, cursor, span, alarm, work, posting, left, relisted>>

Hashes == DOMAIN Orders
Mined == UNION {Range(chain[n]) : n \in DOMAIN chain}
IsFill(i) == Events[i].kind = "fill"
Spend(what) == left[what] > 0 /\ left' = [left EXCEPT ![what] = @ - 1]

-----------------------------------------------------------------------------
(* The chain.                                                              *)

UpTo(n) == UNION {Range(chain[m]) : m \in 1..n}
FillsOf(o, S) == {i \in S : IsFill(i) /\ Events[i].order = o}
Total(o, S) == MapThenSumSet(LAMBDA i : Events[i].amount, FillsOf(o, S))
Killed(o, S) == \E i \in S : ~IsFill(i) /\ o \in Events[i].kills
Full(o, S) == IF Orders[o].once THEN FillsOf(o, S) # {} ELSE Total(o, S) >= Orders[o].anchor
Dead(o, S) ==
    \/ Killed(o, S) \/ Full(o, S)
    \/ \E p \in Orders[o].mates : Orders[p].once /\ FillsOf(p, S) # {}

(* filled(o): the counter of a fill-once order stays zero, a cancel by hash*)
(* puts the sentinel there.                                                *)
Sentinel(o, n) == \E i \in UpTo(n) : ~IsFill(i) /\ Events[i].byHash /\ o \in Events[i].kills
Filled(o, n) == IF Orders[o].once THEN 0 ELSE Total(o, UpTo(n))

Fits(i, S) == IsFill(i) => LET o == Events[i].order IN
    /\ ~Dead(o, S)
    /\ Total(o, S) + Events[i].amount <= Orders[o].anchor
    /\ Orders[o].once => Events[i].amount = Orders[o].anchor

Mine == \E block \in SeqOf(left.events \ Mined, 2) :
    /\ Len(chain) < MaxBlocks /\ IsInjective(block)
    /\ \A k \in DOMAIN block : Fits(block[k], Mined \cup Range(SubSeq(block, 1, k - 1)))
    /\ chain' = Append(chain, block)
    /\ UNCHANGED <<expired, store, cursor, span, alarm, work, posting, left, relisted>>

Reorg ==
    /\ chain # <<>> /\ Spend("reorgs")
    /\ chain' = Front(chain)
    /\ UNCHANGED <<expired, store, cursor, span, alarm, work, posting, relisted>>

Expire == \E o \in Hashes \ expired :
    /\ Spend("expiries")
    /\ expired' = expired \cup {o}
    /\ UNCHANGED <<chain, store, cursor, span, alarm, work, posting, relisted>>

-----------------------------------------------------------------------------
(* The store.                                                              *)

Buried(S, reason) == [o \in DOMAIN graves \cup S |-> IF o \in S THEN reason ELSE graves[o]]

(* evict, of those of S that are in the book.                              *)
Evict(S, reason) ==
    /\ orders' = Restrict(orders, DOMAIN orders \ S)
    /\ graves' = Buried(S \cap DOMAIN orders, reason)
    /\ pending' = {p \in pending : p.order \notin S \cap DOMAIN orders}

(* knownAnnounce: an order in the book or buried; of no other is it known  *)
(* that it is fill-once.                                                   *)
KnownAnnounce(o) == o \in DOMAIN orders \cup DOMAIN graves

Reached(o, cum) == cum # None /\ cum >= Orders[o].anchor

(* Mutant: the grave of an order taken out before its fill was seen stays. *)
FateOfTheBuried(p, o, full, out) ==
    IF p \notin out THEN graves[p] ELSE IF p = o /\ full THEN "filled" ELSE "cancelled"

(* What the grave of p says once a fill of o is applied and out are gone.  *)
Fate(p, o, full, out) ==
    IF p = o /\ full THEN "filled" ELSE IF p \in out THEN "cancelled" ELSE graves[p]

(* What a fill of o in tx leaves behind it: the pending hints of tx go;    *)
(* applyFillProgress evicts an order filled up, or corrects what its grave *)
(* says; a fill-once order takes those on its nonce along.                 *)
Progress(o, tx, cum, once) ==
    LET full == once \/ Reached(o, cum)
        gone == (IF full THEN {o} ELSE {}) \cup (IF once THEN Orders[o].mates ELSE {})
        out == gone \cap DOMAIN orders
        rise == o \in DOMAIN orders /\ cum # None
    IN  /\ orders' = [p \in DOMAIN orders \ gone |->
                        IF p = o /\ rise /\ cum > orders[p].filled THEN [orders[p] EXCEPT !.filled = cum] ELSE orders[p]]
        /\ graves' = [p \in DOMAIN graves \cup out |-> Fate(p, o, full, out)]
        /\ pending' = {h \in pending : h.tx # tx /\ h.order \notin out}

-----------------------------------------------------------------------------
(* applyLogs, for the alarm and for a report.                              *)

Job(logs) == [logs |-> logs, i |-> 1, at |-> "next", cum |-> None, amount |-> None, held |-> FALSE, once |-> FALSE, read |-> <<>>, wrote |-> FALSE]
Busy(p) == work[p] # None
Log(p) == work[p].logs[work[p].i]
Order(p) == Events[Log(p).id].order
At(p, stage) == Busy(p) /\ work[p].i <= Len(work[p].logs) /\ work[p].at = stage
Skip(p) == work' = [work EXCEPT ![p].i = @ + 1, ![p].at = "next"]

(* applyCancelEvent                                                        *)
ApplyCancel(p) ==
    /\ At(p, "next") /\ ~IsFill(Log(p).id)
    /\ Evict(Events[Log(p).id].kills, "cancelled")
    /\ Skip(p)
    /\ UNCHANGED <<chain, expired, fills, cursor, span, alarm, posting, left, relisted>>

SkipKnown(p) ==
    /\ At(p, "next") /\ IsFill(Log(p).id) /\ Log(p).id \in DOMAIN fills
    /\ Skip(p)
    /\ UNCHANGED <<chain, expired, store, cursor, span, alarm, posting, left, relisted>>

(* A fill is sized, at once when the order is known to be fill-once.       *)
Size(p) ==
    /\ At(p, "next") /\ IsFill(Log(p).id) /\ Log(p).id \notin DOMAIN fills
    /\ LET o == Order(p)
       IN  work' = [work EXCEPT ![p] =
             IF KnownAnnounce(o) /\ Orders[o].once
             THEN [@ EXCEPT !.at = "write", !.held = TRUE, !.once = TRUE, !.cum = Orders[o].anchor, !.amount = Orders[o].anchor]
             ELSE [@ EXCEPT !.at = "cum", !.held = KnownAnnounce(o), !.once = FALSE, !.amount = None]]
    /\ UNCHANGED <<chain, expired, store, cursor, span, alarm, posting, left, relisted>>

(* cumulativeAt: what the call cached, the value at the block, the value at*)
(* the head when that cannot be read, or nothing.                          *)
Value(o, n) == IF Sentinel(o, n) \/ Filled(o, n) = 0 THEN None ELSE Filled(o, n)
Cached(p, n) == <<Order(p), n>> \in DOMAIN work[p].read
Remember(p, n, v) == [k \in DOMAIN work[p].read \cup {<<Order(p), n>>} |->
                        IF k = <<Order(p), n>> THEN v ELSE work[p].read[k]]
Answers(p) ==
    LET o == Order(p)
        n == Log(p).block
    IN  IF Cached(p, n) THEN {work[p].read[<<o, n>>]}
        ELSE IF n > Len(chain) THEN {Value(o, Len(chain))}
        ELSE {Value(o, n)} \cup IF left.failures > 0 THEN {None, Value(o, Len(chain))} ELSE {}

Rows(o) == {i \in DOMAIN fills : Events[i].order = o}
BlockSized(o, n) == \E i \in Rows(o) : fills[i].block = n /\ fills[i].amount # None
LastInBlock(p) == \A k \in work[p].i + 1..Len(work[p].logs) : LET l == work[p].logs[k] IN
    ~(IsFill(l.id) /\ Events[l.id].order = Order(p) /\ l.block = Log(p).block)

(* Only the last fill of its order in a block not sized yet has an amount. *)
Sizes(p, cum) == cum # None /\ ~BlockSized(Order(p), Log(p).block) /\ LastInBlock(p)

(* Mutant: the total is taken for the amount.                              *)
DeltaOfNothing(cum, prev) == cum

Delta(cum, prev) == IF prev # None /\ cum > prev THEN cum - prev ELSE None

(* The last row of an earlier block; rows of a block keep its order.       *)
Earlier(o, n) == {i \in Rows(o) : fills[i].block < n}
LastRow(o, n) == CHOOSE i \in Earlier(o, n) : \A j \in Earlier(o, n) :
    fills[j].block < fills[i].block \/ (fills[j].block = fills[i].block /\ fills[j].index <= fills[i].index)

(* The answer comes; where a row of an earlier block gives the value       *)
(* before, the amount is known.                                            *)
Cumulative(p) == At(p, "cum") /\ \E cum \in Answers(p) :
    LET o == Order(p)
        n == Log(p).block
        row == Earlier(o, n) # {}
    IN  /\ left' = IF ~Cached(p, n) /\ n <= Len(chain) /\ cum # Value(o, n)
                   THEN [left EXCEPT !.failures = @ - 1] ELSE left
        /\ work' = [work EXCEPT ![p] = [@ EXCEPT
             !.cum = cum, !.read = Remember(p, n, cum),
             !.at = IF Sizes(p, cum) /\ ~row THEN "prev" ELSE "write",
             !.amount = IF Sizes(p, cum) /\ row THEN Delta(cum, fills[LastRow(o, n)].cumulative) ELSE None]]
        /\ UNCHANGED <<chain, expired, store, cursor, span, alarm, posting, relisted>>

(* cumulativeBefore, where no row tells: a read of the block before.       *)
Previous(p) ==
    /\ At(p, "prev")
    /\ LET o == Order(p)
           n == Log(p).block - 1
           v == IF Cached(p, n) THEN IF work[p].read[<<o, n>>] = None THEN 0 ELSE work[p].read[<<o, n>>]
                ELSE IF Sentinel(o, n) \/ n > Len(chain) THEN None ELSE Filled(o, n)
           read == IF Cached(p, n) \/ v = None THEN work[p].read ELSE Remember(p, n, v)
           sized(prev, cache) == work' = [work EXCEPT ![p] =
                [@ EXCEPT !.at = "write", !.read = cache, !.amount = Delta(work[p].cum, prev)]]
       IN  \/ sized(v, read) /\ UNCHANGED left
           \/ ~Cached(p, n) /\ Spend("failures") /\ sized(None, work[p].read)
    /\ UNCHANGED <<chain, expired, store, cursor, span, alarm, posting, relisted>>

(* The block's time is read; the row is inserted, unless another call did  *)
(* so meanwhile, and the book follows in any case.                         *)
Row(p) == [block |-> Log(p).block, index |-> Log(p).index, cumulative |-> work[p].cum, amount |-> work[p].amount, held |-> work[p].held, by |-> p]

Write(p) ==
    /\ At(p, "write")
    /\ fills' = [i \in DOMAIN fills \cup {Log(p).id} |-> IF i \in DOMAIN fills THEN fills[i] ELSE Row(p)]
    /\ Progress(Order(p), Log(p).id, work[p].cum, work[p].once)
    /\ work' = [work EXCEPT ![p].i = @ + 1, ![p].at = "next", ![p].wrote = TRUE]
    /\ UNCHANGED <<chain, expired, cursor, span, alarm, posting, left, relisted>>

Apply(p) == ApplyCancel(p) \/ SkipKnown(p) \/ Size(p) \/ Cumulative(p) \/ Previous(p) \/ Write(p)

-----------------------------------------------------------------------------
(* The alarm: maintain and scanLogs.                                       *)

Idle == [at |-> "idle", to |-> 0, verdicts |-> <<>>]

(* prune lapses pending hints past their time, the orders expired go, and  *)
(* the head is asked for.                                                  *)
Maintain == \E kept \in {pending, {}} :
    /\ alarm.at = "idle"
    /\ alarm' = [alarm EXCEPT !.at = "head"]
    /\ orders' = Restrict(orders, DOMAIN orders \ expired)
    /\ graves' = Buried(DOMAIN orders \cap expired, "expired")
    /\ pending' = {p \in kept : p.order \notin DOMAIN orders \cap expired}
    /\ UNCHANGED <<chain, expired, fills, cursor, span, work, posting, left, relisted>>

(* Mutant: a block is scanned as soon as it is mined.                      *)
Unsafe == Len(chain)

Safe == IF Len(chain) > Confirmations THEN Len(chain) - Confirmations ELSE 0

(* The range of this pass; nothing to scan leads to the recheck.           *)
HeadRead ==
    /\ alarm.at = "head"
    /\ alarm' = IF cursor > Safe THEN [alarm EXCEPT !.at = "recheck"]
                ELSE [alarm EXCEPT !.at = "logs", !.to = IF cursor + span - 1 < Safe THEN cursor + span - 1 ELSE Safe]
    /\ UNCHANGED <<chain, expired, store, cursor, span, work, posting, left, relisted>>

LogsBetween(a, b) == FlattenSeq([n \in 1..Len(chain) |->
    IF n \in a..b THEN [k \in DOMAIN chain[n] |-> [id |-> chain[n][k], block |-> n, index |-> k]] ELSE <<>>])

(* The logs come, and a span once halved may double back.                  *)
LogsRead == \E grown \in {span, IF 2 * span > MaxLogRange THEN MaxLogRange ELSE 2 * span} :
    /\ alarm.at = "logs" /\ alarm.to - cursor < NodeRange
    /\ span' = grown
    /\ work' = [work EXCEPT !["alarm"] = Job(LogsBetween(cursor, alarm.to))]
    /\ alarm' = [alarm EXCEPT !.at = "apply"]
    /\ UNCHANGED <<chain, expired, store, cursor, posting, left, relisted>>

(* Mutant: the span stays what the node refuses.                           *)
NotHalved == span

Halved == IF span > 1 THEN span \div 2 ELSE 1

(* A range the node refuses, or a call that fails, halves the span.        *)
LogsFail ==
    /\ alarm.at = "logs"
    /\ IF alarm.to - cursor >= NodeRange THEN UNCHANGED left ELSE Spend("failures")
    /\ span' = Halved
    /\ alarm' = [alarm EXCEPT !.at = "recheck"]
    /\ UNCHANGED <<chain, expired, store, cursor, work, posting, relisted>>

Scanned ==
    /\ alarm.at = "apply" /\ work["alarm"].i > Len(work["alarm"].logs)
    /\ cursor' = alarm.to + 1
    /\ work' = [work EXCEPT !["alarm"] = None]
    /\ alarm' = [alarm EXCEPT !.at = "recheck"]
    /\ UNCHANGED <<chain, expired, store, span, posting, left, relisted>>

(* The budget is spent before a fill not indexed yet: the next pass resumes*)
(* at its block.  A pass that gets no fill done counts as a failure.       *)
OutOfTime ==
    /\ alarm.at = "apply" /\ At("alarm", "next")
    /\ IsFill(Log("alarm").id) /\ Log("alarm").id \notin DOMAIN fills
    /\ IF work["alarm"].wrote THEN UNCHANGED left ELSE Spend("failures")
    /\ cursor' = Log("alarm").block
    /\ work' = [work EXCEPT !["alarm"] = None]
    /\ alarm' = Idle
    /\ UNCHANGED <<chain, expired, store, span, posting, relisted>>

(* recheck: the lens reads the book's orders...                            *)
Verdict(o) == IF ~Orders[o].once /\ Full(o, Mined) /\ ~Killed(o, Mined) THEN "filled"
              ELSE IF Dead(o, Mined) THEN "cancelled"
              ELSE IF o \in expired THEN "expired" ELSE "live"

Recheck ==
    /\ alarm.at = "recheck"
    /\ alarm' = [alarm EXCEPT !.at = "verdict", !.verdicts = [o \in DOMAIN orders |-> Verdict(o)]]
    /\ UNCHANGED <<chain, expired, store, cursor, span, work, posting, left, relisted>>

(* ... or cannot read one of them, or throws.                              *)
Inconclusive == alarm.at = "recheck" /\ \E o \in DOMAIN orders :
    /\ Spend("failures")
    /\ alarm' = [alarm EXCEPT !.at = "verdict", !.verdicts = [p \in DOMAIN orders |-> IF p = o THEN "unread" ELSE Verdict(p)]]
    /\ UNCHANGED <<chain, expired, store, cursor, span, work, posting, relisted>>

RecheckFails ==
    /\ alarm.at = "recheck" /\ Spend("failures")
    /\ alarm' = Idle
    /\ UNCHANGED <<chain, expired, store, cursor, span, work, posting, relisted>>

(* A fill-once order whose nonce is spent was filled if a row says so.     *)
Reason(o) ==
    LET v == alarm.verdicts[o]
    IN  IF v = "cancelled" /\ Orders[o].once /\ Rows(o) # {} THEN "filled"
        ELSE IF v = "unread" THEN "evicted" ELSE v

Verdicts ==
    /\ alarm.at = "verdict"
    /\ alarm' = Idle
    /\ LET seen == DOMAIN alarm.verdicts \cap DOMAIN orders
           out == {o \in seen : alarm.verdicts[o] \notin {"live", "unread"}
                                \/ (alarm.verdicts[o] = "unread" /\ orders[o].strikes + 1 >= MaxStrikes)}
       IN  /\ orders' = [o \in DOMAIN orders \ out |->
                           IF o \notin seen THEN orders[o]
                           ELSE [orders[o] EXCEPT !.strikes = IF alarm.verdicts[o] = "unread" THEN @ + 1 ELSE 0]]
           /\ graves' = [o \in DOMAIN graves \cup out |-> IF o \in out THEN Reason(o) ELSE graves[o]]
           /\ pending' = {p \in pending : p.order \notin out}
    /\ UNCHANGED <<chain, expired, fills, cursor, span, work, posting, left, relisted>>

-----------------------------------------------------------------------------
(* Requests.                                                               *)

(* postOrder: the order is verified...                                     *)
Post == \E o \in Hashes \ (DOMAIN orders \cup posting \cup expired) :
    /\ Spend("posts") /\ ~Dead(o, Mined)
    /\ posting' = posting \cup {o}
    /\ UNCHANGED <<chain, expired, store, cursor, span, alarm, work, relisted>>

(* ... and admitted after the await, unless it is there already.           *)
Admit == \E o \in posting :
    /\ posting' = posting \ {o}
    /\ orders' = [p \in DOMAIN orders \cup {o} |->
                    IF p \in DOMAIN orders THEN orders[p] ELSE [filled |-> -1, strikes |-> 0]]
    /\ relisted' = IF o \in DOMAIN graves /\ graves[o] = "filled" THEN relisted \cup {o} ELSE relisted
    /\ UNCHANGED <<chain, expired, graves, fills, pending, cursor, span, alarm, work, left>>

Hintable(i) == IsFill(i) /\ Events[i].order \in DOMAIN orders /\ i \notin DOMAIN fills

(* A fill broadcast: a hint on a live order, unless it is indexed.         *)
ReportPending == \E i \in DOMAIN Events :
    /\ Hintable(i)
    /\ [order |-> Events[i].order, tx |-> i] \notin pending
    /\ Spend("reports")
    /\ pending' = pending \cup {[order |-> Events[i].order, tx |-> i]}
    /\ UNCHANGED <<chain, expired, orders, graves, fills, cursor, span, alarm, work, posting, relisted>>

(* A fill mined: its receipt is read and its logs applied.                 *)
ReportMined(r) == ~Busy(r) /\ \E n \in DOMAIN chain : \E k \in DOMAIN chain[n] :
    /\ IsFill(chain[n][k])
    /\ Spend("reports")
    /\ work' = [work EXCEPT ![r] = Job(<<[id |-> chain[n][k], block |-> n, index |-> k]>>)]
    /\ UNCHANGED <<chain, expired, store, cursor, span, alarm, posting, relisted>>

Reported(r) ==
    /\ Busy(r) /\ work[r].i > Len(work[r].logs)
    /\ pending' = {p \in pending : p.tx # work[r].logs[1].id}
    /\ work' = [work EXCEPT ![r] = None]
    /\ UNCHANGED <<chain, expired, orders, graves, fills, cursor, span, alarm, posting, left, relisted>>

(* A fill that failed: its hints go.                                       *)
ReportFailed == \E h \in pending :
    /\ Spend("reports")
    /\ pending' = {p \in pending : p.tx # h.tx}
    /\ UNCHANGED <<chain, expired, orders, graves, fills, cursor, span, alarm, work, posting, relisted>>

(* The object restarts: only the store survives.                           *)
Restart ==
    /\ Spend("crashes")
    /\ alarm' = Idle /\ work' = [p \in DOMAIN work |-> None] /\ posting' = {}
    /\ UNCHANGED <<chain, expired, store, cursor, span, relisted>>

-----------------------------------------------------------------------------
Init ==
    /\ chain = <<>> /\ expired = {}
    /\ orders = <<>> /\ graves = <<>> /\ fills = <<>> /\ pending = {}
    /\ cursor = 1 /\ span = MaxLogRange
    /\ alarm = Idle /\ work = [p \in Reporters \cup {"alarm"} |-> None] /\ posting = {} /\ relisted = {}
    /\ left \in Weathers

Alarm ==
    \/ Apply("alarm") \/ HeadRead \/ LogsRead \/ LogsFail \/ Scanned
    \/ Recheck \/ Verdicts \/ Maintain
Next ==
    \/ Mine \/ Reorg \/ Expire
    \/ Alarm \/ OutOfTime \/ Inconclusive \/ RecheckFails
    \/ \E r \in Reporters : ReportMined(r) \/ Apply(r) \/ Reported(r)
    \/ ReportPending \/ ReportFailed \/ Post \/ Admit \/ Restart

Spec == Init /\ [][Next]_vars

(* The object's alarm re-arms itself, a call in flight is answered, and    *)
(* calls fail a bounded number of times.                                   *)
LiveSpec ==
    /\ Spec /\ WF_vars(Alarm) /\ WF_vars(Admit)
    /\ \A r \in Reporters : WF_vars(Apply(r) \/ Reported(r))

-----------------------------------------------------------------------------
(* Properties.                                                             *)

Counted(o) == {i \in Rows(o) : fills[i].amount # None}
AmountsOf(o) == MapThenSumSet(LAMBDA i : fills[i].amount, Counted(o))
AtBlock(o, n) == IF Orders[o].once THEN Orders[o].anchor ELSE Filled(o, n)

(* The amounts of an order indexed by the scan alone, whose totals were    *)
(* read at the blocks of its rows or not at all, add up to no more than was*)
(* filled, whatever was cached, out of time, failed or read twice.         *)
AmountsFit == \A o \in Hashes :
    (\A i \in Rows(o) : fills[i].by = "alarm" /\ fills[i].cumulative \in {None, AtBlock(o, fills[i].block)})
    => AmountsOf(o) <= Total(o, Mined)

(* Every fill of a block the scan has passed is in the ledger, and every   *)
(* row the scan wrote is of a fill the chain still has: a pass out of time,*)
(* a failed call, a refused range or a restart leaves no hole behind the   *)
(* cursor, and no reorganisation reaches it (orderbook-worker/README.md:   *)
(* coverage is fromBlock to toBlock).                                      *)
LedgerMatchesChain ==
    /\ cursor - 1 <= Len(chain)
    /\ \A i \in UpTo(cursor - 1) : IsFill(i) => i \in DOMAIN fills
    /\ \A i \in DOMAIN fills : fills[i].by = "alarm" => i \in UpTo(Len(chain))
    /\ AmountsFit

(* The grave of an order filled up behind the cursor does not say that it  *)
(* was cancelled or expired, whichever of recheck, expiry and scan took it *)
(* out of the book, where the node held it when its fills were indexed and *)
(* could read its total, and did not admit it again after its grave said   *)
(* filled.                                                                 *)
GraveTellsFate == \A o \in DOMAIN graves \ (DOMAIN orders \cup relisted) :
    /\ Full(o, UpTo(cursor - 1))
    /\ \A i \in Rows(o) : fills[i].held /\ fills[i].cumulative # None
    => graves[o] \in {"filled", "evicted"}

(* The scan reaches the confirmed head in the end: the span shrinks to     *)
(* what the node answers for, and a pass cut short resumes further on.     *)
CatchesUp == []<>(cursor > Safe)
=============================================================================

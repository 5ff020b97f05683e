----------------------------- MODULE FillIndex -----------------------------
(***************************************************************************)
(* The orderbook's index of settlement fills (orderbook/src/fills.ts).     *)
(*                                                                         *)
(* OrderFilled carries no amount: a row's amount is the difference of two  *)
(* reads of `filled`, at the row's block and at an earlier one.  A backfill*)
(* and the live queue write the same rows, each with awaits between what   *)
(* it checks and what it writes, while the chain grows and may lose its    *)
(* last block.  Every await is a step of its own.                          *)
(*                                                                         *)
(* A fill's transaction hash and log index are its id.  Left out: the      *)
(* replayed price and the time of a row, which cost awaits and change no   *)
(* other row.                                                              *)
(***************************************************************************)
EXTENDS Integers, Sequences, FiniteSets, SequencesExt, FiniteSetsExt, Functions

CONSTANTS
    Txs,            \* id -> [order, amount]; amount 0 is the order's cancellation
    MaxRecords,     \* ring-buffer bound
    ChunkBlocks,    \* blocks a backfill asks for at once
    Weathers,       \* bounds on [backfills, reorgs, failures] of a behaviour, one chosen at the start
    MaxBlocks,      \* bound: blocks of the chain
    None

ASSUME IndexAssumption == {MaxRecords, ChunkBlocks, MaxBlocks} \subseteq Nat \ {0}

VARIABLES
    chain,          \* Seq of blocks, a block being a Seq of ids
    feed,           \* logs of the subscription not yet taken from liveQueue
    live,           \* the subscription is attached
    job,            \* the record ingestLive is completing, or None
    scan,           \* the backfill under way, or None
    rows, keys,     \* records and logKeys
    known,          \* cumulative: order -> [total, block], where read
    left,           \* what the behaviour still may do of its Weather
    unseen          \* ghost: fills lost by the chain while no subscription told of it

vars == <<chain, feed, live, job, scan, rows, keys, known, left, unseen>>

Orders == {Txs[i].order : i \in DOMAIN Txs}
Mined == UNION {Range(chain[n]) : n \in DOMAIN chain}
LogsOf(block) == SelectSeq(block, LAMBDA i : Txs[i].amount > 0)

Init ==
    /\ chain = <<>> /\ feed = <<>> /\ live = FALSE
    /\ job = None /\ scan = None
    /\ rows = <<>> /\ keys = {} /\ known = <<>>
    /\ left \in Weathers /\ unseen = {}

-----------------------------------------------------------------------------
(* The chain, and the node's answers.                                      *)

FillsUpTo(o, n) == {i \in UNION {Range(chain[m]) : m \in 1..n} : Txs[i].order = o}
Progress(o, n) == MapThenSumSet(LAMBDA i : Txs[i].amount, FillsUpTo(o, n))

(* filled(o) can be read at block n, and is not the sentinel of a cancelled*)
(* order.                                                                  *)
Readable(o, n) == n <= Len(chain) /\ \A i \in FillsUpTo(o, n) : Txs[i].amount > 0

Entry(i, n, removed) == [id |-> i, block |-> n, removed |-> removed]
Announced(block, n, removed) == [k \in DOMAIN LogsOf(block) |-> Entry(LogsOf(block)[k], n, removed)]

Mine == \E block \in SeqOf(DOMAIN Txs \ Mined, 2) :
    /\ Len(chain) < MaxBlocks /\ block # <<>> /\ IsInjective(block)
    /\ \A k \in DOMAIN block : \A i \in Mined \cup Range(SubSeq(block, 1, k - 1)) :
          Txs[i].order = Txs[block[k]].order => Txs[i].amount > 0
    /\ chain' = Append(chain, block)
    /\ feed' = IF live THEN feed \o Announced(block, Len(chain) + 1, FALSE) ELSE feed
    /\ UNCHANGED <<live, job, scan, rows, keys, known, left, unseen>>

(* The last block is reorganised out; its logs are announced as removed.   *)
Reorg ==
    /\ left.reorgs > 0 /\ chain # <<>>
    /\ left' = [left EXCEPT !.reorgs = @ - 1]
    /\ chain' = Front(chain)
    /\ feed' = IF live THEN feed \o Announced(Last(chain), Len(chain), TRUE) ELSE feed
    /\ unseen' = IF live THEN unseen ELSE unseen \cup Range(Last(chain))
    /\ UNCHANGED <<live, job, scan, rows, keys, known>>

-----------------------------------------------------------------------------
(* The records.                                                            *)

Row(i, n) == [id |-> i, order |-> Txs[i].order, block |-> n, cumulative |-> None, amount |-> None]
Has(i) == i \in keys

(* push: the oldest record leaves a full ring, with its key.               *)
Pushed(held, row) ==
    LET all == Append(held.rows, row)
    IN  IF Len(all) <= MaxRecords THEN [rows |-> all, keys |-> held.keys \cup {row.id}]
        ELSE [rows |-> Tail(all), keys |-> (held.keys \cup {row.id}) \ {all[1].id}]

Store(held) == rows' = held.rows /\ keys' = held.keys
Held == [rows |-> rows, keys |-> keys]

(* retract: the first row of the log goes, and what was read of its order. *)
Retract(i) ==
    LET at == SelectInSeq(rows, LAMBDA r : r.id = i)
    IN  IF ~Has(i) \/ at = 0 THEN UNCHANGED <<rows, keys, known>>
        ELSE /\ rows' = RemoveAt(rows, at)
             /\ keys' = keys \ {i}
             /\ known' = Restrict(known, DOMAIN known \ {Txs[i].order})

-----------------------------------------------------------------------------
(* Live ingest.                                                            *)

Watch == ~live /\ live' = TRUE /\ UNCHANGED <<chain, feed, job, scan, rows, keys, known, left, unseen>>

(* Mutant: a removed log does not wait for the log being completed.        *)
SerialButRemoved == job = None \/ (feed # <<>> /\ Head(feed).removed)

Serial == job = None

(* The next log of the queue: retracted, skipped as held, or begun.        *)
Take ==
    /\ Serial /\ feed # <<>>
    /\ feed' = Tail(feed)
    /\ LET log == Head(feed)
       IN  /\ IF log.removed THEN Retract(log.id) ELSE UNCHANGED <<rows, keys, known>>
           /\ job' = IF log.removed \/ Has(log.id) THEN job
                     ELSE [row |-> Row(log.id, log.block), resolved |-> FALSE]
    /\ UNCHANGED <<chain, live, scan, left, unseen>>

Learnt(o, total, n) == [p \in DOMAIN known \cup {o} |-> IF p = o THEN [total |-> total, block |-> n] ELSE known[p]]

(* resolveAmount with the read at the row's block.                         *)
Resolve ==
    /\ job # None /\ ~job.resolved
    /\ LET row == job.row
           o == row.order
           total == Progress(o, row.block)
           first == o \notin DOMAIN known
       IN  IF Readable(o, row.block) /\ total > 0
           THEN /\ job' = [row |-> [row EXCEPT !.cumulative = total,
                                      !.amount = IF first THEN None
                                                 ELSE IF known[o].block > row.block \/ total <= known[o].total THEN None
                                                 ELSE total - known[o].total],
                           resolved |-> TRUE]
                /\ known' = IF first \/ row.block >= known[o].block
                            THEN Learnt(o, total, row.block)
                            ELSE known
           ELSE job' = [job EXCEPT !.resolved = TRUE] /\ UNCHANGED known
    /\ UNCHANGED <<chain, feed, live, scan, rows, keys, left, unseen>>

(* The read throws.                                                        *)
ResolveFails ==
    /\ job # None /\ ~job.resolved /\ left.failures > 0
    /\ job' = [job EXCEPT !.resolved = TRUE]
    /\ left' = [left EXCEPT !.failures = @ - 1]
    /\ UNCHANGED <<chain, feed, live, scan, rows, keys, known, unseen>>

Push ==
    /\ job # None /\ job.resolved
    /\ Store(Pushed(Held, job.row))
    /\ job' = None
    /\ UNCHANGED <<chain, feed, live, scan, known, left, unseen>>

-----------------------------------------------------------------------------
(* Backfill.                                                               *)

Upto(from, head) == IF from + ChunkBlocks - 1 > head THEN head ELSE from + ChunkBlocks - 1

(* getBlockNumber                                                          *)
Start ==
    /\ scan = None /\ left.backfills > 0
    /\ left' = [left EXCEPT !.backfills = @ - 1]
    /\ scan' = [at |-> "ask", from |-> 1, head |-> Len(chain), logs |-> <<>>, done |-> {}, newest |-> None]
    /\ UNCHANGED <<chain, feed, live, job, rows, keys, known, unseen>>

(* getContractEvents, answered by the node; the answer is on its way.      *)
Ask ==
    /\ scan # None /\ scan.at = "ask" /\ scan.from <= scan.head
    /\ LET to == IF Upto(scan.from, scan.head) > Len(chain) THEN Len(chain) ELSE Upto(scan.from, scan.head)
           blocks == [n \in 1..Len(chain) |->
                        IF n \in scan.from..to THEN Announced(chain[n], n, FALSE) ELSE <<>>]
       IN  scan' = [scan EXCEPT !.at = "logs", !.logs = FlattenSeq(blocks)]
    /\ UNCHANGED <<chain, feed, live, job, rows, keys, known, left, unseen>>

NextChunk == [scan EXCEPT !.at = "ask", !.from = Upto(@, scan.head) + 1, !.logs = <<>>]

Answer ==
    /\ scan # None /\ scan.at = "logs"
    /\ Store(FoldLeft(LAMBDA held, log : IF log.id \in held.keys THEN held
                                         ELSE Pushed(held, Row(log.id, log.block)), Held, scan.logs))
    /\ scan' = NextChunk
    /\ UNCHANGED <<chain, feed, live, job, known, left, unseen>>

AskFails ==
    /\ scan # None /\ scan.at = "ask" /\ scan.from <= scan.head /\ left.failures > 0
    /\ left' = [left EXCEPT !.failures = @ - 1]
    /\ scan' = NextChunk
    /\ UNCHANGED <<chain, feed, live, job, rows, keys, known, unseen>>

(* resolveHeadCumulatives: the newest row of the next order, if it has no  *)
(* cumulative, awaits a read at the head the scan went to.                 *)
NextOrder == scan # None /\ \E o \in Orders \ scan.done :
    /\ scan.at = "ask" /\ scan.from > scan.head
    /\ LET mine == SelectSeq(rows, LAMBDA r : r.order = o)
       IN  /\ mine # <<>>
           /\ scan' = IF Last(mine).cumulative # None THEN [scan EXCEPT !.done = @ \cup {o}]
                      ELSE [scan EXCEPT !.at = "head", !.done = @ \cup {o}, !.newest = Last(mine)]
    /\ UNCHANGED <<chain, feed, live, job, rows, keys, known, left, unseen>>

(* Mutant: what was read at the head replaces any earlier reading.         *)
SeedsAlways(o) == TRUE

(* Only a reading of an earlier block is replaced by the one at the head.  *)
Seeds(o) == o \notin DOMAIN known \/ known[o].block < scan.head

HeadRead ==
    /\ scan # None /\ scan.at = "head"
    /\ scan' = [scan EXCEPT !.at = "ask", !.newest = None]
    /\ LET o == scan.newest.order
           total == Progress(o, scan.head)
       IN  IF Readable(o, scan.head)
           THEN /\ rows' = [k \in DOMAIN rows |-> IF rows[k] = scan.newest
                                                  THEN [rows[k] EXCEPT !.cumulative = total] ELSE rows[k]]
                /\ known' = IF Seeds(o) THEN Learnt(o, total, scan.head)
                            ELSE known
           ELSE UNCHANGED <<rows, known>>
    /\ UNCHANGED <<chain, feed, live, job, keys, left, unseen>>

Done ==
    /\ scan # None /\ scan.at = "ask" /\ scan.from > scan.head
    /\ \A k \in DOMAIN rows : rows[k].order \in scan.done
    /\ scan' = None
    /\ UNCHANGED <<chain, feed, live, job, rows, keys, known, left, unseen>>

-----------------------------------------------------------------------------
Next ==
    \/ Mine \/ Reorg \/ Watch
    \/ Take \/ Resolve \/ ResolveFails \/ Push
    \/ Start \/ Ask \/ AskFails \/ Answer \/ NextOrder \/ HeadRead \/ Done

Spec == Init /\ [][Next]_vars

-----------------------------------------------------------------------------
(* Properties.                                                             *)

Quiet == feed = <<>> /\ job = None /\ scan = None

(* The amounts reported of one order add up to no more than was filled:    *)
(* no two rows count the same progress, whatever the order in which the    *)
(* live queue, the backfill and a failed read left the totals they         *)
(* difference against; and an amount is never zero or negative.            *)
AmountsFit == \A o \in Orders :
    LET counted == {k \in DOMAIN rows : rows[k].order = o /\ rows[k].amount # None}
    IN  /\ \A k \in counted : rows[k].amount > 0
        /\ Quiet => MapThenSumSet(LAMBDA k : rows[k].amount, counted) <= Progress(o, Len(chain))

(* Once every log is processed no row is left of a fill the chain lost, but*)
(* of one lost before the subscription began (orderbook/README.md:35:      *)
(* "reorged-out (`removed`) logs retracted").  It holds of the live queue  *)
(* alone; a backfill beside it may store the row a second time, or after   *)
(* its removal.                                                            *)
RemovedRetracted == Quiet => \A k \in DOMAIN rows : rows[k].id \in Mined \cup unseen

(* What the index reports of an order is what the chain has of it.         *)
RowsFollowChain == AmountsFit /\ RemovedRetracted
=============================================================================

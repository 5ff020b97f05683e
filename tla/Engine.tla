------------------------------- MODULE Engine -------------------------------
(***************************************************************************)
(* The filler's tick (beta-filler/src/engine.ts): resolve the outstanding  *)
(* transaction, then sweep the book, never-seen orders first, the rest     *)
(* round-robin from a cursor, until one transaction is sent or the tick's  *)
(* means are spent.  Each await is a step; the book indexes a fill late,   *)
(* and the process may restart from what it last saved.                    *)
(*                                                                         *)
(* Orders are numbered by their hash.  How one transaction is broadcast and*)
(* resolved is FillerGuard's: here it is mined, reverted or lost.  Left    *)
(* out: the dry run, the expiry margin, the rebalancer, the quotes, and    *)
(* the dirty flag, every change of what is saved setting it.               *)
(***************************************************************************)
EXTENDS Integers, Sequences, FiniteSets, Functions

CONSTANTS
    Orders,         \* numbers, in the order of their hashes
    Size, Value,    \* Orders -> fills it has room for, the USD value of one
    AddedAt,        \* Orders -> when the book first listed it
    Permitted,      \* orders that carry a maker's permit: staged first
    Accepted,       \* orders a strategy takes by their shape
    MaxOrders,      \* orders evaluated in a tick
    Means,          \* reads of a tick, counted in orders: canContinue
    Cap,            \* total fill cap, in USD
    Weathers,       \* bounds on [restarts, rivals, failures, unpriced]
    Nothing

ASSUME EngineAssumption ==
    /\ Orders # {} /\ Orders \subseteq Nat \ {0} /\ IsFiniteSet(Orders)
    /\ {MaxOrders, Means, Cap} \subseteq Nat \ {0}
    /\ Size \in [Orders -> Nat] /\ Value \in [Orders -> Nat]
    /\ Nothing \notin Nat \cup [order : Orders, fillable : Nat \cup {Nothing}]

VARIABLES
    room,           \* Orders -> fills still possible on chain
    served,         \* Orders -> the fillable the book serves, 0 when not listed
    fate,           \* the outstanding transaction: "flying", "mined", "reverted", "lost"
    seen, holds,    \* orders dispatched; order -> [fillable, why, over]
    cursor, filled, pending,
    saved,          \* the state last saved
    tick,           \* [at, queue, fillable, spent, evaluated, tx]
    left,           \* what the behaviour still may do of its Weather
    took, own       \* ghost: USD of the fills mined and priced; own fills the book must not offer

memory == <<seen, holds, cursor, filled, pending>>
engineVars == <<room, served, fate, memory, saved, tick, left, took, own>>

NoTick == [at |-> "idle", queue |-> <<>>, fillable |-> <<>>, spent |-> 0, evaluated |-> 0, tx |-> Nothing]
Spend(what) == left[what] > 0 /\ left' = [left EXCEPT ![what] = @ - 1]

EngineInit ==
    /\ room = Size /\ served = [o \in Orders |-> 0] /\ fate = "lost"
    /\ seen = {} /\ holds = <<>> /\ cursor = 0 /\ filled = 0 /\ pending = Nothing
    /\ saved = [cursor |-> 0, ownFills |-> <<>>, filled |-> 0, pending |-> Nothing]
    /\ tick = NoTick /\ left \in Weathers
    /\ took = 0 /\ own = {}

-----------------------------------------------------------------------------
(* What is saved.                                                          *)

(* Mutant: the own-fill holds are not saved.                               *)
NoOwnFills(h) == <<>>

OwnFills(h) == [o \in {p \in DOMAIN h : h[p].why = "filled" /\ ~h[p].over} |-> h[o].fillable]

Snapshot(h, c, f, p) == [cursor |-> c, ownFills |-> OwnFills(h), filled |-> f, pending |-> p]

Hold(o, fillable, why) ==
    [p \in DOMAIN holds \cup {o} |-> IF p = o THEN [fillable |-> fillable, why |-> why, over |-> FALSE] ELSE holds[p]]

-----------------------------------------------------------------------------
(* Resolving.                                                              *)

Resolved == tick.at = "idle" /\ pending # Nothing

(* Still flying, or not to be read: the tick ends there.                   *)
Waits == Resolved /\ fate = "flying" /\ saved' = Snapshot(holds, cursor, filled, pending)
         /\ UNCHANGED <<room, served, fate, memory, tick, left, took, own>>

(* Mined: the order is held at the figure the book served, then the fill is*)
(* priced.                                                                 *)
Lands ==
    /\ Resolved /\ fate = "mined"
    /\ pending' = Nothing
    /\ holds' = IF pending.fillable = Nothing THEN holds ELSE Hold(pending.order, pending.fillable, "filled")
    /\ own' = IF pending.fillable = served[pending.order] THEN own \cup {pending.order} ELSE own
    /\ tick' = [tick EXCEPT !.at = "price", !.tx = pending]
    /\ UNCHANGED <<room, served, fate, seen, cursor, filled, saved, left, took>>

(* The total grows by the value, if it can be read, and all is saved.      *)
Priced ==
    /\ tick.at = "price"
    /\ filled' = filled + Value[tick.tx.order]
    /\ saved' = Snapshot(holds, cursor, filled', pending)
    /\ tick' = [NoTick EXCEPT !.at = "fetch"]
    /\ UNCHANGED <<room, served, fate, seen, holds, cursor, pending, left, took, own>>

Unpriced ==
    /\ tick.at = "price" /\ Spend("unpriced")
    /\ took' = took - Value[tick.tx.order]
    /\ saved' = Snapshot(holds, cursor, filled, pending)
    /\ tick' = [NoTick EXCEPT !.at = "fetch"]
    /\ UNCHANGED <<room, served, fate, memory, own>>

(* Reverted, replaced or dropped.                                          *)
Fails ==
    /\ Resolved /\ fate \in {"reverted", "lost"}
    /\ pending' = Nothing
    /\ saved' = Snapshot(holds, cursor, filled, Nothing)
    /\ tick' = [NoTick EXCEPT !.at = "fetch"]
    /\ UNCHANGED <<room, served, fate, seen, holds, cursor, filled, left, took, own>>

NothingPending ==
    /\ tick.at = "idle" /\ pending = Nothing
    /\ tick' = [NoTick EXCEPT !.at = "fetch"]
    /\ UNCHANGED <<room, served, fate, memory, saved, left, took, own>>

-----------------------------------------------------------------------------
(* The sweep.                                                              *)

(* The orders of S in some line.                                           *)
Lines(S) == {q \in [1..Cardinality(S) -> S] : IsInjective(q)}

OldestFirst(q) == \A i, j \in DOMAIN q : i < j => AddedAt[q[i]] <= AddedAt[q[j]]

(* Mutant: the round starts at the first hash every time.                  *)
RoundFromStart(q) == \A i, j \in DOMAIN q : i < j => q[i] < q[j]

(* By hash, the first after the cursor first.                              *)
RoundRobin(q) == \A i, j \in DOMAIN q : i < j =>
    IF (q[i] > cursor) = (q[j] > cursor) THEN q[i] < q[j] ELSE q[i] > cursor

(* Mutant: the cap itself may be passed.                                   *)
CapPassed == filled > Cap

CapReached == filled >= Cap
Held(o, h, fillable) == o \in DOMAIN h /\ ~h[o].over /\ h[o].fillable = fillable[o]

(* The book is fetched, what it no longer serves is forgotten, and the     *)
(* orders are put in line, those never seen by age; those held cost nothing*)
Fetch ==
    LET listed == {o \in Orders : served[o] > 0}
        kept == Restrict(holds, DOMAIN holds \cap listed)
        inLine == {o \in listed : ~Held(o, kept, served)}
    IN  \E fresh \in Lines(inLine \ seen), round \in Lines(inLine \cap seen) :
        /\ tick.at = "fetch" /\ ~CapReached
        /\ OldestFirst(fresh) /\ RoundRobin(round)
        /\ holds' = kept /\ seen' = seen \cap listed
        /\ own' = own \cap listed
        /\ tick' = [NoTick EXCEPT !.at = "sweep", !.fillable = served,
                      !.queue = fresh \o round]
        /\ UNCHANGED <<room, served, fate, cursor, filled, pending, saved, left, took>>

(* The tick ends, and what changed is saved.                               *)
Ended == tick' = NoTick /\ saved' = Snapshot(holds', cursor', filled', pending')

(* The total cap is reached, or the book cannot be fetched.                *)
NoSweep ==
    /\ tick.at = "fetch"
    /\ IF CapReached THEN UNCHANGED left ELSE Spend("failures")
    /\ UNCHANGED <<room, served, fate, memory, took, own>>
    /\ Ended

Front1 == Head(tick.queue)
CanContinue == tick.spent < Means
AtOrder == tick.at = "sweep" /\ tick.queue # <<>> /\ CanContinue
Passed(o) == [tick EXCEPT !.at = "sweep", !.queue = Tail(@), !.tx = Nothing]

SweepEnds ==
    /\ tick.at = "sweep"
    /\ \/ tick.queue = <<>> \/ ~CanContinue
       \/ AtOrder /\ Front1 \in Accepted /\ tick.evaluated >= MaxOrders
    /\ UNCHANGED <<room, served, fate, memory, left, took, own>>
    /\ Ended

(* A maker's permit funds nothing (dead: the order rests), or its reads    *)
(* fail; neither moves the cursor.                                         *)
StageDead ==
    /\ AtOrder /\ Front1 \in Permitted \cap Accepted
    /\ holds' = Hold(Front1, tick.fillable[Front1], "passed")
    /\ seen' = seen \cup {Front1}
    /\ tick' = [Passed(Front1) EXCEPT !.spent = @ + 1]
    /\ UNCHANGED <<room, served, fate, cursor, filled, pending, saved, left, took, own>>

StageFails ==
    /\ AtOrder /\ Front1 \in Permitted \cap Accepted /\ Spend("failures")
    /\ holds' = Restrict(holds, DOMAIN holds \ {Front1})
    /\ seen' = seen \cup {Front1}
    /\ tick' = [Passed(Front1) EXCEPT !.spent = @ + 1]
    /\ UNCHANGED <<room, served, fate, cursor, filled, pending, saved, took, own>>

(* No strategy takes it: passed at no cost, not counted.                   *)
Unfit ==
    /\ AtOrder /\ Front1 \notin Accepted
    /\ holds' = Restrict(holds, DOMAIN holds \ {Front1})
    /\ seen' = seen \cup {Front1}
    /\ tick' = Passed(Front1)
    /\ UNCHANGED <<room, served, fate, cursor, filled, pending, saved, left, took, own>>

(* An order is put to the strategies; the cursor goes to it first, so that *)
(* one that throws does not come first again.                              *)
CursorAt(o) == IF o \in seen THEN o ELSE cursor

Evaluate ==
    /\ AtOrder /\ Front1 \in Accepted /\ tick.evaluated < MaxOrders
    /\ holds' = Restrict(holds, DOMAIN holds \ {Front1})
    /\ cursor' = CursorAt(Front1)
    /\ seen' = seen \cup {Front1}
    /\ tick' = [tick EXCEPT !.at = "asked", !.evaluated = @ + 1, !.spent = @ + 1]
    /\ UNCHANGED <<room, served, fate, filled, pending, saved, left, took, own>>

Asked == tick.at = "asked"

(* Every strategy passes at the current terms: the order rests.            *)
Rests ==
    /\ Asked
    /\ holds' = Hold(Front1, tick.fillable[Front1], "passed")
    /\ tick' = Passed(Front1)
    /\ UNCHANGED <<room, served, fate, seen, cursor, filled, pending, saved, left, took, own>>

(* Backed off or failed: no hold.                                          *)
Skips ==
    /\ Asked
    /\ tick' = Passed(Front1)
    /\ UNCHANGED <<room, served, fate, memory, saved, left, took, own>>

(* A strategy throws: the sweep is over.                                   *)
Throws ==
    /\ Asked /\ Spend("failures")
    /\ UNCHANGED <<room, served, fate, memory, took, own>>
    /\ Ended

(* A fill of one unit is committed, then sent...                           *)
Sends ==
    /\ Asked /\ room[Front1] > 0
    /\ pending' = [order |-> Front1, fillable |-> Nothing]
    /\ fate' = "flying"
    /\ saved' = Snapshot(holds, cursor, filled, pending')
    /\ tick' = [tick EXCEPT !.at = "sent"]
    /\ UNCHANGED <<room, served, seen, holds, cursor, filled, left, took, own>>

(* ... and the figure it was sized by is kept with it.                     *)
Sent ==
    /\ tick.at = "sent"
    /\ pending' = IF pending = Nothing THEN Nothing ELSE [pending EXCEPT !.fillable = tick.fillable[Front1]]
    /\ UNCHANGED <<room, served, fate, seen, holds, cursor, filled, left, took, own>>
    /\ Ended

-----------------------------------------------------------------------------
(* The chain, the book and the process.                                    *)

(* The transaction is mined and fills, or finds no room, or is lost.       *)
Mined ==
    /\ pending # Nothing /\ fate = "flying"
    /\ LET o == pending.order
       IN  IF room[o] > 0
           THEN fate' = "mined" /\ room' = [room EXCEPT ![o] = @ - 1] /\ took' = took + Value[o]
           ELSE fate' = "reverted" /\ UNCHANGED <<room, took>>
    /\ UNCHANGED <<served, memory, saved, tick, left, own>>

Lost ==
    /\ pending # Nothing /\ fate = "flying" /\ Spend("failures")
    /\ fate' = "lost"
    /\ UNCHANGED <<room, served, memory, saved, tick, took, own>>

Rival == \E o \in Orders :
    /\ room[o] > 0 /\ Spend("rivals")
    /\ room' = [room EXCEPT ![o] = @ - 1]
    /\ UNCHANGED <<served, fate, memory, saved, tick, took, own>>

(* The book lists an order, or indexes its fills.                          *)
Index == \E o \in Orders :
    /\ served[o] # room[o]
    /\ served' = [served EXCEPT ![o] = room[o]]
    /\ own' = own \ {o}
    /\ UNCHANGED <<room, fate, memory, saved, tick, left, took>>

(* The time of a hold runs out.                                            *)
HoldLapses(o) ==
    /\ o \in DOMAIN holds /\ ~holds[o].over
    /\ holds' = [holds EXCEPT ![o].over = TRUE]
    /\ own' = own \ {o}
    /\ UNCHANGED <<room, served, fate, seen, cursor, filled, pending, saved, tick, left, took>>

EngineRestart ==
    /\ Spend("restarts")
    /\ seen' = {} /\ cursor' = saved.cursor /\ filled' = saved.filled /\ pending' = saved.pending
    /\ holds' = [o \in DOMAIN saved.ownFills |-> [fillable |-> saved.ownFills[o], why |-> "filled", over |-> FALSE]]
    /\ tick' = NoTick
    /\ UNCHANGED <<room, served, fate, saved, took, own>>

-----------------------------------------------------------------------------
EngineTick ==
    \/ Waits \/ Lands \/ Priced \/ Fails \/ NothingPending
    \/ Fetch \/ NoSweep \/ SweepEnds
    \/ StageDead \/ Unfit \/ Evaluate \/ Rests \/ Skips \/ Sends \/ Sent

EngineNext ==
    \/ EngineTick \/ Unpriced \/ StageFails \/ Throws
    \/ Mined \/ Lost \/ Rival \/ Index \/ EngineRestart
    \/ \E o \in Orders : HoldLapses(o)

EngineSpec == EngineInit /\ [][EngineNext]_engineVars

(* The alarm ticks, a transaction is mined or given up, the book indexes.  *)
EngineLiveSpec ==
    /\ EngineSpec /\ WF_engineVars(EngineTick) /\ WF_engineVars(Mined) /\ WF_engineVars(Index)
    /\ \A o \in Orders : WF_engineVars(HoldLapses(o))

-----------------------------------------------------------------------------
(* Properties.                                                             *)

(* "the overshoot is at most one fill" (totalCap.ts), of the fills that    *)
(* could be priced.                                                        *)
CapKept == \E o \in Orders : took < Cap + Value[o]

(* An order whose fill landed is not put to the strategies again while the *)
(* book still serves the figure the fill was sized by and its hold lasts,  *)
(* a restart between included (engine.ts: "Do not re-quote the order we    *)
(* just filled while the book still serves it").                           *)
OwnFillHeld == tick.at = "asked" => Front1 \notin own

(* Every order the book lists and a strategy accepts is evaluated again and*)
(* again, whatever becomes of the others, as long as the cap is not reached*)
(* and no dead permit ends it first (engine.ts: a bounded sweep resumes    *)
(* where it stopped).                                                      *)
ComesUp == \A o \in Accepted \ Permitted :
    []<>(Asked /\ Front1 = o) \/ <>[](served[o] = 0 \/ CapReached)
=============================================================================

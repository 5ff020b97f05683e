-------------------------------- MODULE Book --------------------------------
(***************************************************************************)
(* The orderbook node's view of the market: orderbook/src/book.ts, with    *)
(* the capacity part of admission.ts and the events of watcher.ts.         *)
(*                                                                         *)
(* Signed messages come over a transport: announces, soft cancels and      *)
(* replaces.  Each is checked, then verified against the chain with an     *)
(* await, then applied; a recheck reads the state of listed orders and     *)
(* applies what it read.  The chain moves on its own, its events come late *)
(* or not at all, and a restart keeps nothing but the transport's history. *)
(*                                                                         *)
(* An order stands for its hash.  A signature that does not verify leaves  *)
(* no trace, so every message here is signed by its maker.  Where the code *)
(* takes the first of several equals, any of them is taken.                *)
(***************************************************************************)
EXTENDS Integers, Sequences, FiniteSets, FiniteSetsExt, Functions

CONSTANTS
    Orders,
    Maker, Expiry,          \* Orders -> maker, deadline
    Nonce, FillOnce,        \* Orders -> nonce, the flag of its timing word
    Cancels,                \* soft cancels: [maker, orders, expiry]
    Replaces,               \* [old, new, cancel]
    Tasks,                  \* calls that may await at once
    MaxOrders,              \* admission policy
    MinTtl, MaxTtl,
    MaxTombs, MaxPending,   \* tombstones held, pending ones of one maker
    MaxStrikes,
    Weathers,               \* bounds on [sends, moves, faults, boots, ticks] and the policy's
                            \* perMaker, one chosen at the start
    None

Makers == Range(Maker)

ASSUME BookAssumption ==
    /\ {MaxOrders, MaxTombs, MaxPending, MaxStrikes} \subseteq Nat \ {0}
    /\ {MinTtl, MaxTtl} \subseteq Nat
    /\ IsFiniteSet(Orders) /\ DOMAIN Maker = Orders /\ Expiry \in [Orders -> Nat]
    /\ Cancels \subseteq [maker : Range(Maker), orders : SUBSET Orders, expiry : Nat]
    /\ \A r \in Replaces :      \* what ingestReplaceAtomic asks of a replace before all else
         /\ {r.old, r.new} \subseteq Orders /\ r.old \in r.cancel.orders
         /\ r.cancel \in [maker : {Maker[r.new]}, orders : SUBSET Orders, expiry : Nat]
    /\ Weathers \subseteq [sends : Nat, moves : Nat, faults : Nat, boots : Nat, ticks : Nat, perMaker : Nat \ {0}]
    /\ None \notin Orders

VARIABLES
    now, status,    \* the clock; Orders -> "ok" | "poor" | "dead" on chain
    news,           \* chain events on their way: [kind, orders]
    store,          \* history of the transport, in order
    boot,           \* what start() has still to replay: [phase, next, last]
    entries,        \* listed orders -> [ok, strikes]
    counts,         \* makerCounts
    tombs,          \* <<order, maker>> -> [until, pending]
    dirty,
    task,           \* Tasks -> the call awaiting, or None
    left,           \* what the behaviour still may do of its Weather, and the cap of a maker
    retracted,      \* ghost: orders whose maker took them off this node while listed
    kept, since     \* ghost: the history at the last restart, and its time

chain == <<now, status, news>>
book == <<entries, counts, tombs, dirty>>
ghosts == <<retracted, kept, since>>
vars == <<chain, store, boot, book, task, left, ghosts>>

Listed == DOMAIN entries
Count(m) == IF m \in DOMAIN counts THEN counts[m] ELSE 0
Book == [entries |-> entries, counts |-> counts, tombs |-> tombs, dirty |-> dirty, gone |-> {}]
Live == boot.phase = "live"
MaxPerMaker == left.perMaker

Init ==
    /\ now = 0 /\ status = [o \in Orders |-> "ok"] /\ news = {}
    /\ store = <<>> /\ boot = [phase |-> "live", next |-> 1, last |-> 0]
    /\ entries = <<>> /\ counts = <<>> /\ tombs = <<>> /\ dirty = {}
    /\ task = [t \in Tasks |-> None]
    /\ left \in Weathers
    /\ retracted = {} /\ kept = {} /\ since = 0

-----------------------------------------------------------------------------
(* Listing, evicting and the tombstones, as functions of a book b.         *)

With(f, x, v) == [y \in DOMAIN f \cup {x} |-> IF y = x THEN v ELSE f[y]]
Without(f, x) == Restrict(f, DOMAIN f \ {x})
CountIn(b, m) == IF m \in DOMAIN b.counts THEN b.counts[m] ELSE 0

Of(b, m) == {o \in DOMAIN b.entries : Maker[o] = m}

Evict(b, S) ==
    LET out == S \cap DOMAIN b.entries
        rest(m) == CountIn(b, m) - Cardinality(Of(b, m) \cap out)
    IN  IF out = {} THEN b
        ELSE [b EXCEPT !.entries = Restrict(@, DOMAIN @ \ out), !.gone = @ \cup out,
                       !.counts = [m \in {x \in DOMAIN @ : rest(x) > 0} |-> rest(m)]]

List(b, o, ok) ==
    [b EXCEPT !.entries = With(@, o, [ok |-> ok, strikes |-> 0]),
              !.counts = With(@, Maker[o], CountIn(b, Maker[o]) + 1)]

SoftCancelled(b, o) == <<o, Maker[o]>> \in DOMAIN b.tombs /\ b.tombs[<<o, Maker[o]>>].until > now

PendingOf(t, m) == {k \in DOMAIN t : k[2] = m /\ t[k].pending}

(* Mutant: past the cap any tombstone goes.                                *)
TrimmedBlindly(t) ==
    IF Cardinality(DOMAIN t) <= MaxTombs THEN t
    ELSE Without(t, CHOOSE k \in DOMAIN t : ~t[k].pending \/ \A j \in DOMAIN t : t[j].pending)

(* A table of tombstones t past the cap gives up a pending one before any  *)
(* real one.                                                               *)
Trimmed(t) ==
    IF Cardinality(DOMAIN t) <= MaxTombs THEN t
    ELSE LET pending == {k \in DOMAIN t : t[k].pending}
         IN  Without(t, CHOOSE k \in DOMAIN t : pending # {} => k \in pending)

Tombstone(t, o, m, until, pending) ==
    LET k == <<o, m>>
    IN  IF k \in DOMAIN t
        THEN [t EXCEPT ![k] = [until |-> IF until > @.until THEN until ELSE @.until,
                               pending |-> @.pending /\ pending]]
        ELSE IF pending /\ Cardinality(PendingOf(t, m)) >= MaxPending THEN t
        ELSE Trimmed(With(t, k, [until |-> until, pending |-> pending]))

(* applyVerifiedCancel: the listed orders of the maker that a cancel names *)
(* go; what it names and is not listed is remembered for a while; what is  *)
(* another maker's is let be.                                              *)
Withdrawn(b, c) == Of(b, c.maker) \cap c.orders
Unseen(b, c) == c.orders \ DOMAIN b.entries
Remembered(c) == IF MaxTtl > 0 /\ c.expiry > now + MaxTtl THEN now + MaxTtl ELSE c.expiry

Buried(b, c, o, t) ==
    IF o \in Withdrawn(b, c) THEN Tombstone(t, o, c.maker, Expiry[o], FALSE)
    ELSE IF o \in Unseen(b, c) THEN Tombstone(t, o, c.maker, Remembered(c), TRUE)
    ELSE t

Retract(b, c) ==
    Evict([b EXCEPT !.tombs = FoldSet(LAMBDA o, t : Buried(b, c, o, t), b.tombs, c.orders)], Withdrawn(b, c))

-----------------------------------------------------------------------------
(* Admission.                                                              *)

(* displacementVictim: an order known to be unfillable, else the furthest  *)
(* deadline of the largest maker, if that one holds two more than m.       *)
Victims(b, m) ==
    LET bad == {o \in DOMAIN b.entries : ~b.entries[o].ok}
        top == {x \in DOMAIN b.counts : \A y \in DOMAIN b.counts : b.counts[y] <= b.counts[x]}
        big == {x \in top : b.counts[x] > CountIn(b, m) + 1}
    IN  IF Cardinality(DOMAIN b.entries) < MaxOrders THEN {}
        ELSE IF bad # {} THEN bad
        ELSE {o \in DOMAIN b.entries : Maker[o] \in big
                /\ \A p \in DOMAIN b.entries : Maker[p] = Maker[o] => Expiry[p] <= Expiry[o]}

(* precheck and checkAdmission, before the awaits.                         *)
Precheck(o, known) ==
    /\ ~SoftCancelled(Book, o)
    /\ Expiry[o] - now \in MinTtl..MaxTtl
    /\ known \/ /\ Cardinality(Listed) >= MaxOrders => Victims(Book, Maker[o]) # {}
                /\ Count(Maker[o]) < MaxPerMaker

TakesPredecessorSlot(b, o, old) == old # None /\ old \in DOMAIN b.entries /\ Maker[old] = Maker[o]

(* Mutant: the cap of a maker is checked before the awaits only.           *)
RoomAsBefore(b, o) == TRUE

RoomOfMaker(b, o) == CountIn(b, Maker[o]) < MaxPerMaker

(* admit, after the awaits: the books it may leave, or {} when refused.    *)
Admitted(b, o, ok, old) ==
    IF o \in DOMAIN b.entries THEN {[b EXCEPT !.entries[o].ok = ok]}
    ELSE IF SoftCancelled(b, o) THEN {}
    ELSE IF TakesPredecessorSlot(b, o, old) THEN {List(b, o, ok)}
    ELSE IF ~RoomOfMaker(b, o) THEN {}
    ELSE IF Cardinality(DOMAIN b.entries) < MaxOrders THEN {List(b, o, ok)}
    ELSE {List(Evict(b, {v}), o, ok) : v \in Victims(b, Maker[o])}

(* A refused order that was soft-cancelled extends its tombstone.          *)
Refused(b, o) ==
    IF SoftCancelled(b, o) /\ o \notin DOMAIN b.entries
    THEN [b EXCEPT !.tombs[<<o, Maker[o]>>].until = IF Expiry[o] > @ THEN Expiry[o] ELSE @]
    ELSE b

-----------------------------------------------------------------------------
(* The steps of a call.                                                    *)

(* An entry that leaves is no longer the object a recheck captured.        *)
Became(b, at) ==
    \E c \in {b} :
      /\ entries' = c.entries /\ counts' = c.counts /\ tombs' = c.tombs /\ dirty' = c.dirty
      /\ task' = [t \in Tasks |-> IF at[t] # None /\ at[t].kind = "recheck"
                                  THEN [at[t] EXCEPT !.same = @ \ c.gone] ELSE at[t]]

Idle(t) == task[t] = None
Call(kind, o, r, replay) == [kind |-> kind, order |-> o, replace |-> r, replay |-> replay, verdict |-> None]

(* ingestAnnounce up to verifyAnnounce.                                    *)
Announce(t, o, replay) ==
    IF o \notin Listed /\ Precheck(o, FALSE)
    THEN task' = [task EXCEPT ![t] = Call("announce", o, None, replay)]
    ELSE UNCHANGED task

(* ingestReplaceAtomic up to its awaits.                                   *)
ReplaceStarts(r) ==
    /\ r.cancel.expiry > now
    /\ ~(r.old \in Listed /\ Nonce[r.old] = Nonce[r.new] /\ ~FillOnce[r.old])
    /\ Precheck(r.new, TakesPredecessorSlot(Book, r.new, r.old) \/ r.new \in Listed)

(* A cancel that lives, where it applies at all, takes its orders off b.   *)
Cancelled(b, c, applies, at) ==
    IF applies /\ c.expiry > now
    THEN Became(Retract(b, c), at) /\ retracted' = retracted \cup Withdrawn(b, c)
    ELSE Became(b, at) /\ UNCHANGED retracted

(* A replayed replace that is refused still retires its predecessor.       *)
Replace(t, r, replay) ==
    IF ReplaceStarts(r)
    THEN task' = [task EXCEPT ![t] = Call("replace", r.new, r, replay)] /\ UNCHANGED <<book, retracted>>
    ELSE Cancelled(Book, r.cancel, replay, task)

(* The lens answers for the chain as it is now, and the answer travels.    *)
LensAnswers(t) ==
    /\ ~Idle(t) /\ task[t].verdict = None
    /\ task' = [task EXCEPT ![t].verdict =
                  IF task[t].kind = "recheck" THEN [o \in task[t].captured |-> status[o]]
                  ELSE status[task[t].order]]
    /\ UNCHANGED <<chain, store, boot, book, left, ghosts>>

(* The node errs: a recheck learns nothing of its orders, a call gives up. *)
LensFails(t) ==
    /\ ~Idle(t) /\ task[t].verdict = None /\ left.faults > 0
    /\ left' = [left EXCEPT !.faults = @ - 1]
    /\ \E isolated \in SUBSET (IF task[t].kind = "recheck" THEN task[t].captured ELSE {}) :
         task' = [task EXCEPT ![t].verdict =
                    IF task[t].kind = "recheck"
                    THEN [o \in task[t].captured |-> IF o \in isolated THEN "isolated" ELSE "inconclusive"]
                    ELSE "error"]
    /\ UNCHANGED <<chain, store, boot, book, ghosts>>

Ends(t) == [task EXCEPT ![t] = None]

(* ingestAnnounce after its await.                                         *)
AnnounceEnds(t) ==
    /\ ~Idle(t) /\ task[t].kind = "announce" /\ task[t].verdict # None
    /\ LET o == task[t].order next == Admitted(Book, o, TRUE, None)
       IN  IF task[t].verdict # "ok" THEN Became(Book, Ends(t))
           ELSE IF next = {} THEN Became(Refused(Book, o), Ends(t))
           ELSE \E b \in next : Became(b, Ends(t))
    /\ UNCHANGED <<chain, store, boot, left, ghosts>>

(* ingestReplaceAtomic after its awaits: the replacement comes and the     *)
(* predecessor goes in one step, or neither, unless it is a replay.        *)
ReplaceEnds(t) ==
    /\ ~Idle(t) /\ task[t].kind = "replace" /\ task[t].verdict # None
    /\ LET o == task[t].order r == task[t].replace
           next == IF task[t].verdict = "ok" THEN Admitted(Book, o, TRUE, r.old) ELSE {}
           rest == IF task[t].verdict = "ok" THEN Refused(Book, o) ELSE Book
       IN  IF next # {}
           THEN \E b \in next : Became(Retract(b, r.cancel), Ends(t))
                                /\ retracted' = retracted \cup Withdrawn(b, r.cancel)
           ELSE Cancelled(rest, r.cancel, task[t].replay, Ends(t))
    /\ UNCHANGED <<chain, store, boot, left, kept, since>>

(* recheck after refreshStates: written to the captured objects, and an    *)
(* eviction goes by hash.                                                  *)
RecheckEnds(t) ==
    /\ ~Idle(t) /\ task[t].kind = "recheck" /\ task[t].verdict # None
    /\ LET v == task[t].verdict
           struck(o) == entries[o].strikes + 1
           marked == [o \in Listed |->
                        IF o \notin task[t].same \/ v[o] = "inconclusive" THEN entries[o]
                        ELSE IF v[o] = "isolated" THEN [entries[o] EXCEPT !.strikes = @ + 1]
                        ELSE [ok |-> v[o] = "ok", strikes |-> 0]]
           out == {o \in task[t].captured : v[o] \in {"poor", "dead"}
                     \/ (v[o] = "isolated" /\ o \in task[t].same /\ struck(o) >= MaxStrikes)}
       IN  Became(Evict([Book EXCEPT !.entries = marked], out), Ends(t))
    /\ UNCHANGED <<chain, store, boot, left, ghosts>>

-----------------------------------------------------------------------------
(* Messages.  The transport keeps them; only a node that is up hears them. *)

Announces == {[kind |-> "order", order |-> o] : o \in Orders}
Retractions == {[kind |-> "cancel", cancel |-> c] : c \in Cancels}
Amends == {[kind |-> "replace", replace |-> r] : r \in Replaces}
Messages == Announces \cup Retractions \cup Amends

Handle(t, m, replay) ==
    /\ Idle(t)
    /\ CASE m.kind = "order" -> Announce(t, m.order, replay) /\ UNCHANGED <<book, retracted>>
         [] m.kind = "cancel" -> Cancelled(Book, m.cancel, TRUE, task)
         [] m.kind = "replace" -> Replace(t, m.replace, replay)

Hears(t, m) ==
    /\ left.sends > 0 /\ left' = [left EXCEPT !.sends = @ - 1]
    /\ store' = IF left.boots > 0 \/ kept # {} THEN Append(store, m) ELSE store
    /\ IF Live THEN Handle(t, m, FALSE) ELSE UNCHANGED <<book, task, retracted>>
    /\ UNCHANGED <<chain, boot, kept, since>>

Publish(t) == \E m \in Messages : Hears(t, m)

(* start(): the history of the cancels, then of the orders, then of the    *)
(* replaces, each asked for when its turn comes and replayed one by one.   *)
History(kind) == [phase |-> kind, next |-> 1, last |-> IF kind = "live" THEN 0 ELSE Len(store)]
ToReplay == {k \in boot.next..boot.last : store[k].kind = boot.phase}

(* Mutant: the replaces of the history are not replayed.                   *)
PhaseAfterOrders(p) == IF p = "cancel" THEN "order" ELSE "live"

PhaseAfter(p) == CASE p = "cancel" -> "order" [] p = "order" -> "replace" [] OTHER -> "live"

Restart ==
    /\ left.boots > 0 /\ Live
    /\ left' = [left EXCEPT !.boots = @ - 1]
    /\ boot' = History("cancel")
    /\ entries' = <<>> /\ counts' = <<>> /\ tombs' = <<>> /\ dirty' = {}
    /\ task' = [t \in Tasks |-> None]
    /\ news' = {} /\ retracted' = {} /\ kept' = Range(store) /\ since' = now
    /\ UNCHANGED <<now, status, store>>

Replay(t) ==
    /\ ~Live /\ \A u \in Tasks : Idle(u)
    /\ \E k \in ToReplay :
         /\ \A j \in ToReplay : k <= j
         /\ Handle(t, store[k], TRUE)
         /\ boot' = [boot EXCEPT !.next = k + 1]
    /\ UNCHANGED <<chain, store, left, kept, since>>

NextPhase ==
    /\ ~Live /\ ToReplay = {} /\ \A u \in Tasks : Idle(u)
    /\ boot' = History(PhaseAfter(boot.phase))
    /\ UNCHANGED <<chain, store, book, task, left, ghosts>>

-----------------------------------------------------------------------------
(* The chain.                                                              *)

(* Orders of one maker die together: cancelled by hash or nonce, rolled    *)
(* back, or claimed by a group.  A fill kills the orders of a fill-once    *)
(* nonce; a fill of another order may or may not be its last.              *)
Sharing(o) == {p \in Orders : Maker[p] = Maker[o] /\ Nonce[p] = Nonce[o]}

Moves == left.moves > 0 /\ left' = [left EXCEPT !.moves = @ - 1] /\ UNCHANGED <<now, store, boot, book, task, ghosts>>

Die(S, kind, o) ==
    /\ Moves
    /\ status' = [p \in Orders |-> IF p \in S THEN "dead" ELSE status[p]]
    /\ news' = IF Live THEN news \cup {[kind |-> kind, order |-> o, orders |-> S]} ELSE news

CancelledOnChain == \E o \in Orders : status[o] # "dead" /\ \E S \in {{o}, Sharing(o)} : Die(S, "cancelled", o)
FilledOnChain == \E o \in Orders :
    /\ status[o] = "ok"
    /\ IF FillOnce[o] THEN Die(Sharing(o), "filled", o) ELSE \E S \in {{}, {o}} : Die(S, "filled", o)

(* The maker's balance or allowance goes.                                  *)
Drained == \E o \in Orders :
    /\ Moves /\ status[o] = "ok" /\ status' = [status EXCEPT ![o] = "poor"] /\ UNCHANGED news

(* applyChainEvent                                                         *)
ChainEvent == \E e \in news :
    /\ news' = news \ {e}
    /\ LET gone == IF e.kind = "cancelled" THEN e.orders
                   ELSE IF e.order \in Listed /\ FillOnce[e.order] THEN Sharing(e.order) ELSE {}
           touched == IF e.kind = "filled" /\ e.order \in Listed /\ ~FillOnce[e.order] THEN {e.order} ELSE {}
       IN  Became([Evict(Book, gone) EXCEPT !.dirty = @ \cup touched], task)
    /\ UNCHANGED <<now, status, store, boot, left, ghosts>>

EventLost == \E e \in news :
    /\ news' = news \ {e} /\ UNCHANGED <<now, status, store, boot, book, task, left, ghosts>>

Pass ==
    /\ left.ticks > 0 /\ left' = [left EXCEPT !.ticks = @ - 1]
    /\ now' = now + 1
    /\ UNCHANGED <<status, news, store, boot, book, task, ghosts>>

-----------------------------------------------------------------------------
(* Maintenance.                                                            *)

Recheck(S) == [kind |-> "recheck", captured |-> S, same |-> S, verdict |-> None]

(* Mutant: only what an event touched is rechecked.                        *)
DueTouched(b) == b.dirty \cap DOMAIN b.entries

Due(b) == DOMAIN b.entries

(* revalidate: prune, expire, and recheck what is left.                    *)
Revalidate(t) ==
    /\ Live /\ Idle(t)
    /\ LET pruned == [Book EXCEPT !.tombs = Restrict(@, {k \in DOMAIN @ : @[k].until > now})]
           b == Evict(pruned, {o \in Listed : Expiry[o] <= now})
       IN  Became(b, IF Due(b) = {} THEN task ELSE [task EXCEPT ![t] = Recheck(Due(b))])
    /\ UNCHANGED <<chain, store, boot, left, ghosts>>

(* revalidateDirty                                                         *)
Sweep(t) ==
    /\ Live /\ Idle(t) /\ dirty # {}
    /\ Became([Book EXCEPT !.dirty = {}],
              IF dirty \cap Listed = {} THEN task ELSE [task EXCEPT ![t] = Recheck(dirty \cap Listed)])
    /\ UNCHANGED <<chain, store, boot, left, ghosts>>

-----------------------------------------------------------------------------
Step(t) == LensAnswers(t) \/ LensFails(t) \/ AnnounceEnds(t) \/ ReplaceEnds(t) \/ RecheckEnds(t)

Next ==
    \/ \E t \in Tasks : Publish(t) \/ Step(t) \/ Replay(t) \/ Revalidate(t) \/ Sweep(t)
    \/ Restart \/ NextPhase
    \/ CancelledOnChain \/ FilledOnChain \/ Drained \/ ChainEvent \/ EventLost \/ Pass

Spec == Init /\ [][Next]_vars

(* The timer of start() goes on, and what a call awaits comes back.        *)
LiveSpec ==
    /\ Spec
    /\ WF_vars(\E t \in Tasks : Revalidate(t)) /\ WF_vars(NextPhase)
    /\ \A t \in Tasks : WF_vars(Step(t)) /\ WF_vars(Replay(t))

-----------------------------------------------------------------------------
(* Properties.                                                             *)

(* The caps hold and the per-maker counts are exact, however the announces,*)
(* replaces, displacements and evictions interleave: a replace goes past   *)
(* the caps only in the slot its predecessor leaves (book.ts, admit: "two  *)
(* concurrent ingests ... cannot both squeeze past a cap").                *)
CapsHeld ==
    /\ Cardinality(Listed) <= MaxOrders
    /\ \A m \in Makers : Count(m) = Cardinality({o \in Listed : Maker[o] = m}) /\ Count(m) <= MaxPerMaker

(* The soft cancels of a set of messages; whether their tombstones fit.    *)
SoftCancel(m) == IF m.kind = "cancel" THEN {m.cancel} ELSE IF m.kind = "replace" THEN {m.replace.cancel} ELSE {}
Sent(S) == UNION {SoftCancel(m) : m \in S}
Fit(cs) ==
    /\ Cardinality(UNION {c.orders \X {c.maker} : c \in cs}) <= MaxTombs
    /\ \A m \in Makers : Cardinality(UNION {c.orders : c \in {d \in cs : d.maker = m}}) <= MaxPending

(* An order its maker took off this node while it was listed is not listed *)
(* again before its deadline, whoever announces it, and no flood of cancels*)
(* for orders never seen flushes its tombstone, as long as the retracted   *)
(* ones fit (book.ts, ingestCancel: "The cancel then STICKS ... until the  *)
(* order's own deadline for a live order").                                *)
RetractedStaysOut ==
    Cardinality(retracted) <= MaxTombs => \A o \in retracted \cap Listed : Expiry[o] <= now

(* A node that restarted and has replayed its history does not list an     *)
(* order that a cancel or a replace of that history took away, while the   *)
(* cancel lives, its tombstone can, which is MaxTtl for an order not seen  *)
(* yet, and the tombstones fit (book.ts, start: "so a soft-cancelled or    *)
(* replaced order in Store history does not come back on every boot").     *)
HistoryStaysOut ==
    Live /\ Fit(Sent(Range(store))) =>
        \A c \in Sent(kept) : now < c.expiry /\ (MaxTtl > 0 => now < since + MaxTtl) =>
            \A o \in c.orders \cap Listed : Maker[o] = c.maker => Expiry[o] <= now

(* An order that died on chain is off the book in the end and stays off,   *)
(* though its event may be lost, a call verified before its death may list *)
(* it after, and reads may fail: the recheck is the backstop (book.ts: "a  *)
(* periodic on-chain re-check that drops orders that went Filled/Cancelled *)
(* off-book").                                                             *)
DeadLeave == <>[](Listed \cap {o \in Orders : status[o] = "dead"} = {})
=============================================================================

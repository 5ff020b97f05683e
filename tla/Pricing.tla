------------------------------ MODULE Pricing ------------------------------
(***************************************************************************)
(* What a leg of an order costs at a moment: DutchAuction.sol (the bump    *)
(* that every leg shares, and the ticks it moves), Pricing.sol (the slice  *)
(* of one fill), Proportional.sol (amounts relative to a balance).         *)
(*                                                                         *)
(* A function of the code that may revert is the set of its results here,  *)
(* empty where it reverts.  Arithmetic is checked in the code: a product   *)
(* past a uint256 reverts, so that it removes fills and changes none.      *)
(***************************************************************************)
EXTENDS Integers, Sequences

BPS == 10000

Least(a, b) == IF a <= b THEN a ELSE b
Less(a, b) == IF a > b THEN a - b ELSE 0

CeilDiv(a, b) == IF a = 0 THEN 0 ELSE (a - 1) \div b + 1

(* What moves the price of an order.                                       *)
(*   start, duration   the decay clock; duration 0 does not decay          *)
(*   curve             points [t, b]: time after start, bump there         *)
(*   gasBump, gasRef   the most the base fee may add, and where it does    *)
(*   scale, baseline   of a priority auction                               *)
(*   mode              "clock", "priority" or "module"                     *)
Points == [t : Nat, b : Nat]
Clocks == [start : Nat, duration : Nat, curve : Seq(Points), gasBump : Nat, gasRef : Nat,
           scale : Nat, baseline : Nat, mode : {"clock", "priority", "module"}]

(* The moment: the order's own tick (a time or a block), the fees of the   *)
(* block and the transaction, and what the maker's price module answers.   *)
Moments == [tick : Nat, basefee : Nat, gasprice : Nat, answer : Nat]

-----------------------------------------------------------------------------
(* The bump: 0 is the start price, BPS the end price.                      *)

(* One straight segment.                                                   *)
Linear(o, elapsed) == IF elapsed >= o.duration THEN BPS ELSE (BPS * elapsed) \div o.duration

(* Between two points; a falling segment rounds its decrement up.          *)
Between(p, q, elapsed) ==
    LET span == q.t - p.t
        along == elapsed - p.t
    IN  IF q.b >= p.b THEN p.b + ((q.b - p.b) * along) \div span
        ELSE p.b - ((p.b - q.b) * along + span - 1) \div span

(* The segment the walk stops at: the first whose right end is later.      *)
Stops(curve, elapsed, k) ==
    /\ k \in 2..Len(curve)
    /\ elapsed < curve[k].t
    /\ \A j \in 2..(k - 1) : elapsed >= curve[j].t

Piecewise(curve, elapsed) ==
    IF elapsed <= curve[1].t THEN {curve[1].b}
    ELSE IF elapsed >= curve[Len(curve)].t THEN {curve[Len(curve)].b}
    ELSE {Between(curve[k - 1], curve[k], elapsed) :
            k \in {j \in 2..Len(curve) : Stops(curve, elapsed, j) /\ curve[j].t > curve[j - 1].t}}

(* AuctionNotStarted is raised only where the clock is read.               *)
TimeBump(o, m) ==
    IF o.curve = <<>> /\ o.duration = 0 THEN {0}
    ELSE IF m.tick < o.start THEN {}
    ELSE IF o.curve = <<>> THEN {Linear(o, m.tick - o.start)}
    ELSE Piecewise(o.curve, m.tick - o.start)

GasBump(o, m) ==
    IF o.gasBump # 0 /\ o.gasRef # 0 THEN Least((o.gasBump * m.basefee) \div o.gasRef, o.gasBump) ELSE 0

BumpBps(o, m) == {Least(b + GasBump(o, m), BPS) : b \in TimeBump(o, m)}

(* The not-before gate of the modes that are resolved once and pinned.     *)
Begun(o, m) == o.start # 0 => m.tick >= o.start

(* The tip above the base fee and the maker's baseline, rounded up, is     *)
(* what a bid improves on the floor.                                       *)
Bid(o, m) == Less(Less(m.gasprice, m.basefee), o.baseline)

PriorityBump(o, m) ==
    IF Begun(o, m) /\ o.scale # 0 /\ o.gasBump = 0
    THEN {Less(BPS, (Bid(o, m) * BPS + o.scale - 1) \div o.scale)} ELSE {}

PriceBump(o, m) == IF Begun(o, m) THEN {Least(m.answer, BPS)} ELSE {}

(* resolveBump, and bumpBps where nothing was pinned.  An order on the     *)
(* clock reads it only for a leg that decays.                              *)
Bumps(o, m, decays) ==
    IF o.mode = "module" THEN PriceBump(o, m)
    ELSE IF o.mode = "priority" THEN PriorityBump(o, m)
    ELSE IF decays THEN BumpBps(o, m) ELSE {0}

-----------------------------------------------------------------------------
(* Ticks.  end = 0 is a fixed leg.  Outputs fall, inputs rise.             *)

Legs == [start : Nat, end : Nat, own : BOOLEAN]

Falls(leg) == leg.end # 0 => leg.start >= leg.end
Rises(leg) == leg.end # 0 => leg.start <= leg.end

(* The end of an auctioned leg, the amount of a fixed one.                 *)
Worst(leg) == IF leg.end = 0 THEN leg.start ELSE leg.end

OutTick(leg, bump) ==
    IF leg.end = 0 THEN leg.start ELSE leg.start - ((leg.start - leg.end) * bump) \div BPS

InTick(leg, bump) ==
    IF leg.end = 0 THEN leg.start ELSE leg.start + ((leg.end - leg.start) * bump) \div BPS

-----------------------------------------------------------------------------
(* Slices.  A context tells of one fill: the denominator, the progress     *)
(* before and after it, its bump, and the premium of an outsider in the    *)
(* exclusivity window (override, at most BPS).                             *)

Contexts == [anchor : Nat \ {0}, prev : Nat, new : Nat, bump : 0..BPS, override : 0..BPS]

FullFill(ctx) == ctx.prev = 0 /\ ctx.new = ctx.anchor

(* Mutant: rounds up each slice of a BUY by itself.                        *)
OutputBySlice(buy, leg, ctx) ==
    CeilDiv((ctx.new - ctx.prev) * (IF buy THEN leg.start ELSE OutTick(leg, ctx.bump)), ctx.anchor)

(* A BUY delivers exact amounts: what is due so far less what was due      *)
(* before.  A SELL delivers at the tick, and an outsider lifts the legs    *)
(* that are the maker's own.                                               *)
OutputAt(buy, leg, ctx) ==
    IF buy
    THEN IF FullFill(ctx) THEN leg.start
         ELSE CeilDiv(leg.start * ctx.new, ctx.anchor) - CeilDiv(leg.start * ctx.prev, ctx.anchor)
    ELSE LET amt == CeilDiv((ctx.new - ctx.prev) * OutTick(leg, ctx.bump), ctx.anchor)
         IN  IF amt # 0 /\ ctx.override # 0 /\ leg.own
             THEN CeilDiv(amt * (BPS + ctx.override), BPS) ELSE amt

(* Auctioned inputs follow the tick, less an outsider's premium; fixed     *)
(* ones are exact.                                                         *)
InputOwed(buy, leg, ctx) ==
    IF buy \/ leg.end # 0
    THEN LET owed == ((ctx.new - ctx.prev) * InTick(leg, ctx.bump)) \div ctx.anchor
         IN  IF ctx.override # 0 THEN (owed * (BPS - ctx.override)) \div BPS ELSE owed
    ELSE IF FullFill(ctx) THEN leg.start
         ELSE (leg.start * ctx.new) \div ctx.anchor - (leg.start * ctx.prev) \div ctx.anchor

-----------------------------------------------------------------------------
(* Amounts relative to a balance, in the top of the word (max is the       *)
(* largest uint256).  end is the maker's cap.                              *)

IsProportional(max, amount) == amount > max - BPS
Share(max, amount) == BPS - (max - amount)
Encode(max, share) == max - (BPS - share)

Resolve(max, balance, leg) ==
    IF leg.end = 0 THEN {} ELSE {Least((balance * Share(max, leg.start)) \div BPS, leg.end)}

(* anchorTotal: the denominator of a SELL without a signed total.          *)
AnchorTotal(max, balance, leg) ==
    IF IsProportional(max, leg.start) THEN Resolve(max, balance, leg) ELSE {leg.start}

(* inputOwed of the anchor leg: the pinned denominator, for a whole fill.  *)
AnchorOwed(max, leg, ctx) ==
    IF ~IsProportional(max, leg.start) THEN {InputOwed(FALSE, leg, ctx)}
    ELSE IF FullFill(ctx) THEN {ctx.anchor} ELSE {}
=============================================================================

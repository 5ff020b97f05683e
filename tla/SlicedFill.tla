----------------------------- MODULE SlicedFill -----------------------------
(***************************************************************************)
(* One order filled in slices, each at a moment and a size of the filler's *)
(* choosing: what adds up on its legs.  OrderState gates the slices and    *)
(* counts them; here is what each one prices at (Pricing).  Every leg is   *)
(* absolute: a proportional order has one fill (Pricing, AnchorOwed).      *)
(***************************************************************************)
EXTENDS OrderTerms

VARIABLES
    order,          \* the order, which stays what it is
    filled,         \* its counter
    delivered,      \* what each output leg received, over all fills
    paid            \* what each input leg gave

vars == <<order, filled, delivered, paid>>

Buy == order.buy
Anchor == order.anchor
Outs == order.outs
Ins == order.ins
Clock == order.clock

Init ==
    /\ order \in Orders
    /\ filled = 0
    /\ delivered = [j \in DOMAIN Outs |-> 0]
    /\ paid = [i \in DOMAIN Ins |-> 0]

(* A leg that reads the clock: the outputs of a BUY never do.              *)
Decays ==
    \/ ~Buy /\ \E j \in DOMAIN Outs : Outs[j].end # 0
    \/ \E i \in DOMAIN Ins : Ins[i].end # 0

(* One fill of delta, by a filler that pays the premium or does not.       *)
(* InvalidAuctionParams where a leg runs the wrong way.                    *)
FillSlice(delta, m, premium) ==
    /\ delta > 0 /\ filled + delta <= Anchor
    /\ ~Buy => \A j \in DOMAIN Outs : Falls(Outs[j])
    /\ \A i \in DOMAIN Ins : Rises(Ins[i])
    /\ filled' = filled + delta
    /\ \E bump \in Bumps(Clock, m, Decays) :
         LET ctx == [anchor |-> Anchor, prev |-> filled, new |-> filled + delta,
                     bump |-> bump, override |-> premium]
         IN  /\ delivered' = [j \in DOMAIN Outs |-> delivered[j] + OutputAt(Buy, Outs[j], ctx)]
             /\ paid' = [i \in DOMAIN Ins |-> paid[i] + InputOwed(Buy, Ins[i], ctx)]
    /\ UNCHANGED order

(* Moments may come in any order: nothing here needs a clock to advance.   *)
Next == \E delta \in Sizes, m \in Days, premium \in {0, order.premium} : FillSlice(delta, m, premium)

Spec == Init /\ [][Next]_vars

-----------------------------------------------------------------------------
(* What must hold.                                                         *)

TypeOK ==
    /\ order \in Orders
    /\ filled \in 0..Anchor
    /\ delivered \in [DOMAIN Outs -> Nat]
    /\ paid \in [DOMAIN Ins -> Nat]

(* However a SELL is cut into fills, and whenever each is made, every leg  *)
(* has received at least its floor for what was filled (Pricing.outputAt). *)
FloorKept ==
    ~Buy => \A j \in DOMAIN Outs : delivered[j] * Anchor >= Worst(Outs[j]) * filled

(* ... and no input leg has given more than its ceiling for it, of either  *)
(* side (Pricing.inputOwed).                                               *)
CeilingKept == \A i \in DOMAIN Ins : paid[i] * Anchor <= Worst(Ins[i]) * filled

(* The fixed side comes out to the last unit when the order is complete,   *)
(* whatever the roundings of its slices: the outputs of a BUY, the fixed   *)
(* inputs of a SELL (Pricing: "exact output", "exact input").              *)
FixedSideExact ==
    filled = Anchor =>
        /\ Buy => \A j \in DOMAIN Outs : delivered[j] = Outs[j].start
        /\ ~Buy => \A i \in DOMAIN Ins : Ins[i].end = 0 => paid[i] = Ins[i].start

(* The three, of one order cut into fills in any way, at any moments.      *)
SlicesAddUp == FloorKept /\ CeilingKept /\ FixedSideExact
=============================================================================

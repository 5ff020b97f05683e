----------------------------- MODULE OrderTerms -----------------------------
(***************************************************************************)
(* What a maker signs of its prices, and the fills that are tried: shared  *)
(* by the sums over one order's fills (SlicedFill) and by the fills        *)
(* themselves (TokenFlow).                                                 *)
(***************************************************************************)
EXTENDS Pricing

CONSTANTS
    Orders,         \* what a maker may have signed
    Sizes,          \* what a fill may be of
    Days            \* the moments a fill may come at

OrderTypes == [buy : BOOLEAN, anchor : Nat \ {0}, outs : Seq(Legs), ins : Seq(Legs),
               clock : Clocks, premium : 0..BPS]

(* Orders have their types; a premium past BPS is refused                  *)
(* (InvalidOverrideBps).                                                   *)
ASSUME OrdersAssumption ==
    /\ Orders \subseteq OrderTypes
    /\ Sizes \subseteq Nat /\ Days \subseteq Moments
=============================================================================

--------------------------- MODULE MCMatchSettle ----------------------------
(* Small plans for MatchSettle: two tokens, two makers, a netted pair.      *)
EXTENDS MatchSettle, TLC

CONSTANTS tA, tB, alice, bob, third, self

Leg(n, t, to, a) == [leg |-> n, token |-> t, to |-> to, amt |-> a]
Yield(a, b) == tA :> a @@ tB :> b
It(op, funded, ys) == [op |-> op, funded |-> funded, yields |-> ys]

(* A borrow that may over-produce or pay out a token that is no leg of it, *)
(* a deposit of what the order was delivered, a repay that may be refunded. *)
Borrow == It("TAKE", FALSE, {Yield(1, 0), Yield(3, 0), Yield(1, 1)})
Deposit == It("MAKE", TRUE, {Yield(0, 0)})
Repay == It("MAKE", FALSE, {Yield(0, 0), Yield(1, 0)})

Order(m, owed, outs, items, policy) ==
    [maker |-> m, owed |-> owed, outs |-> outs, items |-> items, policy |-> policy]

(* alice sells A for B and borrows part of it; bob sells B for A; alice has *)
(* a second, item-free order on the same allowance.                         *)
NettedPlan ==
       1 :> Order(alice, tA :> 2, {Leg(1, tB, alice, 1)}, <<Borrow>>, ANY)
    @@ 2 :> Order(bob, tB :> 3, {Leg(1, tA, bob, 1), Leg(2, tA, third, 1)}, <<>>, ANY)
    @@ 3 :> Order(alice, tA :> 1, {Leg(1, tB, alice, 1)}, <<Repay>>, ANY)

(* One order of each stricter policy, against bob's.                        *)
LadderPlan ==
       1 :> Order(alice, tA :> 2, {Leg(1, tB, alice, 1)}, <<Borrow, Deposit>>, ORDERED)
    @@ 2 :> Order(bob, tB :> 2, {Leg(1, tA, bob, 1)}, <<>>, ANY)
    @@ 3 :> Order(alice, tA :> 1, {Leg(1, tB, third, 1)}, <<Deposit, Borrow>>, CANONICAL)

GroupPlan ==
       1 :> Order(alice, tA :> 3, {Leg(1, tB, alice, 1)}, <<Borrow, Deposit, Borrow>>, ATOMIC)
    @@ 2 :> Order(bob, tB :> 2, {Leg(1, tA, bob, 1)}, <<Repay, Deposit>>, ORDERED)

(* Two orders each funded by what the other's borrow produces, and a leg    *)
(* addressed to the contract, which may be worth nothing at this price.     *)
CyclePlan ==
       1 :> Order(alice, tA :> 1, {Leg(1, tB, alice, 1)}, <<Deposit, Borrow>>, ANY)
    @@ 2 :> Order(bob, tB :> 1, {Leg(1, tA, bob, 1), Leg(2, tA, self, 0)},
                  <<Deposit, It("TAKE", FALSE, {Yield(0, 1), Yield(0, 2)})>>, ANY)

CONSTANTS netted, ladder, group, cycle

SmallPlans == netted :> NettedPlan @@ ladder :> LadderPlan @@ group :> GroupPlan
                                   @@ cycle :> CyclePlan

Finite == [m \in Makers |-> [t \in Tokens |-> 3]]
SomeDonated == [t \in Tokens |-> 1]
SmallPurse == [t \in Tokens |-> 2]
=============================================================================

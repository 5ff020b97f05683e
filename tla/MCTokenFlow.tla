----------------------------- MODULE MCTokenFlow -----------------------------
(* Small orders for TokenFlow.  The quiet ones, one of each way to price,   *)
(* are filled at every moment and in every slicing, with nobody else about; *)
(* the loud ones, one of each way for tokens to move, while others act.     *)
EXTENDS TokenFlow, TLC

CONSTANTS A, B, P       \* sold, bought; a position

-----------------------------------------------------------------------------
(* Prices.                                                                  *)

Leg(start, end) == [start |-> start, end |-> end, own |-> TRUE]
Fee(start, end) == [Leg(start, end) EXCEPT !.own = FALSE]
Point(t, b) == [t |-> t, b |-> b]

Still == [start |-> 0, duration |-> 0, curve |-> <<>>, gasBump |-> 0, gasRef |-> 0,
          scale |-> 0, baseline |-> 0, mode |-> "clock"]

(* A straight decay that has not begun at 0, and the block's fee on top.    *)
Straight == [Still EXCEPT !.start = 1, !.duration = 3, !.gasBump = 2000, !.gasRef = 3]

(* Rising, falling past the end price, and a pair that is not in order.     *)
Bent == [Still EXCEPT !.curve = <<Point(1, 1000), Point(2, 12000), Point(4, 3333), Point(4, 0)>>]

Bidding == [Still EXCEPT !.scale = 3, !.baseline = 1, !.mode = "priority"]
Asking == [Still EXCEPT !.start = 1, !.mode = "module"]

Sell(clock, outs, premium) ==
    [buy |-> FALSE, anchor |-> 5, outs |-> outs, ins |-> <<Leg(5, 0), Leg(7, 0), Leg(2, 9)>>,
     clock |-> clock, premium |-> premium]

Priced ==
    {Sell(Still, <<Leg(8, 0), Fee(1, 0)>>, 0),
     Sell(Straight, <<Leg(18, 5), Fee(4, 1)>>, 700),
     Sell(Bent, <<Leg(11, 2)>>, 700),
     Sell(Bidding, <<Leg(28, 5)>>, 0),
     Sell(Asking, <<Leg(28, 5)>>, 10000),
     Sell(Straight, <<Leg(5, 8)>>, 0),
     [buy |-> TRUE, anchor |-> 4, outs |-> <<Leg(4, 0), Leg(7, 1)>>, ins |-> <<Leg(9, 31), Leg(3, 0)>>,
      clock |-> Straight, premium |-> 3000]}

Plain(outs, ins) ==
    [buy |-> FALSE, anchor |-> 3, outs |-> outs, ins |-> ins, clock |-> Still, premium |-> 0]

-----------------------------------------------------------------------------
(* Makers, and what they have approved.                                     *)

Entry(s, k, n) == [spender |-> s, key |-> k, amount |-> n, expiry |-> 0]
Until(g, t) == [g EXCEPT !.expiry = t]

(* The filler's entries are unlimited.                                      *)
Hub(grants) ==
    Granted(Granted(NewHub, Maker, grants), Filler, {Entry(Settlement, t, Unlimited) : t \in Tokens})

Wallet(a, b) == [t \in Tokens |-> IF t = A THEN a ELSE b]

NoFund == [how |-> "none", n |-> 0, share |-> 0, token |-> B]
Fund(how, n) == [NoFund EXCEPT !.how = how, !.n = n]
Item(op, token, n, fund) ==
    [op |-> op, key |-> P, token |-> token, amount |-> n, to |-> Settlement, fund |-> fund]

Blocks == {[tick |-> t, basefee |-> f[1], gasprice |-> f[2], answer |-> f[3]] :
             t \in 0..4, f \in {<<0, 0, 5001>>, <<1, 3, 20000>>, <<4, 2, 0>>}}

Calm == {b \in Blocks : b.tick \in {0, 2} /\ b.basefee = 0}

Quiet(terms) ==
    [terms |-> terms,
     outTok |-> [j \in DOMAIN terms.outs |-> B],
     outTo |-> [j \in DOMAIN terms.outs |-> IF terms.outs[j].own THEN Maker ELSE Treasury],
     inTok |-> [i \in DOMAIN terms.ins |-> A],
     items |-> <<>>, verify |-> FALSE, batch |-> {}, take |-> {}, shots |-> {},
     entries |-> {"fill"}, days |-> Blocks, loud |-> FALSE,
     wallet |-> Wallet(60, 0), hub |-> Hub({Entry(Settlement, A, Unlimited)}), direct |-> {}]

Loud(terms, items) == [Quiet(terms) EXCEPT !.items = items, !.loud = TRUE, !.days = Calm]

(* B delivered and supplied, A borrowed and paid, whichever way the deposit *)
(* is funded; the loan comes out above what is owed.                        *)
Lever(fund, own, wallet, grants) ==
    [Loud(Plain(<<[Leg(4, 0) EXCEPT !.own = own]>>, <<Leg(5, 0)>>), <<Item("take_for", A, 7, fund)>>)
       EXCEPT !.outTo = <<IF own THEN Maker ELSE Module>>,
              !.wallet = wallet, !.hub = Hub({Entry(Settlement, P, 7)} \cup grants)]

(* The maker's debt in B repaid with what the order buys, A from its wallet *)
(* on either approval; and the same leg named by two items.                 *)
Push == Item("make", B, 0, Fund("prefund", 1))
Repay(items) ==
    [Loud(Plain(<<Fee(4, 0)>>, <<Leg(5, 0)>>), items)
       EXCEPT !.outTo = <<Module>>, !.wallet = Wallet(5, 0),
              !.hub = Hub({Until(Entry(Settlement, A, 4), 1)}), !.direct = {<<Maker, A>>}]

(* A withdrawn in one piece for two legs of it, some of it put back.        *)
Withdraw ==
    [Loud(Plain(<<Leg(4, 0)>>, <<Leg(3, 0), Leg(4, 0)>>),
          <<[Item("take", A, 2, NoFund) EXCEPT !.to = Maker], Item("take", A, 4, NoFund),
            Item("make", A, 1, NoFund)>>)
       EXCEPT !.wallet = Wallet(4, 0),
              !.hub = Hub({Entry(Settlement, A, 4), Entry(Settlement, P, 6), Entry(Module, A, 1)})]

(* Outputs that somebody else delivers.                                     *)
Measure(to) ==
    [Loud(Plain(<<Leg(2, 0), Leg(2, 0)>>, <<Leg(3, 0)>>), <<>>)
       EXCEPT !.terms.anchor = 1, !.outTo = <<Maker, to>>, !.verify = TRUE, !.entries = {"fill", "inputs"}]

(* A maker who holds approvals of every kind, for another spender too.      *)
Careless ==
    [Loud(Plain(<<Leg(4, 0)>>, <<Leg(5, 0)>>), <<>>)
       EXCEPT !.entries = {"fill", "direct", "direct inputs"}, !.wallet = Wallet(8, 0),
              !.hub = Hub({Until(Entry(Settlement, A, 4), 1), Entry(Dapp, A, 3)}), !.direct = {<<Maker, A>>}]

(* Without gas: the grants come with the order, one for another spender.    *)
Gasless ==
    [Loud(Plain(<<Leg(4, 0)>>, <<Leg(5, 0)>>), <<Item("take", A, 3, NoFund)>>)
       EXCEPT !.entries = {"permit"}, !.wallet = Wallet(5, 0), !.hub = Hub({}),
              !.batch = {[grants |-> {Entry(Settlement, A, 3), Entry(Settlement, P, 3), Entry(Dapp, A, 2)},
                          nonce |-> 1, deadline |-> 1]}]

(* One draw, signed for a third of the item; the batch has the same nonce,  *)
(* and so has a permit for another spender.                                 *)
OneShot ==
    [Gasless EXCEPT !.entries = {"take", "permit"},
                    !.take = {[key |-> P, amount |-> 1, nonce |-> 1, deadline |-> 1]},
                    !.shots = {[key |-> A, amount |-> 3, nonce |-> 1, deadline |-> 2]}]

SmallOrders ==
    {Quiet(t) : t \in Priced} \cup
    {Lever(Fund("leg", 1), TRUE, Wallet(0, 1), {Entry(Module, B, 4)}),
     Lever(Fund("prefund", 1), FALSE, Wallet(0, 0), {}),
     Lever(Fund("literal", 2), TRUE, Wallet(0, 1), {Entry(Module, B, Unlimited)}),
     Lever([Fund("balance", 4) EXCEPT !.share = 5000], TRUE, Wallet(0, 1), {Entry(Module, B, 4)}),
     Repay(<<Push>>), Repay(<<Push, Push>>),
     Withdraw, Measure(Treasury), Measure(Maker), Careless, Gasless, OneShot}

SmallTerms == {o.terms : o \in SmallOrders}

(* None of them parks anything.                                            *)
ASSUME LeavingNothing == \A o \in SmallOrders : LeavesNothing(o)

Afresh == {Entry(Settlement, A, 2)}
=============================================================================

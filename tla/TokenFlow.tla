------------------------------ MODULE TokenFlow ------------------------------
(***************************************************************************)
(* The tokens of one order: what moves when it is filled, leg by leg and   *)
(* item by item, against the maker's Permit3 books (Core, Base).  A fill   *)
(* is a transaction of several calls that leave the contract - transfers,  *)
(* modules, callbacks - and between any two of them others may act: on     *)
(* Permit3, on a balance, never on Settlement itself, which is locked.     *)
(* A fill that reverts takes back everything, what others did in it too.   *)
(*                                                                         *)
(* Who may fill, how often and when is OrderState's; what a leg prices at, *)
(* Pricing's; what the slices add up to, SlicedFill's, which this module   *)
(* implements.                                                             *)
(***************************************************************************)
EXTENDS Permit3, OrderTerms, Functions

CONSTANTS
    Shapes,         \* orders with all they move, each with the state its maker is in
    Gifts,          \* amounts of a plain transfer to somebody
    Renewals,       \* what a maker may grant afresh
    Quota,          \* how often others act, a bound
    Maker, Filler,
    Dapp,           \* a spender that the maker approved for other things
    Settlement, Module,
    Treasury,       \* another receiver of an output
    None

Accounts == {Maker, Filler, Settlement, Module, Treasury}

(* What a module is told to fund an item with (_forSlice): an amount, what *)
(* output leg n received (to the maker's wallet, or to the module ahead of *)
(* the call), or the maker's balance, up to n and down to a share of it.   *)
Funds == [how : {"none", "literal", "leg", "prefund", "balance"},
          n : Nat, share : Nat, token : Tokens]

Items == [op : {"make", "take", "take_for"}, key : Positions, token : Tokens,
          amount : Nat, to : {Settlement, Maker}, fund : Funds]

(* Only a composite draw and a pre-funded supply read a descriptor, and    *)
(* such a supply is of the token that the descriptor names (_runItem,      *)
(* _dispatchTake, and the modules' PreFundGuard).                          *)
Described(item) ==
    /\ item.op = "take" => item.fund.how = "none"
    /\ item.op = "make" => item.fund.how \in {"none", "prefund"}
    /\ item.op = "make" /\ item.fund.how = "prefund" => item.fund.token = item.token

(* How a fill comes in: by a mode of fill (outputs or inputs first, pulled *)
(* from the filler by either approval), by fillWithPermit, or by           *)
(* fillWithPermitTake.                                                     *)
Entries == {"fill", "direct", "inputs", "direct inputs", "permit", "take"}
InputsFirst == {"inputs", "direct inputs"}

(* The fields of an order.                                                 *)
(*   terms             of its prices (OrderTerms, OrderTypes)              *)
(*   outTok, outTo     token and receiver of each output leg               *)
(*   inTok             token of each input leg                             *)
(*   items             what happens in between                             *)
(*   verify            outputs are measured and not pulled                 *)
(*   batch, take, shots  permits: signed with it, and for the Dapp         *)
(*   entries, days     how it can be filled, and when                      *)
(*   loud              whether others act at all                           *)
(*   wallet, hub, direct   the maker's tokens, Permit3's books, the plain  *)
(*                     ERC-20 approvals to Settlement                      *)
(* A filler that is its own maker, or an output's receiver, only pays      *)
(* itself.                                                                 *)
ASSUME ShapesAssumption ==
    \A o \in Shapes :
      /\ o.terms \in Orders /\ o.items \in Seq(Items)
      /\ \A k \in DOMAIN o.items : Described(o.items[k])
      /\ o.outTok \in [DOMAIN o.terms.outs -> Tokens]
      /\ o.outTo \in [DOMAIN o.terms.outs -> Accounts \ {Filler}]
      /\ o.inTok \in [DOMAIN o.terms.ins -> Tokens]
      /\ o.batch \subseteq Batches /\ o.take \subseteq OneShots
      /\ IsFiniteSet(o.batch) /\ \A b \in o.batch : IsFiniteSet(b.grants)
      /\ o.shots \subseteq OneShots /\ \A p \in o.shots : p.key \in Tokens
      /\ o.entries \subseteq Entries /\ o.days \subseteq Days
      /\ o.wallet \in [Tokens -> Nat] /\ o.hub \in Hubs /\ o.direct \subseteq Users \X Tokens

ASSUME ActorsAssumption ==
    /\ Maker \notin {Filler, Settlement, Module, Treasury}
    /\ Filler \notin {Settlement, Module, Treasury}
    /\ Settlement \notin {Module, Treasury} /\ Module # Treasury
    /\ {Maker, Filler} \subseteq Users
    /\ {Settlement, Module, Dapp} \subseteq Spenders
    /\ Quota \in Nat /\ Gifts \subseteq Nat /\ Renewals \subseteq Grants
    /\ None \notin [Tokens -> Nat]

(* An item that spends what leg j sent ahead to the module.                *)
Spends(item, j) == item.op # "take" /\ item.fund.how = "prefund" /\ item.fund.n = j

(* An order that parks nothing where no fill takes it from.  The lens      *)
(* refuses an output to Settlement and an item that draws to it a token    *)
(* that no input pays in (_checkLegOverlaps, _proceedsItemAt); an output   *)
(* to the module is there for an item that spends it (_forSlice), and is   *)
(* pulled: a measured one lies there as everybody's.                       *)
LeavesNothing(o) ==
    /\ \A j \in DOMAIN o.outTo :
         /\ o.outTo[j] # Settlement
         /\ o.outTo[j] = Module =>
              ~o.verify /\ (\E k \in DOMAIN o.items : Spends(o.items[k], j))
    /\ \A k \in DOMAIN o.items :
         LET item == o.items[k]
         IN  item.op # "make" /\ item.to = Settlement => \E i \in DOMAIN o.inTok : o.inTok[i] = item.token

VARIABLES
    order,          \* the order, which stays what it is
    world,          \* everything on chain that a transaction may change
    todo,           \* the calls that the open fill has left, if one is open
    frame           \* and what else it keeps, or None

vars == <<order, world, todo, frame>>

Terms == order.terms
Buy == Terms.buy
Outs == Terms.outs
Ins == Terms.ins

Signed == {p.nonce : p \in order.batch \cup order.take \cup order.shots}

(* What batches grant on an entry, by the batch.                           *)
Slips(batches, s, k) ==
    {c \in UNION {{b} \X b.grants : b \in batches} : c[2].spender = s /\ c[2].key = k}

Promised(batches, s, k) == SumFunction([c \in Slips(batches, s, k) |-> c[2].amount])

(* What the maker granted, on chain and on paper.                          *)
Given(s, k) == order.hub.book[Maker][s][k].amount + Promised(order.batch, s, k)

(* bal, stake   balances, and the maker's position at the lending pool     *)
(* delivered, paid   by leg; elsewhere: what a Dapp took from the maker    *)
(* held         what lies with Settlement and the module and is no order's *)
(* net          drawn on each of the maker's entries, less fresh grants    *)
(* uses         how often a nonce let a one-shot permit through            *)
Init ==
    /\ order \in Shapes
    /\ world =
         [hub |-> order.hub, direct |-> order.direct, now |-> 0,
          bal |-> [a \in Accounts |-> [t \in Tokens |->
                     IF a = Maker THEN order.wallet[t] ELSE IF a = Filler THEN 4 * Unlimited ELSE 0]],
          stake |-> [t \in Tokens |-> 0],
          filled |-> 0,
          delivered |-> [j \in DOMAIN Outs |-> 0],
          paid |-> [i \in DOMAIN Ins |-> 0],
          elsewhere |-> [t \in Tokens |-> 0],
          held |-> [a \in {Settlement, Module} |-> [t \in Tokens |-> 0]],
          net |-> [s \in Spenders |-> [k \in Keys |-> 0]],
          uses |-> [n \in Nonces |-> 0],
          stirred |-> 0]
    /\ todo = <<>> /\ frame = None

-----------------------------------------------------------------------------
(* Transfers.  Each is the set of the worlds it leads to.                  *)

Then(worlds, F(_)) == UNION {F(W) : W \in worlds}

Move(W, t, from, to, n) ==
    IF n <= W.bal[from][t]
    THEN {[W EXCEPT !.bal[from][t] = @ - n, !.bal[to][t] = @ + n]} ELSE {}

(* A caller draws on its entry in the user's book.                         *)
Drawn(W, u, s, k, n) ==
    {[W EXCEPT !.hub = H,
               !.net[s][k] = IF u = Maker /\ W.hub.book[u][s][k].amount # Unlimited
                             THEN @ + n ELSE @] :
       H \in Spend(W.hub, W.now, u, s, k, n)}

(* Permit3.transferFrom.                                                   *)
HubTransfer(W, s, t, from, to, n) ==
    Then(Drawn(W, from, s, t, n), LAMBDA V : Move(V, t, from, to, n))

(* Mutant: the plain approval is used in strict mode as well.              *)
PullAnyway(W, t, from, to, n) ==
    LET booked == HubTransfer(W, Settlement, t, from, to, n)
    IN  IF n = 0 THEN {W}
        ELSE IF n > Unlimited THEN {}
        ELSE IF booked # {} THEN booked
        ELSE IF <<from, t>> \in W.direct THEN Move(W, t, from, to, n)
        ELSE {}

(* _pullViaPermit3: the book, and failing that the plain approval, unless  *)
(* the payer is strict.                                                    *)
Pull(W, t, from, to, n) ==
    LET booked == HubTransfer(W, Settlement, t, from, to, n)
    IN  IF n = 0 THEN {W}
        ELSE IF n > Unlimited THEN {}
        ELSE IF booked # {} THEN booked
        ELSE IF <<from, t>> \in W.direct /\ ~IsStrict(W.hub, from, t) THEN Move(W, t, from, to, n)
        ELSE {}

-----------------------------------------------------------------------------
(* A fill opens, proceeds and ends.                                        *)

(* Mutant: two legs may be measured on one balance.                        *)
MeasurableTwice ==
    \A i \in DOMAIN Ins, j \in DOMAIN Outs : order.inTok[i] # order.outTok[j]

(* The shape that measured outputs require (_snapshotOutRecipients).       *)
Measurable ==
    /\ \A i, j \in DOMAIN Outs :
         i # j => <<order.outTok[i], order.outTo[i]>> # <<order.outTok[j], order.outTo[j]>>
    /\ \A i \in DOMAIN Ins, j \in DOMAIN Outs : order.inTok[i] # order.outTok[j]

Steps(kind, seq) == [i \in DOMAIN seq |-> <<kind, i>>]

(* _settleForward and _settlePostInputs.                                   *)
Plan(entry) ==
    IF entry \in InputsFirst THEN Steps("pay", Ins) \o Steps("deliver", Outs)
    ELSE Steps("deliver", Outs) \o Steps("item", order.items) \o Steps("pay", Ins)

Decays ==
    \/ ~Buy /\ \E j \in DOMAIN Outs : Outs[j].end # 0
    \/ \E i \in DOMAIN Ins : Ins[i].end # 0

(* _openFill, and the permit that the entry brings: fillWithPermit applies *)
(* the batch first, fillWithPermitTake leaves its permit to an item.       *)
(* Measured outputs are the exclusive filler's alone: no premium.          *)
Open(entry, delta, m, premium) ==
    /\ todo = <<>>
    /\ entry \in order.entries /\ m \in order.days /\ m.tick >= world.now
    /\ delta > 0 /\ world.filled + delta <= Terms.anchor
    /\ entry \in InputsFirst => order.items = <<>>
    /\ order.verify => premium = 0 /\ Measurable
    /\ ~Buy => \A j \in DOMAIN Outs : Falls(Outs[j])
    /\ \A i \in DOMAIN Ins : Rises(Ins[i])
    /\ \E H \in IF entry = "permit"
                THEN UNION {PermitBatchIfNeeded(world.hub, m.tick, Maker, b) : b \in order.batch}
                ELSE {world.hub},
          bump \in Bumps(Terms.clock, m, Decays) :
         /\ world' = [world EXCEPT !.hub = H, !.now = m.tick, !.filled = @ + delta]
         /\ todo' = Plan(entry)
         /\ frame' = [saved |-> world, direct |-> entry \in {"direct", "direct inputs"},
                      ctx |-> [anchor |-> Terms.anchor, prev |-> world.filled,
                               new |-> world.filled + delta, bump |-> bump, override |-> premium],
                      outs |-> [j \in DOMAIN Outs |-> 0], used |-> {}, base |-> None,
                      permit |-> IF entry = "take" THEN order.take ELSE {}]
    /\ UNCHANGED order

Due(kind) == todo # <<>> /\ Head(todo)[1] = kind
At == Head(todo)[2]

Step(W, f) ==
    /\ world' = W /\ todo' = Tail(todo)
    /\ frame' = IF Tail(todo) = <<>> THEN None ELSE f
    /\ UNCHANGED order

(* A call fails, or runs out of gas, or a callback refuses.                *)
Revert ==
    /\ todo # <<>>
    /\ world' = frame.saved /\ todo' = <<>> /\ frame' = None
    /\ UNCHANGED order

(* _deliverOutputs.                                                        *)
Delivered(t, to, n) ==
    IF n = 0 THEN {world}
    ELSE IF order.verify
    THEN IF world.bal[to][t] >= frame.saved.bal[to][t] + n THEN {world} ELSE {}
    ELSE IF frame.direct THEN Move(world, t, Filler, to, n)
    ELSE Pull(world, t, Filler, to, n)

Deliver ==
    /\ Due("deliver")
    /\ LET t == order.outTok[At]
           to == order.outTo[At]
           n == OutputAt(Buy, Outs[At], frame.ctx)
       IN  \E W \in Delivered(t, to, n) :
             Step([W EXCEPT !.delivered[At] = @ + IF order.verify THEN n ELSE W.bal[to][t] - world.bal[to][t]],
                  [frame EXCEPT !.outs[At] = n])

-----------------------------------------------------------------------------
(* Items.                                                                  *)

(* _prorate: a signed total, in slices that sum to it.                     *)
Prorate(total) ==
    (total * frame.ctx.new) \div frame.ctx.anchor - (total * frame.ctx.prev) \div frame.ctx.anchor

(* What an output leg must be to fund an item: the maker's own, or, ahead  *)
(* of the call, the module's, in its token and at no premium; and nothing  *)
(* has used it yet.                                                        *)
Usable(fund) ==
    /\ fund.n \in DOMAIN Outs
    /\ IF fund.how = "leg" THEN order.outTo[fund.n] = Maker
       ELSE /\ order.outTo[fund.n] = Module /\ order.outTok[fund.n] = fund.token
            /\ frame.ctx.override = 0
    /\ frame.outs[fund.n] # 0 => fund.n \notin frame.used

(* A share left unset, or past the whole, is the whole.                    *)
FloorOf(fund) ==
    (fund.n * IF fund.share = 0 \/ fund.share > BPS THEN BPS ELSE fund.share) \div BPS

(* _forSlice.                                                              *)
ForSlice(fund) ==
    IF fund.how = "literal" THEN {Prorate(fund.n)}
    ELSE IF fund.how \in {"leg", "prefund"} THEN (IF Usable(fund) THEN {frame.outs[fund.n]} ELSE {})
    ELSE LET n == Least(world.bal[Maker][fund.token], fund.n)
         IN  IF fund.how = "balance" /\ FullFill(frame.ctx) /\ n # 0 /\ n >= FloorOf(fund)
             THEN {n} ELSE {}

(* Mutant: a leg that funded an item may fund another.                     *)
UsedForgets(fund) == frame.used

UsedBy(fund) ==
    frame.used \cup {j \in DOMAIN Outs : fund.how \in {"leg", "prefund"} /\ j = fund.n /\ frame.outs[j] # 0}

(* A module supplies the maker's position, with what it was sent ahead or  *)
(* with what it pulls from the maker's wallet by its own entry.            *)
Supply(W, fund, t, n) ==
    LET from == IF fund.how = "prefund" THEN Module ELSE Maker
    IN  Then(IF fund.how = "prefund" THEN {W} ELSE Drawn(W, Maker, Module, t, n),
             LAMBDA V : IF n <= V.bal[from][t]
                        THEN {[V EXCEPT !.bal[from][t] = @ - n, !.stake[t] = @ + n]} ELSE {})

(* A module draws on it: a withdrawal, a loan.                             *)
Draw(W, item, n) ==
    {[W EXCEPT !.stake[item.token] = @ - n, !.bal[item.to][item.token] = @ + n]}

(* makeOnBehalf.                                                           *)
Make(item, n) == Supply(world, item.fund, item.token, n)

(* The entry of the taker book that lets Settlement draw, or the one-shot  *)
(* permit, which must name this item and this amount.                      *)
Authorised(item, n) ==
    IF item.op = "take" /\ frame.permit # {}
    THEN UNION {{[world EXCEPT !.hub = H, !.uses[p.nonce] = @ + 1] :
                    H \in PermitTake(world.hub, world.now, Maker, p)} :
                  p \in {q \in frame.permit : q.key = item.key /\ q.amount = n}}
    ELSE Drawn(world, Maker, Settlement, item.key, n)

(* Mutant: a draw goes ahead where its funding rounds to nothing.          *)
TakeUnfunded(item, n) ==
    Then(Authorised(item, n), LAMBDA W :
      Then(IF item.op = "take" THEN {W}
           ELSE Then(ForSlice(item.fund), LAMBDA m :
                  IF m = 0 THEN {W} ELSE Supply(W, item.fund, item.fund.token, m)),
           LAMBDA V : Draw(V, item, n)))

(* take and takeFor: the position is supplied before it is drawn on, and   *)
(* never drawn on for nothing.                                             *)
Take(item, n) ==
    Then(Authorised(item, n), LAMBDA W :
      Then(IF item.op = "take" THEN {W}
           ELSE Then(ForSlice(item.fund), LAMBDA m :
                  IF m = 0 THEN {} ELSE Supply(W, item.fund, item.fund.token, m)),
           LAMBDA V : Draw(V, item, n)))

Slice(item) ==
    IF item.op = "make" /\ item.fund.how = "prefund" THEN ForSlice(item.fund) ELSE {Prorate(item.amount)}

(* The balances before the first item are what proceeds are measured from  *)
(* (_snapshotInputs).                                                      *)
Based == IF frame.base = None THEN [frame EXCEPT !.base = world.bal[Settlement]] ELSE frame

(* _runItem.  A slice of nothing is skipped, unless it would fund a draw.  *)
RunItem ==
    /\ Due("item")
    /\ LET item == order.items[At]
       IN  \E n \in Slice(item) :
             IF n = 0
             THEN item.op # "take_for" /\ Step(world, Based)
             ELSE \E W \in IF item.op = "make" THEN Make(item, n) ELSE Take(item, n) :
                    Step(W, [Based EXCEPT !.used = UsedBy(item.fund),
                                          !.permit = IF item.op = "take" THEN {} ELSE @])

-----------------------------------------------------------------------------
(* _payInputsToSolver.                                                     *)

(* Mutant: all that Settlement holds counts as proceeds.                   *)
ProceedsAll(t) == IF frame.base = None THEN 0 ELSE world.bal[Settlement][t]

Proceeds(t) == IF frame.base = None THEN 0 ELSE world.bal[Settlement][t] - frame.base[t]

(* Mutant: proceeds past what is owed go to the filler.                    *)
PaidAll(t, owed, proceeds) ==
    Then(Move(world, t, Settlement, Filler, proceeds), LAMBDA W :
         Pull(W, t, Maker, Filler, Less(owed, proceeds)))

(* The filler is paid from the proceeds and then from the maker's wallet;  *)
(* what is left of the proceeds is the maker's.                            *)
PaidInput(t, owed, proceeds) ==
    Then(Move(world, t, Settlement, Filler, Least(owed, proceeds)), LAMBDA W :
    Then(Move(W, t, Settlement, Maker, Less(proceeds, owed)), LAMBDA V :
         Pull(V, t, Maker, Filler, Less(owed, proceeds))))

(* A permit that no item consumed refuses the fill.                        *)
Pay ==
    /\ Due("pay") /\ frame.permit = {}
    /\ LET t == order.inTok[At]
       IN  /\ Proceeds(t) >= 0
           /\ \E W \in PaidInput(t, InputOwed(Buy, Ins[At], frame.ctx), Proceeds(t)) :
                Step([W EXCEPT !.paid[At] = @ + W.bal[Filler][t] - world.bal[Filler][t]], frame)

-----------------------------------------------------------------------------
(* Others, in a callback of the fill or between fills.                     *)

Stir(W) ==
    /\ order.loud /\ world.stirred < Quota /\ W # world
    /\ world' = [W EXCEPT !.stirred = @ + 1]
    /\ UNCHANGED <<order, todo, frame>>

(* What reaches Settlement while the proceeds of a token are measured      *)
(* counts as proceeds.                                                     *)
Measured(a, t) ==
    /\ a = Settlement /\ todo # <<>>
    /\ frame.base # None
    /\ \E k \in DOMAIN todo : todo[k][1] = "pay" /\ order.inTok[todo[k][2]] = t

(* Tokens sent by anyone, a measured delivery among them.                  *)
Gift(a, t, n) ==
    LET W == [world EXCEPT !.bal[a][t] = @ + n]
    IN  Stir(IF a \in DOMAIN W.held /\ ~Measured(a, t) THEN [W EXCEPT !.held[a][t] = @ + n] ELSE W)

DappDraws(t, n) ==
    \E W \in Drawn(world, Maker, Dapp, t, n) :
      /\ n <= W.bal[Maker][t]
      /\ Stir([W EXCEPT !.bal[Maker][t] = @ - n, !.elsewhere[t] = @ + n])

(* permitTransferFrom.                                                     *)
DappUsesPermit(n) ==
    \E p \in order.shots : \E H \in PermitTransfer(world.hub, world.now, Maker, p, n) :
      /\ n <= world.bal[Maker][p.key]
      /\ Stir([world EXCEPT !.hub = H, !.uses[p.nonce] = @ + 1,
                            !.bal[Maker][p.key] = @ - n, !.elsewhere[p.key] = @ + n])

(* permitBatch and its like: anyone who has seen the signature.            *)
SubmitBatch ==
    \E b \in order.batch : \E H \in PermitBatch(world.hub, world.now, Maker, b) :
      Stir([world EXCEPT !.hub = H])

MakerCalls(H) == Stir([world EXCEPT !.hub = H])

(* What a maker does to be safer ...                                       *)
MakerLowers ==
    LET H == world.hub
        all == Spenders \X Keys
    IN  \/ MakerCalls(Lockdown(H, Maker, all))
        \/ MakerCalls(InvalidateNonces(H, Maker, Signed))
        \/ MakerCalls(LockdownAll(H, Maker, all, Signed))
        \/ MakerCalls(SetStrictMode(H, Maker, TRUE))
        \/ \E s \in Spenders, k \in Keys : H.book[Maker][s][k] # Empty /\ MakerCalls(RevokeKey(H, Maker, s, k))
        \/ \E t \in Tokens : MakerCalls(SetStrictModeToken(H, Maker, t, TRUE))
        \/ Stir([world EXCEPT !.direct = {d \in @ : d[1] # Maker}])

(* ... and to be served.                                                   *)
MakerRaises ==
    \/ \E g \in Renewals :
         Stir([world EXCEPT !.hub = Approve(@, Maker, g), !.net[g.spender][g.key] = @ - g.amount])
    \/ MakerCalls(SetStrictMode(world.hub, Maker, FALSE))
    \/ \E t \in Tokens : MakerCalls(SetStrictModeToken(world.hub, Maker, t, FALSE))
    \/ Stir([world EXCEPT !.direct = @ \cup ({Maker} \X Tokens)])

Others ==
    \/ \E a \in {Maker, Settlement, Module, Treasury}, t \in Tokens, n \in Gifts : Gift(a, t, n)
    \/ \E t \in Tokens, n \in Gifts : DappDraws(t, n)
    \/ \E n \in Gifts : DappUsesPermit(n)
    \/ SubmitBatch
    \/ MakerLowers
    \/ MakerRaises

Next ==
    \/ \E entry \in Entries, delta \in Sizes, m \in Days, premium \in {0, Terms.premium} :
         Open(entry, delta, m, premium)
    \/ Deliver
    \/ RunItem
    \/ Pay
    \/ Revert
    \/ Others

Spec == Init /\ [][Next]_vars

-----------------------------------------------------------------------------
(* What must hold.                                                         *)

(* The world as of the last fill that went through.                        *)
Settled == IF todo = <<>> THEN world ELSE frame.saved

Slices == INSTANCE SlicedFill
    WITH order <- Terms, filled <- Settled.filled, delivered <- Settled.delivered, paid <- Settled.paid

(* Through callbacks, permits, reverts and whatever others do meanwhile,   *)
(* a fill that goes through gives each leg, measured at its receiver, the  *)
(* slice that the order prices it at (Core._deliverOutputs,                *)
(* _payInputsToSolver), and at every step they add up for the maker.       *)
Implements == Slices!Spec /\ [][Slices!SlicesAddUp']_vars

Worth(W, t) == W.bal[Maker][t] + W.stake[t]

(* Between fills, wallet and position together, a maker has what it had,   *)
(* and what its legs received, less what its legs paid: a loan, its        *)
(* proceeds and their surplus, a deposit funded by a leg cost it nothing   *)
(* and a measured output was not counted twice (Base._runItem,             *)
(* Core._payInputsToSolver, _snapshotOutRecipients).                       *)
MakerIsPaid ==
    todo = <<>> => \A t \in Tokens :
      Worth(world, t) >=
        order.wallet[t]
          + SumFunctionOnSet(world.delivered, {j \in DOMAIN Outs : order.outTok[j] = t /\ order.outTo[j] \in {Maker, Module}})
          - SumFunctionOnSet(world.paid, {i \in DOMAIN Ins : order.inTok[i] = t})
          - world.elsewhere[t]

(* What lies with Settlement or a module and belongs to no fill stays      *)
(* there, and no fill leaves anything behind: no item is funded, and no    *)
(* filler paid, with what is not this order's (Base._snapshotInputs,       *)
(* _forSlice "one delivery funds one item", SettleSliceZero).              *)
PoolIsNobodys ==
    todo = <<>> => \A a \in {Settlement, Module}, t \in Tokens : world.bal[a][t] = world.held[a][t]

(* A maker who levers up is never drawn on ahead of its collateral: over   *)
(* any slicing, the loan is at most in proportion to what was supplied,    *)
(* although deliveries round up by the slice and draws round down          *)
(* (Base._dispatchTake, _forSlice).                                        *)
CollateralKept ==
    todo = <<>> => \A k \in DOMAIN order.items :
      LET item == order.items[k]
          fund == item.fund
          supplied == world.stake[fund.token]
          drawn == -world.stake[item.token]
      IN  item.op = "take_for" /\ drawn > 0 =>
            /\ supplied > 0
            /\ fund.how \in {"leg", "prefund"} =>
                 supplied * item.amount >= Worst(Outs[fund.n]) * drawn
            /\ fund.how = "literal" => (supplied + 1) * item.amount > fund.n * drawn
            /\ fund.how = "balance" => supplied >= FloorOf(fund)

(* All that any caller ever draws on the maker's books was granted to it,  *)
(* a signed batch being one grant however often and by whomever it is      *)
(* presented; and of the one-shot permits on a nonce one is good, once     *)
(* (SignedPermits._applyBatchIfNeeded, UnorderedNonces, Allowance.spend).  *)
GrantedOnce ==
    /\ \A n \in Nonces : world.uses[n] <= 1
    /\ \A s \in Spenders, k \in Keys : world.net[s][k] <= Given(s, k)

(* SECURITY.md, "a complete revoke": the entries of both books, the nonces *)
(* of what is signed, and the plain approvals, cleared or made unusable.   *)
Sealed(W) ==
    /\ \A s \in Spenders, k \in Keys : W.hub.book[Maker][s][k].amount = 0
    /\ Signed \subseteq W.hub.spent[Maker]
    /\ \A t \in Tokens : IsStrict(W.hub, Maker, t) \/ <<Maker, t>> \notin W.direct

(* A complete revoke holds: nobody but the maker can undo it, and from     *)
(* then on, in the middle of a fill too, nothing more leaves the maker's   *)
(* wallet or position - except that the fill it was made in may revert,    *)
(* and the revoke with it (Base._pullViaPermit3, AllowanceTransfer,        *)
(* TakerAllowance, SignedPermits).                                         *)
RevokeHolds ==
    [][Sealed(world) /\ ~MakerRaises /\ ~Revert =>
         Sealed(world') /\ \A t \in Tokens : Worth(world', t) >= Worth(world, t)]_vars
=============================================================================

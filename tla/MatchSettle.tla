---------------------------- MODULE MatchSettle -----------------------------
(***************************************************************************)
(* Batch.matchSettle: N orders netted against the contract's own balance,  *)
(* the pool.  The orders are opened first (OrderFills models their gates), *)
(* then the solver's schedule runs step by step in any order it likes,     *)
(* then the contract checks everything at once and sweeps the rest.        *)
(*                                                                         *)
(* Amounts are those fixed at open.  Two orders of one maker, or the same  *)
(* order twice, are two fills of a plan.                                   *)
(***************************************************************************)
EXTENDS Integers, Sequences, FiniteSets, Functions

CONSTANTS
    Tokens,         \* the touched-token universe of _collectTokens
    Makers,
    Payees,         \* where an output leg may be addressed
    Settlement,     \* the contract itself, as an (undeliverable) payee
    Plans,          \* match -> fill -> what the order's fill owes, pays, runs
    Granted,        \* Makers -> Tokens -> Permit3 allowance to Settlement
    Infinite,       \* uint160.max: an allowance that is never decremented
    Donated,        \* pool balances from before the call, per token
    Purse,          \* what the solver can put in by CALL, per token
    FeeTokens       \* tokens of which a transfer may arrive one unit short

(* ItemPolicy: a ladder of how much order the maker demands.               *)
Policies == 0..3
ANY == 0
ORDERED == 1
ATOMIC == 2
CANONICAL == 3

(* owed    input legs, one token each (MatchDuplicateInput)                *)
(* outs    output legs                                                     *)
(* items   in signed order: op, whether it spends the order's own delivery *)
(*         (_forSlice), and the pool gains its module may produce          *)
Amounts == [Tokens -> Nat]
Legs == [leg : Nat, token : Tokens, to : Payees, amt : Nat]
Items == [op : {"MAKE", "TAKE", "SETTLE"}, funded : BOOLEAN, yields : SUBSET Amounts]

ASSUME PlansAssumption ==
    \A m \in DOMAIN Plans : IsFiniteSet(DOMAIN Plans[m]) /\ \A i \in DOMAIN Plans[m] :
      LET slice == Plans[m][i]
      IN  /\ slice.maker \in Makers
          /\ DOMAIN slice.owed \subseteq Tokens
          /\ \A t \in DOMAIN slice.owed : slice.owed[t] \in Nat
          /\ IsFiniteSet(slice.outs) /\ slice.outs \subseteq Legs
          /\ slice.items \in Seq(Items)
          /\ slice.policy \in Policies

ASSUME BalancesAssumption ==
    Donated \in Amounts /\ Purse \in Amounts /\ Granted \in [Makers -> Amounts]

VARIABLES
    match,          \* which of Plans this call settles
    phase,          \* "schedule", "settled" or "reverted"
    pool,           \* Settlement's balance of each token
    outstanding,    \* st.outstanding
    credit,         \* st.credit, by order and input token
    done,           \* st.done without DELIVERED_BIT: items run, per order
    delivered,      \* the orders whose DELIVERED_BIT is set
    last,           \* st.lastItem: the item the previous step ran, or None
    purse,          \* the solver's own balance
    allowance,      \* the makers' allowances left
    drawn, gained, returned, paid,  \* ghosts: by order and token, what PULLs
                    \* drew, items yielded, the maker got back, legs paid
    burnt,          \* ghost: fees transfers into the pool lost
    broken          \* ghost: orders whose item group another step split

ghosts == <<drawn, gained, returned, paid, burnt, broken>>
vars == <<match, phase, pool, outstanding, credit, done, delivered, last, purse,
          allowance, drawn, gained, returned, paid, burnt, broken>>

Slice == Plans[match]
Fills == DOMAIN Slice

None == <<>>
Zero == [t \in Tokens |-> 0]
Monus(a, b) == IF a > b THEN a - b ELSE 0

Owed(i, t) == IF t \in DOMAIN Slice[i].owed THEN Slice[i].owed[t] ELSE 0

OutsOf(i, t) == SumFunctionOnSet([l \in Slice[i].outs |-> l.amt],
                                 {l \in Slice[i].outs : l.token = t})

Steps(i) == 1..Len(Slice[i].items)

(* _matchOpenAll: the balances are snapshotted, every output leg joins the *)
(* obligations, and an order without output legs counts as delivered.      *)
Init ==
    /\ match \in DOMAIN Plans
    /\ phase = "schedule"
    /\ pool = Donated
    /\ outstanding = [t \in Tokens |-> SumFunction([i \in Fills |-> OutsOf(i, t)])]
    /\ credit = [i \in Fills |-> Zero]
    /\ done = [i \in Fills |-> {}]
    /\ delivered = {i \in Fills : Slice[i].outs = {}}
    /\ last = None
    /\ purse = Purse
    /\ allowance = Granted
    /\ drawn = [i \in Fills |-> Zero]
    /\ gained = [i \in Fills |-> Zero]
    /\ returned = [i \in Fills |-> Zero]
    /\ paid = [i \in Fills |-> Zero]
    /\ burnt = Zero
    /\ broken = {}

-----------------------------------------------------------------------------
(* Ghost: a step of others falls inside the item group of an order.        *)
Breaks(others) ==
    broken' = broken \cup {i \in others : done[i] # {} /\ done[i] # Steps(i)}

(* Mutant: ORDERED and ATOMIC do not hold a PULL back for the sources.     *)
PullReadyEarly(i) ==
    Slice[i].policy = CANONICAL => done[i] = Steps(i) /\ i \in delivered

(* What the policy wants done before a PULL (st.need).                     *)
PullReady(i) ==
    LET sources == {k \in Steps(i) : Slice[i].items[k].op # "MAKE"}
    IN  /\ Slice[i].policy \in {ORDERED, ATOMIC} => sources \subseteq done[i]
        /\ Slice[i].policy = CANONICAL => done[i] = Steps(i) /\ i \in delivered

(* Permit3's spend: exact, and Infinite is left as it is.                  *)
Spend(m, t, amt) ==
    /\ allowance[m][t] >= amt
    /\ allowance' = IF allowance[m][t] = Infinite THEN allowance
                    ELSE [allowance EXCEPT ![m][t] = @ - amt]

(* Mutant: draws the nominal amount on every PULL.                         *)
PullNominal(i, t) ==
    /\ phase = "schedule"
    /\ t \in DOMAIN Slice[i].owed
    /\ PullReady(i)
    /\ LET need == Slice[i].owed[t]
       IN  /\ Spend(Slice[i].maker, t, need)
           /\ pool' = [pool EXCEPT ![t] = @ + need]
           /\ credit' = [credit EXCEPT ![i][t] = @ + need]
           /\ drawn' = [drawn EXCEPT ![i][t] = @ + need]
    /\ last' = None
    /\ Breaks(Fills)
    /\ UNCHANGED <<phase, outstanding, done, delivered, purse, gained, returned, paid, burnt>>

(* _stepPull: draws the shortfall of one input leg and credits it at its   *)
(* nominal amount, whatever arrives.                                       *)
Pull(i, t) ==
    /\ phase = "schedule"
    /\ t \in DOMAIN Slice[i].owed
    /\ PullReady(i)
    /\ LET need == Monus(Slice[i].owed[t], credit[i][t])
       IN  \E fee \in IF t \in FeeTokens /\ need > 0 THEN {0, 1} ELSE {0} :
             /\ Spend(Slice[i].maker, t, need)
             /\ pool' = [pool EXCEPT ![t] = @ + need - fee]
             /\ burnt' = [burnt EXCEPT ![t] = @ + fee]
             /\ credit' = [credit EXCEPT ![i][t] = @ + need]
             /\ drawn' = [drawn EXCEPT ![i][t] = @ + need]
    /\ last' = None
    /\ Breaks(Fills)
    /\ UNCHANGED <<phase, outstanding, done, delivered, purse, gained, returned, paid>>

(* Mutant: an order may be delivered again.                                *)
DeliverAgain(i) ==
    /\ phase = "schedule"
    /\ \A l \in Slice[i].outs : l.amt # 0 => l.to # Settlement
    /\ \A t \in Tokens : pool[t] >= OutsOf(i, t)
    /\ pool' = [t \in Tokens |-> pool[t] - OutsOf(i, t)]
    /\ outstanding' = [t \in Tokens |-> outstanding[t] - OutsOf(i, t)]
    /\ delivered' = delivered \cup {i}
    /\ paid' = [paid EXCEPT ![i] = [t \in Tokens |-> @[t] + OutsOf(i, t)]]
    /\ last' = None
    /\ Breaks(Fills)
    /\ UNCHANGED <<phase, credit, done, purse, allowance, drawn, gained, returned, burnt>>

(* _stepDeliver: every output leg of an order, once, none to Settlement.   *)
Deliver(i) ==
    /\ phase = "schedule"
    /\ i \notin delivered
    /\ \A l \in Slice[i].outs : l.amt # 0 => l.to # Settlement
    /\ \A t \in Tokens : pool[t] >= OutsOf(i, t)
    /\ pool' = [t \in Tokens |-> pool[t] - OutsOf(i, t)]
    /\ outstanding' = [t \in Tokens |-> outstanding[t] - OutsOf(i, t)]
    /\ delivered' = delivered \cup {i}
    /\ paid' = [paid EXCEPT ![i] = [t \in Tokens |-> @[t] + OutsOf(i, t)]]
    /\ last' = None
    /\ Breaks(Fills)
    /\ UNCHANGED <<phase, credit, done, purse, allowance, drawn, gained, returned, burnt>>

(* Mutant: ATOMIC checks the order of the items, not that they touch.      *)
ItemReadyLoose(i, k) ==
    /\ Slice[i].policy >= ORDERED => 1..(k - 1) \subseteq done[i]
    /\ Slice[i].policy >= CANONICAL => i \in delivered

(* The policy's demands on the place of an item.                           *)
ItemReady(i, k) ==
    /\ Slice[i].policy >= ORDERED => 1..(k - 1) \subseteq done[i]
    /\ Slice[i].policy >= ATOMIC /\ k # 1 => last = <<i, k - 1>>
    /\ Slice[i].policy >= CANONICAL => i \in delivered

(* Mutant: the refund due on an over-credited leg is not an obligation.    *)
CreditWithoutObligation(i, g) ==
    LET legs == DOMAIN Slice[i].owed
    IN  /\ pool' = [t \in Tokens |-> IF t \in legs THEN pool[t] + g[t] ELSE pool[t]]
        /\ credit' = [credit EXCEPT ![i] = [t \in Tokens |->
                          IF t \in legs THEN @[t] + g[t] ELSE @[t]]]
        /\ returned' = [returned EXCEPT ![i] = [t \in Tokens |->
                          IF t \in legs THEN @[t] ELSE @[t] + g[t]]]
        /\ UNCHANGED outstanding

(* Mutant: proceeds in a token that is no input leg stay in the pool.      *)
CreditLegsOnly(i, g) ==
    LET excess(t) == Monus(credit[i][t] + g[t], Owed(i, t)) - Monus(credit[i][t], Owed(i, t))
        legs == DOMAIN Slice[i].owed
    IN  /\ pool' = [t \in Tokens |-> pool[t] + g[t]]
        /\ credit' = [credit EXCEPT ![i] = [t \in Tokens |->
                          IF t \in legs THEN @[t] + g[t] ELSE @[t]]]
        /\ outstanding' = [t \in Tokens |->
                          IF t \in legs THEN outstanding[t] + excess(t) ELSE outstanding[t]]
        /\ UNCHANGED returned

(* _creditItemProceeds: what an item added to the pool credits the order's *)
(* own input leg, and past what the leg owes becomes an obligation; any    *)
(* other token goes back to the maker at once.                             *)
CreditProceeds(i, g) ==
    LET excess(t) == Monus(credit[i][t] + g[t], Owed(i, t)) - Monus(credit[i][t], Owed(i, t))
        legs == DOMAIN Slice[i].owed
    IN  /\ pool' = [t \in Tokens |-> IF t \in legs THEN pool[t] + g[t] ELSE pool[t]]
        /\ credit' = [credit EXCEPT ![i] = [t \in Tokens |->
                          IF t \in legs THEN @[t] + g[t] ELSE @[t]]]
        /\ outstanding' = [t \in Tokens |->
                          IF t \in legs THEN outstanding[t] + excess(t) ELSE outstanding[t]]
        /\ returned' = [returned EXCEPT ![i] = [t \in Tokens |->
                          IF t \in legs THEN @[t] ELSE @[t] + g[t]]]

(* _stepItem: one item, once; one that spends the delivery comes after it. *)
Item(i, k) ==
    /\ phase = "schedule"
    /\ k \notin done[i]
    /\ ItemReady(i, k)
    /\ Slice[i].items[k].funded => i \in delivered
    /\ done' = [done EXCEPT ![i] = @ \cup {k}]
    /\ last' = <<i, k>>
    /\ \E g \in Slice[i].items[k].yields :
         /\ CreditProceeds(i, g)
         /\ gained' = [gained EXCEPT ![i] = [t \in Tokens |-> @[t] + g[t]]]
    /\ Breaks(Fills \ {i})
    /\ UNCHANGED <<phase, delivered, purse, allowance, drawn, paid, burnt>>

(* _stepPresend: the solver gets what stands above the baseline and the    *)
(* obligations.                                                            *)
Presend(t) ==
    /\ phase = "schedule"
    /\ pool[t] >= Donated[t]
    /\ LET free == Monus(pool[t] - Donated[t], outstanding[t])
       IN  /\ pool' = [pool EXCEPT ![t] = @ - free]
           /\ purse' = [purse EXCEPT ![t] = @ + free]
    /\ last' = None
    /\ Breaks(Fills)
    /\ UNCHANGED <<phase, outstanding, credit, done, delivered, allowance,
                   drawn, gained, returned, paid, burnt>>

(* A CALL: code of the solver's own; all it can do to the pool is pay in.  *)
Call(t, amt) ==
    /\ phase = "schedule"
    /\ amt <= purse[t]
    /\ pool' = [pool EXCEPT ![t] = @ + amt]
    /\ purse' = [purse EXCEPT ![t] = @ - amt]
    /\ last' = None
    /\ Breaks(Fills)
    /\ UNCHANGED <<phase, outstanding, credit, done, delivered, allowance,
                   drawn, gained, returned, paid, burnt>>

-----------------------------------------------------------------------------
(* _matchFlush and _sweepSurplus: every item run and every order delivered *)
(* (PlanIncomplete), every input leg covered (LegUnfunded) and its surplus *)
(* refunded, every token back at its baseline (BatchNotWhole), and what is *)
(* left swept to the solver.                                               *)
Refund(i, t) == Monus(credit[i][t], Owed(i, t))

Refunds(t) == SumFunction([i \in Fills |-> Refund(i, t)])

Complete ==
    \A i \in Fills : done[i] = Steps(i) /\ i \in delivered

Funded == \A i \in Fills : \A t \in DOMAIN Slice[i].owed : credit[i][t] >= Slice[i].owed[t]

Flush ==
    /\ phase = "schedule"
    /\ Complete
    /\ Funded
    /\ \A t \in Tokens : pool[t] - Refunds(t) >= Donated[t]
    /\ phase' = "settled"
    /\ pool' = Donated
    /\ purse' = [t \in Tokens |-> purse[t] + pool[t] - Refunds(t) - Donated[t]]
    /\ returned' = [i \in Fills |-> [t \in Tokens |-> returned[i][t] + Refund(i, t)]]
    /\ UNCHANGED <<outstanding, credit, done, delivered, last, allowance,
                   drawn, gained, paid, burnt, broken>>

(* Any step may revert; nothing of the call remains.                       *)
Revert ==
    /\ phase = "schedule"
    /\ phase' = "reverted"
    /\ pool' = Donated
    /\ purse' = Purse
    /\ allowance' = Granted
    /\ UNCHANGED <<outstanding, credit, done, delivered, last, ghosts>>

Next ==
    /\ \/ \E i \in Fills :
            \/ \E t \in Tokens : Pull(i, t)
            \/ Deliver(i)
            \/ \E k \in Steps(i) : Item(i, k)
       \/ \E t \in Tokens :
            \/ Presend(t)
            \/ \E amt \in 1..Purse[t] : Call(t, amt)
       \/ Flush
       \/ Revert
    /\ UNCHANGED match

Spec == Init /\ [][Next]_vars

-----------------------------------------------------------------------------
(* What must hold                                                          *)

(* A settled match costs each maker exactly what each of its orders owes:  *)
(* what was pulled, plus what its items produced, less what came back.     *)
(* And at no step, however a schedule repeats or reorders PULLs, is a leg  *)
(* drawn past what it owes.                                                *)
MakersWhole == \A i \in Fills, t \in Tokens :
    /\ phase = "settled" => drawn[i][t] + gained[i][t] - returned[i][t] = Owed(i, t)
    /\ drawn[i][t] <= Owed(i, t)

(* The matcher earns the spread the makers signed and nothing else, be it  *)
(* a maker's proceeds, a self-addressed leg or a balance donated before;   *)
(* what a fee-on-transfer token lost comes out of its pocket alone.        *)
MatcherEarnsSpread ==
    phase = "settled" => \A t \in Tokens :
        purse[t] = Purse[t] - burnt[t]
                   + SumFunction([i \in Fills |-> Owed(i, t) - OutsOf(i, t)])

(* What the pool still has to pay out to makers and payees, recomputed     *)
(* from what the steps did rather than from the running ledger.            *)
Obligation(t) ==
    SumFunction([i \in Fills |-> OutsOf(i, t) - paid[i][t]
                                 + Monus(drawn[i][t] + gained[i][t] - returned[i][t], Owed(i, t))])

(* A PRESEND never hands over what a delivery or a refund still needs.     *)
PresendKeepsObligations ==
    [][\A t \in Tokens : Presend(t) /\ pool'[t] # pool[t] =>
         pool'[t] >= Donated[t] + Obligation(t)]_vars

(* From ORDERED up, the wallet funds only what the order's items did not,  *)
(* unless a MAKE yields an input-leg token (ItemPolicy, review I-1).       *)
OnlyTheGapIsDrawn ==
    phase = "settled" => \A i \in Fills : \A t \in DOMAIN Slice[i].owed :
        (/\ Slice[i].policy >= ORDERED
         /\ \A k \in Steps(i) : Slice[i].items[k].op = "MAKE" =>
              \A g \in Slice[i].items[k].yields : g[t] = 0)
        => drawn[i][t] = Monus(Owed(i, t), gained[i][t])

(* No settled schedule splits the item group of an ATOMIC order.           *)
AtomicGroups ==
    phase = "settled" => \A i \in Fills : Slice[i].policy >= ATOMIC => i \notin broken
=============================================================================

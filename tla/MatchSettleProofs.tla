-------------------------- MODULE MatchSettleProofs --------------------------
(***************************************************************************)
(* What a settled match leaves its makers, its matcher and its pool, for   *)
(* every plan of finitely many orders, every schedule and every donation.  *)
(***************************************************************************)
EXTENDS MatchSettle, SumProofs

(* What an order still has the pool pay out of a token, and what it has    *)
(* put into the pool that has not come out of it.                          *)
Due(i, t) == OutsOf(i, t) - paid[i][t] + Refund(i, t)
Held(i, t) == drawn[i][t] + gained[i][t] - returned[i][t] - paid[i][t]

TypeOK ==
    /\ match \in DOMAIN Plans
    /\ phase \in {"schedule", "settled", "reverted"}
    /\ pool \in [Tokens -> Int] /\ purse \in [Tokens -> Int]
    /\ outstanding \in [Tokens -> Int] /\ burnt \in [Tokens -> Int]
    /\ credit \in [Fills -> [Tokens -> Int]] /\ drawn \in [Fills -> [Tokens -> Int]]
    /\ gained \in [Fills -> [Tokens -> Int]] /\ returned \in [Fills -> [Tokens -> Int]]
    /\ paid \in [Fills -> [Tokens -> Int]]
    /\ \A i \in Fills, t \in Tokens : drawn[i][t] >= 0 /\ gained[i][t] >= 0
    /\ allowance \in [Makers -> [Tokens -> Int]]
    /\ done \in [Fills -> SUBSET Nat] /\ \A i \in Fills : done[i] \subseteq Steps(i)

(* An order's own row: an input leg is credited what was drawn and gained, *)
(* any other token goes straight back, and what is paid is all or nothing. *)
RowOK(i, t) ==
    /\ t \in DOMAIN Slice[i].owed =>
         credit[i][t] = drawn[i][t] + gained[i][t] /\ returned[i][t] = 0
    /\ t \notin DOMAIN Slice[i].owed =>
         credit[i][t] = 0 /\ drawn[i][t] = 0 /\ returned[i][t] = gained[i][t]
    /\ paid[i][t] = IF i \in delivered THEN OutsOf(i, t) ELSE 0

Rows == \A i \in Fills, t \in Tokens : RowOK(i, t)

NeverOver == \A i \in Fills, t \in Tokens : drawn[i][t] <= Owed(i, t)

(* The running ledger is the sum of what the orders are due ...            *)
LedgerSums == \A t \in Tokens : outstanding[t] = SumFunction([i \in Fills |-> Due(i, t)])

(* ... and nothing is made or lost but what transfers burn.                *)
Conserved == \A t \in Tokens :
    pool[t] + purse[t] + burnt[t]
      = Donated[t] + Purse[t] + SumFunction([i \in Fills |-> Held(i, t)])

Sources(i) == {k \in Steps(i) : Slice[i].items[k].op # "MAKE"}

MakesYieldNone(i, t) ==
    \A k \in Steps(i) : Slice[i].items[k].op = "MAKE" =>
        \A g \in Slice[i].items[k].yields : g[t] = 0

(* An order under ORDERED or more draws nothing of a leg until its sources *)
(* are done, and then what they left open.                                 *)
Gaps == \A i \in Fills : \A t \in DOMAIN Slice[i].owed :
    Slice[i].policy >= ORDERED /\ MakesYieldNone(i, t) =>
      \/ drawn[i][t] = 0
      \/ /\ Sources(i) \subseteq done[i]
         /\ drawn[i][t] = Monus(Owed(i, t), gained[i][t])

(* An ATOMIC order runs its items from the first on, and once broken stays *)
(* strictly between its first and its last.                                *)
Groups == \A i \in Fills : Slice[i].policy >= ATOMIC =>
    \E n \in 0..Len(Slice[i].items) :
      /\ done[i] = 1..n
      /\ i \in broken => 0 < n /\ n < Len(Slice[i].items) /\ last # <<i, n>>

Settled ==
    phase = "settled" => MakersWhole /\ MatcherEarnsSpread /\ OnlyTheGapIsDrawn /\ AtomicGroups

IInv ==
    /\ TypeOK
    /\ NeverOver
    /\ phase = "schedule" => Rows /\ LedgerSums /\ Conserved /\ Gaps /\ Groups
    /\ Settled

-----------------------------------------------------------------------------
LEMMA PlanFacts ==
    ASSUME match \in DOMAIN Plans
    PROVE  /\ IsFiniteSet(Fills)
           /\ \A i \in Fills :
                /\ Slice[i].maker \in Makers
                /\ DOMAIN Slice[i].owed \subseteq Tokens
                /\ Len(Slice[i].items) \in Nat
                /\ \A k \in Steps(i) : Slice[i].items[k].yields \subseteq Amounts
                /\ \A t \in Tokens : /\ Owed(i, t) \in Nat /\ OutsOf(i, t) \in Nat
                                     /\ t \in DOMAIN Slice[i].owed => Owed(i, t) = Slice[i].owed[t]
                                     /\ t \notin DOMAIN Slice[i].owed => Owed(i, t) = 0
                                     /\ Slice[i].outs = {} => OutsOf(i, t) = 0
<1>1. IsFiniteSet(Fills)
  BY PlansAssumption DEF Fills, Slice
<1>2. ASSUME NEW i \in Fills
      PROVE  /\ Slice[i].maker \in Makers
             /\ DOMAIN Slice[i].owed \subseteq Tokens
             /\ \A t \in DOMAIN Slice[i].owed : Slice[i].owed[t] \in Nat
             /\ IsFiniteSet(Slice[i].outs) /\ Slice[i].outs \subseteq Legs
             /\ Slice[i].items \in Seq(Items)
  BY PlansAssumption DEF Fills, Slice
<1>3. ASSUME NEW i \in Fills
      PROVE  /\ Len(Slice[i].items) \in Nat
             /\ \A k \in Steps(i) : Slice[i].items[k].yields \subseteq Amounts
  <2>1. Slice[i].items \in Seq(Items)
    BY <1>2
  <2>2. \A k \in Steps(i) : Slice[i].items[k] \in Items
    BY <2>1 DEF Steps
  <2>3. \A item \in Items : item.yields \subseteq Amounts
    BY DEF Items
  <2> QED
    BY <2>1, <2>2, <2>3
<1>4. ASSUME NEW i \in Fills, NEW t \in Tokens PROVE OutsOf(i, t) \in Nat
  <2> DEFINE outs == {l \in Slice[i].outs : l.token = t}
             f == [l \in Slice[i].outs |-> l.amt]
  <2>1. IsFiniteSet(outs)
    BY <1>2, FS_Subset
  <2>2. \A l \in outs : f[l] \in Int /\ f[l] >= 0
    BY <1>2 DEF Legs
  <2> HIDE DEF outs, f
  <2>3. SumFunctionOnSet(f, outs) \in Nat
    BY <2>1, <2>2, SumType
  <2> QED
    BY <2>3 DEF OutsOf, outs, f
<1>5. ASSUME NEW i \in Fills, NEW t \in Tokens, Slice[i].outs = {} PROVE OutsOf(i, t) = 0
  <2>1. {l \in Slice[i].outs : l.token = t} = {}
    BY <1>5
  <2> QED
    BY <2>1, SumEmpty DEF OutsOf
<1>6. ASSUME NEW i \in Fills, NEW t \in Tokens
      PROVE  /\ Owed(i, t) \in Nat
             /\ t \in DOMAIN Slice[i].owed => Owed(i, t) = Slice[i].owed[t]
             /\ t \notin DOMAIN Slice[i].owed => Owed(i, t) = 0
  BY <1>2 DEF Owed
<1> QED
  BY <1>1, <1>2, <1>3, <1>4, <1>5, <1>6

LEMMA SamePlan ==
    ASSUME match' = match
    PROVE  /\ Slice' = Slice /\ Fills' = Fills
           /\ \A i, t : Owed(i, t)' = Owed(i, t) /\ OutsOf(i, t)' = OutsOf(i, t)
           /\ \A i : Steps(i)' = Steps(i)
<1>1. Slice' = Slice
  BY DEF Slice
<1> QED
  BY <1>1 DEF Fills, Owed, OutsOf, Steps

LEMMA MonusFacts ==
    ASSUME NEW a \in Int, NEW b \in Int
    PROVE  /\ Monus(a, b) \in Int /\ Monus(a, b) >= 0
           /\ a > b => Monus(a, b) = a - b
           /\ a <= b => Monus(a, b) = 0
BY DEF Monus

(* The terms of the sums are integers.                                     *)
Terms == \A i \in Fills, t \in Tokens :
    Refund(i, t) \in Int /\ Due(i, t) \in Int /\ Held(i, t) \in Int

LEMMA TermTypes == TypeOK => Terms
<1> SUFFICES ASSUME TypeOK, NEW i \in Fills, NEW t \in Tokens
             PROVE  Refund(i, t) \in Int /\ Due(i, t) \in Int /\ Held(i, t) \in Int
  BY DEF Terms
<1>1. /\ credit[i][t] \in Int /\ drawn[i][t] \in Int /\ gained[i][t] \in Int
      /\ returned[i][t] \in Int /\ paid[i][t] \in Int
  BY DEF TypeOK
<1>2. Owed(i, t) \in Int /\ OutsOf(i, t) \in Int
  BY PlanFacts DEF TypeOK
<1>3. Refund(i, t) \in Int
  BY <1>1, <1>2, MonusFacts DEF Refund
<1> QED
  BY <1>1, <1>2, <1>3 DEF Due, Held

(* A step that leaves every order its due leaves the ledger its sums ...   *)
LEMMA LedgerSame ==
    ASSUME match' = match, outstanding' = outstanding, LedgerSums,
           \A i \in Fills, t \in Tokens : Due(i, t)' = Due(i, t)
    PROVE  LedgerSums'
<1> SUFFICES ASSUME NEW t \in Tokens
             PROVE  outstanding'[t] = SumFunction([i \in Fills' |-> Due(i, t)'])
  BY DEF LedgerSums
<1>1. [i \in Fills' |-> Due(i, t)'] = [i \in Fills |-> Due(i, t)]
  BY SamePlan
<1> QED
  BY <1>1 DEF LedgerSums

(* ... as does one that changes the due of one order and the ledger by as  *)
(* much.                                                                   *)
LEMMA LedgerStep ==
    ASSUME TypeOK, TypeOK', match' = match, LedgerSums, NEW i \in Fills,
           \A j \in Fills \ {i}, t \in Tokens : Due(j, t)' = Due(j, t),
           \A t \in Tokens : outstanding'[t] = outstanding[t] + (Due(i, t)' - Due(i, t))
    PROVE  LedgerSums'
<1> SUFFICES ASSUME NEW t \in Tokens
             PROVE  outstanding'[t] = SumFunction([j \in Fills' |-> Due(j, t)'])
  BY DEF LedgerSums
<1> DEFINE f == [j \in Fills |-> Due(j, t)]
           g == [j \in Fills |-> Due(j, t)']
<1>1. f \in [Fills -> Int] /\ g \in [Fills -> Int]
  <2>1. \A j \in Fills : Due(j, t) \in Int
    BY TermTypes DEF Terms
  <2>2. Terms'
    BY TermTypes, PTL
  <2>3. \A j \in Fills' : Due(j, t)' \in Int
    BY <2>2 DEF Terms
  <2> QED
    BY <2>1, <2>3, SamePlan
<1>2. \A j \in Fills \ {i} : g[j] = f[j]
  OBVIOUS
<1>3. IsFiniteSet(Fills)
  BY PlanFacts DEF TypeOK
<1>4. SumFunction(g) = SumFunction(f) + (g[i] - f[i])
  <2> HIDE DEF f, g
  <2> QED
    BY <1>1, <1>2, <1>3, TotalChange
<1>5. outstanding[t] = SumFunction(f)
  BY DEF LedgerSums
<1>6. [j \in Fills' |-> Due(j, t)'] = g
  BY SamePlan
<1> QED
  BY <1>4, <1>5, <1>6

Books(t) == pool[t] + purse[t] + burnt[t]

LEMMA ConservedSame ==
    ASSUME match' = match, Conserved, \A t \in Tokens : Books(t)' = Books(t),
           \A i \in Fills, t \in Tokens : Held(i, t)' = Held(i, t)
    PROVE  Conserved'
<1> SUFFICES ASSUME NEW t \in Tokens
             PROVE  Books(t)' = Donated[t] + Purse[t] + SumFunction([i \in Fills' |-> Held(i, t)'])
  BY DEF Conserved, Books
<1>1. [i \in Fills' |-> Held(i, t)'] = [i \in Fills |-> Held(i, t)]
  BY SamePlan
<1> QED
  BY <1>1 DEF Conserved, Books

LEMMA ConservedStep ==
    ASSUME TypeOK, TypeOK', match' = match, Conserved, NEW i \in Fills,
           \A j \in Fills \ {i}, t \in Tokens : Held(j, t)' = Held(j, t),
           \A t \in Tokens : Books(t)' = Books(t) + (Held(i, t)' - Held(i, t))
    PROVE  Conserved'
<1> SUFFICES ASSUME NEW t \in Tokens
             PROVE  Books(t)' = Donated[t] + Purse[t] + SumFunction([j \in Fills' |-> Held(j, t)'])
  BY DEF Conserved, Books
<1> DEFINE f == [j \in Fills |-> Held(j, t)]
           g == [j \in Fills |-> Held(j, t)']
<1>1. f \in [Fills -> Int] /\ g \in [Fills -> Int]
  <2>1. \A j \in Fills : Held(j, t) \in Int
    BY TermTypes DEF Terms
  <2>2. Terms'
    BY TermTypes, PTL
  <2>3. \A j \in Fills' : Held(j, t)' \in Int
    BY <2>2 DEF Terms
  <2> QED
    BY <2>1, <2>3, SamePlan
<1>2. \A j \in Fills \ {i} : g[j] = f[j]
  OBVIOUS
<1>3. IsFiniteSet(Fills)
  BY PlanFacts DEF TypeOK
<1>4. SumFunction(g) = SumFunction(f) + (g[i] - f[i]) /\ SumFunction(f) \in Int
  <2> HIDE DEF f, g
  <2> QED
    BY <1>1, <1>2, <1>3, TotalChange, TotalType
<1>5. Books(t) = Donated[t] + Purse[t] + SumFunction(f)
  BY DEF Conserved, Books
<1>6. [j \in Fills' |-> Held(j, t)'] = g
  BY SamePlan
<1>7. Donated[t] \in Int /\ Purse[t] \in Int /\ g[i] \in Int /\ f[i] \in Int
  BY <1>1, BalancesAssumption DEF Amounts
<1> QED
  BY <1>4, <1>5, <1>6, <1>7

-----------------------------------------------------------------------------
LEMMA NoneIsNoItem ==
    \A i, n : None # <<i, n>>
BY DEF None

(* A step of others breaks the groups it falls inside and no more.         *)
LEMMA GroupsForeign ==
    ASSUME TypeOK, Groups, match' = match, done' = done, last' = None, Breaks(Fills)
    PROVE  Groups'
<1> SUFFICES ASSUME NEW i \in Fills, Slice[i].policy >= ATOMIC
             PROVE  \E n \in 0..Len(Slice[i].items) :
                      /\ done[i] = 1..n
                      /\ i \in broken' => 0 < n /\ n < Len(Slice[i].items) /\ None # <<i, n>>
  BY SamePlan DEF Groups
<1>1. PICK n \in 0..Len(Slice[i].items) :
        /\ done[i] = 1..n
        /\ i \in broken => 0 < n /\ n < Len(Slice[i].items) /\ last # <<i, n>>
  BY DEF Groups
<1>2. Len(Slice[i].items) \in Nat
  BY PlanFacts DEF TypeOK
<1>3. ASSUME i \in broken', i \notin broken PROVE 0 < n /\ n < Len(Slice[i].items)
  <2>1. 1..n # {} /\ 1..n # 1..Len(Slice[i].items)
    BY <1>1, <1>3 DEF Breaks, Steps
  <2> QED
    BY <2>1, <1>2
<1>4. i \in broken' => 0 < n /\ n < Len(Slice[i].items) /\ None # <<i, n>>
  BY <1>1, <1>3, NoneIsNoItem
<1> QED
  BY <1>1, <1>4

LEMMA InitInv == Init => IInv
<1> SUFFICES ASSUME Init PROVE IInv
  OBVIOUS
<1>0. match \in DOMAIN Plans
  BY DEF Init
<1>1. \A i \in Fills, t \in Tokens :
        /\ credit[i][t] = 0 /\ drawn[i][t] = 0 /\ gained[i][t] = 0 /\ returned[i][t] = 0 /\ paid[i][t] = 0
  BY DEF Init, Zero
<1>2. outstanding = [t \in Tokens |-> SumFunction([i \in Fills |-> OutsOf(i, t)])]
  BY DEF Init
<1>3. \A t \in Tokens : SumFunction([i \in Fills |-> OutsOf(i, t)]) \in Int
  <2> TAKE t \in Tokens
  <2>1. [i \in Fills |-> OutsOf(i, t)] \in [Fills -> Int]
    BY <1>0, PlanFacts
  <2> QED
    BY <1>0, <2>1, PlanFacts, TotalType
<1>4. TypeOK
  <2>1. pool \in [Tokens -> Int] /\ purse \in [Tokens -> Int] /\ burnt \in [Tokens -> Int]
    BY BalancesAssumption DEF Init, Amounts, Zero
  <2>2. outstanding \in [Tokens -> Int]
    BY <1>2, <1>3
  <2>3. allowance \in [Makers -> [Tokens -> Int]]
    BY BalancesAssumption DEF Init, Amounts
  <2>4. /\ credit \in [Fills -> [Tokens -> Int]] /\ drawn \in [Fills -> [Tokens -> Int]]
        /\ gained \in [Fills -> [Tokens -> Int]] /\ returned \in [Fills -> [Tokens -> Int]]
        /\ paid \in [Fills -> [Tokens -> Int]]
    BY DEF Init, Zero
  <2>5. done \in [Fills -> SUBSET Nat] /\ \A i \in Fills : done[i] \subseteq Steps(i)
    BY DEF Init
  <2> QED
    BY <1>0, <1>1, <2>1, <2>2, <2>3, <2>4, <2>5 DEF TypeOK, Init
<1>5. \A i \in Fills, t \in Tokens : Owed(i, t) \in Nat /\ OutsOf(i, t) \in Nat
  BY <1>0, PlanFacts
<1>6. NeverOver
  BY <1>1, <1>5 DEF NeverOver
<1>7. Rows
  <2> SUFFICES ASSUME NEW i \in Fills, NEW t \in Tokens PROVE RowOK(i, t)
    BY DEF Rows
  <2>1. i \in delivered => OutsOf(i, t) = 0
    BY <1>0, PlanFacts DEF Init
  <2> QED
    BY <1>1, <2>1 DEF RowOK
<1>8. LedgerSums
  <2> SUFFICES ASSUME NEW t \in Tokens
               PROVE  outstanding[t] = SumFunction([i \in Fills |-> Due(i, t)])
    BY DEF LedgerSums
  <2>1. \A i \in Fills : Due(i, t) = OutsOf(i, t)
    BY <1>1, <1>5 DEF Due, Refund, Monus
  <2>2. [i \in Fills |-> Due(i, t)] = [i \in Fills |-> OutsOf(i, t)]
    BY <2>1
  <2> QED
    BY <1>2, <2>2
<1>9. Conserved
  <2> SUFFICES ASSUME NEW t \in Tokens
               PROVE  pool[t] + purse[t] + burnt[t]
                        = Donated[t] + Purse[t] + SumFunction([i \in Fills |-> Held(i, t)])
    BY DEF Conserved
  <2> DEFINE f == [i \in Fills |-> Held(i, t)]
  <2>1. f \in [Fills -> Int] /\ \A i \in Fills : f[i] = 0
    BY <1>1 DEF Held
  <2> HIDE DEF f
  <2>2. SumFunction(f) = 0
    BY <1>0, <2>1, PlanFacts, TotalZero
  <2>3. pool[t] = Donated[t] /\ purse[t] = Purse[t] /\ burnt[t] = 0
    BY DEF Init, Zero
  <2>4. Donated[t] \in Int /\ Purse[t] \in Int
    BY BalancesAssumption DEF Amounts
  <2> QED
    BY <2>2, <2>3, <2>4 DEF f
<1>10. Gaps
  <2>1. \A i \in Fills : \A t \in DOMAIN Slice[i].owed : drawn[i][t] = 0
    BY <1>0, <1>1, PlanFacts
  <2> QED
    BY <2>1 DEF Gaps
<1>11. Groups
  <2> SUFFICES ASSUME NEW i \in Fills
               PROVE  \E n \in 0..Len(Slice[i].items) :
                        /\ done[i] = 1..n
                        /\ i \in broken => 0 < n /\ n < Len(Slice[i].items) /\ last # <<i, n>>
    BY DEF Groups
  <2>1. done[i] = 1..0 /\ broken = {}
    BY DEF Init
  <2>2. 0 \in 0..Len(Slice[i].items)
    BY <1>0, PlanFacts
  <2> QED
    BY <2>1, <2>2
<1>12. phase = "schedule"
  BY DEF Init
<1> QED
  BY <1>4, <1>6, <1>7, <1>8, <1>9, <1>10, <1>11, <1>12 DEF IInv, Settled

-----------------------------------------------------------------------------
LEMMA PullInv ==
    ASSUME IInv, match' = match, NEW i \in Fills, NEW t \in DOMAIN Slice[i].owed, Pull(i, t)
    PROVE  IInv'
<1> DEFINE need == Monus(Owed(i, t), credit[i][t])
<1>1. TypeOK /\ NeverOver /\ Rows /\ LedgerSums /\ Conserved /\ Gaps /\ Groups
  BY DEF IInv, Pull
<1>2. t \in Tokens /\ Owed(i, t) = Slice[i].owed[t] /\ Owed(i, t) \in Nat /\ Slice[i].maker \in Makers
  BY <1>1, PlanFacts DEF TypeOK
<1>3. PICK fee \in {0, 1} :
        /\ Spend(Slice[i].maker, t, need)
        /\ pool' = [pool EXCEPT ![t] = @ + need - fee]
        /\ burnt' = [burnt EXCEPT ![t] = @ + fee]
        /\ credit' = [credit EXCEPT ![i][t] = @ + need]
        /\ drawn' = [drawn EXCEPT ![i][t] = @ + need]
  BY <1>2 DEF Pull
<1>4. /\ phase' = "schedule" /\ PullReady(i) /\ last' = None /\ Breaks(Fills)
      /\ UNCHANGED <<outstanding, done, delivered, purse, gained, returned, paid>>
  BY DEF Pull
<1>5. credit[i][t] \in Int /\ drawn[i][t] \in Int /\ drawn[i][t] >= 0 /\ gained[i][t] \in Int /\ gained[i][t] >= 0
  BY <1>1, <1>2 DEF TypeOK
<1>6. /\ need \in Int /\ need >= 0
      /\ Owed(i, t) > credit[i][t] => need = Owed(i, t) - credit[i][t]
      /\ Owed(i, t) <= credit[i][t] => need = 0
  BY <1>2, <1>5 DEF Monus
<1>7. credit[i][t] = drawn[i][t] + gained[i][t] /\ returned[i][t] = 0 /\ drawn[i][t] <= Owed(i, t)
  BY <1>1, <1>2 DEF Rows, RowOK, NeverOver
<1> HIDE DEF need
<1>8. /\ credit'[i][t] = credit[i][t] + need /\ drawn'[i][t] = drawn[i][t] + need
      /\ \A j \in Fills, u \in Tokens : <<j, u>> # <<i, t>> =>
           credit'[j][u] = credit[j][u] /\ drawn'[j][u] = drawn[j][u]
      /\ pool'[t] = pool[t] + need - fee /\ burnt'[t] = burnt[t] + fee
      /\ \A u \in Tokens \ {t} : pool'[u] = pool[u] /\ burnt'[u] = burnt[u]
  BY <1>1, <1>2, <1>3 DEF TypeOK
<1>9. TypeOK'
  <2>1. /\ pool' \in [Tokens -> Int] /\ burnt' \in [Tokens -> Int]
        /\ credit' \in [Fills -> [Tokens -> Int]] /\ drawn' \in [Fills -> [Tokens -> Int]]
    BY <1>1, <1>2, <1>3, <1>6 DEF TypeOK
  <2>2. allowance' \in [Makers -> [Tokens -> Int]]
    BY <1>1, <1>2, <1>3, <1>6 DEF TypeOK, Spend
  <2>3. \A j \in Fills, u \in Tokens : drawn'[j][u] >= 0 /\ gained'[j][u] >= 0
    <3> TAKE j \in Fills, u \in Tokens
    <3>1. drawn[j][u] >= 0 /\ gained[j][u] >= 0 /\ drawn[j][u] \in Int
      BY <1>1 DEF TypeOK
    <3> QED
      BY <1>4, <1>5, <1>6, <1>8, <3>1
  <2> QED
    BY <1>1, <1>4, <2>1, <2>2, <2>3, SamePlan DEF TypeOK
<1>10. Rows'
  <2> SUFFICES ASSUME NEW j \in Fills, NEW u \in Tokens PROVE RowOK(j, u)'
    BY SamePlan DEF Rows
  <2>1. RowOK(j, u)
    BY <1>1 DEF Rows
  <2>2. CASE j = i /\ u = t
    BY <1>2, <1>4, <1>5, <1>6, <1>7, <1>8, <2>1, <2>2, SamePlan DEF RowOK
  <2>3. CASE <<j, u>> # <<i, t>>
    BY <1>4, <1>8, <2>1, <2>3, SamePlan DEF RowOK
  <2> QED
    BY <2>2, <2>3
<1>11. NeverOver'
  <2> SUFFICES ASSUME NEW j \in Fills, NEW u \in Tokens PROVE drawn'[j][u] <= Owed(j, u)
    BY SamePlan DEF NeverOver
  <2>1. CASE j = i /\ u = t
    BY <1>2, <1>5, <1>6, <1>7, <1>8, <2>1
  <2>2. CASE <<j, u>> # <<i, t>>
    BY <1>1, <1>8, <2>2 DEF NeverOver
  <2> QED
    BY <2>1, <2>2
<1>12. LedgerSums'
  <2>1. \A j \in Fills, u \in Tokens : Due(j, u)' = Due(j, u)
    <3> TAKE j \in Fills, u \in Tokens
    <3>1. Refund(j, u)' = Refund(j, u)
      <4>1. CASE j = i /\ u = t
        <5>1. Monus(credit[i][t] + need, Owed(i, t)) = Monus(credit[i][t], Owed(i, t))
          BY <1>2, <1>5, <1>6 DEF Monus
        <5> QED
          BY <1>8, <4>1, <5>1, SamePlan DEF Refund
      <4>2. CASE <<j, u>> # <<i, t>>
        BY <1>8, <4>2, SamePlan DEF Refund
      <4> QED
        BY <4>1, <4>2
    <3> QED
      BY <1>4, <3>1, SamePlan DEF Due
  <2> QED
    BY <1>1, <1>4, <2>1, LedgerSame
<1>13. Conserved'
  <2>1. \A j \in Fills \ {i}, u \in Tokens : Held(j, u)' = Held(j, u)
    BY <1>4, <1>8 DEF Held
  <2>2. ASSUME NEW u \in Tokens PROVE Books(u)' = Books(u) + (Held(i, u)' - Held(i, u))
    <3>1. /\ pool[u] \in Int /\ burnt[u] \in Int /\ purse[u] \in Int /\ drawn[i][u] \in Int
          /\ gained[i][u] \in Int /\ returned[i][u] \in Int /\ paid[i][u] \in Int
      BY <1>1 DEF TypeOK
    <3>2. CASE u = t
      BY <1>4, <1>6, <1>8, <3>1, <3>2 DEF Books, Held
    <3>3. CASE u # t
      BY <1>4, <1>8, <3>1, <3>3 DEF Books, Held
    <3> QED
      BY <3>2, <3>3
  <2> QED
    BY <1>1, <1>9, <2>1, <2>2, ConservedStep
<1>14. Gaps'
  <2> SUFFICES ASSUME NEW j \in Fills, NEW u \in DOMAIN Slice[j].owed,
                      Slice[j].policy >= ORDERED, MakesYieldNone(j, u)
               PROVE  \/ drawn'[j][u] = 0
                      \/ /\ Sources(j) \subseteq done[j]
                         /\ drawn'[j][u] = Monus(Owed(j, u), gained[j][u])
    BY <1>4, SamePlan DEF Gaps, MakesYieldNone, Sources
  <2>1. /\ u \in Tokens
        /\ \/ drawn[j][u] = 0
           \/ /\ Sources(j) \subseteq done[j]
              /\ drawn[j][u] = Monus(Owed(j, u), gained[j][u])
    BY <1>1, PlanFacts DEF Gaps, TypeOK
  <2>2. CASE j = i /\ u = t
    <3>1. Sources(i) \subseteq done[i]
      <4>1. Slice[i].policy \in {ORDERED, ATOMIC, CANONICAL}
        BY <2>2, PlansAssumption, <1>1 DEF Fills, Slice, TypeOK, Policies, ORDERED, ATOMIC, CANONICAL
      <4>2. CASE Slice[i].policy \in {ORDERED, ATOMIC}
        BY <1>4, <4>2 DEF PullReady, Sources
      <4>3. CASE Slice[i].policy = CANONICAL
        BY <1>4, <4>3 DEF PullReady, Sources
      <4> QED
        BY <4>1, <4>2, <4>3
    <3>2. drawn[i][t] + need = Monus(Owed(i, t), gained[i][t])
      <4>1. CASE drawn[i][t] = 0
        BY <1>2, <1>7, <1>5, <4>1 DEF need, Monus
      <4>2. CASE drawn[i][t] = Monus(Owed(i, t), gained[i][t])
        <5>1. Owed(i, t) <= credit[i][t]
          BY <1>2, <1>5, <1>7, <4>2 DEF Monus
        <5> QED
          BY <1>5, <1>6, <4>2, <5>1
      <4> QED
        BY <2>1, <2>2, <4>1, <4>2
    <3> QED
      BY <1>8, <2>2, <3>1, <3>2
  <2>3. CASE <<j, u>> # <<i, t>>
    BY <1>8, <2>1, <2>3
  <2> QED
    BY <2>2, <2>3
<1>15. Groups'
  BY <1>1, <1>4, GroupsForeign
<1> QED
  BY <1>4, <1>9, <1>10, <1>11, <1>12, <1>13, <1>14, <1>15 DEF IInv, Settled

LEMMA DeliverInv ==
    ASSUME IInv, match' = match, NEW i \in Fills, Deliver(i)
    PROVE  IInv'
<1>1. TypeOK /\ NeverOver /\ Rows /\ LedgerSums /\ Conserved /\ Gaps /\ Groups
  BY DEF IInv, Deliver
<1>2. \A t \in Tokens : OutsOf(i, t) \in Nat
  BY <1>1, PlanFacts DEF TypeOK
<1>3. /\ phase' = "schedule" /\ i \notin delivered /\ delivered' = delivered \cup {i}
      /\ last' = None /\ Breaks(Fills)
      /\ UNCHANGED <<credit, done, purse, allowance, drawn, gained, returned, burnt>>
  BY DEF Deliver
<1>4. /\ \A t \in Tokens : /\ pool'[t] = pool[t] - OutsOf(i, t)
                           /\ outstanding'[t] = outstanding[t] - OutsOf(i, t)
                           /\ paid'[i][t] = paid[i][t] + OutsOf(i, t)
      /\ \A j \in Fills \ {i}, t \in Tokens : paid'[j][t] = paid[j][t]
  BY <1>1 DEF TypeOK, Deliver
<1>5. TypeOK'
  <2>1. pool' \in [Tokens -> Int] /\ outstanding' \in [Tokens -> Int] /\ paid' \in [Fills -> [Tokens -> Int]]
    BY <1>1, <1>2 DEF TypeOK, Deliver
  <2> QED
    BY <1>1, <1>3, <2>1, SamePlan DEF TypeOK
<1>6. Rows'
  <2> SUFFICES ASSUME NEW j \in Fills, NEW u \in Tokens PROVE RowOK(j, u)'
    BY SamePlan DEF Rows
  <2>1. RowOK(j, u)
    BY <1>1 DEF Rows
  <2>2. OutsOf(i, u) \in Nat
    BY <1>2
  <2> QED
    BY <1>3, <1>4, <2>1, <2>2, SamePlan DEF RowOK
<1>7. NeverOver'
  BY <1>1, <1>3, SamePlan DEF NeverOver
<1>8. LedgerSums'
  <2>1. \A j \in Fills, u \in Tokens : Refund(j, u)' = Refund(j, u)
    BY <1>3, SamePlan DEF Refund
  <2>2. \A j \in Fills \ {i}, u \in Tokens : Due(j, u)' = Due(j, u)
    BY <1>4, <2>1, SamePlan DEF Due
  <2>3. ASSUME NEW u \in Tokens PROVE outstanding'[u] = outstanding[u] + (Due(i, u)' - Due(i, u))
    <3>1. outstanding[u] \in Int /\ paid[i][u] \in Int /\ Refund(i, u) \in Int /\ OutsOf(i, u) \in Int
      BY <1>1, <1>2, TermTypes DEF TypeOK, Terms
    <3>2. Due(i, u)' = OutsOf(i, u) - (paid[i][u] + OutsOf(i, u)) + Refund(i, u)
      BY <1>4, <2>1, SamePlan DEF Due
    <3> QED
      BY <1>4, <3>1, <3>2 DEF Due
  <2> QED
    BY <1>1, <1>5, <2>2, <2>3, LedgerStep
<1>9. Conserved'
  <2>1. \A j \in Fills \ {i}, u \in Tokens : Held(j, u)' = Held(j, u)
    BY <1>3, <1>4 DEF Held
  <2>2. ASSUME NEW u \in Tokens PROVE Books(u)' = Books(u) + (Held(i, u)' - Held(i, u))
    <3>1. /\ pool[u] \in Int /\ burnt[u] \in Int /\ purse[u] \in Int /\ drawn[i][u] \in Int
          /\ gained[i][u] \in Int /\ returned[i][u] \in Int /\ paid[i][u] \in Int /\ OutsOf(i, u) \in Int
      BY <1>1, <1>2 DEF TypeOK
    <3> QED
      BY <1>3, <1>4, <3>1 DEF Books, Held
  <2> QED
    BY <1>1, <1>5, <2>1, <2>2, ConservedStep
<1>10. Gaps'
  BY <1>1, <1>3, SamePlan DEF Gaps, MakesYieldNone, Sources
<1>11. Groups'
  BY <1>1, <1>3, GroupsForeign
<1> QED
  BY <1>3, <1>5, <1>6, <1>7, <1>8, <1>9, <1>10, <1>11 DEF IInv, Settled

LEMMA ItemInv ==
    ASSUME IInv, match' = match, NEW i \in Fills, NEW k \in Steps(i), Item(i, k)
    PROVE  IInv'
<1>1. TypeOK /\ NeverOver /\ Rows /\ LedgerSums /\ Conserved /\ Gaps /\ Groups
  BY DEF IInv, Item
<1>2. PICK g \in Slice[i].items[k].yields :
        /\ CreditProceeds(i, g)
        /\ gained' = [gained EXCEPT ![i] = [t \in Tokens |-> @[t] + g[t]]]
  BY DEF Item
<1>3. /\ phase' = "schedule" /\ k \notin done[i] /\ ItemReady(i, k)
      /\ done' = [done EXCEPT ![i] = @ \cup {k}] /\ last' = <<i, k>> /\ Breaks(Fills \ {i})
      /\ UNCHANGED <<delivered, purse, allowance, drawn, paid, burnt>>
  BY DEF Item
<1>4. \A t \in Tokens : g[t] \in Nat /\ Owed(i, t) \in Nat
  BY <1>1, <1>2, PlanFacts DEF TypeOK, Amounts
<1>5. \A j \in Fills, t \in Tokens :
        /\ pool[t] \in Int /\ burnt[t] \in Int /\ purse[t] \in Int /\ outstanding[t] \in Int
        /\ credit[j][t] \in Int /\ drawn[j][t] \in Int /\ gained[j][t] \in Int
        /\ returned[j][t] \in Int /\ paid[j][t] \in Int
  BY <1>1 DEF TypeOK
<1>6. /\ \A t \in DOMAIN Slice[i].owed \cap Tokens :
           /\ pool'[t] = pool[t] + g[t] /\ credit'[i][t] = credit[i][t] + g[t]
           /\ returned'[i][t] = returned[i][t]
           /\ outstanding'[t] = outstanding[t] + (Monus(credit[i][t] + g[t], Owed(i, t)) - Monus(credit[i][t], Owed(i, t)))
      /\ \A t \in Tokens \ DOMAIN Slice[i].owed :
           /\ pool'[t] = pool[t] /\ credit'[i][t] = credit[i][t]
           /\ returned'[i][t] = returned[i][t] + g[t]
           /\ outstanding'[t] = outstanding[t]
      /\ \A t \in Tokens : gained'[i][t] = gained[i][t] + g[t]
      /\ \A j \in Fills \ {i}, t \in Tokens :
           credit'[j][t] = credit[j][t] /\ returned'[j][t] = returned[j][t] /\ gained'[j][t] = gained[j][t]
  <2> USE <1>1, <1>2
  <2>1. /\ credit' = [credit EXCEPT ![i] = [t \in Tokens |->
                        IF t \in DOMAIN Slice[i].owed THEN credit[i][t] + g[t] ELSE credit[i][t]]]
        /\ returned' = [returned EXCEPT ![i] = [t \in Tokens |->
                        IF t \in DOMAIN Slice[i].owed THEN returned[i][t] ELSE returned[i][t] + g[t]]]
        /\ gained' = [gained EXCEPT ![i] = [t \in Tokens |-> gained[i][t] + g[t]]]
    BY DEF CreditProceeds
  <2>2. \A t \in Tokens : /\ pool'[t] = IF t \in DOMAIN Slice[i].owed THEN pool[t] + g[t] ELSE pool[t]
                          /\ outstanding'[t] = IF t \in DOMAIN Slice[i].owed
                               THEN outstanding[t] + (Monus(credit[i][t] + g[t], Owed(i, t)) - Monus(credit[i][t], Owed(i, t)))
                               ELSE outstanding[t]
    BY DEF CreditProceeds
  <2> QED
    BY <2>1, <2>2 DEF TypeOK
<1>7. TypeOK'
  <2>1. /\ pool' \in [Tokens -> Int] /\ credit' \in [Fills -> [Tokens -> Int]]
        /\ returned' \in [Fills -> [Tokens -> Int]]
    BY <1>1, <1>2, <1>4 DEF TypeOK, CreditProceeds
  <2>2. gained' \in [Fills -> [Tokens -> Int]]
    BY <1>1, <1>2, <1>4 DEF TypeOK
  <2>3. outstanding' \in [Tokens -> Int]
    <3>1. \A t \in Tokens : Monus(credit[i][t] + g[t], Owed(i, t)) - Monus(credit[i][t], Owed(i, t)) \in Int
      BY <1>4, <1>5 DEF Monus
    <3>2. \A t \in Tokens : outstanding'[t] \in Int
      BY <1>5, <1>6, <3>1
    <3>3. outstanding' = [t \in Tokens |-> outstanding'[t]]
      BY <1>2 DEF CreditProceeds
    <3> QED
      BY <3>2, <3>3
  <2>4. done' \in [Fills -> SUBSET Nat] /\ \A j \in Fills : done'[j] \subseteq Steps(j)
    BY <1>1, <1>3, PlanFacts DEF TypeOK, Steps
  <2>5. \A j \in Fills, t \in Tokens : drawn'[j][t] >= 0 /\ gained'[j][t] >= 0
    <3> TAKE j \in Fills, t \in Tokens
    <3>1. drawn[j][t] >= 0 /\ gained[j][t] >= 0
      BY <1>1 DEF TypeOK
    <3> QED
      BY <1>3, <1>4, <1>5, <1>6, <3>1
  <2> QED
    BY <1>1, <1>3, <2>1, <2>2, <2>3, <2>4, <2>5, SamePlan DEF TypeOK
<1>8. Rows'
  <2> SUFFICES ASSUME NEW j \in Fills, NEW u \in Tokens PROVE RowOK(j, u)'
    BY SamePlan DEF Rows
  <2>1. RowOK(j, u)
    BY <1>1 DEF Rows
  <2>2. CASE j = i
    BY <1>3, <1>4, <1>5, <1>6, <2>1, <2>2, SamePlan DEF RowOK
  <2>3. CASE j # i
    BY <1>3, <1>6, <2>1, <2>3, SamePlan DEF RowOK
  <2> QED
    BY <2>2, <2>3
<1>9. NeverOver'
  BY <1>1, <1>3, SamePlan DEF NeverOver
<1>10. LedgerSums'
  <2>1. \A j \in Fills \ {i}, u \in Tokens : Due(j, u)' = Due(j, u)
    BY <1>3, <1>6, SamePlan DEF Due, Refund
  <2>2. ASSUME NEW u \in Tokens PROVE outstanding'[u] = outstanding[u] + (Due(i, u)' - Due(i, u))
    <3>1. /\ Refund(i, u) \in Int /\ OutsOf(i, u) \in Int /\ paid[i][u] \in Int
          /\ Monus(credit[i][u] + g[u], Owed(i, u)) \in Int
      <4>1. Monus(credit[i][u] + g[u], Owed(i, u)) \in Int
        BY <1>4, <1>5 DEF Monus
      <4> QED
        BY <1>1, <1>5, <4>1, TermTypes, PlanFacts DEF Terms, TypeOK
    <3>2. CASE u \in DOMAIN Slice[i].owed
      <4>1. Due(i, u)' = OutsOf(i, u) - paid[i][u] + Monus(credit[i][u] + g[u], Owed(i, u))
        BY <1>3, <1>6, <3>2, SamePlan DEF Due, Refund
      <4>2. outstanding'[u] = outstanding[u] + (Monus(credit[i][u] + g[u], Owed(i, u)) - Refund(i, u))
        BY <1>6, <3>2 DEF Refund
      <4> QED
        BY <1>5, <3>1, <4>1, <4>2 DEF Due
    <3>3. CASE u \notin DOMAIN Slice[i].owed
      <4>1. Due(i, u)' = Due(i, u) /\ outstanding'[u] = outstanding[u]
        BY <1>3, <1>6, <3>3, SamePlan DEF Due, Refund
      <4>2. Due(i, u) \in Int
        BY <1>1, TermTypes DEF Terms
      <4> QED
        BY <1>5, <4>1, <4>2
    <3> QED
      BY <3>2, <3>3
  <2> QED
    BY <1>1, <1>7, <2>1, <2>2, LedgerStep
<1>11. Conserved'
  <2>1. \A j \in Fills \ {i}, u \in Tokens : Held(j, u)' = Held(j, u)
    BY <1>3, <1>6 DEF Held
  <2>2. ASSUME NEW u \in Tokens PROVE Books(u)' = Books(u) + (Held(i, u)' - Held(i, u))
    <3>1. CASE u \in DOMAIN Slice[i].owed
      BY <1>3, <1>4, <1>5, <1>6, <3>1 DEF Books, Held
    <3>2. CASE u \notin DOMAIN Slice[i].owed
      BY <1>3, <1>4, <1>5, <1>6, <3>2 DEF Books, Held
    <3> QED
      BY <3>1, <3>2
  <2> QED
    BY <1>1, <1>7, <2>1, <2>2, ConservedStep
<1>12. Gaps'
  <2> SUFFICES ASSUME NEW j \in Fills, NEW u \in DOMAIN Slice[j].owed,
                      Slice[j].policy >= ORDERED, MakesYieldNone(j, u)
               PROVE  \/ drawn[j][u] = 0
                      \/ /\ Sources(j) \subseteq done'[j]
                         /\ drawn[j][u] = Monus(Owed(j, u), gained'[j][u])
    BY <1>3, SamePlan DEF Gaps, MakesYieldNone, Sources
  <2>1. /\ u \in Tokens
        /\ \/ drawn[j][u] = 0
           \/ /\ Sources(j) \subseteq done[j]
              /\ drawn[j][u] = Monus(Owed(j, u), gained[j][u])
    BY <1>1, PlanFacts DEF Gaps, TypeOK
  <2>2. done[j] \subseteq done'[j]
    BY <1>1, <1>3 DEF TypeOK
  <2>3. CASE j # i
    BY <1>6, <2>1, <2>2, <2>3
  <2>4. CASE j = i /\ k \in Sources(i)
    BY <1>3, <2>1, <2>4
  <2>5. CASE j = i /\ k \notin Sources(i)
    <3>1. g[u] = 0
      BY <1>2, <2>5 DEF Sources, MakesYieldNone
    <3>2. gained'[i][u] = gained[i][u]
      BY <1>4, <1>5, <1>6, <2>1, <3>1
    <3> QED
      BY <2>1, <2>2, <2>5, <3>2
  <2> QED
    BY <2>3, <2>4, <2>5
<1>13. Groups'
  <2> SUFFICES ASSUME NEW j \in Fills, Slice[j].policy >= ATOMIC
               PROVE  \E n \in 0..Len(Slice[j].items) :
                        /\ done'[j] = 1..n
                        /\ j \in broken' => 0 < n /\ n < Len(Slice[j].items) /\ <<i, k>> # <<j, n>>
    BY <1>3, SamePlan DEF Groups
  <2>1. PICK n \in 0..Len(Slice[j].items) :
          /\ done[j] = 1..n
          /\ j \in broken => 0 < n /\ n < Len(Slice[j].items) /\ last # <<j, n>>
    BY <1>1 DEF Groups
  <2>2. Len(Slice[j].items) \in Nat
    BY <1>1, PlanFacts DEF TypeOK
  <2>3. CASE j # i
    <3>1. done'[j] = 1..n /\ <<i, k>> # <<j, n>>
      BY <1>3, <2>1, <2>3
    <3>2. ASSUME j \in broken', j \notin broken PROVE 0 < n /\ n < Len(Slice[j].items)
      <4>1. 1..n # {} /\ 1..n # 1..Len(Slice[j].items)
        BY <1>3, <2>1, <3>2 DEF Breaks, Steps
      <4> QED
        BY <2>2, <4>1
    <3> QED
      BY <2>1, <3>1, <3>2
  <2>4. CASE j = i
    <3>1. /\ 1..(k - 1) \subseteq done[i] /\ (k # 1 => last = <<i, k - 1>>)
          /\ k \in 1..Len(Slice[i].items) /\ k \notin done[i]
      <4>1. Slice[i].policy >= ORDERED
        <5>1. Slice[i].policy \in Policies
          BY <1>1, PlansAssumption DEF TypeOK, Fills, Slice
        <5> QED
          BY <2>4, <5>1 DEF Policies, ORDERED, ATOMIC
      <4> QED
        BY <1>3, <2>4, <4>1 DEF ItemReady, Steps
    <3>2. k = n + 1
      <4>1. k \notin 1..n /\ 1..(k - 1) \subseteq 1..n
        BY <2>1, <2>4, <3>1
      <4>2. ~(k <= n)
        BY <2>2, <3>1, <4>1
      <4>3. ~(k > n + 1)
        <5> SUFFICES ASSUME k > n + 1 PROVE FALSE
          OBVIOUS
        <5>1. n + 1 \in 1..(k - 1)
          BY <2>2, <3>1
        <5> QED
          BY <4>1, <5>1
      <4> QED
        BY <2>2, <3>1, <4>2, <4>3
    <3>3. done'[i] = 1..(n + 1)
      <4>1. done'[i] = done[i] \cup {n + 1}
        BY <1>1, <1>3, <3>2 DEF TypeOK
      <4> QED
        BY <2>1, <2>2, <2>4, <4>1
    <3>4. i \notin broken
      BY <2>1, <2>4, <3>1, <3>2
    <3>5. i \notin broken'
      BY <1>3, <3>4 DEF Breaks
    <3>6. n + 1 \in 0..Len(Slice[j].items)
      BY <2>2, <2>4, <3>1, <3>2
    <3> QED
      BY <2>4, <3>3, <3>5, <3>6
  <2> QED
    BY <2>3, <2>4
<1> QED
  BY <1>3, <1>7, <1>8, <1>9, <1>10, <1>11, <1>12, <1>13 DEF IInv, Settled

(* What moves between the pool and the solver leaves the rest as it is.    *)
LEMMA SolverInv ==
    ASSUME IInv, match' = match, phase = "schedule",
           NEW t \in Tokens, NEW moved \in Int,
           pool' = [pool EXCEPT ![t] = @ + moved],
           purse' = [purse EXCEPT ![t] = @ - moved],
           last' = None, Breaks(Fills),
           UNCHANGED <<phase, outstanding, credit, done, delivered, allowance,
                       drawn, gained, returned, paid, burnt>>
    PROVE  IInv'
<1>1. TypeOK /\ NeverOver /\ Rows /\ LedgerSums /\ Conserved /\ Gaps /\ Groups
  BY DEF IInv
<1>2. TypeOK'
  <2>1. pool' \in [Tokens -> Int] /\ purse' \in [Tokens -> Int]
    BY <1>1 DEF TypeOK
  <2> QED
    BY <1>1, <2>1, SamePlan DEF TypeOK
<1>3. Rows' /\ NeverOver' /\ Gaps'
  BY <1>1, SamePlan DEF Rows, RowOK, NeverOver, Gaps, MakesYieldNone, Sources
<1>4. LedgerSums'
  <2>1. \A j \in Fills, u \in Tokens : Due(j, u)' = Due(j, u)
    BY SamePlan DEF Due, Refund
  <2> QED
    BY <1>1, <2>1, LedgerSame
<1>5. Conserved'
  <2>1. \A j \in Fills, u \in Tokens : Held(j, u)' = Held(j, u)
    BY DEF Held
  <2>2. ASSUME NEW u \in Tokens PROVE Books(u)' = Books(u)
    <3>1. pool[u] \in Int /\ purse[u] \in Int /\ burnt[u] \in Int
      BY <1>1 DEF TypeOK
    <3>2. pool'[u] = (IF u = t THEN pool[u] + moved ELSE pool[u])
      BY <1>1 DEF TypeOK
    <3>3. purse'[u] = (IF u = t THEN purse[u] - moved ELSE purse[u])
      BY <1>1 DEF TypeOK
    <3> QED
      BY <3>1, <3>2, <3>3 DEF Books
  <2> QED
    BY <1>1, <2>1, <2>2, ConservedSame
<1>6. Groups'
  BY <1>1, GroupsForeign
<1> QED
  BY <1>2, <1>3, <1>4, <1>5, <1>6 DEF IInv, Settled

LEMMA PresendInv ==
    ASSUME IInv, match' = match, NEW t \in Tokens, Presend(t)
    PROVE  IInv'
<1> DEFINE free == Monus(pool[t] - Donated[t], outstanding[t])
<1>1. pool[t] \in Int /\ purse[t] \in Int /\ free \in Int
  BY BalancesAssumption DEF IInv, TypeOK, Monus, Amounts
<1>2. /\ pool' = [pool EXCEPT ![t] = @ - free]
      /\ purse' = [purse EXCEPT ![t] = @ + free]
  BY DEF Presend
<1> HIDE DEF free
<1>3. -free \in Int /\ pool[t] - free = pool[t] + (-free) /\ purse[t] + free = purse[t] - (-free)
  BY <1>1
<1>4. /\ pool' = [pool EXCEPT ![t] = @ + (-free)]
      /\ purse' = [purse EXCEPT ![t] = @ - (-free)]
  BY <1>2, <1>3
<1>5. /\ phase = "schedule" /\ last' = None /\ Breaks(Fills)
      /\ UNCHANGED <<phase, outstanding, credit, done, delivered, allowance,
                     drawn, gained, returned, paid, burnt>>
  BY DEF Presend
<1> QED
  BY <1>3, <1>4, <1>5, SolverInv

LEMMA CallInv ==
    ASSUME IInv, match' = match, NEW t \in Tokens, NEW amt \in Int, Call(t, amt)
    PROVE  IInv'
BY SolverInv DEF Call

(* What closes a schedule: every order done, delivered and funded.         *)
LEMMA FlushInv ==
    ASSUME IInv, match' = match, Flush
    PROVE  IInv'
<1>1. TypeOK /\ NeverOver /\ Rows /\ LedgerSums /\ Conserved /\ Gaps /\ Groups
  BY DEF IInv, Flush
<1>2. /\ phase' = "settled" /\ Complete /\ Funded /\ pool' = Donated
      /\ purse' = [t \in Tokens |-> purse[t] + pool[t] - Refunds(t) - Donated[t]]
      /\ returned' = [i \in Fills |-> [t \in Tokens |-> returned[i][t] + Refund(i, t)]]
      /\ UNCHANGED <<outstanding, credit, done, delivered, last, allowance,
                     drawn, gained, paid, burnt, broken>>
  BY DEF Flush
<1>3. IsFiniteSet(Fills) /\ \A i \in Fills, t \in Tokens : Owed(i, t) \in Nat /\ OutsOf(i, t) \in Nat
  BY <1>1, PlanFacts DEF TypeOK
<1>4. \A i \in Fills, t \in Tokens :
        /\ credit[i][t] \in Int /\ drawn[i][t] \in Int /\ gained[i][t] \in Int /\ gained[i][t] >= 0
        /\ returned[i][t] \in Int /\ paid[i][t] \in Int /\ Refund(i, t) \in Int
  BY <1>1, TermTypes DEF TypeOK, Terms
<1>5. \A i \in Fills, t \in Tokens :
        /\ t \in DOMAIN Slice[i].owed =>
             /\ credit[i][t] = drawn[i][t] + gained[i][t] /\ returned[i][t] = 0
             /\ Owed(i, t) <= credit[i][t]
        /\ t \notin DOMAIN Slice[i].owed =>
             /\ credit[i][t] = 0 /\ drawn[i][t] = 0 /\ returned[i][t] = gained[i][t]
             /\ Owed(i, t) = 0
        /\ paid[i][t] = OutsOf(i, t)
  <2> TAKE i \in Fills, t \in Tokens
  <2>1. RowOK(i, t) /\ i \in delivered
    BY <1>1, <1>2 DEF Rows, Complete
  <2>2. /\ t \in DOMAIN Slice[i].owed => Owed(i, t) <= credit[i][t]
        /\ t \notin DOMAIN Slice[i].owed => Owed(i, t) = 0
    BY <1>1, <1>2, <1>3, <1>4, PlanFacts DEF Funded, TypeOK
  <2> QED
    BY <2>1, <2>2 DEF RowOK
<1>6. \A i \in Fills, t \in Tokens : drawn[i][t] + gained[i][t] - (returned[i][t] + Refund(i, t)) = Owed(i, t)
  BY <1>3, <1>4, <1>5 DEF Refund, Monus
<1>7. \A t \in Tokens : Refunds(t) \in Int
  <2> TAKE t \in Tokens
  <2>1. [i \in Fills |-> Refund(i, t)] \in [Fills -> Int]
    BY <1>4
  <2> QED
    BY <1>3, <2>1, TotalType DEF Refunds
<1>8. TypeOK'
  <2>1. pool' \in [Tokens -> Int]
    BY <1>2, BalancesAssumption DEF Amounts
  <2>2. purse' \in [Tokens -> Int]
    BY <1>1, <1>2, <1>7, BalancesAssumption DEF Amounts, TypeOK
  <2>3. returned' \in [Fills -> [Tokens -> Int]]
    BY <1>2, <1>4
  <2> QED
    BY <1>1, <1>2, <2>1, <2>2, <2>3, SamePlan DEF TypeOK
<1>9. NeverOver'
  BY <1>1, <1>2, SamePlan DEF NeverOver
<1>10. MakersWhole'
  BY <1>2, <1>6, <1>9, SamePlan DEF MakersWhole, NeverOver
<1>11. MatcherEarnsSpread'
  <2> SUFFICES ASSUME NEW t \in Tokens
               PROVE  purse'[t] = Purse[t] - burnt[t]
                                  + SumFunction([i \in Fills |-> Owed(i, t) - OutsOf(i, t)])
    BY <1>2, SamePlan DEF MatcherEarnsSpread
  <2> DEFINE held == [i \in Fills |-> Held(i, t)]
             spread == [i \in Fills |-> Owed(i, t) - OutsOf(i, t)]
             refund == [i \in Fills |-> Refund(i, t)]
  <2>1. held \in [Fills -> Int] /\ spread \in [Fills -> Int] /\ refund \in [Fills -> Int]
    BY <1>3, <1>4 DEF Held
  <2>2. \A i \in Fills : held[i] = spread[i] + refund[i]
    <3> TAKE i \in Fills
    <3>1. drawn[i][t] + gained[i][t] - (returned[i][t] + Refund(i, t)) = Owed(i, t)
      BY <1>6
    <3>2. paid[i][t] = OutsOf(i, t)
      BY <1>5
    <3>3. Owed(i, t) \in Int /\ OutsOf(i, t) \in Int
      BY <1>3
    <3> QED
      BY <1>4, <3>1, <3>2, <3>3 DEF Held
  <2>3. /\ pool[t] + purse[t] + burnt[t] = Donated[t] + Purse[t] + SumFunction(held)
        /\ purse'[t] = purse[t] + pool[t] - SumFunction(refund) - Donated[t]
    BY <1>1, <1>2 DEF Conserved, Refunds
  <2>4. SumFunction(held) = SumFunction(spread) + SumFunction(refund)
    <3> HIDE DEF held, spread, refund
    <3> QED
      BY <1>3, <2>1, <2>2, TotalPlus
  <2>5. SumFunction(spread) \in Int /\ SumFunction(refund) \in Int
    <3> HIDE DEF held, spread, refund
    <3> QED
      BY <1>3, <2>1, TotalType
  <2>6. pool[t] \in Int /\ purse[t] \in Int /\ burnt[t] \in Int /\ Donated[t] \in Int /\ Purse[t] \in Int
    BY <1>1, BalancesAssumption DEF TypeOK, Amounts
  <2> HIDE DEF held, refund
  <2> QED
    BY <2>3, <2>4, <2>5, <2>6
<1>12. OnlyTheGapIsDrawn'
  <2> SUFFICES ASSUME NEW i \in Fills, NEW t \in DOMAIN Slice[i].owed,
                      Slice[i].policy >= ORDERED, MakesYieldNone(i, t)
               PROVE  drawn[i][t] = Monus(Owed(i, t), gained[i][t])
    BY <1>2, SamePlan DEF OnlyTheGapIsDrawn, MakesYieldNone
  <2>1. t \in Tokens
    BY <1>1, PlanFacts DEF TypeOK
  <2>2. drawn[i][t] = 0 \/ drawn[i][t] = Monus(Owed(i, t), gained[i][t])
    BY <1>1 DEF Gaps
  <2>3. CASE drawn[i][t] = 0
    BY <1>3, <1>4, <1>5, <2>1, <2>3 DEF Monus
  <2> QED
    BY <2>2, <2>3
<1>13. AtomicGroups'
  <2> SUFFICES ASSUME NEW i \in Fills, Slice[i].policy >= ATOMIC
               PROVE  i \notin broken
    BY <1>2, SamePlan DEF AtomicGroups
  <2>1. PICK n \in 0..Len(Slice[i].items) :
          done[i] = 1..n /\ (i \in broken => n < Len(Slice[i].items))
    BY <1>1 DEF Groups
  <2>2. Len(Slice[i].items) \in Nat /\ done[i] = 1..Len(Slice[i].items)
    BY <1>1, <1>2, PlanFacts DEF Complete, Steps, TypeOK
  <2> QED
    BY <2>1, <2>2
<1> QED
  BY <1>2, <1>8, <1>9, <1>10, <1>11, <1>12, <1>13 DEF IInv, Settled

LEMMA RevertInv ==
    ASSUME IInv, match' = match, Revert
    PROVE  IInv'
<1>1. TypeOK /\ NeverOver
  BY DEF IInv
<1>2. pool' \in [Tokens -> Int] /\ purse' \in [Tokens -> Int] /\ allowance' \in [Makers -> [Tokens -> Int]]
  BY BalancesAssumption DEF Revert, Amounts
<1>3. TypeOK' /\ NeverOver'
  BY <1>1, <1>2, SamePlan DEF Revert, ghosts, TypeOK, NeverOver
<1> QED
  BY <1>3 DEF Revert, IInv, Settled

LEMMA NextInv == IInv /\ [Next]_vars => IInv'
<1> SUFFICES ASSUME IInv, [Next]_vars PROVE IInv'
  OBVIOUS
<1>1. CASE UNCHANGED vars
  <2>0. match' = match
    BY <1>1 DEF vars
  <2> USE <1>1, <2>0, SamePlan DEF vars
  <2>1. TypeOK => TypeOK'
    BY DEF TypeOK
  <2>2. (NeverOver => NeverOver') /\ (Rows => Rows') /\ (Gaps => Gaps') /\ (Groups => Groups')
    BY DEF NeverOver, Rows, RowOK, Gaps, Groups, MakesYieldNone, Sources
  <2>3. LedgerSums => LedgerSums'
    <3>1. \A i \in Fills, t \in Tokens : Due(i, t)' = Due(i, t)
      BY DEF Due, Refund
    <3> QED
      BY <3>1, LedgerSame
  <2>4. Conserved => Conserved'
    <3>1. \A i \in Fills, t \in Tokens : Held(i, t)' = Held(i, t)
      BY DEF Held
    <3>2. \A t \in Tokens : Books(t)' = Books(t)
      BY DEF Books
    <3> QED
      BY <3>1, <3>2, ConservedSame
  <2>5. Settled => Settled'
    <3>1. (MakersWhole => MakersWhole') /\ (OnlyTheGapIsDrawn => OnlyTheGapIsDrawn')
          /\ (AtomicGroups => AtomicGroups')
      BY DEF MakersWhole, OnlyTheGapIsDrawn, AtomicGroups
    <3>2. MatcherEarnsSpread => MatcherEarnsSpread'
      <4>1. \A t \in Tokens : [i \in Fills' |-> Owed(i, t)' - OutsOf(i, t)']
                               = [i \in Fills |-> Owed(i, t) - OutsOf(i, t)]
        OBVIOUS
      <4> QED
        BY <4>1 DEF MatcherEarnsSpread
    <3> QED
      BY <3>1, <3>2 DEF Settled
  <2> QED
    BY <2>1, <2>2, <2>3, <2>4, <2>5 DEF IInv
<1>2. CASE Next
  <2>0. match' = match /\ TypeOK
    BY <1>2 DEF Next, IInv
  <2>1. ASSUME NEW i \in Fills, NEW t \in Tokens, Pull(i, t) PROVE IInv'
    <3>1. t \in DOMAIN Slice[i].owed
      BY <2>1 DEF Pull
    <3> QED
      BY <2>0, <2>1, <3>1, PullInv
  <2>2. ASSUME NEW i \in Fills, Deliver(i) PROVE IInv'
    BY <2>0, <2>2, DeliverInv
  <2>3. ASSUME NEW i \in Fills, NEW k \in Steps(i), Item(i, k) PROVE IInv'
    BY <2>0, <2>3, ItemInv
  <2>4. ASSUME NEW t \in Tokens, Presend(t) PROVE IInv'
    BY <2>0, <2>4, PresendInv
  <2>5. ASSUME NEW t \in Tokens, NEW amt \in 1..Purse[t], Call(t, amt) PROVE IInv'
    BY <2>0, <2>5, CallInv
  <2>6. ASSUME Flush PROVE IInv'
    BY <2>0, <2>6, FlushInv
  <2>7. ASSUME Revert PROVE IInv'
    BY <2>0, <2>7, RevertInv
  <2> QED
    BY <1>2, <2>1, <2>2, <2>3, <2>4, <2>5, <2>6, <2>7 DEF Next
<1> QED
  BY <1>1, <1>2

LEMMA Invariance == Spec => []IInv
BY InitInv, NextInv, PTL DEF Spec

-----------------------------------------------------------------------------
(* A settled match costs every maker what its orders owe, and at no step   *)
(* is a leg drawn past it (Batch._stepPull, _creditItemProceeds,           *)
(* _matchFlush).                                                           *)
THEOREM MakersAreWhole == Spec => []MakersWhole
<1>1. IInv => MakersWhole
  <2> SUFFICES ASSUME IInv PROVE MakersWhole
    OBVIOUS
  <2>1. CASE phase = "settled"
    BY <2>1 DEF IInv, Settled
  <2>2. CASE phase # "settled"
    BY <2>2 DEF IInv, NeverOver, MakersWhole
  <2> QED
    BY <2>1, <2>2
<1> QED
  BY <1>1, Invariance, PTL

(* The matcher ends with what it brought and the spread the makers signed, *)
(* less what transfers burnt (_matchFlush, _sweepSurplus).                 *)
THEOREM OnlyTheSpread == Spec => []MatcherEarnsSpread
<1>1. IInv => MatcherEarnsSpread
  BY DEF IInv, Settled, MatcherEarnsSpread
<1> QED
  BY <1>1, Invariance, PTL

(* Under ORDERED and above, a wallet funds only what the order's own       *)
(* sources did not (ItemPolicy).                                           *)
THEOREM OnlyTheGap == Spec => []OnlyTheGapIsDrawn
<1>1. IInv => OnlyTheGapIsDrawn
  BY DEF IInv, Settled, OnlyTheGapIsDrawn
<1> QED
  BY <1>1, Invariance, PTL

(* No step of another order falls inside the items of an ATOMIC one that   *)
(* settles (_stepItem).                                                    *)
THEOREM GroupsStayWhole == Spec => []AtomicGroups
<1>1. IInv => AtomicGroups
  BY DEF IInv, Settled, AtomicGroups
<1> QED
  BY <1>1, Invariance, PTL

(* The obligation recomputed from the ghosts is the running ledger.        *)
LEMMA ObligationIsOutstanding ==
    ASSUME IInv, phase = "schedule", NEW t \in Tokens
    PROVE  Obligation(t) = outstanding[t]
<1>1. TypeOK /\ Rows /\ LedgerSums
  BY DEF IInv
<1>2. ASSUME NEW i \in Fills
      PROVE  OutsOf(i, t) - paid[i][t] + Monus(drawn[i][t] + gained[i][t] - returned[i][t], Owed(i, t)) = Due(i, t)
  <2>1. RowOK(i, t) /\ credit[i][t] \in Int /\ drawn[i][t] \in Int /\ gained[i][t] \in Int
        /\ returned[i][t] \in Int
    BY <1>1 DEF TypeOK, Rows
  <2>2. drawn[i][t] + gained[i][t] - returned[i][t] = credit[i][t]
    <3>1. CASE t \in DOMAIN Slice[i].owed
      BY <2>1, <3>1 DEF RowOK
    <3>2. CASE t \notin DOMAIN Slice[i].owed
      BY <2>1, <3>2 DEF RowOK
    <3> QED
      BY <3>1, <3>2
  <2> QED
    BY <2>2 DEF Due, Refund
<1>3. [i \in Fills |-> OutsOf(i, t) - paid[i][t]
                       + Monus(drawn[i][t] + gained[i][t] - returned[i][t], Owed(i, t))]
      = [i \in Fills |-> Due(i, t)]
  BY <1>2
<1> QED
  BY <1>1, <1>3 DEF Obligation, LedgerSums

(* A PRESEND leaves in the pool what it still has to pay out               *)
(* (_stepPresend, st.outstanding).                                         *)
THEOREM PresendSparesObligations == Spec => PresendKeepsObligations
<1>1. ASSUME IInv, NEW t \in Tokens, Presend(t), pool'[t] # pool[t]
      PROVE  pool'[t] >= Donated[t] + Obligation(t)
  <2>1. pool[t] \in Int /\ outstanding[t] \in Int /\ Donated[t] \in Int
    BY <1>1, BalancesAssumption DEF IInv, TypeOK, Amounts
  <2>2. pool'[t] = pool[t] - Monus(pool[t] - Donated[t], outstanding[t])
    BY <1>1 DEF Presend, IInv, TypeOK
  <2>3. Obligation(t) = outstanding[t]
    BY <1>1, ObligationIsOutstanding DEF Presend
  <2> QED
    BY <1>1, <2>1, <2>2, <2>3 DEF Monus
<1>2. IInv /\ [Next]_vars =>
        [\A t \in Tokens : Presend(t) /\ pool'[t] # pool[t] => pool'[t] >= Donated[t] + Obligation(t)]_vars
  BY <1>1
<1> QED
  BY <1>2, Invariance, PTL DEF Spec, PresendKeepsObligations
=============================================================================

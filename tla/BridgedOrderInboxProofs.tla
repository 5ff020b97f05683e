---------------------- MODULE BridgedOrderInboxProofs ----------------------
(***************************************************************************)
(* Theorems about BridgedOrderInbox, for every set of tokens, orders,      *)
(* beneficiaries, commitments and sources, and any number of deliveries.   *)
(***************************************************************************)
EXTENDS BridgedOrderInbox, SumProofs

-----------------------------------------------------------------------------
(* Types                                                                   *)

LEMMA RowType ==
    ASSUME NEW o \in Orders, NEW b \in Beneficiaries, NEW t \in Tokens
    PROVE  /\ Row(o, b, t) \in Rows
           /\ Row(o, b, t).order = o
           /\ Row(o, b, t).token = t
BY DEF Row, Rows

LEMMA TermsType ==
    ASSUME NEW o \in Orders
    PROVE  /\ Terms[o].anchor \in Nat /\ 0 < Terms[o].anchor /\ Terms[o].anchor < MaxUint
           /\ Terms[o].token \in Tokens /\ Terms[o].expiry \in Nat /\ MaxUint \in Nat
BY TermsAssumption, BoundsAssumption

(* A record of storage with some of its fields replaced.                   *)
LEMMA CommitType ==
    ASSUME NEW k \in Commit, NEW n \in Nat, NEW e \in Nat, NEW f \in Nat, NEW a \in BOOLEAN
    PROVE  /\ [k EXCEPT !.credited = n, !.expiry = e] \in Commit
           /\ [k EXCEPT !.approved = a, !.deadline = n] \in Commit
           /\ [k EXCEPT !.spentAccounted = n] \in Commit
           /\ [k EXCEPT !.spentAccounted = n, !.refunded = f, !.approved = a] \in Commit
BY DEF Commit

(* _credit keeps the types, whatever commitment arrives.                   *)
LEMMA CreditType ==
    ASSUME TypeOK, NEW c \in Commitments, NEW t \in Tokens, NEW amount \in Nat,
           Credit(c, t, amount)
    PROVE  commits' \in [Rows -> Commit] /\ liability' \in [Tokens -> Nat]
<1> DEFINE r == Row(c.order, c.beneficiary, t)
<1>1. r \in Rows /\ c.expiry \in Nat
  BY RowType, BoundsAssumption
<1>2. liability' \in [Tokens -> Nat]
  BY DEF Credit, TypeOK
<1>3. CASE amount = 0
  BY <1>2, <1>3 DEF Credit, TypeOK
<1>4. CASE amount # 0
  <2> DEFINE e == IF c.expiry > commits[r].expiry THEN c.expiry ELSE commits[r].expiry
             new == [commits[r] EXCEPT !.credited = @ + amount, !.expiry = e]
  <2>1. commits' = [commits EXCEPT ![r] = new]
    BY <1>4 DEF Credit
  <2>2. commits[r] \in Commit /\ commits[r].credited + amount \in Nat /\ e \in Nat
    BY <1>1 DEF TypeOK, Commit
  <2>3. new \in Commit
    <3> HIDE DEF e
    <3> QED BY <2>2, CommitType
  <2> HIDE DEF new, r
  <2> QED BY <1>1, <1>2, <2>1, <2>3 DEF TypeOK
<1> QED BY <1>3, <1>4

(* What the rows' arithmetic yields, once its guards hold.                 *)
LEMMA SpentType ==
    ASSUME TypeOK, NEW r \in Rows
    PROVE  /\ Spent(r) \in Nat /\ Unsynced(r) \in Int /\ Refund(r) \in Int
           /\ r.order \in Orders /\ r.token \in Tokens /\ commits[r] \in Commit
<1>1. r.order \in Orders /\ r.token \in Tokens
  BY DEF Rows
<1>2. commits[r] \in Commit /\ filled[r.order] \in Nat
  BY <1>1 DEF TypeOK
<1>3. /\ commits[r].credited \in Nat /\ commits[r].spentAccounted \in Nat
      /\ commits[r].refunded \in Nat
  BY <1>2 DEF Commit
<1>4. Spent(r) \in Nat
  BY <1>2, <1>3 DEF Spent, Least
<1> QED BY <1>1, <1>2, <1>3, <1>4 DEF Unsynced, Refund

LEMMA SettleRowType ==
    ASSUME TypeOK, NEW r \in Rows, SettleRow(r)
    PROVE  /\ commits' \in [Rows -> Commit]
           /\ liability' \in [Tokens -> Nat] /\ balance' \in [Tokens -> Nat]
           /\ activeRow' \in [Orders -> Rows \cup {None}]
           /\ filled' \in [Orders -> Nat] /\ orderApproved' \subseteq Orders
<1>1. /\ Spent(r) \in Nat /\ Unsynced(r) \in Int /\ Refund(r) \in Int
      /\ r.order \in Orders /\ r.token \in Tokens /\ commits[r] \in Commit
  BY SpentType
<1>2. /\ Unsynced(r) >= 0 /\ Refund(r) >= 0
      /\ liability[r.token] >= Unsynced(r) + Refund(r) /\ balance[r.token] >= Refund(r)
  BY DEF SettleRow, SettleFits
<1> DEFINE new == [commits[r] EXCEPT !.spentAccounted = Spent(r),
                                     !.refunded = @ + Refund(r), !.approved = FALSE]
<1>3. new \in Commit
  <2>1. commits[r].refunded + Refund(r) \in Nat
    BY <1>1, <1>2 DEF Commit
  <2> QED BY <1>1, <2>1, CommitType
<1>4. commits' = [commits EXCEPT ![r] = new]
  BY DEF SettleRow
<1>5. liability' \in [Tokens -> Nat] /\ balance' \in [Tokens -> Nat]
  BY <1>1, <1>2 DEF SettleRow, TypeOK
<1>6. activeRow' \in [Orders -> Rows \cup {None}]
  BY <1>1 DEF SettleRow, TypeOK
<1>7. filled' \in [Orders -> Nat] /\ orderApproved' \subseteq Orders
  BY <1>1, TermsType DEF SettleRow, RevokeOrderApproval, TypeOK
<1> HIDE DEF new
<1> QED BY <1>3, <1>4, <1>5, <1>6, <1>7 DEF TypeOK

-----------------------------------------------------------------------------
(* The types and the absence of underflow: no subtraction of the contract  *)
(* that goes through leaves a counter below zero.                          *)
THEOREM TypeCorrect == Spec => []TypeOK
<1>1. Init => TypeOK
  BY NoneAssumption DEF Init, TypeOK, NewCommit, NoRescue, Commit, Rows
<1>2. TypeOK /\ [Next]_vars => TypeOK'
  <2> SUFFICES ASSUME TypeOK, [Next]_vars PROVE TypeOK'
    OBVIOUS
  <2> USE BoundsAssumption
  <2>1. CASE Owner
    <3>1. ASSUME NEW t \in Tokens, NEW amount \in Nat,
                 \/ EnableToken(t) \/ CancelStrayRescue(t) \/ QueueStrayRescue(t, amount)
          PROVE  TypeOK'
      BY <3>1 DEF EnableToken, CancelStrayRescue, QueueStrayRescue, NoRescue, TypeOK,
                  rowVars, ownerVars, settlementVars
    <3>2. ASSUME NEW t \in Tokens, ExecuteStrayRescue(t) PROVE TypeOK'
      <4>1. StrayBalance(t) \in Nat /\ StrayBalance(t) <= balance[t]
        BY DEF StrayBalance, Loose, Monus, TypeOK
      <4>2. balance' \in [Tokens -> Nat] /\ strayRescue' \in [Tokens -> [eta : Nat, amount : Nat]]
        BY <3>2, <4>1 DEF ExecuteStrayRescue, Least, NoRescue, TypeOK
      <4> QED BY <3>2, <4>2 DEF ExecuteStrayRescue, TypeOK, rowVars, settlementVars
    <3>3. ASSUME NEW t \in Tokens, NEW amount \in Nat, Rescue(t, amount) PROVE TypeOK'
      <4>1. Loose(t) \in Nat /\ Loose(t) <= balance[t]
        BY DEF Loose, Monus, TypeOK
      <4>2. balance' \in [Tokens -> Nat] /\ orphaned' \in [Tokens -> Nat]
        BY <3>3, <4>1 DEF Rescue, Least, TypeOK
      <4> QED BY <3>3, <4>2 DEF Rescue, TypeOK, rowVars, ownerVars, settlementVars
    <3>4. ASSUME NEW s \in Sources, QueueComposeSource(s) \/ RemoveComposeSource(s)
          PROVE  TypeOK'
      <4>0. now + Delay \in Nat
        BY DEF TypeOK
      <4>1. pending' \in [Sources -> Nat] /\ cleared' \in [Sources -> Nat]
        <5>1. CASE QueueComposeSource(s)
          BY <4>0, <5>1 DEF QueueComposeSource, TypeOK
        <5>2. CASE RemoveComposeSource(s)
          BY <5>2 DEF RemoveComposeSource, TypeOK
        <5> QED BY <3>4, <5>1, <5>2
      <4>2. live' \subseteq Sources
        BY <3>4 DEF QueueComposeSource, RemoveComposeSource, TypeOK
      <4> QED BY <3>4, <4>1, <4>2 DEF QueueComposeSource, RemoveComposeSource, TypeOK,
                                      rowVars, settlementVars
    <3> QED BY <2>1, <3>1, <3>2, <3>3, <3>4 DEF Owner
  <2>2. CASE Bridges
    <3>1. ASSUME NEW t \in Tokens, NEW amount \in Nat, Donate(t, amount) PROVE TypeOK'
      BY <3>1 DEF Donate, Arrive, TypeOK, rowVars, ownerVars, settlementVars
    <3>2. ASSUME NEW t \in Tokens, NEW amount \in Nat, NEW c \in Commitments,
                 HandleV3AcrossMessage(t, amount, c)
          PROVE  TypeOK'
      <4>1. commits' \in [Rows -> Commit] /\ liability' \in [Tokens -> Nat]
        BY <3>2, CreditType DEF HandleV3AcrossMessage
      <4>2. balance' \in [Tokens -> Nat] /\ arrivals' \in Nat
        BY <3>2 DEF HandleV3AcrossMessage, Arrive, TypeOK
      <4> QED BY <3>2, <4>1, <4>2 DEF HandleV3AcrossMessage, TypeOK, ownerVars, settlementVars
    <3>3. ASSUME NEW s \in Sources, NEW amount \in Nat,
                 NEW note \in Commitments \cup {Garbled, Headless}, LzReceive(s, amount, note)
          PROVE  TypeOK'
      <4>1. flight' \subseteq Messages
        BY <3>3 DEF LzReceive, Messages, TypeOK
      <4> QED BY <3>3, <4>1 DEF LzReceive, Arrive, TypeOK, rowVars, ownerVars, settlementVars
    <3>4. ASSUME NEW m2 \in flight, LzCompose(m2) PROVE TypeOK'
      <4>1. Delivers[m2.source] \in Tokens /\ m2.amount \in Nat
        BY DEF TypeOK, Messages
      <4>2. commits' \in [Rows -> Commit] /\ liability' \in [Tokens -> Nat]
        BY <3>4, <4>1, CreditType DEF LzCompose, TypeOK
      <4>3. orphaned' \in [Tokens -> Nat]
        BY <3>4, <4>1 DEF LzCompose, TypeOK
      <4> QED BY <3>4, <4>2, <4>3 DEF LzCompose, TypeOK, ownerVars, settlementVars
    <3> QED BY <2>2, <3>1, <3>2, <3>3, <3>4 DEF Bridges
  <2>3. CASE Anyone
    <3>1. ASSUME NEW s \in Sources, ApplyComposeSource(s) PROVE TypeOK'
      BY <3>1 DEF ApplyComposeSource, TypeOK, rowVars, settlementVars
    <3>2. ASSUME NEW o \in Orders, Sync(o) PROVE TypeOK'
      <4> DEFINE r == activeRow[o]
                 new == [commits[r] EXCEPT !.spentAccounted = Spent(r)]
      <4>1. r \in Rows
        BY <3>2 DEF Sync, TypeOK
      <4>2. /\ Spent(r) \in Nat /\ Unsynced(r) \in Int /\ r.token \in Tokens
            /\ commits[r] \in Commit
        BY <4>1, SpentType
      <4>3. new \in Commit
        BY <4>2, CommitType
      <4>4. commits' = [commits EXCEPT ![r] = new]
        BY <3>2 DEF Sync
      <4>5. liability' \in [Tokens -> Nat]
        BY <3>2, <4>2 DEF Sync, SyncFits, TypeOK
      <4> HIDE DEF new, r
      <4>6. commits' \in [Rows -> Commit]
        BY <4>1, <4>3, <4>4 DEF TypeOK
      <4> QED BY <3>2, <4>5, <4>6 DEF Sync, TypeOK, ownerVars, settlementVars
    <3>3. ASSUME NEW o \in Orders, NEW b \in Beneficiaries, Activate(o, b) PROVE TypeOK'
      <4> DEFINE r == Row(o, b, Terms[o].token)
                 new == [commits[r] EXCEPT !.approved = TRUE, !.deadline = Terms[o].expiry]
      <4>1. r \in Rows /\ Terms[o].expiry \in Nat
        BY RowType, TermsType
      <4>2. new \in Commit
        BY <4>1, CommitType DEF TypeOK
      <4>3. commits' = [commits EXCEPT ![r] = new] /\ activeRow' = [activeRow EXCEPT ![o] = r]
        BY <3>3 DEF Activate
      <4> HIDE DEF new, r
      <4>4. commits' \in [Rows -> Commit] /\ activeRow' \in [Orders -> Rows \cup {None}]
        BY <4>1, <4>2, <4>3 DEF TypeOK
      <4> QED BY <3>3, <4>4 DEF Activate, TypeOK, ownerVars
    <3>4. ASSUME NEW o \in Orders, NEW amount \in Nat, Fill(o, amount) PROVE TypeOK'
      <4>1. Terms[o].token \in Tokens
        BY TermsType
      <4>2. balance' \in [Tokens -> Nat] /\ filled' \in [Orders -> Nat]
        BY <3>4, <4>1 DEF Fill, TypeOK
      <4>3. drawn' \in [Rows -> Nat]
        BY <3>4 DEF Fill, TypeOK
      <4> QED BY <3>4, <4>2, <4>3 DEF Fill, TypeOK, rowVars, ownerVars
    <3>5. ASSUME NEW r \in Rows, Settle(r) \/ SettleExpired(r) PROVE TypeOK'
      <4>1. SettleRow(r)
        BY <3>5 DEF Settle, SettleExpired
      <4> QED BY <3>5, <4>1, SettleRowType DEF Settle, SettleExpired, TypeOK, ownerVars
    <3> QED BY <2>3, <3>1, <3>2, <3>3, <3>4, <3>5 DEF Anyone
  <2>4. CASE Tick
    BY <2>4 DEF Tick, TypeOK, rowVars, ownerVars, settlementVars
  <2>5. CASE UNCHANGED vars
    BY <2>5 DEF vars, TypeOK
  <2> QED BY <2>1, <2>2, <2>3, <2>4, <2>5 DEF Next
<1> QED BY <1>1, <1>2, PTL DEF Spec

-----------------------------------------------------------------------------
(* The inductive invariant                                                 *)

(* An order's active row is its own, approved, and holds what fills may    *)
(* still take; an order without one is closed at Settlement.               *)
Backs(r, o) ==
    /\ r \in Rows /\ r.order = o /\ r.token = Terms[o].token
    /\ Terms[o].shape
    /\ commits[r].approved
    /\ commits[r].deadline = Terms[o].expiry
    /\ commits[r].credited - commits[r].refunded >= Terms[o].anchor
    /\ filled[o] <= Terms[o].anchor
    /\ drawn[r] = filled[o]
    /\ commits[r].spentAccounted <= drawn[r]

OrderSound(o) ==
    /\ activeRow[o] = None => o \notin orderApproved /\ filled[o] \in {0, MaxUint}
    /\ activeRow[o] # None => o \in orderApproved /\ Backs(activeRow[o], o)

(* A row approved is its order's active one; any other is fully synced.    *)
RowSound(r) ==
    IF commits[r].approved
    THEN activeRow[r.order] = r
    ELSE /\ commits[r].spentAccounted = drawn[r]
         /\ drawn[r] + commits[r].refunded <= commits[r].credited

(* The sentinel is parked only when no activation can follow, and an order *)
(* never filled drew from nobody.                                          *)
SentinelIsLate(o) == filled[o] = MaxUint => now >= Terms[o].expiry

Undrawn(r) == filled[r.order] = 0 => drawn[r] = 0

Inv ==
    /\ \A o \in Orders : OrderSound(o) /\ SentinelIsLate(o)
    /\ \A r \in Rows : RowSound(r) /\ Undrawn(r)

(* What fills read and write is left alone.                                *)
Still == UNCHANGED <<commits, activeRow, filled, orderApproved, drawn, now>>

LEMMA StillKeepsInv == Inv /\ Still => Inv'
BY DEF Inv, Still, OrderSound, Backs, RowSound, SentinelIsLate, Undrawn

(* A credit only adds to one row.                                          *)
LEMMA CreditKeepsInv ==
    ASSUME TypeOK, Inv, NEW c \in Commitments, NEW t \in Tokens, NEW amount \in Nat,
           Credit(c, t, amount), UNCHANGED <<activeRow, filled, orderApproved, drawn, now>>
    PROVE  Inv'
<1>1. CASE amount = 0
  BY <1>1, StillKeepsInv DEF Credit, Still
<1>2. CASE amount # 0
  <2> DEFINE row == Row(c.order, c.beneficiary, t)
  <2>1. row \in Rows
    BY RowType, BoundsAssumption
  <2>2. \A r \in Rows :
          /\ commits'[r].approved = commits[r].approved
          /\ commits'[r].deadline = commits[r].deadline
          /\ commits'[r].refunded = commits[r].refunded
          /\ commits'[r].spentAccounted = commits[r].spentAccounted
          /\ commits'[r].credited >= commits[r].credited
          /\ commits[r].credited \in Nat /\ commits'[r].credited \in Nat
          /\ commits[r].refunded \in Nat /\ drawn[r] \in Nat
    BY <1>2, <2>1 DEF Credit, TypeOK, Commit
  <2>3. ASSUME NEW o \in Orders PROVE OrderSound(o)'
    BY <2>2, TermsType DEF Inv, OrderSound, Backs
  <2>4. ASSUME NEW r \in Rows PROVE RowSound(r)'
    BY <2>2 DEF Inv, RowSound
  <2> QED BY <2>3, <2>4 DEF Inv, SentinelIsLate, Undrawn
<1> QED BY <1>1, <1>2

(* An activation: the row was idle and its order closed, so nothing of the *)
(* order was ever filled; or the row was already active.                   *)
LEMMA ActivateKeepsInv ==
    ASSUME TypeOK, Inv, NEW o \in Orders, NEW b \in Beneficiaries, Activate(o, b)
    PROVE  Inv'
<1> DEFINE row == Row(o, b, Terms[o].token)
<1>1. row \in Rows /\ row.order = o /\ row.token = Terms[o].token
  BY RowType, TermsType
<1>2. /\ commits' = [commits EXCEPT ![row].approved = TRUE, ![row].deadline = Terms[o].expiry]
      /\ activeRow' = [activeRow EXCEPT ![o] = row]
      /\ orderApproved' = orderApproved \cup {o}
      /\ UNCHANGED <<filled, drawn, now>>
      /\ Terms[o].shape /\ Terms[o].expiry > now
      /\ activeRow[o] \in {None, row}
      /\ commits[row].credited - commits[row].refunded >= Terms[o].anchor
  BY DEF Activate
<1> HIDE DEF row
<1>3. /\ commits'[row].approved /\ commits'[row].deadline = Terms[o].expiry
      /\ \A r \in Rows : r # row => commits'[r] = commits[r]
      /\ \A r \in Rows :
           /\ commits'[r].credited = commits[r].credited
           /\ commits'[r].refunded = commits[r].refunded
           /\ commits'[r].spentAccounted = commits[r].spentAccounted
           /\ commits[r].credited \in Nat /\ commits[r].refunded \in Nat
           /\ commits[r].spentAccounted \in Nat /\ drawn[r] \in Nat
  BY <1>1, <1>2 DEF TypeOK, Commit
<1>4. activeRow'[o] = row /\ \A p \in Orders : p # o => activeRow'[p] = activeRow[p]
  BY <1>2 DEF TypeOK
<1>5. row # None
  BY <1>1, NoneAssumption
<1>6. filled[o] # MaxUint
  BY <1>2, TermsType DEF Inv, SentinelIsLate, TypeOK
<1>7. /\ filled[o] <= Terms[o].anchor
      /\ drawn[row] = filled[o] /\ commits[row].spentAccounted <= drawn[row]
  <2>1. CASE activeRow[o] = row
    BY <1>5, <2>1 DEF Inv, OrderSound, Backs
  <2>2. CASE activeRow[o] = None
    <3>1. filled[o] = 0
      BY <1>6, <2>2 DEF Inv, OrderSound, Backs
    <3>2. drawn[row] = 0
      BY <1>1, <3>1 DEF Inv, Undrawn
    <3>3. CASE commits[row].approved
      BY <1>1, <1>5, <2>2, <3>3 DEF Inv, RowSound
    <3>4. CASE ~commits[row].approved
      BY <1>1, <1>3, <3>1, <3>2, <3>4, TermsType DEF Inv, RowSound
    <3> QED BY <3>3, <3>4
  <2> QED BY <1>2, <2>1, <2>2
<1>8. ASSUME NEW p \in Orders PROVE OrderSound(p)'
  <2>1. CASE p = o
    <3>1. commits'[row].credited - commits'[row].refunded >= Terms[o].anchor
      BY <1>1, <1>2, <1>3
    <3>2. activeRow'[o] = row /\ row # None /\ o \in orderApproved'
      BY <1>2, <1>4, <1>5
    <3>3. /\ filled'[o] <= Terms[o].anchor /\ drawn'[row] = filled'[o]
          /\ commits'[row].spentAccounted <= drawn'[row]
      BY <1>1, <1>2, <1>3, <1>7
    <3> QED BY <1>1, <1>2, <1>3, <2>1, <3>1, <3>2, <3>3 DEF OrderSound, Backs
  <2>2. CASE p # o
    <3>0. OrderSound(p) /\ activeRow'[p] = activeRow[p]
      BY <1>4, <2>2 DEF Inv
    <3>1. CASE activeRow[p] = None
      BY <1>2, <2>2, <3>0, <3>1 DEF OrderSound, Backs
    <3>2. CASE activeRow[p] # None
      <4>1. activeRow[p] \in Rows /\ activeRow[p] # row
        BY <1>1, <2>2, <3>0, <3>2 DEF OrderSound, Backs
      <4>2. commits'[activeRow[p]] = commits[activeRow[p]]
        BY <1>3, <4>1
      <4> QED BY <1>2, <2>2, <3>0, <3>2, <4>1, <4>2 DEF OrderSound, Backs
    <3> QED BY <3>1, <3>2
  <2> QED BY <2>1, <2>2
<1>9. ASSUME NEW r \in Rows PROVE RowSound(r)'
  <2>1. CASE r = row
    BY <1>1, <1>3, <1>4, <2>1 DEF RowSound
  <2>2. CASE r # row
    <3>1. CASE commits[r].approved
      <4>1. activeRow[r.order] = r
        BY <3>1 DEF Inv, RowSound
      <4>2. r.order # o
        BY <1>2, <2>2, <4>1, NoneAssumption
      <4> QED BY <1>3, <1>4, <2>2, <3>1, <4>1, <4>2 DEF RowSound, Rows
    <3>2. CASE ~commits[r].approved
      BY <1>2, <1>3, <2>2, <3>2 DEF Inv, RowSound
    <3> QED BY <3>1, <3>2
  <2> QED BY <2>1, <2>2
<1> QED BY <1>2, <1>8, <1>9 DEF Inv, SentinelIsLate, Undrawn

(* A fill: the order has an active row, which pays for it.                 *)
LEMMA FillKeepsInv ==
    ASSUME TypeOK, Inv, NEW o \in Orders, NEW amount \in Nat, Fill(o, amount)
    PROVE  Inv'
<1> DEFINE row == activeRow[o]
<1>1. /\ o \in orderApproved \/ filled[o] # 0
      /\ filled[o] < Terms[o].anchor /\ filled[o] + amount <= Terms[o].anchor
      /\ filled' = [filled EXCEPT ![o] = @ + amount]
      /\ amount > 0
      /\ UNCHANGED <<commits, activeRow, orderApproved, now>>
  BY DEF Fill, Fillable, rowVars
<1>2. filled[o] \in Nat
  BY DEF TypeOK
<1>3. row # None
  BY <1>1, <1>2, TermsType DEF Inv, OrderSound, Backs
<1>4. row \in Rows /\ row.order = o /\ drawn[row] = filled[o] /\ commits[row].approved
      /\ commits[row].spentAccounted <= drawn[row]
  BY <1>3 DEF Inv, OrderSound, Backs
<1>5. drawn' = [drawn EXCEPT ![row] = @ + amount]
  BY <1>3 DEF Fill
<1> HIDE DEF row
<1>6. /\ drawn'[row] = drawn[row] + amount /\ drawn[row] \in Nat
      /\ \A r \in Rows : r # row => drawn'[r] = drawn[r]
  BY <1>4, <1>5 DEF TypeOK
<1>7. /\ filled'[o] = filled[o] + amount
      /\ \A p \in Orders : p # o => filled'[p] = filled[p]
  BY <1>1 DEF TypeOK
<1>8. ASSUME NEW p \in Orders PROVE OrderSound(p)' /\ SentinelIsLate(p)'
  <2>1. CASE p = o
    <3>1. commits[row].spentAccounted \in Nat
      BY <1>4 DEF TypeOK, Commit
    <3>2. OrderSound(o)'
      <4>1. commits[row].spentAccounted <= drawn'[row] /\ drawn'[row] = filled'[o]
            /\ filled'[o] <= Terms[o].anchor
        BY <1>1, <1>2, <1>4, <1>6, <1>7, <3>1
      <4> QED BY <1>1, <1>3, <1>4, <4>1 DEF Inv, OrderSound, Backs, row
    <3> QED BY <1>1, <1>2, <1>7, <2>1, <3>2, TermsType DEF SentinelIsLate
  <2>2. CASE p # o
    <3>1. activeRow[p] # None => activeRow[p] # row
      BY <1>4, <2>2 DEF Inv, OrderSound, Backs
    <3> QED BY <1>1, <1>6, <1>7, <2>2, <3>1 DEF Inv, OrderSound, Backs, SentinelIsLate
  <2> QED BY <2>1, <2>2
<1>9. ASSUME NEW r \in Rows PROVE RowSound(r)' /\ Undrawn(r)'
  <2>1. CASE r = row
    BY <1>1, <1>2, <1>4, <1>7, <2>1 DEF Inv, RowSound, Undrawn
  <2>2. CASE r # row
    BY <1>1, <1>2, <1>6, <1>7, <2>2 DEF Inv, RowSound, Undrawn, Rows
  <2> QED BY <2>1, <2>2
<1> QED BY <1>8, <1>9 DEF Inv

(* What _sync reads: of an active row exactly what was drawn, since        *)
(* `filled` is no sentinel and below the anchor; of any other, the same.   *)
LEMMA SpentIsDrawn ==
    ASSUME TypeOK, Inv, NEW r \in Rows
    PROVE  Spent(r) = drawn[r] /\ Refund(r) = Held(r) /\ Unsynced(r) >= 0 /\ Refund(r) >= 0
<1>0. /\ commits[r].credited \in Nat /\ commits[r].refunded \in Nat /\ drawn[r] \in Nat
      /\ commits[r].spentAccounted \in Nat /\ r.order \in Orders /\ filled[r.order] \in Nat
  BY DEF TypeOK, Commit, Rows
<1>1. CASE commits[r].approved
  <2>1. activeRow[r.order] = r
    BY <1>1 DEF Inv, RowSound
  <2>2. /\ commits[r].credited - commits[r].refunded >= Terms[r.order].anchor
        /\ filled[r.order] <= Terms[r.order].anchor /\ drawn[r] = filled[r.order]
        /\ commits[r].spentAccounted <= drawn[r]
    BY <1>0, <2>1, NoneAssumption DEF Inv, OrderSound, Backs
  <2>3. Terms[r.order].anchor \in Nat
    BY <1>0, TermsType
  <2>4. Spent(r) = filled[r.order]
    BY <1>0, <1>1, <2>2, <2>3 DEF Spent, Least
  <2> QED BY <1>0, <2>2, <2>3, <2>4 DEF Refund, Unsynced, Held
<1>2. CASE ~commits[r].approved
  BY <1>0, <1>2 DEF Inv, RowSound, Spent, Refund, Unsynced, Held
<1> QED BY <1>1, <1>2

LEMMA SyncKeepsInv ==
    ASSUME TypeOK, Inv, NEW o \in Orders, Sync(o)
    PROVE  Inv'
<1> DEFINE row == activeRow[o]
<1>1. /\ row \in Rows
      /\ commits' = [commits EXCEPT ![row].spentAccounted = Spent(row)]
      /\ UNCHANGED <<activeRow, filled, orderApproved, drawn, now>>
  BY DEF Sync, TypeOK, settlementVars
<1> HIDE DEF row
<1>2. Spent(row) = drawn[row] /\ drawn[row] \in Nat
  BY <1>1, SpentIsDrawn DEF TypeOK
<1>3. \A r \in Rows :
        /\ commits'[r].approved = commits[r].approved
        /\ commits'[r].deadline = commits[r].deadline
        /\ commits'[r].refunded = commits[r].refunded
        /\ commits'[r].credited = commits[r].credited
        /\ commits'[r].spentAccounted = IF r = row THEN drawn[r] ELSE commits[r].spentAccounted
  BY <1>1, <1>2 DEF TypeOK, Commit
<1>4. ASSUME NEW p \in Orders PROVE OrderSound(p)'
  <2>1. \A r \in Rows : drawn[r] \in Nat
    BY DEF TypeOK
  <2> QED BY <1>1, <1>3, <2>1 DEF Inv, OrderSound, Backs
<1>5. ASSUME NEW r \in Rows PROVE RowSound(r)'
  BY <1>1, <1>3 DEF Inv, RowSound
<1> QED BY <1>1, <1>4, <1>5 DEF Inv, SentinelIsLate, Undrawn

(* A refund: the row ends idle and synced; if it was active, its gate says *)
(* that the order's deadline has come.                                     *)
LEMMA SettleKeepsInv ==
    ASSUME TypeOK, Inv, NEW row \in Rows, SettleRow(row), UNCHANGED <<drawn, now>>,
           commits[row].approved => now >= Terms[row.order].expiry
    PROVE  Inv'
<1>1. PICK o \in Orders : o = row.order
  BY DEF Rows
<1>2. /\ Spent(row) = drawn[row] /\ Refund(row) = Held(row) /\ Refund(row) >= 0
      /\ drawn[row] \in Nat
  BY SpentIsDrawn DEF TypeOK
<1>3. commits' = [commits EXCEPT ![row].spentAccounted = Spent(row),
                                 ![row].refunded = @ + Refund(row), ![row].approved = FALSE]
  BY DEF SettleRow
<1>4. /\ ~commits'[row].approved /\ commits'[row].spentAccounted = drawn[row]
      /\ commits'[row].credited = commits[row].credited
      /\ commits'[row].refunded = commits[row].refunded + Held(row)
      /\ \A r \in Rows : r # row => commits'[r] = commits[r]
      /\ commits[row].credited \in Nat /\ commits[row].refunded \in Nat
  BY <1>2, <1>3 DEF TypeOK, Commit
<1>5. drawn[row] + commits'[row].refunded <= commits'[row].credited
  BY <1>2, <1>4 DEF Held
<1>6. RowSound(row)'
  BY <1>4, <1>5 DEF RowSound
<1>7. CASE ~commits[row].approved
  <2>1. UNCHANGED <<activeRow, filled, orderApproved>>
    BY <1>7 DEF SettleRow
  <2>2. ASSUME NEW p \in Orders PROVE OrderSound(p)'
    <3>1. activeRow[p] # row
      BY <1>7, NoneAssumption DEF Inv, OrderSound, Backs
    <3> QED BY <1>4, <2>1, <3>1 DEF Inv, OrderSound, Backs
  <2>3. ASSUME NEW r \in Rows, r # row PROVE RowSound(r)'
    BY <1>4, <2>1, <2>3 DEF Inv, RowSound
  <2> QED BY <1>6, <2>1, <2>2, <2>3 DEF Inv, SentinelIsLate, Undrawn
<1>8. CASE commits[row].approved
  <2>1. activeRow[o] = row
    BY <1>1, <1>8 DEF Inv, RowSound
  <2>2. /\ activeRow' = [activeRow EXCEPT ![o] = None]
        /\ orderApproved' = orderApproved \ {o}
        /\ filled' = IF o \in orderApproved /\ filled[o] # 0
                     THEN [filled EXCEPT ![o] = MaxUint] ELSE filled
    BY <1>1, <1>8 DEF SettleRow, RevokeOrderApproval
  <2>3. /\ activeRow'[o] = None
        /\ \A p \in Orders : p # o => activeRow'[p] = activeRow[p] /\ filled'[p] = filled[p]
    BY <1>1, <2>2 DEF TypeOK
  <2>4. now >= Terms[o].expiry
    BY <1>1, <1>8
  <2>5. o \in orderApproved /\ row # None
    <3>1. row # None
      BY NoneAssumption
    <3>2. OrderSound(o)
      BY <1>1 DEF Inv
    <3> QED BY <2>1, <3>1, <3>2 DEF OrderSound
  <2>6. filled'[o] = IF filled[o] # 0 THEN MaxUint ELSE 0
    BY <1>1, <2>2, <2>5 DEF TypeOK
  <2>7. MaxUint # 0
    BY <1>1, TermsType
  <2>8. ASSUME NEW p \in Orders PROVE OrderSound(p)' /\ SentinelIsLate(p)'
    <3>1. CASE p = o
      BY <1>1, <2>2, <2>3, <2>4, <2>6, <3>1 DEF OrderSound, Backs, SentinelIsLate
    <3>2. CASE p # o
      <4>1. activeRow[p] # row
        BY <1>1, <2>5, <3>2 DEF Inv, OrderSound, Backs
      <4>2. OrderSound(p)'
        BY <1>4, <2>2, <2>3, <3>2, <4>1 DEF Inv, OrderSound, Backs
      <4> QED BY <2>3, <3>2, <4>2 DEF Inv, SentinelIsLate
    <3> QED BY <3>1, <3>2
  <2>9. ASSUME NEW r \in Rows, r # row PROVE RowSound(r)'
    <3>1. CASE commits[r].approved
      <4>1. activeRow[r.order] = r /\ r.order # o
        BY <1>1, <2>1, <2>9, <3>1 DEF Inv, RowSound
      <4> QED BY <1>4, <2>3, <2>9, <3>1, <4>1 DEF RowSound, Rows
    <3>2. CASE ~commits[r].approved
      BY <1>4, <2>9, <3>2 DEF Inv, RowSound
    <3> QED BY <3>1, <3>2
  <2>10. ASSUME NEW r \in Rows PROVE Undrawn(r)'
    <3>1. filled'[r.order] = 0 => filled[r.order] = 0
      BY <1>1, <2>3, <2>6, <2>7 DEF Rows
    <3> QED BY <3>1 DEF Inv, Undrawn
  <2> QED BY <1>6, <2>8, <2>9, <2>10 DEF Inv
<1> QED BY <1>7, <1>8

(* The gate of each refund call: an active row's order is past its time.   *)
LEMMA RefundIsLate ==
    ASSUME TypeOK, Inv, NEW row \in Rows, commits[row].approved,
           Settle(row) \/ SettleExpired(row)
    PROVE  now >= Terms[row.order].expiry
<1>1. row.order \in Orders /\ activeRow[row.order] = row
  BY DEF Inv, RowSound, Rows
<1>2. /\ row.token = Terms[row.order].token /\ Terms[row.order].shape
      /\ commits[row].deadline = Terms[row.order].expiry
  BY <1>1, NoneAssumption DEF Inv, OrderSound, Backs
<1>3. Terms[row.order].expiry \in Nat /\ now \in Nat
  BY <1>1, TermsType DEF TypeOK
<1>4. CASE SettleExpired(row)
  BY <1>2, <1>3, <1>4 DEF SettleExpired
<1>5. CASE Settle(row)
  <2>1. now > RefundAfter(row)
    BY <1>5 DEF Settle
  <2>2. CASE commits[row].deadline = 0
    BY <1>2, <1>3, <2>2
  <2>3. CASE commits[row].deadline # 0
    BY <1>2, <1>3, <2>1, <2>3 DEF RefundAfter
  <2> QED BY <2>2, <2>3
<1> QED BY <1>4, <1>5

(* The inductive invariant: the funding invariant of the contract, carried *)
(* through refunds, re-credits, revocations and rival rows.                *)
THEOREM Invariant == Spec => []Inv
<1>1. Init => Inv
  BY TermsType DEF Init, Inv, OrderSound, Backs, RowSound, SentinelIsLate, Undrawn, NewCommit
<1>2. TypeOK /\ Inv /\ [Next]_vars => Inv'
  <2> SUFFICES ASSUME TypeOK, Inv, [Next]_vars PROVE Inv'
    OBVIOUS
  <2>1. CASE Owner
    <3>1. Still
      BY <2>1 DEF Owner, EnableToken, CancelStrayRescue, ExecuteStrayRescue, QueueStrayRescue,
                  Rescue, QueueComposeSource, RemoveComposeSource, Still, rowVars, settlementVars
    <3> QED BY <3>1, StillKeepsInv
  <2>2. CASE Bridges
    <3>1. ASSUME NEW t \in Tokens, NEW amount \in Amounts, NEW c \in Commitments,
                 HandleV3AcrossMessage(t, amount, c)
          PROVE  Inv'
      BY <3>1, CreditKeepsInv, BoundsAssumption DEF HandleV3AcrossMessage, settlementVars
    <3>2. ASSUME NEW t \in Tokens, NEW amount \in Amounts, Donate(t, amount) PROVE Inv'
      BY <3>2, StillKeepsInv DEF Donate, Still, rowVars, settlementVars
    <3>3. ASSUME NEW s, NEW amount, NEW note, LzReceive(s, amount, note) PROVE Inv'
      BY <3>3, StillKeepsInv DEF LzReceive, Still, rowVars, settlementVars
    <3>4. ASSUME NEW m \in flight, LzCompose(m) PROVE Inv'
      <4>1. Delivers[m.source] \in Tokens /\ m.amount \in Nat
        BY BoundsAssumption DEF TypeOK, Messages
      <4>2. UNCHANGED <<activeRow, filled, orderApproved, drawn, now>>
        BY <3>4 DEF LzCompose, settlementVars
      <4>3. CASE m.note \in Commitments /\ Delivers[m.source] \in enabled
        <5>1. Credit(m.note, Delivers[m.source], m.amount)
          BY <3>4, <4>3 DEF LzCompose
        <5> QED BY <4>1, <4>2, <4>3, <5>1, CreditKeepsInv
      <4>4. CASE ~(m.note \in Commitments /\ Delivers[m.source] \in enabled)
        <5>1. Still
          BY <3>4, <4>2, <4>4 DEF LzCompose, Still
        <5> QED BY <5>1, StillKeepsInv
      <4> QED BY <4>3, <4>4
    <3> QED BY <2>2, <3>1, <3>2, <3>3, <3>4 DEF Bridges
  <2>3. CASE Anyone
    <3>1. ASSUME NEW s \in Sources, ApplyComposeSource(s) PROVE Inv'
      BY <3>1, StillKeepsInv DEF ApplyComposeSource, Still, rowVars, settlementVars
    <3>2. ASSUME NEW o \in Orders, Sync(o) PROVE Inv'
      BY <3>2, SyncKeepsInv
    <3>3. ASSUME NEW o \in Orders, NEW b \in Beneficiaries, Activate(o, b) PROVE Inv'
      BY <3>3, ActivateKeepsInv
    <3>4. ASSUME NEW o \in Orders, NEW amount \in Amounts, Fill(o, amount) PROVE Inv'
      BY <3>4, FillKeepsInv, BoundsAssumption
    <3>5. ASSUME NEW r \in Rows, Settle(r) \/ SettleExpired(r) PROVE Inv'
      <4>1. SettleRow(r) /\ UNCHANGED <<drawn, now>>
        BY <3>5 DEF Settle, SettleExpired
      <4>2. commits[r].approved => now >= Terms[r.order].expiry
        BY <3>5, RefundIsLate
      <4> QED BY <4>1, <4>2, SettleKeepsInv
    <3> QED BY <2>3, <3>1, <3>2, <3>3, <3>4, <3>5 DEF Anyone
  <2>4. CASE Tick
    <3>1. /\ UNCHANGED <<commits, activeRow, filled, orderApproved, drawn>>
          /\ now' = now + 1 /\ now \in Nat
      BY <2>4 DEF Tick, TypeOK, rowVars, settlementVars
    <3> QED BY <3>1, TermsType DEF Inv, OrderSound, Backs, RowSound, SentinelIsLate, Undrawn
  <2>5. CASE UNCHANGED vars
    BY <2>5, StillKeepsInv DEF vars, Still
  <2> QED BY <2>1, <2>2, <2>3, <2>4, <2>5 DEF Next
<1> QED BY <1>1, <1>2, TypeCorrect, PTL DEF Spec

(* Every order anybody may fill is funded, in full, by one row.            *)
THEOREM Funding == Spec => []FillableIsFunded
<1>1. TypeOK /\ Inv => FillableIsFunded
  <2> SUFFICES ASSUME TypeOK, Inv, NEW o \in Orders, Fillable(o)
               PROVE  /\ activeRow[o] # None /\ commits[activeRow[o]].approved
                      /\ commits[activeRow[o]].credited - commits[activeRow[o]].refunded
                           >= Terms[o].anchor
    BY DEF FillableIsFunded
  <2>1. activeRow[o] # None
    BY TermsType DEF Inv, OrderSound, Backs, Fillable, TypeOK
  <2> QED BY <2>1 DEF Inv, OrderSound, Backs
<1> QED BY <1>1, TypeCorrect, Invariant, PTL

(* No row ever pays for another.                                           *)
THEOREM Isolation == Spec => []RowIsolation
<1>1. TypeOK /\ Inv => RowIsolation
  <2> SUFFICES ASSUME TypeOK, Inv, NEW r \in Rows
               PROVE  drawn[r] + commits[r].refunded <= commits[r].credited
    BY DEF RowIsolation
  <2>1. Refund(r) = Held(r) /\ Refund(r) >= 0
    BY SpentIsDrawn
  <2>2. /\ commits[r].credited \in Nat /\ commits[r].refunded \in Nat /\ drawn[r] \in Nat
    BY DEF TypeOK, Commit
  <2> QED BY <2>1, <2>2 DEF Held
<1> QED BY <1>1, TypeCorrect, Invariant, PTL

(* A source goes live only a full delay after it was last removed.         *)
THEOREM TrustIsSlow == Spec => NoSuddenTrust
<1> DEFINE Waits == \A s \in Sources : /\ cleared[s] <= now
                                       /\ pending[s] # 0 => pending[s] >= cleared[s] + Delay
<1> USE BoundsAssumption
<1>1. Init => Waits
  BY DEF Init
<1>2. TypeOK /\ Waits /\ [Next]_vars => Waits'
  <2> SUFFICES ASSUME TypeOK, Waits, [Next]_vars PROVE Waits'
    OBVIOUS
  <2>0. now \in Nat /\ \A s \in Sources : pending[s] \in Nat /\ cleared[s] \in Nat
    BY DEF TypeOK
  <2>1. CASE UNCHANGED <<pending, cleared, now>>
    BY <2>1
  <2>2. ASSUME NEW s \in Sources, QueueComposeSource(s) PROVE Waits'
    BY <2>0, <2>2 DEF QueueComposeSource, TypeOK
  <2>3. ASSUME NEW s \in Sources, RemoveComposeSource(s) PROVE Waits'
    BY <2>0, <2>3 DEF RemoveComposeSource, TypeOK
  <2>4. ASSUME NEW s \in Sources, ApplyComposeSource(s) PROVE Waits'
    BY <2>0, <2>4 DEF ApplyComposeSource, TypeOK
  <2>5. CASE Tick
    BY <2>0, <2>5 DEF Tick, ownerVars
  <2>6. ASSUME NEW t, NEW amount, EnableToken(t) \/ CancelStrayRescue(t) \/ ExecuteStrayRescue(t)
                                  \/ QueueStrayRescue(t, amount) \/ Rescue(t, amount)
        PROVE  UNCHANGED <<pending, cleared, now>>
    BY <2>6 DEF EnableToken, CancelStrayRescue, ExecuteStrayRescue, QueueStrayRescue, Rescue,
                ownerVars
  <2>7. ASSUME Bridges PROVE UNCHANGED <<pending, cleared, now>>
    BY <2>7 DEF Bridges, Donate, HandleV3AcrossMessage, LzReceive, LzCompose, ownerVars
  <2>8. ASSUME NEW o, NEW b, NEW amount, NEW r,
               Sync(o) \/ Activate(o, b) \/ Fill(o, amount) \/ Settle(r) \/ SettleExpired(r)
        PROVE  UNCHANGED <<pending, cleared, now>>
    BY <2>8 DEF Sync, Activate, Fill, Settle, SettleExpired, ownerVars
  <2>9. CASE Owner
    BY <2>1, <2>2, <2>3, <2>6, <2>9 DEF Owner
  <2>10. CASE Anyone
    BY <2>1, <2>4, <2>8, <2>10 DEF Anyone
  <2>11. CASE UNCHANGED vars
    BY <2>1, <2>11 DEF vars
  <2> QED BY <2>1, <2>5, <2>7, <2>9, <2>10, <2>11 DEF Next
<1>3. TypeOK /\ Waits /\ [Next]_vars => [\A s \in live' \ live : now >= cleared[s] + Delay]_vars
  <2> SUFFICES ASSUME TypeOK, Waits, Next, NEW s \in live' \ live
               PROVE  now >= cleared[s] + Delay
    OBVIOUS
  <2>1. ASSUME NEW t, NEW amount, EnableToken(t) \/ CancelStrayRescue(t) \/ ExecuteStrayRescue(t)
                                  \/ QueueStrayRescue(t, amount) \/ Rescue(t, amount)
        PROVE  live' = live
    BY <2>1 DEF EnableToken, CancelStrayRescue, ExecuteStrayRescue, QueueStrayRescue, Rescue,
                ownerVars
  <2>2. ASSUME Bridges \/ Tick PROVE live' = live
    BY <2>2 DEF Bridges, Tick, Donate, HandleV3AcrossMessage, LzReceive, LzCompose, ownerVars
  <2>3. ASSUME NEW o, NEW b, NEW amount, NEW r,
               Sync(o) \/ Activate(o, b) \/ Fill(o, amount) \/ Settle(r) \/ SettleExpired(r)
        PROVE  live' = live
    BY <2>3 DEF Sync, Activate, Fill, Settle, SettleExpired, ownerVars
  <2>4. ASSUME NEW u \in Sources, QueueComposeSource(u) \/ RemoveComposeSource(u)
        PROVE  live' \subseteq live
    BY <2>4 DEF QueueComposeSource, RemoveComposeSource
  <2>5. PICK u \in Sources : ApplyComposeSource(u)
    BY <2>1, <2>2, <2>3, <2>4 DEF Next, Owner, Anyone
  <2>6. s = u /\ pending[s] # 0 /\ now >= pending[s]
    BY <2>5 DEF ApplyComposeSource
  <2>7. cleared[s] \in Nat /\ pending[s] \in Nat /\ now \in Nat
    BY <2>5, <2>6 DEF TypeOK
  <2> QED BY <2>5, <2>6, <2>7
<1> QED BY <1>1, <1>2, <1>3, TypeCorrect, PTL DEF Spec, NoSuddenTrust

-----------------------------------------------------------------------------
(* The books                                                               *)

(* What a row is still owed by the contract's own count.                   *)
Open(r) == commits[r].credited - commits[r].spentAccounted - commits[r].refunded

Books ==
    /\ \A t \in Tokens : liability[t] = SumFunction([r \in RowsOf(t) |-> Open(r)])
    /\ IsFiniteSet(flight)

LEMMA RowsOfFinite ==
    ASSUME NEW t \in Tokens
    PROVE  IsFiniteSet(RowsOf(t))
<1> DEFINE f == [r \in RowsOf(t) |-> <<r.order, r.beneficiary>>]
<1>1. f \in Injection(RowsOf(t), Orders \X Beneficiaries)
  BY DEF RowsOf, Rows, Injection, IsInjective
<1>2. IsFiniteSet(Orders \X Beneficiaries)
  BY FiniteAssumption, FS_Product
<1> QED
  BY <1>1, <1>2, FS_Injection

LEMMA RowTerms ==
    TypeOK => \A r \in Rows : Open(r) \in Int /\ Held(r) \in Int
BY DEF TypeOK, Commit, Open, Held

LEMMA HeldInType ==
    ASSUME TypeOK, NEW t \in Tokens
    PROVE  HeldIn(t) \in Int
<1>1. [r \in RowsOf(t) |-> Held(r)] \in [RowsOf(t) -> Int]
  BY RowTerms DEF RowsOf
<1> QED
  BY <1>1, RowsOfFinite, TotalType DEF HeldIn

(* A step that changes one row changes what its token owes and holds by as *)
(* much, and no other token.                                               *)
LEMMA RowStep ==
    ASSUME TypeOK, TypeOK', NEW row \in Rows, NEW t \in Tokens
    PROVE  /\ (\A r \in Rows \ {row} : Held(r)' = Held(r)) =>
                HeldIn(t)' = IF t = row.token THEN HeldIn(t) + (Held(row)' - Held(row)) ELSE HeldIn(t)
           /\ (\A r \in Rows \ {row} : Open(r)' = Open(r)) =>
                SumFunction([r \in RowsOf(t) |-> Open(r)])'
                  = IF t = row.token THEN SumFunction([r \in RowsOf(t) |-> Open(r)]) + (Open(row)' - Open(row))
                    ELSE SumFunction([r \in RowsOf(t) |-> Open(r)])
<1> DEFINE held == [r \in RowsOf(t) |-> Held(r)]
           next == [r \in RowsOf(t) |-> Held(r)']
           open == [r \in RowsOf(t) |-> Open(r)]
           then == [r \in RowsOf(t) |-> Open(r)']
<1>1. \A r \in Rows : Open(r)' \in Int /\ Held(r)' \in Int
  BY DEF TypeOK, Commit, Open, Held
<1>2. /\ held \in [RowsOf(t) -> Int] /\ next \in [RowsOf(t) -> Int]
      /\ open \in [RowsOf(t) -> Int] /\ then \in [RowsOf(t) -> Int]
  BY <1>1, RowTerms DEF RowsOf
<1>3. IsFiniteSet(RowsOf(t)) /\ RowsOf(t) \subseteq Rows /\ (row \in RowsOf(t) <=> t = row.token)
  BY RowsOfFinite DEF RowsOf
<1>4. ASSUME \A r \in Rows \ {row} : Held(r)' = Held(r)
      PROVE  SumFunction(next) = IF t = row.token THEN SumFunction(held) + (Held(row)' - Held(row))
                                 ELSE SumFunction(held)
  <2>1. \A r \in RowsOf(t) \ {row} : next[r] = held[r]
    BY <1>3, <1>4
  <2>2. CASE t = row.token
    <3>1. next[row] = Held(row)' /\ held[row] = Held(row)
      BY <1>3, <2>2
    <3> HIDE DEF next, held
    <3> QED
      BY <1>2, <1>3, <2>1, <2>2, <3>1, TotalChange
  <2>3. CASE t # row.token
    <3>1. next = held
      BY <1>3, <1>4, <2>3
    <3> QED
      BY <2>3, <3>1
  <2> QED
    BY <2>2, <2>3
<1>5. ASSUME \A r \in Rows \ {row} : Open(r)' = Open(r)
      PROVE  SumFunction(then) = IF t = row.token THEN SumFunction(open) + (Open(row)' - Open(row))
                                 ELSE SumFunction(open)
  <2>1. \A r \in RowsOf(t) \ {row} : then[r] = open[r]
    BY <1>3, <1>5
  <2>2. CASE t = row.token
    <3>1. then[row] = Open(row)' /\ open[row] = Open(row)
      BY <1>3, <2>2
    <3> HIDE DEF then, open
    <3> QED
      BY <1>2, <1>3, <2>1, <2>2, <3>1, TotalChange
  <2>3. CASE t # row.token
    <3>1. then = open
      BY <1>3, <1>5, <2>3
    <3> QED
      BY <2>3, <3>1
  <2> QED
    BY <2>2, <2>3
<1> QED
  BY <1>4, <1>5 DEF HeldIn

(* What _credit does to the row it names.                                  *)
LEMMA CreditRow ==
    ASSUME TypeOK, NEW c \in Commitments, NEW t \in Tokens, NEW amount \in Nat,
           Credit(c, t, amount), drawn' = drawn
    PROVE  LET row == Row(c.order, c.beneficiary, t)
           IN  /\ row \in Rows /\ row.token = t
               /\ Open(row)' = Open(row) + amount /\ Held(row)' = Held(row) + amount
               /\ \A r \in Rows \ {row} : Open(r)' = Open(r) /\ Held(r)' = Held(r)
               /\ liability' = [liability EXCEPT ![t] = @ + amount]
<1> DEFINE row == Row(c.order, c.beneficiary, t)
<1>1. row \in Rows /\ row.token = t
  BY RowType, BoundsAssumption
<1> HIDE DEF row
<1>2. /\ commits[row].credited \in Nat /\ commits[row].spentAccounted \in Nat
      /\ commits[row].refunded \in Nat /\ drawn[row] \in Nat
  BY <1>1 DEF TypeOK, Commit
<1>3. /\ commits'[row].credited = commits[row].credited + amount
      /\ commits'[row].spentAccounted = commits[row].spentAccounted
      /\ commits'[row].refunded = commits[row].refunded
      /\ \A r \in Rows \ {row} : commits'[r] = commits[r]
      /\ liability' = [liability EXCEPT ![t] = @ + amount]
  <2>1. CASE amount = 0
    <3>1. commits' = commits /\ liability' = liability
      BY <2>1 DEF Credit
    <3> QED
      BY <1>2, <2>1, <3>1 DEF TypeOK
  <2>2. CASE amount # 0
    BY <1>1, <2>2 DEF Credit, TypeOK, Commit, row
  <2> QED
    BY <2>1, <2>2
<1>4. Open(row)' = Open(row) + amount /\ Held(row)' = Held(row) + amount
  BY <1>2, <1>3 DEF Open, Held
<1>5. \A r \in Rows \ {row} : Open(r)' = Open(r) /\ Held(r)' = Held(r)
  BY <1>3 DEF Open, Held
<1> QED
  BY <1>1, <1>3, <1>4, <1>5 DEF row

(* What a refund does to the row it settles.                               *)
LEMMA SettledRow ==
    ASSUME TypeOK, Inv, NEW row \in Rows, SettleRow(row), drawn' = drawn
    PROVE  /\ Refund(row) = Held(row) /\ Refund(row) \in Nat
           /\ Held(row)' = Held(row) - Refund(row)
           /\ Open(row)' = Open(row) - (Unsynced(row) + Refund(row))
           /\ \A r \in Rows \ {row} : Open(r)' = Open(r) /\ Held(r)' = Held(r)
           /\ liability' = [liability EXCEPT ![row.token] = @ - (Unsynced(row) + Refund(row))]
           /\ balance' = [balance EXCEPT ![row.token] = @ - Refund(row)]
<1>1. Refund(row) = Held(row) /\ Refund(row) >= 0 /\ Spent(row) = drawn[row]
  BY SpentIsDrawn
<1>2. /\ Refund(row) \in Int /\ Unsynced(row) \in Int /\ row.token \in Tokens
  BY SpentType
<1>3. /\ commits[row].credited \in Nat /\ commits[row].spentAccounted \in Nat
      /\ commits[row].refunded \in Nat /\ drawn[row] \in Nat /\ liability[row.token] \in Nat
  BY <1>2 DEF TypeOK, Commit
<1>4. /\ commits'[row].credited = commits[row].credited
      /\ commits'[row].spentAccounted = Spent(row)
      /\ commits'[row].refunded = commits[row].refunded + Refund(row)
      /\ \A r \in Rows \ {row} : commits'[r] = commits[r]
  BY DEF SettleRow, TypeOK, Commit
<1>5. Held(row)' = Held(row) - Refund(row)
  BY <1>2, <1>3, <1>4 DEF Held
<1>6. Open(row)' = Open(row) - (Unsynced(row) + Refund(row))
  BY <1>1, <1>2, <1>3, <1>4 DEF Open, Unsynced
<1>7. \A r \in Rows \ {row} : Open(r)' = Open(r) /\ Held(r)' = Held(r)
  BY <1>4 DEF Open, Held
<1>8. liability' = [liability EXCEPT ![row.token] = @ - (Unsynced(row) + Refund(row))]
  <2>1. liability[row.token] - Unsynced(row) - Refund(row) = liability[row.token] - (Unsynced(row) + Refund(row))
    BY <1>2, <1>3
  <2> QED
    BY <2>1 DEF SettleRow
<1>9. balance' = [balance EXCEPT ![row.token] = @ - Refund(row)]
  BY DEF SettleRow
<1> QED
  BY <1>1, <1>2, <1>5, <1>6, <1>7, <1>8, <1>9

(* The rows and the liability move together.                               *)
LEMMA BooksStep ==
    ASSUME TypeOK, TypeOK', Books, IsFiniteSet(flight'), NEW row \in Rows,
           \A r \in Rows \ {row} : Open(r)' = Open(r),
           \A t \in Tokens : liability'[t] = IF t = row.token THEN liability[t] + (Open(row)' - Open(row))
                                             ELSE liability[t]
    PROVE  Books'
<1> SUFFICES ASSUME NEW t \in Tokens
             PROVE  liability'[t] = SumFunction([r \in RowsOf(t) |-> Open(r)])'
  BY DEF Books
<1>1. liability[t] = SumFunction([r \in RowsOf(t) |-> Open(r)])
  BY DEF Books
<1>2. SumFunction([r \in RowsOf(t) |-> Open(r)])'
        = IF t = row.token THEN SumFunction([r \in RowsOf(t) |-> Open(r)]) + (Open(row)' - Open(row))
          ELSE SumFunction([r \in RowsOf(t) |-> Open(r)])
  BY RowStep
<1> QED
  BY <1>1, <1>2

LEMMA BooksSame ==
    ASSUME Books, IsFiniteSet(flight'), UNCHANGED <<commits, liability>>
    PROVE  Books'
<1> SUFFICES ASSUME NEW t \in Tokens
             PROVE  liability'[t] = SumFunction([r \in RowsOf(t) |-> Open(r)])'
  BY DEF Books
<1>1. [r \in RowsOf(t) |-> Open(r)'] = [r \in RowsOf(t) |-> Open(r)]
  BY DEF Open
<1> QED
  BY <1>1 DEF Books

(* The contract's liability is the sum of what its rows are owed, after    *)
(* any history of credits, syncs and refunds.                              *)
LEMMA BooksNext ==
    TypeOK /\ TypeOK' /\ Inv /\ Books /\ [Next]_vars => Books'
<1> SUFFICES ASSUME TypeOK, TypeOK', Inv, Books, [Next]_vars PROVE Books'
  OBVIOUS
<1>0. IsFiniteSet(flight)
  BY DEF Books
<1>1. ASSUME UNCHANGED <<commits, liability, flight>> PROVE Books'
  BY <1>0, <1>1, BooksSame
<1>2. ASSUME NEW t \in Tokens, NEW amount \in Amounts, NEW c \in Commitments, HandleV3AcrossMessage(t, amount, c)
      PROVE  Books'
  <2> DEFINE row == Row(c.order, c.beneficiary, t)
  <2>1. Credit(c, t, amount) /\ UNCHANGED <<flight, drawn>> /\ amount \in Nat
    BY <1>2, BoundsAssumption DEF HandleV3AcrossMessage, settlementVars
  <2>2. /\ row \in Rows /\ row.token = t /\ Open(row)' = Open(row) + amount
        /\ \A r \in Rows \ {row} : Open(r)' = Open(r)
        /\ liability' = [liability EXCEPT ![t] = @ + amount]
    BY <2>1, CreditRow
  <2> HIDE DEF row
  <2>3. \A u \in Tokens : liability'[u] = IF u = row.token THEN liability[u] + (Open(row)' - Open(row))
                                          ELSE liability[u]
    BY <2>1, <2>2, RowTerms DEF TypeOK
  <2> QED
    BY <1>0, <2>1, <2>2, <2>3, BooksStep
<1>3. ASSUME NEW s, NEW amount, NEW note, LzReceive(s, amount, note) PROVE Books'
  <2>1. IsFiniteSet(flight') /\ UNCHANGED <<commits, liability>>
    BY <1>0, <1>3, FS_AddElement DEF LzReceive, rowVars
  <2> QED
    BY <2>1, BooksSame
<1>4. ASSUME NEW m \in flight, LzCompose(m) PROVE Books'
  <2> DEFINE t == Delivers[m.source]
             row == Row(m.note.order, m.note.beneficiary, t)
  <2>1. t \in Tokens /\ m.amount \in Nat
    BY BoundsAssumption DEF TypeOK, Messages
  <2>2. IsFiniteSet(flight') /\ drawn' = drawn
    BY <1>0, <1>4, FS_RemoveElement DEF LzCompose, settlementVars
  <2>3. CASE m.note \in Commitments /\ t \in enabled
    <3>1. Credit(m.note, t, m.amount)
      BY <1>4, <2>3 DEF LzCompose
    <3>2. /\ row \in Rows /\ row.token = t /\ Open(row)' = Open(row) + m.amount
          /\ \A r \in Rows \ {row} : Open(r)' = Open(r)
          /\ liability' = [liability EXCEPT ![t] = @ + m.amount]
      BY <2>1, <2>2, <2>3, <3>1, CreditRow
    <3> HIDE DEF row, t
    <3>3. \A u \in Tokens : liability'[u] = IF u = row.token THEN liability[u] + (Open(row)' - Open(row))
                                            ELSE liability[u]
      BY <2>1, <3>2, RowTerms DEF TypeOK
    <3> QED
      BY <2>2, <3>2, <3>3, BooksStep
  <2>4. CASE ~(m.note \in Commitments /\ t \in enabled)
    <3>1. UNCHANGED <<commits, liability>>
      BY <1>4, <2>4 DEF LzCompose
    <3> QED
      BY <2>2, <3>1, BooksSame
  <2> QED
    BY <2>3, <2>4
<1>5. ASSUME NEW o \in Orders, Sync(o) PROVE Books'
  <2>0. PICK row \in Rows : row = activeRow[o]
    BY <1>5 DEF Sync, TypeOK
  <2>1. /\ commits' = [commits EXCEPT ![row].spentAccounted = Spent(row)]
        /\ liability' = [liability EXCEPT ![row.token] = @ - Unsynced(row)]
        /\ UNCHANGED <<flight, drawn>>
    BY <1>5, <2>0 DEF Sync, settlementVars
  <2>2. Spent(row) \in Nat /\ Unsynced(row) \in Int /\ row.token \in Tokens
    BY <2>1, SpentType
  <2>3. /\ commits[row].credited \in Nat /\ commits[row].spentAccounted \in Nat
        /\ commits[row].refunded \in Nat /\ liability[row.token] \in Nat
    BY <2>1, <2>2 DEF TypeOK, Commit
  <2>4. /\ commits'[row].credited = commits[row].credited
        /\ commits'[row].spentAccounted = Spent(row)
        /\ commits'[row].refunded = commits[row].refunded
        /\ \A r \in Rows \ {row} : commits'[r] = commits[r]
    BY <2>1 DEF TypeOK, Commit
  <2>5. Open(row)' = Open(row) - Unsynced(row)
    BY <2>2, <2>3, <2>4 DEF Open, Unsynced
  <2>6. \A r \in Rows \ {row} : Open(r)' = Open(r)
    BY <2>4 DEF Open
  <2>7. \A u \in Tokens : liability'[u] = IF u = row.token THEN liability[u] + (Open(row)' - Open(row))
                                          ELSE liability[u]
    BY <2>1, <2>2, <2>5, RowTerms DEF TypeOK
  <2> QED
    BY <1>0, <2>1, <2>6, <2>7, BooksStep
<1>6. ASSUME NEW row \in Rows, Settle(row) \/ SettleExpired(row) PROVE Books'
  <2> DEFINE moved == Unsynced(row) + Refund(row)
  <2>1. SettleRow(row) /\ UNCHANGED <<flight, drawn>>
    BY <1>6 DEF Settle, SettleExpired
  <2>2. moved \in Int /\ row.token \in Tokens
    BY SpentType
  <2>3. /\ Open(row)' = Open(row) - moved
        /\ \A r \in Rows \ {row} : Open(r)' = Open(r)
        /\ liability' = [liability EXCEPT ![row.token] = @ - moved]
    BY <2>1, SettledRow
  <2> HIDE DEF moved
  <2>4. \A u \in Tokens : liability'[u] = IF u = row.token THEN liability[u] + (Open(row)' - Open(row))
                                          ELSE liability[u]
    BY <2>2, <2>3, RowTerms DEF TypeOK
  <2> QED
    BY <1>0, <2>1, <2>3, <2>4, BooksStep
<1>7. ASSUME NEW o \in Orders, NEW b \in Beneficiaries, Activate(o, b) PROVE Books'
  <2> DEFINE row == Row(o, b, Terms[o].token)
  <2>1. /\ row \in Rows /\ UNCHANGED <<liability, flight>>
        /\ commits' = [commits EXCEPT ![row].approved = TRUE, ![row].deadline = Terms[o].expiry]
    BY <1>7, RowType, TermsType DEF Activate
  <2> HIDE DEF row
  <2>2. \A r \in Rows : Open(r)' = Open(r)
    BY <2>1 DEF Open, TypeOK, Commit
  <2>3. \A u \in Tokens : liability'[u] = IF u = row.token THEN liability[u] + (Open(row)' - Open(row))
                                          ELSE liability[u]
    BY <2>1, <2>2, RowTerms DEF TypeOK
  <2> QED
    BY <1>0, <2>1, <2>2, <2>3, BooksStep
<1>8. CASE Owner
  <2>1. UNCHANGED <<commits, liability, flight>>
    BY <1>8 DEF Owner, EnableToken, CancelStrayRescue, ExecuteStrayRescue, QueueStrayRescue, Rescue,
                QueueComposeSource, RemoveComposeSource, rowVars
  <2> QED
    BY <1>1, <2>1
<1>9. CASE Bridges
  <2>1. ASSUME NEW t, NEW amount, Donate(t, amount) PROVE Books'
    BY <1>1, <2>1 DEF Donate, rowVars
  <2> QED
    BY <1>2, <1>3, <1>4, <1>9, <2>1 DEF Bridges
<1>10. CASE Anyone
  <2>1. ASSUME NEW o, NEW amount, NEW s, Fill(o, amount) \/ ApplyComposeSource(s) PROVE Books'
    <3>1. UNCHANGED <<commits, liability, flight>>
      BY <2>1 DEF Fill, ApplyComposeSource, rowVars
    <3> QED
      BY <1>1, <3>1
  <2> QED
    BY <1>5, <1>6, <1>7, <1>10, <2>1 DEF Anyone
<1>11. CASE Tick \/ UNCHANGED vars
  <2>1. UNCHANGED <<commits, liability, flight>>
    BY <1>11 DEF Tick, vars, rowVars
  <2> QED
    BY <1>1, <2>1
<1> QED
  BY <1>8, <1>9, <1>10, <1>11 DEF Next

(* The liability the contract keeps for a token is the sum of what its     *)
(* rows have been credited and neither spent nor given back (_credit,      *)
(* _sync, _settle).                                                        *)
THEOREM BooksBalance == Spec => []Books
<1>1. Init => Books
  <2> SUFFICES ASSUME Init, NEW t \in Tokens
               PROVE  liability[t] = SumFunction([r \in RowsOf(t) |-> Open(r)])
    BY FS_EmptySet DEF Books, Init
  <2> DEFINE f == [r \in RowsOf(t) |-> Open(r)]
  <2>1. f \in [RowsOf(t) -> Int] /\ \A r \in RowsOf(t) : f[r] = 0
    BY DEF Init, NewCommit, Open, RowsOf
  <2> HIDE DEF f
  <2>2. SumFunction(f) = 0
    BY <2>1, RowsOfFinite, TotalZero
  <2> QED
    BY <2>2 DEF f, Init
<1> QED
  BY <1>1, BooksNext, TypeCorrect, Invariant, PTL DEF Spec

(* What the rows hold is not negative, no more than what they are owed,    *)
(* and each row's part of it no more than the whole.                       *)
LEMMA HeldBounds ==
    ASSUME TypeOK, Inv, Books, NEW t \in Tokens
    PROVE  /\ HeldIn(t) \in Int /\ HeldIn(t) <= liability[t]
           /\ \A r \in RowsOf(t) : /\ Held(r) <= HeldIn(t)
                                   /\ Unsynced(r) + Refund(r) <= liability[t]
<1> DEFINE held == [r \in RowsOf(t) |-> Held(r)]
           open == [r \in RowsOf(t) |-> Open(r)]
<1>1. IsFiniteSet(RowsOf(t)) /\ RowsOf(t) \subseteq Rows
  BY RowsOfFinite DEF RowsOf
<1>2. ASSUME NEW r \in RowsOf(t)
      PROVE  /\ Held(r) \in Int /\ Open(r) \in Int /\ Held(r) >= 0 /\ Held(r) <= Open(r)
             /\ Open(r) = Unsynced(r) + Refund(r)
  <2>1. Spent(r) = drawn[r] /\ Refund(r) = Held(r) /\ Unsynced(r) >= 0 /\ Refund(r) >= 0
    BY <1>1, SpentIsDrawn
  <2>2. /\ commits[r].credited \in Nat /\ commits[r].spentAccounted \in Nat
        /\ commits[r].refunded \in Nat /\ drawn[r] \in Nat
    BY <1>1 DEF TypeOK, Commit
  <2> QED
    BY <2>1, <2>2 DEF Held, Open, Unsynced
<1>3. /\ held \in [RowsOf(t) -> Int] /\ open \in [RowsOf(t) -> Int]
      /\ \A r \in RowsOf(t) : 0 <= held[r] /\ held[r] <= open[r]
  BY <1>2
<1>4. /\ SumFunction(held) \in Int /\ SumFunction(held) <= SumFunction(open)
      /\ \A r \in RowsOf(t) : held[r] <= SumFunction(held) /\ open[r] <= SumFunction(open)
  <2> HIDE DEF held, open
  <2>1. \A r \in RowsOf(t) : held[r] \in Int /\ open[r] \in Int /\ open[r] >= 0 /\ held[r] >= 0
    BY <1>3
  <2> QED
    BY <1>1, <1>3, <2>1, TotalType, TotalMonotone, TermInTotal
<1>5. liability[t] = SumFunction(open) /\ HeldIn(t) = SumFunction(held)
  BY DEF Books, HeldIn
<1> QED
  BY <1>2, <1>4, <1>5

LEMMA FlyingAmount ==
    ASSUME TypeOK, Books, NEW t \in Tokens
    PROVE  IsFiniteSet(Flying(t)) /\ AmountOf(Flying(t)) \in Nat
<1>1. IsFiniteSet(Flying(t))
  BY FS_Subset DEF Books, Flying
<1>2. \A m \in Flying(t) : m.amount \in Nat
  BY DEF Flying, TypeOK, Messages
<1> DEFINE f == [m \in Flying(t) |-> m.amount]
<1>3. f \in [Flying(t) -> Int] /\ \A m \in Flying(t) : f[m] >= 0
  BY <1>2
<1> HIDE DEF f
<1>4. SumFunction(f) \in Nat
  BY <1>1, <1>3, TotalType
<1> QED
  BY <1>1, <1>4 DEF AmountOf, f

(* Once a row's gate is open and its token covered, the refund call goes   *)
(* through and returns all the row holds (_settle).                        *)
THEOREM RefundsSucceed == Spec => []AlwaysRefundable
<1>1. TypeOK /\ Inv /\ Books => AlwaysRefundable
  <2> SUFFICES ASSUME TypeOK, Inv, Books, NEW r \in Rows, Covered(r.token)
               PROVE  SettleFits(r) /\ Refund(r) = Held(r)
    BY DEF AlwaysRefundable
  <2>1. r.token \in Tokens /\ r \in RowsOf(r.token)
    BY DEF Rows, RowsOf
  <2>2. Refund(r) = Held(r) /\ Unsynced(r) >= 0 /\ Refund(r) >= 0
    BY SpentIsDrawn
  <2>3. /\ Held(r) <= HeldIn(r.token) /\ HeldIn(r.token) \in Int
        /\ Unsynced(r) + Refund(r) <= liability[r.token]
    BY <2>1, HeldBounds
  <2>4. AmountOf(Flying(r.token)) \in Nat /\ orphaned[r.token] \in Nat /\ balance[r.token] \in Nat
    BY <2>1, FlyingAmount DEF TypeOK
  <2>5. Held(r) \in Int /\ Unsynced(r) \in Int /\ Refund(r) \in Int /\ liability[r.token] \in Nat
    BY <2>1, RowTerms, SpentType DEF TypeOK
  <2>6. balance[r.token] >= Refund(r)
    BY <2>2, <2>3, <2>4, <2>5 DEF Covered
  <2> QED
    BY <2>2, <2>3, <2>5, <2>6 DEF SettleFits
<1> QED
  BY <1>1, TypeCorrect, Invariant, BooksBalance, PTL

-----------------------------------------------------------------------------
(* The pool stays covered                                                  *)

(* One message more or less in flight.                                     *)
LEMMA AmountAdd ==
    ASSUME NEW S, IsFiniteSet(S), NEW m, m \notin S, \A x \in S \cup {m} : x.amount \in Nat
    PROVE  AmountOf(S \cup {m}) = AmountOf(S) + m.amount
<1>1. PICK T : T = S \cup {m}
  OBVIOUS
<1> DEFINE f == [x \in S |-> x.amount]
           g == [x \in T |-> x.amount]
<1>2. f \in [S -> Int] /\ g \in [T -> Int] /\ \A x \in S : g[x] = f[x]
  BY <1>1
<1>3. g[m] = m.amount
  BY <1>1
<1> HIDE DEF f, g
<1>4. SumFunction(g) = SumFunction(f) + g[m]
  BY <1>1, <1>2, TotalExtend
<1> QED
  BY <1>1, <1>3, <1>4 DEF AmountOf, f, g

LEMMA FlyingAdd ==
    ASSUME TypeOK, TypeOK', Books, NEW m \in Messages, flight' = flight \cup {m}, NEW t \in Tokens
    PROVE  /\ AmountOf(Flying(t))' \in Int
           /\ AmountOf(Flying(t))' <= AmountOf(Flying(t)) + (IF Delivers[m.source] = t THEN m.amount ELSE 0)
<1>1. IsFiniteSet(Flying(t)) /\ AmountOf(Flying(t)) \in Nat
  BY FlyingAmount
<1>2. m.amount \in Nat /\ \A x \in Flying(t) : x.amount \in Nat
  BY DEF Messages, Flying, TypeOK
<1>3. CASE Delivers[m.source] = t /\ m \notin flight
  <2>1. Flying(t)' = Flying(t) \cup {m} /\ m \notin Flying(t)
    BY <1>3 DEF Flying
  <2>2. AmountOf(Flying(t) \cup {m}) = AmountOf(Flying(t)) + m.amount
    BY <1>1, <1>2, <2>1, AmountAdd
  <2>3. AmountOf(Flying(t))' = AmountOf(Flying(t) \cup {m})
    BY <2>1 DEF AmountOf
  <2> QED
    BY <1>1, <1>2, <1>3, <2>2, <2>3
<1>4. CASE ~(Delivers[m.source] = t /\ m \notin flight)
  <2>1. Flying(t)' = Flying(t)
    BY <1>4 DEF Flying
  <2>2. AmountOf(Flying(t))' = AmountOf(Flying(t))
    BY <2>1 DEF AmountOf
  <2> QED
    BY <1>1, <1>2, <2>2
<1> QED
  BY <1>3, <1>4

LEMMA FlyingRemove ==
    ASSUME TypeOK, Books, NEW m \in flight, flight' = flight \ {m}, NEW t \in Tokens
    PROVE  AmountOf(Flying(t))' = AmountOf(Flying(t)) - (IF Delivers[m.source] = t THEN m.amount ELSE 0)
<1>1. IsFiniteSet(Flying(t)) /\ AmountOf(Flying(t)) \in Nat
  BY FlyingAmount
<1>2. m.amount \in Nat /\ \A x \in Flying(t) : x.amount \in Nat
  BY DEF Messages, Flying, TypeOK
<1>3. CASE Delivers[m.source] = t
  <2> DEFINE rest == Flying(t) \ {m}
  <2>1. Flying(t)' = rest /\ m \notin rest /\ rest \cup {m} = Flying(t)
    BY <1>3 DEF Flying
  <2>2. IsFiniteSet(rest) /\ \A x \in rest \cup {m} : x.amount \in Nat
    BY <1>1, <1>2, <2>1, FS_RemoveElement
  <2> HIDE DEF rest
  <2>3. AmountOf(rest \cup {m}) = AmountOf(rest) + m.amount
    BY <2>1, <2>2, AmountAdd
  <2>4. AmountOf(rest) \in Int
    <3> DEFINE f == [x \in rest |-> x.amount]
    <3>1. f \in [rest -> Int]
      BY <2>2
    <3> HIDE DEF f
    <3>2. SumFunction(f) \in Int
      BY <2>2, <3>1, TotalType
    <3> QED
      BY <3>2 DEF AmountOf, f
  <2>5. AmountOf(Flying(t))' = AmountOf(rest)
    BY <2>1 DEF AmountOf
  <2>6. AmountOf(Flying(t)) = AmountOf(rest) + m.amount
    BY <2>1, <2>3
  <2> QED
    BY <1>2, <1>3, <2>4, <2>5, <2>6
<1>4. CASE Delivers[m.source] # t
  <2>1. Flying(t)' = Flying(t)
    BY <1>4 DEF Flying
  <2>2. AmountOf(Flying(t))' = AmountOf(Flying(t))
    BY <2>1 DEF AmountOf
  <2> QED
    BY <1>1, <1>4, <2>2
<1> QED
  BY <1>3, <1>4

LEMMA FlyingSame ==
    ASSUME flight' = flight, NEW t
    PROVE  AmountOf(Flying(t))' = AmountOf(Flying(t))
<1>1. Flying(t)' = Flying(t)
  BY DEF Flying
<1> QED
  BY <1>1 DEF AmountOf

LEMMA HeldSame ==
    ASSUME \A r \in Rows : Held(r)' = Held(r), NEW t
    PROVE  HeldIn(t)' = HeldIn(t)
<1>1. [r \in RowsOf(t) |-> Held(r)'] = [r \in RowsOf(t) |-> Held(r)]
  BY DEF RowsOf
<1> QED
  BY <1>1 DEF HeldIn

(* The four terms of Covered are integers.                                 *)
LEMMA CoveredTerms ==
    ASSUME TypeOK, Books, NEW t \in Tokens
    PROVE  balance[t] \in Nat /\ orphaned[t] \in Nat /\ HeldIn(t) \in Int /\ AmountOf(Flying(t)) \in Nat
BY HeldInType, FlyingAmount DEF TypeOK

(* No step but a stray rescue of a token uncovers it.                      *)
LEMMA CoveredNext ==
    ASSUME TypeOK, TypeOK', Inv, Books, Books', Next,
           NEW t \in Tokens, Covered(t), ~ExecuteStrayRescue(t)
    PROVE  Covered(t)'
<1>1. /\ balance[t] \in Nat /\ orphaned[t] \in Nat /\ HeldIn(t) \in Int /\ AmountOf(Flying(t)) \in Nat
      /\ balance[t] >= HeldIn(t) + orphaned[t] + AmountOf(Flying(t))
  BY CoveredTerms DEF Covered
<1>2. ASSUME UNCHANGED <<commits, drawn, flight, orphaned>>, balance'[t] \in Int, balance'[t] >= balance[t]
      PROVE  Covered(t)'
  <2>1. HeldIn(t)' = HeldIn(t)
    BY <1>2, HeldSame DEF Held
  <2>2. AmountOf(Flying(t))' = AmountOf(Flying(t))
    BY <1>2, FlyingSame
  <2> QED
    BY <1>1, <1>2, <2>1, <2>2 DEF Covered
<1>3. ASSUME NEW u \in Tokens, NEW amount \in Amounts, Rescue(u, amount) PROVE Covered(t)'
  <2> DEFINE rescued == Least(amount, Least(orphaned[u], Loose(u)))
  <2>1. /\ orphaned' = [orphaned EXCEPT ![u] = @ - rescued]
        /\ balance' = [balance EXCEPT ![u] = @ - rescued]
        /\ UNCHANGED <<commits, drawn, flight>>
    BY <1>3 DEF Rescue, rowVars, settlementVars
  <2>2. rescued \in Int
    BY BoundsAssumption DEF Least, Loose, Monus, TypeOK
  <2> HIDE DEF rescued
  <2>3. HeldIn(t)' = HeldIn(t) /\ AmountOf(Flying(t))' = AmountOf(Flying(t))
    BY <2>1, HeldSame, FlyingSame DEF Held
  <2>4. /\ orphaned'[t] = IF t = u THEN orphaned[t] - rescued ELSE orphaned[t]
        /\ balance'[t] = IF t = u THEN balance[t] - rescued ELSE balance[t]
    BY <2>1 DEF TypeOK
  <2> QED
    BY <1>1, <2>2, <2>3, <2>4 DEF Covered
<1>4. CASE Owner
  <2>1. ASSUME NEW u \in Tokens, ExecuteStrayRescue(u) PROVE Covered(t)'
    <3>1. u # t
      BY <2>1
    <3>2. /\ UNCHANGED <<commits, drawn, flight, orphaned>>
          /\ balance'[t] = balance[t]
      BY <2>1, <3>1 DEF ExecuteStrayRescue, TypeOK, rowVars, settlementVars
    <3> QED
      BY <1>1, <1>2, <3>2
  <2>2. ASSUME NEW u, NEW amount, NEW s,
               \/ EnableToken(u) \/ CancelStrayRescue(u) \/ QueueStrayRescue(u, amount)
               \/ QueueComposeSource(s) \/ RemoveComposeSource(s)
        PROVE  Covered(t)'
    <3>1. UNCHANGED <<commits, drawn, flight, orphaned, balance>>
      BY <2>2 DEF EnableToken, CancelStrayRescue, QueueStrayRescue, QueueComposeSource,
                  RemoveComposeSource, rowVars, settlementVars
    <3> QED
      BY <1>1, <1>2, <3>1
  <2> QED
    BY <1>3, <1>4, <2>1, <2>2 DEF Owner
<1>5. ASSUME NEW u \in Tokens, NEW amount \in Amounts, Donate(u, amount) PROVE Covered(t)'
  <2>1. /\ UNCHANGED <<commits, drawn, flight, orphaned>>
        /\ balance' = [balance EXCEPT ![u] = @ + amount] /\ amount \in Nat
    BY <1>5, BoundsAssumption DEF Donate, Arrive, rowVars, settlementVars
  <2>2. balance'[t] \in Int /\ balance'[t] >= balance[t]
    BY <2>1 DEF TypeOK
  <2> QED
    BY <1>2, <2>1, <2>2
<1>6. ASSUME NEW u \in Tokens, NEW amount \in Amounts, NEW c \in Commitments, HandleV3AcrossMessage(u, amount, c)
      PROVE  Covered(t)'
  <2> DEFINE row == Row(c.order, c.beneficiary, u)
  <2>1. /\ Credit(c, u, amount) /\ UNCHANGED <<flight, drawn, orphaned>> /\ amount \in Nat
        /\ balance' = [balance EXCEPT ![u] = @ + amount]
    BY <1>6, BoundsAssumption DEF HandleV3AcrossMessage, Arrive, settlementVars
  <2>2. /\ row \in Rows /\ row.token = u /\ Held(row)' = Held(row) + amount
        /\ \A r \in Rows \ {row} : Held(r)' = Held(r)
    BY <2>1, CreditRow
  <2> HIDE DEF row
  <2>3. HeldIn(t)' = IF t = u THEN HeldIn(t) + (Held(row)' - Held(row)) ELSE HeldIn(t)
    BY <2>2, RowStep
  <2>4. Held(row) \in Int /\ AmountOf(Flying(t))' = AmountOf(Flying(t))
    BY <2>1, <2>2, RowTerms, FlyingSame
  <2>5. balance'[t] = IF t = u THEN balance[t] + amount ELSE balance[t]
    BY <2>1 DEF TypeOK
  <2> QED
    BY <1>1, <2>1, <2>2, <2>3, <2>4, <2>5 DEF Covered
<1>7. ASSUME NEW s \in Sources, NEW amount \in Amounts, NEW note \in Commitments \cup {Garbled, Headless},
             LzReceive(s, amount, note)
      PROVE  Covered(t)'
  <2>1. PICK m \in Messages : /\ flight' = flight \cup {m} /\ m.source = s /\ m.amount = amount
    <3> DEFINE m == [id |-> arrivals + 1, source |-> s, amount |-> amount, at |-> now, note |-> note]
    <3>1. m \in Messages
      BY BoundsAssumption DEF Messages, TypeOK
    <3>2. flight' = flight \cup {m} /\ m.source = s /\ m.amount = amount
      BY <1>7 DEF LzReceive
    <3> QED
      BY <3>1, <3>2
  <2>2. /\ UNCHANGED <<commits, drawn, orphaned>> /\ amount \in Nat
        /\ balance' = [balance EXCEPT ![Delivers[s]] = @ + amount]
    BY <1>7, BoundsAssumption DEF LzReceive, Arrive, rowVars, settlementVars
  <2>3. /\ AmountOf(Flying(t))' \in Int
        /\ AmountOf(Flying(t))' <= AmountOf(Flying(t)) + (IF Delivers[s] = t THEN amount ELSE 0)
    BY <2>1, FlyingAdd
  <2>4. HeldIn(t)' = HeldIn(t)
    BY <2>2, HeldSame DEF Held
  <2>5. balance'[t] = IF Delivers[s] = t THEN balance[t] + amount ELSE balance[t]
    BY <2>2, BoundsAssumption DEF TypeOK
  <2> QED
    BY <1>1, <2>2, <2>3, <2>4, <2>5 DEF Covered
<1>8. ASSUME NEW m \in flight, LzCompose(m) PROVE Covered(t)'
  <2>0. PICK u \in Tokens : u = Delivers[m.source]
    BY BoundsAssumption DEF TypeOK, Messages
  <2>1. /\ flight' = flight \ {m} /\ UNCHANGED <<drawn, balance>> /\ m.amount \in Nat
    BY <1>8 DEF LzCompose, settlementVars, TypeOK, Messages
  <2>2. AmountOf(Flying(t))' = AmountOf(Flying(t)) - (IF u = t THEN m.amount ELSE 0)
    BY <2>0, <2>1, FlyingRemove
  <2>3. CASE m.note \in Commitments /\ u \in enabled
    <3> DEFINE row == Row(m.note.order, m.note.beneficiary, u)
    <3>1. Credit(m.note, u, m.amount) /\ orphaned' = orphaned
      BY <1>8, <2>0, <2>3 DEF LzCompose
    <3>2. /\ row \in Rows /\ row.token = u /\ Held(row)' = Held(row) + m.amount
          /\ \A r \in Rows \ {row} : Held(r)' = Held(r)
      BY <2>1, <2>3, <3>1, CreditRow
    <3> HIDE DEF row
    <3>3. HeldIn(t)' = IF t = u THEN HeldIn(t) + (Held(row)' - Held(row)) ELSE HeldIn(t)
      BY <3>2, RowStep
    <3>4. Held(row) \in Int
      BY <3>2, RowTerms
    <3> QED
      BY <1>1, <2>1, <2>2, <3>1, <3>2, <3>3, <3>4 DEF Covered
  <2>4. CASE ~(m.note \in Commitments /\ u \in enabled)
    <3>1. /\ commits' = commits
          /\ orphaned' = orphaned \/ orphaned' = [orphaned EXCEPT ![u] = @ + m.amount]
      BY <1>8, <2>0, <2>4 DEF LzCompose
    <3>2. HeldIn(t)' = HeldIn(t)
      BY <2>1, <3>1, HeldSame DEF Held
    <3>3. orphaned'[t] \in Int /\ orphaned'[t] <= orphaned[t] + (IF u = t THEN m.amount ELSE 0)
      BY <2>1, <3>1 DEF TypeOK
    <3> QED
      BY <1>1, <2>1, <2>2, <3>2, <3>3 DEF Covered
  <2> QED
    BY <2>3, <2>4
<1>9. ASSUME NEW o \in Orders, Sync(o) PROVE Covered(t)'
  <2>1. PICK row \in Rows : /\ commits' = [commits EXCEPT ![row].spentAccounted = Spent(row)]
    BY <1>9 DEF Sync, TypeOK
  <2>2. UNCHANGED <<drawn, flight, orphaned, balance>>
    BY <1>9 DEF Sync, settlementVars
  <2>3. \A r \in Rows : Held(r)' = Held(r)
    BY <2>1, <2>2 DEF Held, TypeOK, Commit
  <2> QED
    BY <1>1, <2>2, <2>3, HeldSame, FlyingSame DEF Covered
<1>10. ASSUME NEW o \in Orders, NEW b \in Beneficiaries, Activate(o, b) PROVE Covered(t)'
  <2>1. PICK row \in Rows : commits' = [commits EXCEPT ![row].approved = TRUE, ![row].deadline = Terms[o].expiry]
    BY <1>10, RowType, TermsType DEF Activate
  <2>2. UNCHANGED <<drawn, flight, orphaned, balance>>
    BY <1>10 DEF Activate
  <2>3. \A r \in Rows : Held(r)' = Held(r)
    BY <2>1, <2>2 DEF Held, TypeOK, Commit
  <2> QED
    BY <1>1, <2>2, <2>3, HeldSame, FlyingSame DEF Covered
<1>11. ASSUME NEW o \in Orders, NEW amount \in Amounts, Fill(o, amount) PROVE Covered(t)'
  <2>1. filled[o] \in Nat /\ amount \in Nat /\ Fillable(o)
    BY <1>11, BoundsAssumption DEF TypeOK, Fill
  <2>2. activeRow[o] # None
    BY <2>1, TermsType DEF Inv, OrderSound, Backs, Fillable
  <2>3. PICK row \in Rows : row = activeRow[o] /\ row.token = Terms[o].token
    BY <2>2 DEF Inv, OrderSound, Backs
  <2>4. /\ balance' = [balance EXCEPT ![row.token] = @ - amount]
        /\ drawn' = [drawn EXCEPT ![row] = @ + amount]
        /\ UNCHANGED <<commits, flight, orphaned>>
    BY <1>11, <2>2, <2>3 DEF Fill, rowVars
  <2>5. Held(row)' = Held(row) - amount /\ \A r \in Rows \ {row} : Held(r)' = Held(r)
    <3>1. commits[row].credited \in Nat /\ commits[row].refunded \in Nat /\ drawn[row] \in Nat
      BY DEF TypeOK, Commit
    <3>2. drawn'[row] = drawn[row] + amount /\ \A r \in Rows \ {row} : drawn'[r] = drawn[r]
      BY <2>4 DEF TypeOK
    <3> QED
      BY <2>1, <2>4, <3>1, <3>2 DEF Held
  <2>6. HeldIn(t)' = IF t = row.token THEN HeldIn(t) + (Held(row)' - Held(row)) ELSE HeldIn(t)
    BY <2>5, RowStep
  <2>7. Held(row) \in Int /\ AmountOf(Flying(t))' = AmountOf(Flying(t))
    BY <2>4, RowTerms, FlyingSame
  <2>8. balance'[t] = IF t = row.token THEN balance[t] - amount ELSE balance[t]
    BY <2>4 DEF TypeOK
  <2> QED
    BY <1>1, <2>1, <2>4, <2>5, <2>6, <2>7, <2>8 DEF Covered
<1>12. ASSUME NEW row \in Rows, Settle(row) \/ SettleExpired(row) PROVE Covered(t)'
  <2>1. SettleRow(row) /\ UNCHANGED <<drawn, flight, orphaned>>
    BY <1>12 DEF Settle, SettleExpired
  <2>2. /\ Refund(row) \in Nat /\ Held(row)' = Held(row) - Refund(row)
        /\ \A r \in Rows \ {row} : Held(r)' = Held(r)
        /\ balance' = [balance EXCEPT ![row.token] = @ - Refund(row)]
    BY <2>1, SettledRow
  <2>3. HeldIn(t)' = IF t = row.token THEN HeldIn(t) + (Held(row)' - Held(row)) ELSE HeldIn(t)
    BY <2>2, RowStep
  <2>4. Held(row) \in Int /\ AmountOf(Flying(t))' = AmountOf(Flying(t))
    BY <2>1, RowTerms, FlyingSame
  <2>5. balance'[t] = IF t = row.token THEN balance[t] - Refund(row) ELSE balance[t]
    BY <2>2 DEF TypeOK
  <2> QED
    BY <1>1, <2>1, <2>2, <2>3, <2>4, <2>5 DEF Covered
<1>13. CASE Bridges
  BY <1>5, <1>6, <1>7, <1>8, <1>13 DEF Bridges
<1>14. CASE Anyone
  <2>1. ASSUME NEW s, ApplyComposeSource(s) PROVE Covered(t)'
    <3>1. UNCHANGED <<commits, drawn, flight, orphaned, balance>>
      BY <2>1 DEF ApplyComposeSource, rowVars, settlementVars
    <3> QED
      BY <1>1, <1>2, <3>1
  <2> QED
    BY <1>9, <1>10, <1>11, <1>12, <1>14, <2>1 DEF Anyone
<1>15. CASE Tick
  <2>1. UNCHANGED <<commits, drawn, flight, orphaned, balance>>
    BY <1>15 DEF Tick, rowVars, settlementVars
  <2> QED
    BY <1>1, <1>2, <2>1
<1> QED
  BY <1>4, <1>13, <1>14, <1>15 DEF Next

(* The pool stays covered through everything but a stray rescue, and no    *)
(* rescue reaches what rows hold, nor a stray one the announced orphans.   *)
THEOREM PoolStaysBacked == Spec => Backed
<1>1. ASSUME TypeOK, Inv, Books, NEW t \in Tokens, NEW amount \in Amounts, Rescue(t, amount)
      PROVE  balance'[t] >= HeldIn(t)
  <2>1. HeldIn(t) \in Int /\ HeldIn(t) <= liability[t]
    BY <1>1, HeldBounds
  <2>2. balance[t] \in Nat /\ liability[t] \in Nat /\ orphaned[t] \in Nat /\ amount \in Nat
    BY <1>1, BoundsAssumption DEF TypeOK
  <2> DEFINE rescued == Least(amount, Least(orphaned[t], Loose(t)))
  <2>3. rescued > 0 /\ balance'[t] = balance[t] - rescued
    BY <1>1 DEF Rescue, TypeOK
  <2> QED
    BY <2>1, <2>2, <2>3 DEF Least, Loose, Monus
<1>2. ASSUME TypeOK, Inv, Books, NEW t \in Tokens, ExecuteStrayRescue(t)
      PROVE  balance'[t] >= HeldIn(t) + orphaned[t]
  <2>1. HeldIn(t) \in Int /\ HeldIn(t) <= liability[t]
    BY <1>2, HeldBounds
  <2>2. balance[t] \in Nat /\ liability[t] \in Nat /\ orphaned[t] \in Nat /\ strayRescue[t].amount \in Nat
    BY <1>2 DEF TypeOK
  <2> DEFINE rescued == Least(strayRescue[t].amount, StrayBalance(t))
  <2>3. rescued > 0 /\ balance'[t] = balance[t] - rescued
    BY <1>2 DEF ExecuteStrayRescue, TypeOK
  <2> QED
    BY <2>1, <2>2, <2>3 DEF Least, StrayBalance, Loose, Monus
<1>3. TypeOK /\ TypeOK' /\ Inv /\ Books /\ Books' /\ [Next]_vars =>
        [\A t \in Tokens :
           /\ Covered(t) /\ ~ExecuteStrayRescue(t) => Covered(t)'
           /\ \A amount \in Amounts : Rescue(t, amount) => balance'[t] >= HeldIn(t)
           /\ ExecuteStrayRescue(t) => balance'[t] >= HeldIn(t) + orphaned[t]]_vars
  BY <1>1, <1>2, CoveredNext
<1> QED
  BY <1>3, TypeCorrect, Invariant, BooksBalance, PTL DEF Spec, Backed
=============================================================================

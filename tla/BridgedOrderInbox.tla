-------------------------- MODULE BridgedOrderInbox --------------------------
(***************************************************************************)
(* BridgedOrderInbox.sol: the destination end of a cross-chain order.  It  *)
(* pools the tokens bridges deliver, keeps a row per commitment, approves  *)
(* the order a row can fund, and refunds what no fill took.                *)
(*                                                                         *)
(* Settlement pulls a fill's input without consulting a row, so the rows   *)
(* follow the pool only through `filled`.  On the LayerZero path tokens    *)
(* arrive first and the message that says whose they are later, or never.  *)
(* A fill is one step here: OrderFills models what may happen inside one.  *)
(***************************************************************************)
EXTENDS Integers, FiniteSets, Functions

CONSTANTS
    Tokens,
    Orders,         \* destination orders, by hash
    Terms,          \* Orders -> [anchor, token, expiry, shape]
    Beneficiaries,
    Commitments,    \* commitments anybody may write: order, beneficiary, expiry
    Garbled,        \* a payload lzCompose cannot accept
    Headless,       \* a message lzCompose cannot even read an amount from
    Sources,        \* LayerZero compose senders
    Delivers,       \* Sources -> the token it delivers
    Delay,          \* COMPOSE_SOURCE_DELAY
    MaxUint,        \* the sentinel of `filled`
    None,
    Amounts,        \* amounts delivered, filled and rescued
    StrayAmounts,   \* amounts queued for a stray rescue
    MaxArrivals,    \* bound: deliveries of any kind
    MaxTime         \* bound: the clock

(* shape is _staticShapeOk; an order without it is never approved.         *)
ASSUME TermsAssumption ==
    \A o \in Orders :
      /\ Terms[o].anchor \in Nat /\ 0 < Terms[o].anchor /\ Terms[o].anchor < MaxUint
      /\ Terms[o].token \in Tokens /\ Terms[o].expiry \in Nat /\ Terms[o].shape \in BOOLEAN

ASSUME BoundsAssumption ==
    /\ Amounts \subseteq Nat /\ StrayAmounts \subseteq Nat /\ Delay \in Nat \ {0}
    /\ MaxArrivals \in Nat /\ MaxTime \in Nat /\ MaxUint \in Nat
    /\ Delivers \in [Sources -> Tokens]
    /\ \A c \in Commitments : /\ c.order \in Orders /\ c.beneficiary \in Beneficiaries
                              /\ c.expiry \in Nat

ASSUME FiniteAssumption == IsFiniteSet(Orders) /\ IsFiniteSet(Beneficiaries)

VARIABLES
    commits,        \* a Commit per row
    activeRow,      \* the row funding an order, or None
    liability,      \* by token, what the rows are still owed
    orphaned,       \* by token, what an Orphaned event announced
    strayRescue,    \* by token, the queued stray rescue: eta (0 none), amount
    enabled,        \* tokens wired for settlement
    live,           \* registered compose sources
    pending,        \* by source, when its queued registration may apply, 0 none
    balance,        \* by token, what the inbox holds
    flight,         \* messages delivered by lzReceive and not yet composed
    filled,         \* Settlement.filled
    orderApproved,  \* Settlement.orderApproved of the inbox
    now,
    arrivals,       \* deliveries so far
    drawn,          \* ghost: by row, what fills drew while it was active
    cleared         \* ghost: by source, when it was last removed

rowVars == <<commits, activeRow, liability>>
ownerVars == <<strayRescue, enabled, live, pending, cleared>>
settlementVars == <<filled, orderApproved, drawn>>
vars == <<commits, activeRow, liability, orphaned, strayRescue, enabled, live, pending,
          balance, flight, filled, orderApproved, now, arrivals, drawn, cleared>>

(* commitKey: a row is the whole commitment.                               *)
Rows == [order : Orders, beneficiary : Beneficiaries, token : Tokens]

ASSUME NoneAssumption == None \notin Rows

Row(o, b, t) == [order |-> o, beneficiary |-> b, token |-> t]

Commit == [credited : Nat, spentAccounted : Nat, refunded : Nat,
           expiry : Nat, deadline : Nat, approved : BOOLEAN]

Messages == [id : Nat, source : Sources, amount : Nat, at : Nat,
             note : Commitments \cup {Garbled, Headless}]

NewCommit == [credited |-> 0, spentAccounted |-> 0, refunded |-> 0,
              expiry |-> 0, deadline |-> 0, approved |-> FALSE]

NoRescue == [eta |-> 0, amount |-> 0]

Least(a, b) == IF a < b THEN a ELSE b
Monus(a, b) == IF a > b THEN a - b ELSE 0

Init ==
    /\ commits = [r \in Rows |-> NewCommit]
    /\ activeRow = [o \in Orders |-> None]
    /\ liability = [t \in Tokens |-> 0]
    /\ orphaned = [t \in Tokens |-> 0]
    /\ strayRescue = [t \in Tokens |-> NoRescue]
    /\ enabled = {}
    /\ live = {}
    /\ pending = [s \in Sources |-> 0]
    /\ balance = [t \in Tokens |-> 0]
    /\ flight = {}
    /\ filled = [o \in Orders |-> 0]
    /\ orderApproved = {}
    /\ now = 1
    /\ arrivals = 0
    /\ drawn = [r \in Rows |-> 0]
    /\ cleared = [s \in Sources |-> 0]

-----------------------------------------------------------------------------
(* Administration: enableToken, setComposeSource, applyComposeSource       *)

EnableToken(t) ==
    /\ t \notin enabled
    /\ enabled' = enabled \cup {t}
    /\ UNCHANGED <<rowVars, orphaned, strayRescue, live, pending, cleared, balance, flight,
                   settlementVars, now, arrivals>>

QueueComposeSource(s) ==
    /\ pending' = [pending EXCEPT ![s] = now + Delay]
    /\ UNCHANGED <<rowVars, orphaned, strayRescue, enabled, live, cleared, balance, flight,
                   settlementVars, now, arrivals>>

(* Mutant: a removal leaves the queued registration standing.              *)
RemoveLiveSource(s) ==
    /\ live' = live \ {s}
    /\ cleared' = [cleared EXCEPT ![s] = now]
    /\ UNCHANGED <<rowVars, orphaned, strayRescue, enabled, pending, balance, flight,
                   settlementVars, now, arrivals>>

(* setComposeSource with no token: at once, and cancels what is queued.    *)
RemoveComposeSource(s) ==
    /\ live' = live \ {s}
    /\ pending' = [pending EXCEPT ![s] = 0]
    /\ cleared' = [cleared EXCEPT ![s] = now]
    /\ UNCHANGED <<rowVars, orphaned, strayRescue, enabled, balance, flight,
                   settlementVars, now, arrivals>>

ApplyComposeSource(s) ==
    /\ pending[s] # 0 /\ now >= pending[s]
    /\ pending' = [pending EXCEPT ![s] = 0]
    /\ live' = live \cup {s}
    /\ UNCHANGED <<rowVars, orphaned, strayRescue, enabled, cleared, balance, flight,
                   settlementVars, now, arrivals>>

-----------------------------------------------------------------------------
(* Deliveries                                                              *)

Arrive(t, amount) ==
    /\ arrivals < MaxArrivals
    /\ arrivals' = arrivals + 1
    /\ balance' = [balance EXCEPT ![t] = @ + amount]

(* _credit: additive, the fallback unlock is the latest of all credits,    *)
(* and a credit of nothing moves nothing.                                  *)
Credit(c, t, amount) ==
    LET r == Row(c.order, c.beneficiary, t)
    IN  IF amount = 0 THEN UNCHANGED <<commits, liability>>
        ELSE /\ commits' = [commits EXCEPT ![r].credited = @ + amount,
                                ![r].expiry = IF c.expiry > @ THEN c.expiry ELSE @]
             /\ liability' = [liability EXCEPT ![t] = @ + amount]

(* handleV3AcrossMessage: tokens and message in one transaction.           *)
HandleV3AcrossMessage(t, amount, c) ==
    /\ t \in enabled
    /\ Arrive(t, amount)
    /\ Credit(c, t, amount)
    /\ UNCHANGED <<activeRow, orphaned, ownerVars, flight, settlementVars, now>>

(* lzReceive, outside the inbox: the tokens land and a compose is queued,  *)
(* whether or not its source is registered.                                *)
LzReceive(s, amount, note) ==
    /\ Arrive(Delivers[s], amount)
    /\ flight' = flight \cup {[id |-> arrivals + 1, source |-> s, amount |-> amount,
                               at |-> now, note |-> note]}
    /\ UNCHANGED <<rowVars, orphaned, ownerVars, settlementVars, now>>

(* Tokens nobody announces: a gift, an Across deposit without a message.   *)
Donate(t, amount) ==
    /\ Arrive(t, amount)
    /\ UNCHANGED <<rowVars, orphaned, ownerVars, flight, settlementVars, now>>

(* lzCompose: never fails on what the message says.  What it cannot credit *)
(* it announces as an orphan, if it can tell the amount.                   *)
LzCompose(m) ==
    LET t == Delivers[m.source]
        good == m.note \in Commitments /\ t \in enabled
    IN  /\ m.source \in live
        /\ flight' = flight \ {m}
        /\ IF good THEN Credit(m.note, t, m.amount) ELSE UNCHANGED <<commits, liability>>
        /\ orphaned' = IF good \/ m.note = Headless THEN orphaned
                       ELSE [orphaned EXCEPT ![t] = @ + m.amount]
        /\ UNCHANGED <<activeRow, ownerVars, balance, settlementVars, now, arrivals>>

-----------------------------------------------------------------------------
(* Activation and fills                                                    *)

(* Mutant: what was already refunded is counted again.                     *)
ActivateOnCredited(o, b) ==
    LET r == Row(o, b, Terms[o].token)
    IN  /\ Terms[o].shape /\ Terms[o].expiry > now
        /\ r.token \in enabled
        /\ activeRow[o] \in {None, r}
        /\ commits[r].credited >= Terms[o].anchor
        /\ commits' = [commits EXCEPT ![r].approved = TRUE, ![r].deadline = Terms[o].expiry]
        /\ activeRow' = [activeRow EXCEPT ![o] = r]
        /\ orderApproved' = orderApproved \cup {o}
        /\ UNCHANGED <<liability, orphaned, ownerVars, balance, flight, filled, now,
                       arrivals, drawn>>

(* activate: a live order of the one shape, from the row that holds its    *)
(* anchor now, unless another row is funding it.                           *)
Activate(o, b) ==
    LET r == Row(o, b, Terms[o].token)
    IN  /\ Terms[o].shape /\ Terms[o].expiry > now
        /\ commits[r].credited # 0
        /\ r.token \in enabled
        /\ activeRow[o] \in {None, r}
        /\ commits[r].credited - commits[r].refunded >= Terms[o].anchor
        /\ commits' = [commits EXCEPT ![r].approved = TRUE, ![r].deadline = Terms[o].expiry]
        /\ activeRow' = [activeRow EXCEPT ![o] = r]
        /\ orderApproved' = orderApproved \cup {o}
        /\ UNCHANGED <<liability, orphaned, ownerVars, balance, flight, filled, now,
                       arrivals, drawn>>

(* Whether Settlement still lets somebody fill an order of the inbox: by   *)
(* its approval, or, after a first fill, by nothing at all.                *)
Fillable(o) ==
    /\ o \in orderApproved \/ filled[o] # 0
    /\ filled[o] < Terms[o].anchor
    /\ now <= Terms[o].expiry

(* A fill: Settlement counts it and pulls as much from the inbox.          *)
Fill(o, amount) ==
    /\ Fillable(o)
    /\ amount > 0 /\ filled[o] + amount <= Terms[o].anchor
    /\ balance[Terms[o].token] >= amount
    /\ filled' = [filled EXCEPT ![o] = @ + amount]
    /\ balance' = [balance EXCEPT ![Terms[o].token] = @ - amount]
    /\ drawn' = IF activeRow[o] = None THEN drawn
                ELSE [drawn EXCEPT ![activeRow[o]] = @ + amount]
    /\ UNCHANGED <<rowVars, orphaned, ownerVars, flight, orderApproved, now, arrivals>>

-----------------------------------------------------------------------------
(* Reconciliation and refunds                                              *)

(* _sync: what `filled` says was spent, of an approved row, clamped in     *)
(* case `filled` is the sentinel.                                          *)
Spent(r) ==
    IF commits[r].approved THEN Least(filled[r.order], commits[r].credited)
    ELSE commits[r].spentAccounted

(* Each subtraction is checked: one that would go below zero reverts.      *)
Unsynced(r) == Spent(r) - commits[r].spentAccounted

Refund(r) == commits[r].credited - Spent(r) - commits[r].refunded

SyncFits(r) == Unsynced(r) >= 0 /\ liability[r.token] >= Unsynced(r)

SettleFits(r) ==
    /\ Unsynced(r) >= 0 /\ Refund(r) >= 0
    /\ liability[r.token] >= Unsynced(r) + Refund(r)
    /\ balance[r.token] >= Refund(r)

Sync(o) ==
    /\ activeRow[o] # None
    /\ LET r == activeRow[o]
       IN  /\ SyncFits(r)
           /\ commits' = [commits EXCEPT ![r].spentAccounted = Spent(r)]
           /\ liability' = [liability EXCEPT ![r.token] = @ - Unsynced(r)]
    /\ UNCHANGED <<activeRow, orphaned, ownerVars, balance, flight, settlementVars, now,
                   arrivals>>

RefundAfter(r) ==
    IF commits[r].deadline # 0 THEN commits[r].deadline ELSE commits[r].expiry

(* Withdrawn from Settlement: a part-filled order dies of it.              *)
RevokeOrderApproval(o) ==
    /\ orderApproved' = orderApproved \ {o}
    /\ filled' = IF o \in orderApproved /\ filled[o] # 0
                 THEN [filled EXCEPT ![o] = MaxUint] ELSE filled

SettleRowKeepsApproval(r) ==
    /\ commits[r].credited # 0
    /\ SettleFits(r)
    /\ commits' = [commits EXCEPT ![r].spentAccounted = Spent(r),
                                  ![r].refunded = @ + Refund(r), ![r].approved = FALSE]
    /\ liability' = [liability EXCEPT ![r.token] = @ - Unsynced(r) - Refund(r)]
    /\ balance' = [balance EXCEPT ![r.token] = @ - Refund(r)]
    /\ activeRow' = IF commits[r].approved THEN [activeRow EXCEPT ![r.order] = None]
                    ELSE activeRow
    /\ UNCHANGED <<filled, orderApproved>>

SettleRowStaysActive(r) ==
    /\ commits[r].credited # 0
    /\ SettleFits(r)
    /\ commits' = [commits EXCEPT ![r].spentAccounted = Spent(r), ![r].refunded = @ + Refund(r)]
    /\ liability' = [liability EXCEPT ![r.token] = @ - Unsynced(r) - Refund(r)]
    /\ balance' = [balance EXCEPT ![r.token] = @ - Refund(r)]
    /\ UNCHANGED activeRow
    /\ IF commits[r].approved THEN RevokeOrderApproval(r.order)
       ELSE UNCHANGED <<filled, orderApproved>>

(* _settle: sync, refund the rest to the beneficiary, free the order.      *)
SettleRow(r) ==
    /\ commits[r].credited # 0
    /\ SettleFits(r)
    /\ commits' = [commits EXCEPT ![r].spentAccounted = Spent(r),
                                  ![r].refunded = @ + Refund(r), ![r].approved = FALSE]
    /\ liability' = [liability EXCEPT ![r.token] = @ - Unsynced(r) - Refund(r)]
    /\ balance' = [balance EXCEPT ![r.token] = @ - Refund(r)]
    /\ IF commits[r].approved
       THEN /\ activeRow' = [activeRow EXCEPT ![r.order] = None]
            /\ RevokeOrderApproval(r.order)
       ELSE UNCHANGED <<activeRow, filled, orderApproved>>

Settle(r) ==
    /\ now > RefundAfter(r)
    /\ SettleRow(r)
    /\ UNCHANGED <<orphaned, ownerVars, flight, drawn, now, arrivals>>

(* settleExpired: for an order that can no longer, or never, be filled out *)
(* of the row, whatever the row's own fallback says.                       *)
SettleExpired(r) ==
    /\ ~(/\ Terms[r.order].shape /\ Terms[r.order].expiry > now
         /\ r.token = Terms[r.order].token)
    /\ SettleRow(r)
    /\ UNCHANGED <<orphaned, ownerVars, flight, drawn, now, arrivals>>

-----------------------------------------------------------------------------
(* Rescues                                                                 *)

Loose(t) == Monus(balance[t], liability[t])

StrayBalance(t) == Monus(Loose(t), orphaned[t])

(* Mutant: bounded by what looks loose, not by what was announced.         *)
RescueLoose(t, amount) ==
    LET rescued == Least(amount, Loose(t))
    IN  /\ rescued > 0
        /\ orphaned' = [orphaned EXCEPT ![t] = Monus(@, rescued)]
        /\ balance' = [balance EXCEPT ![t] = @ - rescued]
        /\ UNCHANGED <<rowVars, ownerVars, flight, settlementVars, now, arrivals>>

(* rescue: announced orphans only, and never what rows are owed.           *)
Rescue(t, amount) ==
    LET rescued == Least(amount, Least(orphaned[t], Loose(t)))
    IN  /\ rescued > 0
        /\ orphaned' = [orphaned EXCEPT ![t] = @ - rescued]
        /\ balance' = [balance EXCEPT ![t] = @ - rescued]
        /\ UNCHANGED <<rowVars, ownerVars, flight, settlementVars, now, arrivals>>

QueueStrayRescue(t, amount) ==
    /\ strayRescue' = [strayRescue EXCEPT ![t] = [eta |-> now + Delay, amount |-> amount]]
    /\ UNCHANGED <<rowVars, orphaned, enabled, live, pending, cleared, balance, flight,
                   settlementVars, now, arrivals>>

CancelStrayRescue(t) ==
    /\ strayRescue' = [strayRescue EXCEPT ![t] = NoRescue]
    /\ UNCHANGED <<rowVars, orphaned, enabled, live, pending, cleared, balance, flight,
                   settlementVars, now, arrivals>>

(* Mutant: takes the queued amount, bounded only by the balance.           *)
ExecuteStrayRescueUnbounded(t) ==
    LET p == strayRescue[t]
        rescued == Least(p.amount, balance[t])
    IN  /\ p.eta # 0 /\ now >= p.eta
        /\ rescued > 0
        /\ strayRescue' = [strayRescue EXCEPT ![t] = NoRescue]
        /\ balance' = [balance EXCEPT ![t] = @ - rescued]
        /\ UNCHANGED <<rowVars, orphaned, enabled, live, pending, cleared, flight,
                       settlementVars, now, arrivals>>

(* executeStrayRescue: the bound is taken now, not when it was queued.     *)
ExecuteStrayRescue(t) ==
    LET p == strayRescue[t]
        rescued == Least(p.amount, StrayBalance(t))
    IN  /\ p.eta # 0 /\ now >= p.eta
        /\ rescued > 0
        /\ strayRescue' = [strayRescue EXCEPT ![t] = NoRescue]
        /\ balance' = [balance EXCEPT ![t] = @ - rescued]
        /\ UNCHANGED <<rowVars, orphaned, enabled, live, pending, cleared, flight,
                       settlementVars, now, arrivals>>

Tick ==
    /\ now < MaxTime
    /\ now' = now + 1
    /\ UNCHANGED <<rowVars, orphaned, ownerVars, balance, flight, settlementVars, arrivals>>

-----------------------------------------------------------------------------
Owner ==
    \/ \E t \in Tokens :
         \/ EnableToken(t)
         \/ CancelStrayRescue(t)
         \/ ExecuteStrayRescue(t)
         \/ \E amount \in StrayAmounts : QueueStrayRescue(t, amount)
         \/ \E amount \in Amounts : Rescue(t, amount)
    \/ \E s \in Sources : QueueComposeSource(s) \/ RemoveComposeSource(s)

Bridges ==
    \/ \E t \in Tokens, amount \in Amounts :
         \/ Donate(t, amount)
         \/ \E c \in Commitments : HandleV3AcrossMessage(t, amount, c)
    \/ \E s \in Sources, amount \in Amounts, note \in Commitments \cup {Garbled, Headless} :
         LzReceive(s, amount, note)
    \/ \E m \in flight : LzCompose(m)

Anyone ==
    \/ \E s \in Sources : ApplyComposeSource(s)
    \/ \E o \in Orders :
         \/ Sync(o)
         \/ \E b \in Beneficiaries : Activate(o, b)
         \/ \E amount \in Amounts : Fill(o, amount)
    \/ \E r \in Rows : Settle(r) \/ SettleExpired(r)

Next == Owner \/ Bridges \/ Anyone \/ Tick

Spec == Init /\ [][Next]_vars

-----------------------------------------------------------------------------
(* What must hold                                                          *)

(* Types: no amount the contract keeps goes below zero.                    *)
TypeOK ==
    /\ commits \in [Rows -> Commit]
    /\ activeRow \in [Orders -> Rows \cup {None}]
    /\ liability \in [Tokens -> Nat] /\ orphaned \in [Tokens -> Nat]
    /\ strayRescue \in [Tokens -> [eta : Nat, amount : Nat]]
    /\ enabled \subseteq Tokens /\ live \subseteq Sources
    /\ pending \in [Sources -> Nat] /\ cleared \in [Sources -> Nat]
    /\ balance \in [Tokens -> Nat]
    /\ flight \subseteq Messages
    /\ filled \in [Orders -> Nat] /\ orderApproved \subseteq Orders
    /\ now \in Nat /\ arrivals \in Nat
    /\ drawn \in [Rows -> Nat]

RowsOf(t) == {r \in Rows : r.token = t}

(* What a row's beneficiary or its order may still take out of the pool.   *)
Held(r) == commits[r].credited - drawn[r] - commits[r].refunded

HeldIn(t) == SumFunction([r \in RowsOf(t) |-> Held(r)])

Flying(t) == {m \in flight : Delivers[m.source] = t}

AmountOf(messages) == SumFunction([m \in messages |-> m.amount])

(* An order that anybody may still fill is backed by exactly one row, and  *)
(* that row holds, net of refunds, all that fills ever take: the funding   *)
(* invariant of the contract, across refunds, re-credits, revocations and  *)
(* rival rows.                                                             *)
FillableIsFunded ==
    \A o \in Orders : Fillable(o) =>
        /\ activeRow[o] # None
        /\ commits[activeRow[o]].approved
        /\ commits[activeRow[o]].credited - commits[activeRow[o]].refunded >= Terms[o].anchor

(* No row pays for another: what fills drew on a row's account and what    *)
(* its beneficiary got back never exceed what was credited to it.          *)
RowIsolation ==
    \A r \in Rows : drawn[r] + commits[r].refunded <= commits[r].credited

(* The pool holds every row, every announced orphan and every delivery     *)
(* whose compose has not run.                                              *)
Covered(t) == balance[t] >= HeldIn(t) + orphaned[t] + AmountOf(Flying(t))

(* Whatever arrives, is filled, synced, refunded, orphaned or rescued, the *)
(* pool stays covered: only a stray rescue can take a delivery in flight,  *)
(* one that arrived after it was queued.  And a rescue never reaches what  *)
(* rows hold, a stray rescue not the announced orphans either, whatever    *)
(* was synced or not.                                                      *)
Backed ==
    [][\A t \in Tokens :
         /\ Covered(t) /\ ~ExecuteStrayRescue(t) => Covered(t)'
         /\ \A amount \in Amounts : Rescue(t, amount) => balance'[t] >= HeldIn(t)
         /\ ExecuteStrayRescue(t) => balance'[t] >= HeldIn(t) + orphaned[t]]_vars

(* Nobody's funds get stuck: once a row's gate is open and its token is    *)
(* covered, the refund call succeeds and returns all the row holds.        *)
AlwaysRefundable ==
    \A r \in Rows :
        commits[r].credited # 0 /\ now > RefundAfter(r) /\ Covered(r.token) =>
            SettleFits(r) /\ Refund(r) = Held(r)

(* Trust in a source is given only by a public wait of the full delay that *)
(* began after its last removal.                                           *)
NoSuddenTrust ==
    [][\A s \in live' \ live : now >= cleared[s] + Delay]_vars
=============================================================================

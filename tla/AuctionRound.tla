---------------------------- MODULE AuctionRound ----------------------------
(***************************************************************************)
(* The quote auction: auction/src/round.ts and auctioneer.ts, over the     *)
(* selection rule of sdk/src/auction.ts.                                   *)
(*                                                                         *)
(* Fillers bid a concession for one order; the lowest wins and, under the  *)
(* second-price rule, pays the runner-up's.  A submission is placed twice, *)
(* before and after the awaits that verify its signatures, and while it    *)
(* waits other submissions, the close, a settlement or a void may come.    *)
(* An order may have several rounds, one after the other.                  *)
(*                                                                         *)
(* A signature is the address it recovers to.  Left out: the progress a    *)
(* quote is bound to, the deadline of a quote.                             *)
(***************************************************************************)
EXTENDS Integers, Sequences, FiniteSets, SequencesExt, Functions

CONSTANTS
    Bids,           \* what clients submit
    Clients,        \* submissions that may wait at once
    MaxBids,        \* cap of the standing bids
    MinBidders,     \* fewer than this many fillers: no concession
    Vickrey,        \* second-price rule, else first-price
    BindToWinner,
    Closings,       \* Seq: closesAt of the rounds opened
    StaleAfter,     \* prune's olderThanSeconds
    MaxTime,        \* bound: the clock stops there
    AnyFiller,
    None

(* What a round is decided to be.  Fillers are numbered by their           *)
(* addresses.                                                              *)
Outcomes == [winner : Nat, bidders : Nat, winningBid : Nat, bump : Nat]
Results == [outcome : Outcomes, settledAt : Nat]

ASSUME RoundAssumption ==
    /\ MaxBids \in Nat /\ MinBidders \in 1..MaxBids
    /\ Vickrey => MaxBids >= 2
    /\ MaxTime \in Nat /\ StaleAfter \in Nat
    /\ Vickrey \in BOOLEAN /\ BindToWinner \in BOOLEAN

ASSUME BidsAssumption ==
    /\ \A b \in Bids : {b.filler, b.bump, b.closesAt} \subseteq Nat
    /\ Closings \in Seq(Nat)

ASSUME NoneAssumption == None \notin Outcomes \cup Results \cup Nat \cup [round : Nat, bid : Bids]

VARIABLES
    now,
    rounds,         \* every round opened, an index standing for the object
    current,        \* the round the auctioneer's map holds for the order, or 0
    flight,         \* Clients -> the round and the bid being verified, or None
    minting,        \* the round whose quote is being signed, or None
    quotes,         \* quotes handed out
    heard           \* ghost: the authentic bids each round had to decide upon

vars == <<now, rounds, current, flight, minting, quotes, heard>>

Init ==
    /\ now = 0 /\ rounds = <<>> /\ current = 0
    /\ flight = [c \in Clients |-> None] /\ minting = None
    /\ quotes = {} /\ heard = <<>>

-----------------------------------------------------------------------------
(* The selection rule.                                                     *)

(* compareBids: the lower bump, then the lower address.                    *)
Before(a, b) == a.bump < b.bump \/ (a.bump = b.bump /\ a.filler < b.filler)

Foremost(S) == CHOOSE a \in S : \A b \in S \ {a} : Before(a, b)

(* Every filler's best bid.                                                *)
Scores(bids) ==
    {[filler |-> b.filler, bump |-> b.bump] :
        b \in {b \in bids : \A c \in bids : c.filler = b.filler => b.bump <= c.bump}}

(* selectQuote: the foremost wins and, under the second-price rule, pays   *)
(* the runner-up's; None when there is no bid.                             *)
SelectQuote(bids) ==
    LET ranked == Scores(bids)
        n == Cardinality(ranked)
        winner == Foremost(ranked)
        runnerUp == Foremost(ranked \ {winner})
    IN  IF bids = {} THEN None
        ELSE [winner |-> winner.filler, bidders |-> n, winningBid |-> winner.bump,
              bump |-> IF n < MinBidders THEN 0
                       ELSE IF Vickrey /\ n > 1 THEN runnerUp.bump ELSE winner.bump]

(* verifyBid and verifyExecutor.                                           *)
Authentic(b) == b.signer = b.filler /\ (b.executor # None => b.declarer = b.filler)

(* executorOf                                                              *)
Presenter(b) == IF b.executor = None THEN b.filler ELSE b.executor

-----------------------------------------------------------------------------
(* One round.  Bids stand in the order in which they came.                 *)

Open(r) == ~rounds[r].voided /\ rounds[r].result = None
IsClosed(r) == now >= rounds[r].closesAt
Standing(r) == rounds[r].bids

Own(r, b) == {i \in DOMAIN Standing(r) : Standing(r)[i].filler = b.filler}

(* The highest standing bid, the last of several.                          *)
Worst(r) == CHOOSE i \in DOMAIN Standing(r) : \A j \in DOMAIN Standing(r) :
    \/ Standing(r)[j].bump < Standing(r)[i].bump
    \/ Standing(r)[j].bump = Standing(r)[i].bump /\ j <= i

(* Where the bid stands whose place b would take.  A filler has one bid; in*)
(* a full round another filler's takes the place of the worst.             *)
Displaced(r, b) ==
    IF Own(r, b) # {} THEN Own(r, b) ELSE IF Len(Standing(r)) < MaxBids THEN {} ELSE {Worst(r)}

(* Mutant: a filler may raise its bid again.                               *)
MayPlaceAnyRebid(r, b) == Own(r, b) # {} \/ \A i \in Displaced(r, b) : b.bump < Standing(r)[i].bump

(* placement: only a strictly lower bid displaces one.                     *)
MayPlace(r, b) == \A i \in Displaced(r, b) : b.bump < Standing(r)[i].bump

Placed(r, b) ==
    LET rest == IF Displaced(r, b) = {} THEN Standing(r)
                ELSE RemoveAt(Standing(r), CHOOSE i \in Displaced(r, b) : TRUE)
    IN  Append(rest, b)

Hear(r, b) == heard' = IF Authentic(b) THEN [heard EXCEPT ![r] = @ \cup {b}] ELSE heard

(* submit up to its first await: refused by the cheap checks, or waiting.  *)
Submit(c) == \E b \in Bids :
    /\ flight[c] = None /\ current # 0
    /\ Open(current) /\ ~IsClosed(current) /\ b.closesAt = rounds[current].closesAt
    /\ IF MayPlace(current, b)
       THEN flight' = [flight EXCEPT ![c] = [round |-> current, bid |-> b]] /\ UNCHANGED heard
       ELSE Hear(current, b) /\ UNCHANGED flight
    /\ UNCHANGED <<now, rounds, current, minting, quotes>>

(* Mutant: nothing is checked again after the awaits.                      *)
DecidedBefore(f) == TRUE

(* What submit checks again once the signatures are verified.              *)
StillDecides(f) == Open(f.round)

(* submit after its awaits.                                                *)
Verified(c) ==
    /\ flight[c] # None
    /\ flight' = [flight EXCEPT ![c] = None]
    /\ LET f == flight[c]
       IN  IF Authentic(f.bid) /\ StillDecides(f)
           THEN /\ rounds' = IF MayPlace(f.round, f.bid)
                             THEN [rounds EXCEPT ![f.round].bids = Placed(f.round, f.bid)] ELSE rounds
                /\ Hear(f.round, f.bid)
           ELSE UNCHANGED <<rounds, heard>>
    /\ UNCHANGED <<now, current, minting, quotes>>

-----------------------------------------------------------------------------
(* The auctioneer.                                                         *)

(* open: a round that is still open is returned as it is.                  *)
OpenRound ==
    /\ current # 0 => ~Open(current)
    /\ Len(rounds) < Len(Closings)
    /\ rounds' = Append(rounds, [closesAt |-> Closings[Len(rounds) + 1], bids |-> <<>>,
                                 voided |-> FALSE, result |-> None])
    /\ current' = Len(rounds) + 1
    /\ heard' = Append(heard, {})
    /\ UNCHANGED <<now, flight, minting, quotes>>

(* AuctionRound.settle freezes the round.                                  *)
Settled(r) ==
    LET o == SelectQuote(Range(Standing(r)))
    IN  IF Open(r) /\ o # None
        THEN [rounds EXCEPT ![r].result = [outcome |-> o, settledAt |-> now]]
        ELSE rounds

(* Auctioneer.settle up to readFilled: a thin round gets no quote, and a   *)
(* settled round asked again gets another one.                             *)
Settle ==
    /\ current # 0 /\ minting = None
    /\ rounds' = Settled(current)
    /\ rounds'[current].result # None
    /\ minting' = IF rounds'[current].result.outcome.bump = 0 THEN None ELSE current
    /\ UNCHANGED <<now, current, flight, quotes, heard>>

(* settleDue settles the round the clock has closed.                       *)
SettleDue == current # 0 /\ Open(current) /\ IsClosed(current) /\ Settle

(* Mutant: the round's first bid is taken for the winner's.                *)
FirstBid(r) == Standing(r)[1]

WinningBid(r) == CHOOSE b \in Range(Standing(r)) : b.filler = rounds[r].result.outcome.winner

Mint ==
    /\ minting # None
    /\ quotes' = quotes \cup {[round |-> minting, bump |-> rounds[minting].result.outcome.bump,
                               filler |-> IF BindToWinner THEN Presenter(WinningBid(minting)) ELSE AnyFiller]}
    /\ minting' = None
    /\ UNCHANGED <<now, rounds, current, flight, heard>>

(* readFilled or the signer throws.                                        *)
MintFails == minting # None /\ minting' = None /\ UNCHANGED <<now, rounds, current, flight, quotes, heard>>

Void ==
    /\ current # 0 /\ Open(current)
    /\ rounds' = [rounds EXCEPT ![current].voided = TRUE]
    /\ UNCHANGED <<now, current, flight, minting, quotes, heard>>

(* prune: only a round that is done is dropped.                            *)
Prune ==
    /\ current # 0 /\ ~Open(current)
    /\ LET r == rounds[current]
       IN  (IF r.result # None THEN r.result.settledAt ELSE r.closesAt) < now - StaleAfter
    /\ current' = 0
    /\ UNCHANGED <<now, rounds, flight, minting, quotes, heard>>

Pass == now < MaxTime /\ now' = now + 1 /\ UNCHANGED <<rounds, current, flight, minting, quotes, heard>>

Next ==
    \/ OpenRound \/ Settle \/ SettleDue \/ Mint \/ MintFails \/ Void \/ Prune \/ Pass
    \/ \E c \in Clients : Submit(c) \/ Verified(c)

Spec == Init /\ [][Next]_vars

-----------------------------------------------------------------------------
(* Properties.                                                             *)

(* Keeping one bid per filler and the lowest MaxBids of them never changes *)
(* the price: in every state the standing bids select the same bump and    *)
(* the same winning bid as all the authentic bids that reached the round,  *)
(* the refused, displaced and replaced ones included (round.ts: "keeping   *)
(* the lowest maxBids is outcome-preserving").                             *)
OutcomePreserved == \A r \in DOMAIN rounds :
    LET kept == SelectQuote(Range(Standing(r))) all == SelectQuote(heard[r])
    IN  /\ kept = None <=> all = None
        /\ kept # None => kept.bump = all.bump /\ kept.winningBid = all.winningBid

(* What checkRound asks of a published round holds of every settled one:   *)
(* each bid is authentic and of this round, no filler has two, and the     *)
(* outcome follows from them, though bids were still being verified when   *)
(* the round was frozen (round.ts, checkRound).                            *)
PublishedRoundChecks == \A r \in DOMAIN rounds :
    rounds[r].result # None =>
        /\ rounds[r].result.outcome = SelectQuote(Range(Standing(r)))
        /\ \A b \in Range(Standing(r)) : Authentic(b) /\ b.closesAt = rounds[r].closesAt
        /\ \A i, j \in DOMAIN Standing(r) : Standing(r)[i].filler = Standing(r)[j].filler => i = j

(* A quote names the address that the author of a lowest authentic bid     *)
(* chose to present it, concedes no less than that bid asked for and no    *)
(* more than the dearest authentic bid, and the quotes of one round agree. *)
QuoteIsEarned == \A q \in quotes :
    /\ \E b \in heard[q.round] :
          /\ \A c \in heard[q.round] : b.bump <= c.bump
          /\ q.filler \in {Presenter(b), AnyFiller} /\ b.bump <= q.bump
    /\ \E c \in heard[q.round] : q.bump <= c.bump
    /\ \A p \in quotes : p.round = q.round => p = q
=============================================================================

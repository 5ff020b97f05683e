------------------------- MODULE AuctionRoundProofs -------------------------
(***************************************************************************)
(* Theorems about AuctionRound, for any bids, clients, closings, rule and  *)
(* caps: a round that keeps few bids decides as one that keeps them all.   *)
(***************************************************************************)
EXTENDS AuctionRound, SumProofs, SequenceTheorems

-----------------------------------------------------------------------------
(* The invariant.                                                          *)

Rounds == [closesAt : Nat, bids : Seq(Bids), voided : BOOLEAN, result : Results \cup {None}]

(* Of every bid heard, a better one of its filler stands, or the round is  *)
(* full of better ones.                                                    *)
Covers(bids, H) == \A h \in H :
    \/ \E k \in Range(bids) : k.filler = h.filler /\ k.bump <= h.bump
    \/ Len(bids) = MaxBids /\ \A k \in Range(bids) : k.bump <= h.bump

Single(bids) == \A i, j \in DOMAIN bids : bids[i].filler = bids[j].filler => i = j

(* A round, and the bids it heard.                                         *)
Sound(rd, H) ==
    /\ rd \in Rounds /\ H \subseteq Bids /\ IsFiniteSet(H)
    /\ Len(rd.bids) <= MaxBids /\ Single(rd.bids)
    /\ Range(rd.bids) \subseteq H /\ Covers(rd.bids, H)
    /\ \A h \in H : Authentic(h) /\ h.closesAt = rd.closesAt
    /\ rd.result # None =>
         Range(rd.bids) # {} /\ rd.result.outcome = SelectQuote(Range(rd.bids))

TypeOK ==
    /\ now \in Nat
    /\ rounds \in Seq(Rounds) /\ heard \in Seq(SUBSET Bids) /\ Len(heard) = Len(rounds)
    /\ current \in 0..Len(rounds)
    /\ flight \in [Clients -> {None} \cup [round : DOMAIN rounds, bid : Bids]]
    /\ minting \in {None} \cup DOMAIN rounds

(* A submission waits for the round its bid is for.                        *)
Bound == \A c \in Clients :
    flight[c] # None => flight[c].bid.closesAt = rounds[flight[c].round].closesAt

Granted(r) == rounds[r].result # None /\ rounds[r].result.outcome.bump # 0

QuoteOf(r) ==
    [round |-> r, bump |-> rounds[r].result.outcome.bump,
     filler |-> IF BindToWinner THEN Presenter(WinningBid(r)) ELSE AnyFiller]

Inv ==
    /\ TypeOK /\ Bound
    /\ \A r \in DOMAIN rounds : Sound(rounds[r], heard[r])
    /\ minting # None => Granted(minting)
    /\ \A q \in quotes : \E r \in DOMAIN rounds : Granted(r) /\ q = QuoteOf(r)

-----------------------------------------------------------------------------
(* The selection rule.                                                     *)

ScoreTypes == [filler : Nat, bump : Nat]

(* Of several bids or scores there is a lowest.                            *)
LEMMA LowestBump ==
    ASSUME NEW S, S # {}, \A a \in S : a.bump \in Nat
    PROVE  \E a \in S : \A b \in S : a.bump <= b.bump
<1> DEFINE T == {a.bump : a \in S}
<1>1. T \in SUBSET Nat /\ T # {}
  OBVIOUS
<1> HIDE DEF T
<1>2. PICK x \in T : \A y \in T : x <= y
  BY <1>1, LeastOne
<1> QED
  BY <1>2 DEF T

(* There is a foremost score, and it is a lowest.                          *)
LEMMA ForemostIsLowest ==
    ASSUME NEW S \in SUBSET ScoreTypes, S # {}
    PROVE  Foremost(S) \in S /\ \A b \in S : Foremost(S).bump <= b.bump
<1>1. \A a \in S : a.bump \in Nat /\ a.filler \in Nat
  BY DEF ScoreTypes
<1>2. PICK d \in S : \A b \in S : d.bump <= b.bump
  BY <1>1, LowestBump
<1> DEFINE T == {c.filler : c \in {c \in S : c.bump = d.bump}}
<1>3. T \in SUBSET Nat /\ T # {}
  BY <1>1
<1> HIDE DEF T
<1>4. PICK f \in T : \A g \in T : f <= g
  BY <1>3, LeastOne
<1>5. PICK a \in S : a.bump = d.bump /\ a.filler = f
  BY <1>4 DEF T
<1>6. \A b \in S : b.bump = d.bump => f <= b.filler
  BY <1>4 DEF T
<1>7. \A b \in S \ {a} : Before(a, b)
  <2> SUFFICES ASSUME NEW b \in S, b # a, ~Before(a, b) PROVE FALSE
    OBVIOUS
  <2>1. d.bump <= b.bump /\ (b.bump = d.bump => f <= b.filler)
    BY <1>2, <1>6
  <2>2. b.bump = d.bump /\ b.filler = f
    BY <1>1, <1>5, <2>1 DEF Before
  <2> QED
    BY <1>5, <2>2 DEF ScoreTypes
<1>8. Foremost(S) \in S /\ \A b \in S \ {Foremost(S)} : Before(Foremost(S), b)
  BY <1>5, <1>7 DEF Foremost
<1>9. \A b \in S : Foremost(S).bump <= b.bump
  BY <1>1, <1>8 DEF Before
<1> QED
  BY <1>8, <1>9

BestOf(K) == {b \in K : \A c \in K : c.filler = b.filler => b.bump <= c.bump}

(* Bids have scores, a score for each filler's best.                       *)
LEMMA ScoresType ==
    ASSUME NEW K \in SUBSET Bids, IsFiniteSet(K)
    PROVE  /\ Scores(K) \in SUBSET ScoreTypes /\ IsFiniteSet(Scores(K))
           /\ Scores(K) = {[filler |-> b.filler, bump |-> b.bump] : b \in BestOf(K)}
           /\ K # {} => \E b \in BestOf(K) : \A c \in K : b.bump <= c.bump
<1>1. \A b \in K : b.filler \in Nat /\ b.bump \in Nat
  BY BidsAssumption
<1>2. Scores(K) = {[filler |-> b.filler, bump |-> b.bump] : b \in BestOf(K)}
  BY DEF Scores, BestOf
<1>3. Scores(K) \in SUBSET ScoreTypes
  BY <1>1, <1>2 DEF ScoreTypes, BestOf
<1>4. IsFiniteSet(BestOf(K))
  BY FS_Subset DEF BestOf
<1>5. [b \in BestOf(K) |-> [filler |-> b.filler, bump |-> b.bump]] \in Surjection(BestOf(K), Scores(K))
  BY <1>2 DEF Surjection
<1>6. IsFiniteSet(Scores(K))
  BY <1>4, <1>5, FS_Surjection
<1>7. ASSUME K # {} PROVE \E b \in BestOf(K) : \A c \in K : b.bump <= c.bump
  <2>1. PICK b \in K : \A c \in K : b.bump <= c.bump
    BY <1>1, <1>7, LowestBump
  <2> QED
    BY <2>1 DEF BestOf
<1> QED
  BY <1>2, <1>3, <1>6, <1>7

Bidders(K) == Cardinality(Scores(K))
Winner(K) == Foremost(Scores(K))
Others(K) == Scores(K) \ {Winner(K)}
RunnerUp(K) == Foremost(Others(K))

(* The winner is a lowest, the runner-up a lowest of the rest.             *)
LEMMA RankedFirst ==
    ASSUME NEW K \in SUBSET Bids, IsFiniteSet(K), K # {}
    PROVE  /\ Bidders(K) \in Nat /\ Bidders(K) # 0
           /\ Winner(K) \in Scores(K) /\ \A b \in Scores(K) : Winner(K).bump <= b.bump
           /\ Bidders(K) > 1 => /\ RunnerUp(K) \in Others(K)
                                /\ \A b \in Others(K) : RunnerUp(K).bump <= b.bump
<1>1. Scores(K) \in SUBSET ScoreTypes /\ IsFiniteSet(Scores(K))
  BY ScoresType
<1>2. Scores(K) # {}
  <2>1. PICK b \in BestOf(K) : TRUE
    BY ScoresType
  <2>2. [filler |-> b.filler, bump |-> b.bump] \in Scores(K)
    BY ScoresType
  <2> QED
    BY <2>2
<1>3. Bidders(K) \in Nat /\ Bidders(K) # 0
  BY <1>1, <1>2, FS_CardinalityType, FS_EmptySet DEF Bidders
<1>4. Winner(K) \in Scores(K) /\ \A b \in Scores(K) : Winner(K).bump <= b.bump
  BY <1>1, <1>2, ForemostIsLowest DEF Winner
<1>5. ASSUME Bidders(K) > 1
      PROVE  RunnerUp(K) \in Others(K) /\ \A b \in Others(K) : RunnerUp(K).bump <= b.bump
  <2>1. Others(K) \in SUBSET ScoreTypes
    BY <1>1 DEF Others
  <2>2. Others(K) # {}
    <3> SUFFICES ASSUME Others(K) = {} PROVE FALSE
      OBVIOUS
    <3>1. Scores(K) = {Winner(K)}
      BY <1>4 DEF Others
    <3>2. Cardinality(Scores(K)) = 1
      BY <3>1, FS_Singleton
    <3> QED
      BY <1>5, <3>2 DEF Bidders
  <2> QED
    BY <2>1, <2>2, ForemostIsLowest DEF RunnerUp
<1> QED
  BY <1>3, <1>4, <1>5

(* What the rule makes of them.                                            *)
LEMMA QuoteIs ==
    ASSUME NEW K \in SUBSET Bids, IsFiniteSet(K), K # {}
    PROVE  /\ SelectQuote(K) \in Outcomes /\ SelectQuote(K) # None
           /\ SelectQuote(K).winner = Winner(K).filler
           /\ SelectQuote(K).winningBid = Winner(K).bump
           /\ Bidders(K) < MinBidders => SelectQuote(K).bump = 0
           /\ Bidders(K) >= MinBidders /\ Vickrey /\ Bidders(K) > 1 =>
                SelectQuote(K).bump = RunnerUp(K).bump
           /\ Bidders(K) >= MinBidders /\ ~(Vickrey /\ Bidders(K) > 1) =>
                SelectQuote(K).bump = Winner(K).bump
<1>1. PICK price : price =
        IF Bidders(K) < MinBidders THEN 0
        ELSE IF Vickrey /\ Bidders(K) > 1 THEN RunnerUp(K).bump ELSE Winner(K).bump
  OBVIOUS
<1>2. SelectQuote(K) = [winner |-> Winner(K).filler, bidders |-> Bidders(K),
                        winningBid |-> Winner(K).bump, bump |-> price]
  BY <1>1 DEF SelectQuote, Bidders, Winner, RunnerUp, Others
<1>3. Scores(K) \in SUBSET ScoreTypes
  BY ScoresType
<1>4. Winner(K).filler \in Nat /\ Winner(K).bump \in Nat /\ Bidders(K) \in Nat
  BY <1>3, RankedFirst DEF ScoreTypes
<1>5. Bidders(K) > 1 => RunnerUp(K).bump \in Nat
  BY <1>3, RankedFirst DEF ScoreTypes, Others
<1>6. MinBidders \in Nat
  BY RoundAssumption
<1>7. price \in Nat
  BY <1>1, <1>4, <1>5, <1>6
<1>8. SelectQuote(K) \in Outcomes
  BY <1>2, <1>4, <1>7 DEF Outcomes
<1>9. /\ Bidders(K) < MinBidders => price = 0
      /\ Bidders(K) >= MinBidders /\ Vickrey /\ Bidders(K) > 1 => price = RunnerUp(K).bump
      /\ Bidders(K) >= MinBidders /\ ~(Vickrey /\ Bidders(K) > 1) => price = Winner(K).bump
  BY <1>1, <1>4, <1>6
<1> QED
  BY <1>2, <1>8, <1>9, NoneAssumption

(* The scores of bids of which each filler has one.                        *)
LEMMA SingleScores ==
    ASSUME NEW bids \in Seq(Bids), Single(bids)
    PROVE  /\ Range(bids) \in SUBSET Bids /\ IsFiniteSet(Range(bids))
           /\ BestOf(Range(bids)) = Range(bids)
           /\ Bidders(Range(bids)) = Len(bids)
<1> DEFINE f == [i \in 1..Len(bids) |-> [filler |-> bids[i].filler, bump |-> bids[i].bump]]
           K == Range(bids)
<1>1. K \in SUBSET Bids /\ bids \in Surjection(1..Len(bids), K) /\ DOMAIN bids = 1..Len(bids)
  BY DEF Range, Surjection
<1>2. IsFiniteSet(1..Len(bids)) /\ Cardinality(1..Len(bids)) = Len(bids)
  <2>1. Len(bids) \in Nat
    OBVIOUS
  <2>2. /\ IsFiniteSet(1..Len(bids))
        /\ Cardinality(1..Len(bids)) = IF 1 > Len(bids) THEN 0 ELSE Len(bids) - 1 + 1
    BY <2>1, FS_Interval
  <2> QED
    BY <2>1, <2>2
<1>3. IsFiniteSet(K)
  BY <1>1, <1>2, FS_Surjection
<1>4. \A b \in K : b.bump \in Nat /\ b.filler \in Nat
  BY <1>1, BidsAssumption
<1>5. BestOf(K) = K
  BY <1>1, <1>4 DEF BestOf, Single, Range
<1>6. Scores(K) = {[filler |-> b.filler, bump |-> b.bump] : b \in K}
  BY <1>1, <1>3, <1>5, ScoresType
<1>7. f \in Surjection(1..Len(bids), Scores(K))
  BY <1>1, <1>6 DEF Surjection, Range
<1>8. f \in Injection(1..Len(bids), Scores(K))
  <2>1. f \in [1..Len(bids) -> Scores(K)]
    BY <1>7 DEF Surjection
  <2>2. \A i, j \in 1..Len(bids) : f[i] = f[j] => bids[i].filler = bids[j].filler
    OBVIOUS
  <2>3. \A i, j \in 1..Len(bids) : f[i] = f[j] => i = j
    BY <1>1, <2>2 DEF Single
  <2> HIDE DEF f
  <2> QED
    BY <2>1, <2>3 DEF Injection, IsInjective
<1>9. Cardinality(Scores(K)) = Len(bids)
  BY <1>2, <1>7, <1>8, FS_Surjection
<1> QED
  BY <1>1, <1>3, <1>5, <1>9 DEF Bidders

(* What a round keeps decides as what it heard would: among the first two  *)
(* of all there is nothing lower than what was kept.                       *)
LEMMA KeptDecides ==
    ASSUME NEW bids \in Seq(Bids), Single(bids), Len(bids) <= MaxBids,
           NEW H \in SUBSET Bids, IsFiniteSet(H), Range(bids) \subseteq H, Covers(bids, H)
    PROVE  /\ Range(bids) = {} <=> H = {}
           /\ Range(bids) # {} =>
                /\ SelectQuote(Range(bids)).bump = SelectQuote(H).bump
                /\ SelectQuote(Range(bids)).winningBid = SelectQuote(H).winningBid
<1> DEFINE K == Range(bids)
<1>1. /\ K \in SUBSET Bids /\ IsFiniteSet(K) /\ BestOf(K) = K /\ Bidders(K) = Len(bids)
      /\ Len(bids) \in Nat /\ MaxBids \in Nat /\ MinBidders \in 1..MaxBids
      /\ Vickrey => MaxBids >= 2
  BY SingleScores, RoundAssumption
<1>2. Len(bids) = MaxBids => K # {}
  BY <1>1 DEF Range
<1>3. K = {} <=> H = {}
  BY <1>2 DEF Covers
<1>4. ASSUME K # {}
      PROVE  /\ SelectQuote(K).bump = SelectQuote(H).bump
             /\ SelectQuote(K).winningBid = SelectQuote(H).winningBid
  <2>1. /\ \A b \in H : b.bump \in Nat
        /\ \A j, k \in K : j.filler = k.filler => j = k
    BY <1>1, BidsAssumption DEF Single, Range
  <2>2. \A k \in K : k \in BestOf(H)
    <3> SUFFICES ASSUME NEW k \in K, NEW c \in H, c.filler = k.filler PROVE k.bump <= c.bump
      BY DEF BestOf
    <3> QED
      BY <2>1 DEF Covers
  <2>3. Scores(K) = {[filler |-> b.filler, bump |-> b.bump] : b \in K}
    BY <1>1, ScoresType
  <2>4. /\ Scores(H) = {[filler |-> b.filler, bump |-> b.bump] : b \in BestOf(H)}
        /\ IsFiniteSet(Scores(H)) /\ Scores(H) \in SUBSET ScoreTypes
    BY ScoresType
  <2>5. Scores(K) \subseteq Scores(H)
    BY <2>2, <2>3, <2>4
  <2>6. \A b \in Scores(H) \ Scores(K) : Len(bids) = MaxBids /\ \A a \in Scores(K) : a.bump <= b.bump
    <3> SUFFICES ASSUME NEW b \in Scores(H), b \notin Scores(K)
                 PROVE  Len(bids) = MaxBids /\ \A a \in Scores(K) : a.bump <= b.bump
      OBVIOUS
    <3>1. PICK h \in BestOf(H) : b = [filler |-> h.filler, bump |-> h.bump]
      BY <2>4
    <3>2. ~ \E k \in K : k.filler = h.filler /\ k.bump <= h.bump
      <4> SUFFICES ASSUME NEW k \in K, k.filler = h.filler, k.bump <= h.bump PROVE FALSE
        OBVIOUS
      <4>1. k.bump = h.bump
        BY <2>1, <3>1 DEF BestOf
      <4> QED
        BY <2>3, <3>1, <4>1
    <3>3. Len(bids) = MaxBids /\ \A k \in K : k.bump <= h.bump
      BY <3>1, <3>2 DEF Covers, BestOf
    <3> QED
      BY <2>3, <3>1, <3>3
  <2>7. \A a \in Scores(H) : a.bump \in Nat
    BY <2>4 DEF ScoreTypes
  <2>8. /\ Winner(K) \in Scores(K) /\ \A b \in Scores(K) : Winner(K).bump <= b.bump
        /\ Bidders(K) > 1 => /\ RunnerUp(K) \in Others(K)
                             /\ \A b \in Others(K) : RunnerUp(K).bump <= b.bump
    BY <1>1, <1>4, RankedFirst
  <2>9. /\ Winner(H) \in Scores(H) /\ \A b \in Scores(H) : Winner(H).bump <= b.bump
        /\ Bidders(H) > 1 => /\ RunnerUp(H) \in Others(H)
                             /\ \A b \in Others(H) : RunnerUp(H).bump <= b.bump
        /\ Bidders(H) \in Nat
    BY <1>3, <1>4, RankedFirst
  <2>10. Winner(K).bump = Winner(H).bump
    BY <2>5, <2>6, <2>7, <2>8, <2>9
  <2>11. CASE Scores(H) = Scores(K)
    <3>1. Winner(H) = Winner(K) /\ Bidders(H) = Bidders(K) /\ RunnerUp(H) = RunnerUp(K)
      BY <2>11 DEF Winner, Bidders, RunnerUp, Others
    <3> QED
      BY <1>1, <1>3, <1>4, <3>1, <2>9, QuoteIs
  <2>12. CASE Scores(H) # Scores(K)
    <3>1. Len(bids) = MaxBids
      BY <2>5, <2>6, <2>12
    <3>2. Bidders(K) <= Bidders(H)
      BY <2>4, <2>5, FS_Subset DEF Bidders
    <3>3. /\ Bidders(K) = MaxBids /\ Bidders(K) >= MinBidders /\ Bidders(H) >= MinBidders
          /\ Vickrey => Bidders(K) > 1 /\ Bidders(H) > 1
      BY <1>1, <2>9, <3>1, <3>2
    <3>4. ASSUME Vickrey PROVE RunnerUp(K).bump = RunnerUp(H).bump
      <4>1. /\ RunnerUp(K) \in Scores(K) /\ RunnerUp(K) # Winner(K)
            /\ \A b \in Scores(K) : b # Winner(K) => RunnerUp(K).bump <= b.bump
        BY <2>8, <3>3, <3>4 DEF Others
      <4>2. /\ RunnerUp(H) \in Scores(H) /\ RunnerUp(H) # Winner(H)
            /\ \A b \in Scores(H) : b # Winner(H) => RunnerUp(H).bump <= b.bump
        BY <2>9, <3>3, <3>4 DEF Others
      <4>3. RunnerUp(H).bump <= RunnerUp(K).bump
        <5>1. CASE RunnerUp(K) # Winner(H)
          BY <2>5, <4>1, <4>2, <5>1
        <5>2. CASE RunnerUp(K) = Winner(H)
          <6>1. Winner(K) # Winner(H) /\ Winner(K) \in Scores(H)
            BY <2>5, <2>8, <4>1, <5>2
          <6> QED
            BY <2>10, <4>2, <5>2, <6>1
        <5> QED
          BY <5>1, <5>2
      <4>4. RunnerUp(K).bump <= RunnerUp(H).bump
        <5>1. CASE RunnerUp(H) \notin Scores(K)
          BY <2>6, <4>1, <4>2, <5>1
        <5>2. CASE RunnerUp(H) \in Scores(K) /\ RunnerUp(H) # Winner(K)
          BY <4>1, <5>2
        <5>3. CASE RunnerUp(H) = Winner(K)
          <6>1. CASE Winner(H) \in Scores(K)
            BY <2>10, <4>1, <4>2, <5>3, <6>1
          <6>2. CASE Winner(H) \notin Scores(K)
            BY <2>6, <2>9, <2>10, <4>1, <5>3, <6>2
          <6> QED
            BY <6>1, <6>2
        <5> QED
          BY <5>1, <5>2, <5>3
      <4> QED
        BY <2>5, <2>7, <4>1, <4>2, <4>3, <4>4
    <3> QED
      BY <1>1, <1>3, <1>4, <2>10, <3>3, <3>4, QuoteIs
  <2> QED
    BY <2>11, <2>12
<1> QED
  BY <1>3, <1>4

-----------------------------------------------------------------------------
(* Placement.                                                              *)

(* A sequence without one of its elements.                                 *)
LEMMA RemoveAtResult ==
    ASSUME NEW S, NEW s \in Seq(S), NEW i \in 1..Len(s)
    PROVE  /\ RemoveAt(s, i) \in Seq(S) /\ Len(RemoveAt(s, i)) = Len(s) - 1
           /\ \A j \in 1..Len(s) - 1 : RemoveAt(s, i)[j] = IF j < i THEN s[j] ELSE s[j + 1]
<1> DEFINE a == SubSeq(s, 1, i - 1)
           c == SubSeq(s, i + 1, Len(s))
<1>1. Len(s) \in Nat /\ i \in Nat /\ 1 <= i /\ i <= Len(s) /\ \A j \in 1..Len(s) : s[j] \in S
  OBVIOUS
<1>2. /\ a \in Seq(S) /\ Len(a) = i - 1
      /\ \A j \in 1..i - 1 : a[j] = s[j]
  <2>1. \A j \in 1..i - 1 : s[j] \in S
    BY <1>1
  <2>2. /\ a \in Seq(S) /\ Len(a) = IF 1 <= i - 1 THEN i - 1 - 1 + 1 ELSE 0
        /\ \A j \in 1..i - 1 - 1 + 1 : a[j] = s[1 + j - 1]
    BY <1>1, <2>1, SubSeqProperties
  <2> QED
    BY <1>1, <2>2
<1>3. /\ c \in Seq(S) /\ Len(c) = Len(s) - i
      /\ \A j \in 1..Len(s) - i : c[j] = s[i + j]
  <2>1. \A j \in i + 1..Len(s) : s[j] \in S
    BY <1>1
  <2>2. /\ c \in Seq(S) /\ Len(c) = IF i + 1 <= Len(s) THEN Len(s) - (i + 1) + 1 ELSE 0
        /\ \A j \in 1..Len(s) - (i + 1) + 1 : c[j] = s[(i + 1) + j - 1]
    BY <1>1, <2>1, SubSeqProperties
  <2> QED
    BY <1>1, <2>2
<1> HIDE DEF a, c
<1>4. /\ a \o c \in Seq(S) /\ Len(a \o c) = Len(a) + Len(c)
      /\ \A j \in 1..Len(a) + Len(c) : (a \o c)[j] = IF j <= Len(a) THEN a[j] ELSE c[j - Len(a)]
  BY <1>2, <1>3, ConcatProperties
<1>5. \A j \in 1..Len(s) - 1 : (a \o c)[j] = IF j < i THEN s[j] ELSE s[j + 1]
  <2> SUFFICES ASSUME NEW j \in 1..Len(s) - 1
               PROVE  (a \o c)[j] = IF j < i THEN s[j] ELSE s[j + 1]
    OBVIOUS
  <2>1. CASE j < i
    BY <1>1, <1>2, <1>3, <1>4, <2>1
  <2>2. CASE ~(j < i)
    <3>1. (a \o c)[j] = c[j - (i - 1)] /\ j - (i - 1) \in 1..Len(s) - i
      BY <1>1, <1>2, <1>3, <1>4, <2>2
    <3>2. c[j - (i - 1)] = s[i + (j - (i - 1))] /\ i + (j - (i - 1)) = j + 1
      BY <1>1, <1>3, <3>1
    <3> QED
      BY <2>2, <3>1, <3>2
  <2> QED
    BY <2>1, <2>2
<1>6. RemoveAt(s, i) = a \o c
  BY DEF RemoveAt, a, c
<1> QED
  BY <1>1, <1>2, <1>3, <1>4, <1>5, <1>6

Tops(f, i, m) == \A j \in 1..m : f[j] < f[i] \/ (f[j] = f[i] /\ j <= i)

(* Of finitely many numbers there is a highest, and a last of those.       *)
LEMMA LastHighest ==
    ASSUME NEW n \in Nat \ {0}, NEW f \in [1..n -> Nat]
    PROVE  \E i \in 1..n : Tops(f, i, n)
<1> DEFINE T == {m \in 1..n : \A i \in 1..m : ~Tops(f, i, m)}
<1>1. SUFFICES ASSUME T # {} PROVE FALSE
  OBVIOUS
<1>2. T \in SUBSET Nat
  OBVIOUS
<1> HIDE DEF T
<1>3. PICK m \in T : \A k \in T : m <= k
  BY <1>1, <1>2, LeastOne
<1>4. m \in 1..n /\ \A i \in 1..m : ~Tops(f, i, m)
  BY <1>3 DEF T
<1>5. m # 1
  <2> SUFFICES ASSUME m = 1 PROVE FALSE
    OBVIOUS
  <2>1. Tops(f, 1, 1)
    BY DEF Tops
  <2> QED
    BY <1>4, <2>1
<1>6. PICK k \in 1..n : m = k + 1
  BY <1>4, <1>5
<1>7. k \notin T
  BY <1>3, <1>6
<1>8. PICK i \in 1..k : Tops(f, i, k)
  BY <1>7 DEF T
<1>9. CASE f[i] <= f[m]
  <2>1. \A j \in 1..m : j = m \/ j \in 1..k
    BY <1>6
  <2>2. Tops(f, m, m)
    BY <1>4, <1>6, <1>8, <1>9, <2>1 DEF Tops
  <2> QED
    BY <1>4, <2>2
<1>10. CASE f[m] < f[i]
  <2>1. \A j \in 1..m : j = m \/ j \in 1..k
    BY <1>6
  <2>2. Tops(f, i, m)
    BY <1>4, <1>6, <1>8, <1>10, <2>1 DEF Tops
  <2> QED
    BY <1>4, <1>6, <1>8, <2>2
<1> QED
  BY <1>4, <1>6, <1>8, <1>9, <1>10

(* A full round has a worst bid.                                           *)
LEMMA WorstIs ==
    ASSUME NEW r, Standing(r) \in Seq(Bids), Len(Standing(r)) # 0
    PROVE  /\ Worst(r) \in DOMAIN Standing(r)
           /\ \A j \in DOMAIN Standing(r) : Standing(r)[j].bump <= Standing(r)[Worst(r)].bump
<1> DEFINE n == Len(Standing(r))
           f == [j \in 1..n |-> Standing(r)[j].bump]
<1>1. n \in Nat \ {0} /\ DOMAIN Standing(r) = 1..n
  OBVIOUS
<1>2. f \in [1..n -> Nat]
  BY BidsAssumption
<1>3. PICK i \in 1..n : Tops(f, i, n)
  BY <1>1, <1>2, LastHighest
<1>4. \A j \in 1..n : f[j] = Standing(r)[j].bump
  OBVIOUS
<1>5. \A j \in 1..n : \/ Standing(r)[j].bump < Standing(r)[i].bump
                      \/ Standing(r)[j].bump = Standing(r)[i].bump /\ j <= i
  BY <1>3, <1>4 DEF Tops
<1>6. /\ Worst(r) \in DOMAIN Standing(r)
      /\ \A j \in 1..n : \/ Standing(r)[j].bump < Standing(r)[Worst(r)].bump
                         \/ Standing(r)[j].bump = Standing(r)[Worst(r)].bump /\ j <= Worst(r)
  BY <1>1, <1>5 DEF Worst
<1> QED
  BY <1>1, <1>2, <1>4, <1>6

(* What a bid displaces: its filler's own, or nothing, or, of a full round,*)
(* a bid no other is above.                                                *)
LEMMA DisplacedIs ==
    ASSUME NEW r, NEW b \in Bids, Standing(r) \in Seq(Bids), Single(Standing(r)),
           Len(Standing(r)) <= MaxBids
    PROVE  \/ \E i \in DOMAIN Standing(r) : Displaced(r, b) = {i} /\ Standing(r)[i].filler = b.filler
           \/ /\ \A i \in DOMAIN Standing(r) : Standing(r)[i].filler # b.filler
              /\ \/ Displaced(r, b) = {} /\ Len(Standing(r)) < MaxBids
                 \/ /\ Len(Standing(r)) = MaxBids
                    /\ \E i \in DOMAIN Standing(r) :
                         /\ Displaced(r, b) = {i}
                         /\ \A j \in DOMAIN Standing(r) : Standing(r)[j].bump <= Standing(r)[i].bump
<1>1. Len(Standing(r)) \in Nat /\ MaxBids \in Nat \ {0}
  BY RoundAssumption
<1>2. CASE Own(r, b) # {}
  <2>1. PICK i \in DOMAIN Standing(r) : Standing(r)[i].filler = b.filler
    BY <1>2 DEF Own
  <2>2. Own(r, b) = {i}
    BY <2>1 DEF Own, Single
  <2> QED
    BY <1>2, <2>1, <2>2 DEF Displaced
<1>3. CASE Own(r, b) = {}
  <2>1. \A i \in DOMAIN Standing(r) : Standing(r)[i].filler # b.filler
    BY <1>3 DEF Own
  <2>2. CASE Len(Standing(r)) < MaxBids
    BY <1>3, <2>1, <2>2 DEF Displaced
  <2>3. CASE ~(Len(Standing(r)) < MaxBids)
    <3>1. Len(Standing(r)) = MaxBids
      BY <1>1, <2>3
    <3>2. Displaced(r, b) = {Worst(r)}
      BY <1>3, <2>3 DEF Displaced
    <3> QED
      BY <1>1, <2>1, <3>1, <3>2, WorstIs
  <2> QED
    BY <2>2, <2>3
<1> QED
  BY <1>2, <1>3

(* A bid after others.                                                     *)
LEMMA AppendedIs ==
    ASSUME NEW s \in Seq(Bids), NEW b \in Bids
    PROVE  /\ Append(s, b) \in Seq(Bids) /\ Len(Append(s, b)) = Len(s) + 1
           /\ Range(Append(s, b)) = Range(s) \cup {b}
           /\ Single(s) /\ (\A j \in DOMAIN s : s[j].filler # b.filler) => Single(Append(s, b))
<1> DEFINE t == Append(s, b)
<1>1. /\ t \in Seq(Bids) /\ Len(t) = Len(s) + 1 /\ Len(s) \in Nat
      /\ DOMAIN t = 1..Len(s) + 1 /\ DOMAIN s = 1..Len(s)
      /\ \A j \in 1..Len(s) : t[j] = s[j]
      /\ t[Len(s) + 1] = b
  OBVIOUS
<1> HIDE DEF t
<1>2. \A j \in 1..Len(s) + 1 : j \in 1..Len(s) \/ j = Len(s) + 1
  BY <1>1
<1>3. Range(t) = Range(s) \cup {b}
  <2>1. Range(t) \subseteq Range(s) \cup {b}
    BY <1>1, <1>2 DEF Range
  <2>2. \A j \in 1..Len(s) : j \in 1..Len(s) + 1
    BY <1>1
  <2>3. Len(s) + 1 \in 1..Len(s) + 1
    BY <1>1
  <2> QED
    BY <1>1, <2>1, <2>2, <2>3 DEF Range
<1>4. ASSUME Single(s), \A j \in DOMAIN s : s[j].filler # b.filler PROVE Single(t)
  BY <1>1, <1>2, <1>4 DEF Single
<1> QED
  BY <1>1, <1>3, <1>4 DEF t

Without(s, i) == {s[j] : j \in DOMAIN s \ {i}}

NoOther(s, i, b) == \A j \in DOMAIN s \ {i} : s[j].filler # b.filler

Replaced(s, i, b) == Append(RemoveAt(s, i), b)

(* A bid in the place of another.                                          *)
LEMMA ReplacedIs ==
    ASSUME NEW s \in Seq(Bids), NEW i \in DOMAIN s, NEW b \in Bids, Single(s), NoOther(s, i, b)
    PROVE  /\ Replaced(s, i, b) \in Seq(Bids) /\ Len(Replaced(s, i, b)) = Len(s)
           /\ Single(Replaced(s, i, b)) /\ Range(Replaced(s, i, b)) = Without(s, i) \cup {b}
<1> DEFINE u == RemoveAt(s, i)
<1>1. Len(s) \in Nat /\ DOMAIN s = 1..Len(s) /\ i \in 1..Len(s)
  OBVIOUS
<1>2. /\ u \in Seq(Bids) /\ Len(u) = Len(s) - 1
      /\ \A j \in 1..Len(s) - 1 : u[j] = IF j < i THEN s[j] ELSE s[j + 1]
  BY <1>1, RemoveAtResult
<1> HIDE DEF u
<1>3. DOMAIN u = 1..Len(s) - 1
  BY <1>2
<1> DEFINE g(j) == IF j < i THEN j ELSE j + 1
<1>4. \A j \in 1..Len(s) - 1 : g(j) \in 1..Len(s) /\ g(j) # i /\ u[j] = s[g(j)]
  BY <1>1, <1>2
<1>5. \A j, k \in 1..Len(s) - 1 : g(j) = g(k) => j = k
  BY <1>1
<1>6. \A k \in 1..Len(s) : k # i => \E j \in 1..Len(s) - 1 : g(j) = k
  <2> SUFFICES ASSUME NEW k \in 1..Len(s), k # i PROVE \E j \in 1..Len(s) - 1 : g(j) = k
    OBVIOUS
  <2>1. CASE k < i
    BY <1>1, <2>1
  <2>2. CASE k > i
    <3>1. k - 1 \in 1..Len(s) - 1 /\ g(k - 1) = k
      BY <1>1, <2>2
    <3> QED
      BY <3>1
  <2> QED
    BY <1>1, <2>1, <2>2
<1> HIDE DEF g
<1>7. Single(u)
  BY <1>1, <1>3, <1>4, <1>5 DEF Single
<1>8. Range(u) = Without(s, i)
  <2>1. Range(u) \subseteq Without(s, i)
    BY <1>1, <1>3, <1>4 DEF Range, Without
  <2>2. ASSUME NEW k \in DOMAIN s \ {i} PROVE s[k] \in Range(u)
    <3>1. PICK j \in 1..Len(s) - 1 : g(j) = k
      BY <1>1, <1>6
    <3>2. u[j] = s[k] /\ j \in DOMAIN u
      BY <1>3, <1>4, <3>1
    <3> QED
      BY <3>2 DEF Range
  <2> QED
    BY <2>1, <2>2 DEF Without
<1>9. \A j \in DOMAIN u : u[j].filler # b.filler
  BY <1>1, <1>3, <1>4 DEF NoOther
<1>10. /\ Append(u, b) \in Seq(Bids) /\ Len(Append(u, b)) = Len(u) + 1
       /\ Range(Append(u, b)) = Range(u) \cup {b} /\ Single(Append(u, b))
  BY <1>2, <1>7, <1>9, AppendedIs
<1> QED
  BY <1>1, <1>2, <1>8, <1>10 DEF u, Replaced

(* A refused bid changes no decision.                                      *)
LEMMA RefusedSound ==
    ASSUME NEW r, NEW H, NEW b \in Bids, Sound(rounds[r], H), ~MayPlace(r, b),
           Authentic(b), b.closesAt = rounds[r].closesAt
    PROVE  Sound(rounds[r], H \cup {b})
<1>1. /\ Standing(r) \in Seq(Bids) /\ Single(Standing(r)) /\ Len(Standing(r)) <= MaxBids
      /\ Standing(r) = rounds[r].bids
  BY DEF Sound, Rounds, Standing
<1>2. IsFiniteSet(H \cup {b})
  BY FS_AddElement DEF Sound
<1>3. \A j \in DOMAIN Standing(r) : Standing(r)[j].bump \in Nat /\ Standing(r)[j] \in Range(Standing(r))
  BY <1>1, BidsAssumption DEF Range
<1>4. b.bump \in Nat
  BY BidsAssumption
<1>5. PICK i \in Displaced(r, b) : ~(b.bump < Standing(r)[i].bump)
  BY DEF MayPlace
<1>6. \/ \E k \in Range(Standing(r)) : k.filler = b.filler /\ k.bump <= b.bump
      \/ Len(Standing(r)) = MaxBids /\ \A k \in Range(Standing(r)) : k.bump <= b.bump
  <2>1. CASE \E j \in DOMAIN Standing(r) : Displaced(r, b) = {j} /\ Standing(r)[j].filler = b.filler
    BY <1>3, <1>4, <1>5, <2>1
  <2>2. CASE /\ Len(Standing(r)) = MaxBids
             /\ \E j \in DOMAIN Standing(r) :
                  /\ Displaced(r, b) = {j}
                  /\ \A k \in DOMAIN Standing(r) : Standing(r)[k].bump <= Standing(r)[j].bump
    <3>1. \A k \in DOMAIN Standing(r) : Standing(r)[k].bump <= Standing(r)[i].bump
      BY <1>5, <2>2
    <3>2. i \in DOMAIN Standing(r)
      BY <1>5, <2>2
    <3>3. Standing(r)[i].bump <= b.bump
      BY <1>3, <1>4, <1>5, <3>2
    <3>4. \A k \in DOMAIN Standing(r) : Standing(r)[k].bump <= b.bump
      BY <1>3, <1>4, <3>1, <3>2, <3>3
    <3> QED
      BY <2>2, <3>4 DEF Range
  <2> QED
    BY <1>1, <1>5, <2>1, <2>2, DisplacedIs
<1>7. Covers(Standing(r), H \cup {b})
  BY <1>1, <1>6 DEF Sound, Covers
<1> QED
  BY <1>1, <1>2, <1>7 DEF Sound

(* A bid that is placed changes none but by being counted.                 *)
LEMMA PlacedSound ==
    ASSUME NEW r, NEW H, NEW b \in Bids, Sound(rounds[r], H), MayPlace(r, b),
           Authentic(b), b.closesAt = rounds[r].closesAt, rounds[r].result = None
    PROVE  Sound([rounds[r] EXCEPT !.bids = Placed(r, b)], H \cup {b})
<1> DEFINE s == Standing(r)
           t == Placed(r, b)
<1>1. /\ s \in Seq(Bids) /\ Single(s) /\ Len(s) <= MaxBids /\ s = rounds[r].bids
      /\ rounds[r] \in Rounds /\ Covers(s, H) /\ Range(s) \subseteq H /\ H \subseteq Bids
      /\ MaxBids \in Nat /\ Len(s) \in Nat
  BY RoundAssumption DEF Sound, Rounds, Standing
<1>2. IsFiniteSet(H \cup {b})
  BY FS_AddElement DEF Sound
<1>3. \A j \in DOMAIN s : s[j].bump \in Nat /\ s[j] \in Range(s)
  BY <1>1, BidsAssumption DEF Range
<1>4. b.bump \in Nat /\ \A h \in H : h.bump \in Nat
  BY <1>1, BidsAssumption
<1>5. /\ t \in Seq(Bids) /\ Len(t) <= MaxBids /\ Single(t) /\ Range(t) \subseteq H \cup {b}
      /\ Covers(t, H \cup {b})
  <2>1. CASE Displaced(r, b) = {} /\ Len(s) < MaxBids /\ \A j \in DOMAIN s : s[j].filler # b.filler
    <3>1. t = Append(s, b)
      BY <2>1 DEF Placed
    <3>2. t \in Seq(Bids) /\ Len(t) = Len(s) + 1 /\ Range(t) = Range(s) \cup {b} /\ Single(t)
      BY <1>1, <2>1, <3>1, AppendedIs
    <3>3. Covers(t, H \cup {b})
      BY <1>1, <1>4, <2>1, <3>2 DEF Covers
    <3> QED
      BY <1>1, <2>1, <3>2, <3>3
  <2>2. ASSUME NEW i \in DOMAIN s, Displaced(r, b) = {i}, \A j \in DOMAIN s \ {i} : s[j].filler # b.filler
        PROVE  /\ t \in Seq(Bids) /\ Len(t) = Len(s) /\ Single(t)
               /\ Range(t) = Without(s, i) \cup {b}
    <3>1. t = Replaced(s, i, b)
      BY <2>2 DEF Placed, Replaced
    <3>2. s \in Seq(Bids) /\ Single(s) /\ NoOther(s, i, b)
      BY <1>1, <2>2 DEF NoOther
    <3> HIDE DEF s, t
    <3>3. /\ Replaced(s, i, b) \in Seq(Bids) /\ Len(Replaced(s, i, b)) = Len(s)
          /\ Single(Replaced(s, i, b)) /\ Range(Replaced(s, i, b)) = Without(s, i) \cup {b}
      BY <2>2, <3>2, ReplacedIs
    <3> QED
      BY <3>1, <3>3
  <2>3. ASSUME NEW i \in DOMAIN s, Displaced(r, b) = {i}, s[i].filler = b.filler
        PROVE  /\ t \in Seq(Bids) /\ Len(t) <= MaxBids /\ Single(t) /\ Range(t) \subseteq H \cup {b}
               /\ Covers(t, H \cup {b})
    <3>1. \A j \in DOMAIN s \ {i} : s[j].filler # b.filler
      BY <1>1, <2>3 DEF Single
    <3>2. /\ t \in Seq(Bids) /\ Len(t) = Len(s) /\ Single(t)
          /\ Range(t) = {s[j] : j \in DOMAIN s \ {i}} \cup {b}
      BY <2>2, <2>3, <3>1 DEF Without
    <3>3. b.bump < s[i].bump
      BY <2>3 DEF MayPlace
    <3>4. ASSUME NEW h \in H
          PROVE  \/ \E k \in Range(t) : k.filler = h.filler /\ k.bump <= h.bump
                 \/ Len(t) = MaxBids /\ \A k \in Range(t) : k.bump <= h.bump
      <4>1. CASE \E k \in Range(s) : k.filler = h.filler /\ k.bump <= h.bump
        <5>1. PICK j \in DOMAIN s : s[j].filler = h.filler /\ s[j].bump <= h.bump
          BY <4>1 DEF Range
        <5>2. CASE j = i
          BY <1>3, <1>4, <2>3, <3>2, <3>3, <5>1, <5>2
        <5>3. CASE j # i
          BY <3>2, <5>1, <5>3
        <5> QED
          BY <5>2, <5>3
      <4>2. CASE Len(s) = MaxBids /\ \A k \in Range(s) : k.bump <= h.bump
        <5>1. \A j \in DOMAIN s : s[j].bump <= h.bump
          BY <1>3, <4>2
        <5> QED
          BY <1>3, <1>4, <3>2, <3>3, <4>2, <5>1
      <4> QED
        BY <1>1, <4>1, <4>2 DEF Covers
    <3>5. Covers(t, H \cup {b})
      BY <1>4, <3>2, <3>4 DEF Covers
    <3>6. Range(t) \subseteq H \cup {b}
      BY <1>1, <1>3, <3>2
    <3> QED
      BY <1>1, <3>2, <3>5, <3>6
  <2>4. ASSUME NEW i \in DOMAIN s, Displaced(r, b) = {i}, Len(s) = MaxBids,
               \A j \in DOMAIN s : s[j].filler # b.filler,
               \A j \in DOMAIN s : s[j].bump <= s[i].bump
        PROVE  /\ t \in Seq(Bids) /\ Len(t) <= MaxBids /\ Single(t) /\ Range(t) \subseteq H \cup {b}
               /\ Covers(t, H \cup {b})
    <3>1. /\ t \in Seq(Bids) /\ Len(t) = Len(s) /\ Single(t)
          /\ Range(t) = {s[j] : j \in DOMAIN s \ {i}} \cup {b}
      BY <2>2, <2>4 DEF Without
    <3>2. b.bump < s[i].bump
      BY <2>4 DEF MayPlace
    <3>3. \A k \in Range(t) : k.bump <= s[i].bump
      BY <1>3, <1>4, <2>4, <3>1, <3>2
    <3>4. ASSUME NEW h \in H
          PROVE  \/ \E k \in Range(t) : k.filler = h.filler /\ k.bump <= h.bump
                 \/ Len(t) = MaxBids /\ \A k \in Range(t) : k.bump <= h.bump
      <4>1. ASSUME s[i].bump <= h.bump
            PROVE  Len(t) = MaxBids /\ \A k \in Range(t) : k.bump <= h.bump
        <5>1. \A k \in Range(t) : k.bump \in Nat
          BY <1>3, <1>4, <3>1
        <5> QED
          BY <1>3, <1>4, <2>4, <3>1, <3>3, <4>1, <5>1
      <4>2. CASE \E k \in Range(s) : k.filler = h.filler /\ k.bump <= h.bump
        <5>1. PICK j \in DOMAIN s : s[j].filler = h.filler /\ s[j].bump <= h.bump
          BY <4>2 DEF Range
        <5>2. CASE j = i
          BY <4>1, <5>1, <5>2
        <5>3. CASE j # i
          BY <3>1, <5>1, <5>3
        <5> QED
          BY <5>2, <5>3
      <4>3. CASE Len(s) = MaxBids /\ \A k \in Range(s) : k.bump <= h.bump
        BY <1>3, <4>1, <4>3
      <4> QED
        BY <1>1, <4>2, <4>3 DEF Covers
    <3>5. Covers(t, H \cup {b})
      BY <1>4, <3>1, <3>4 DEF Covers
    <3>6. Range(t) \subseteq H \cup {b}
      BY <1>1, <1>3, <3>1
    <3> QED
      BY <1>1, <3>1, <3>5, <3>6
  <2> QED
    BY <1>1, <2>1, <2>3, <2>4, DisplacedIs
<1>6. [rounds[r] EXCEPT !.bids = t] \in Rounds
  BY <1>1, <1>5 DEF Rounds
<1>7. /\ [rounds[r] EXCEPT !.bids = t].bids = t
      /\ [rounds[r] EXCEPT !.bids = t].result = None
      /\ [rounds[r] EXCEPT !.bids = t].closesAt = rounds[r].closesAt
  BY <1>1 DEF Rounds
<1>8. H \cup {b} \subseteq Bids /\ \A h \in H \cup {b} : Authentic(h) /\ h.closesAt = rounds[r].closesAt
  BY <1>1 DEF Sound
<1> HIDE DEF s, t
<1> QED
  BY <1>2, <1>5, <1>6, <1>7, <1>8 DEF Sound, t

-----------------------------------------------------------------------------
(* Every step keeps the invariant.                                         *)

(* The rounds after a settlement of one of them.                           *)
LEMMA SettledIs ==
    ASSUME rounds \in Seq(Rounds), now \in Nat,
           NEW r \in DOMAIN rounds, NEW H, Sound(rounds[r], H)
    PROVE  /\ Settled(r) \in Seq(Rounds) /\ Len(Settled(r)) = Len(rounds)
           /\ DOMAIN Settled(r) = DOMAIN rounds
           /\ Sound(Settled(r)[r], H) /\ Settled(r)[r].closesAt = rounds[r].closesAt
           /\ rounds[r].result # None => Settled(r)[r] = rounds[r]
           /\ \A k \in DOMAIN rounds \ {r} : Settled(r)[k] = rounds[k]
<1> DEFINE K == Range(rounds[r].bids)
           o == SelectQuote(K)
           rd == [rounds[r] EXCEPT !.result = [outcome |-> o, settledAt |-> now]]
<1>1. rounds[r] \in Rounds /\ Standing(r) = rounds[r].bids
  BY DEF Standing, Sound
<1>2. CASE Open(r) /\ o # None
  <2>1. K # {}
    BY <1>2 DEF SelectQuote
  <2>2. K \in SUBSET Bids /\ IsFiniteSet(K)
    BY <1>1, SingleScores DEF Sound, Rounds
  <2>3. o \in Outcomes
    BY <2>1, <2>2, QuoteIs
  <2> HIDE DEF o, K
  <2>4. rd \in Rounds /\ rd.result = [outcome |-> o, settledAt |-> now]
        /\ rd.bids = rounds[r].bids /\ rd.closesAt = rounds[r].closesAt
    BY <1>1, <2>3 DEF Rounds, Results
  <2> HIDE DEF rd
  <2>5. Sound(rd, H)
    BY <2>1, <2>4 DEF Sound, o, K
  <2>6. Settled(r) = [rounds EXCEPT ![r] = rd]
    BY <1>1, <1>2 DEF Settled, o, K, rd
  <2> QED
    BY <1>2, <2>4, <2>5, <2>6 DEF Open
<1>3. CASE ~(Open(r) /\ o # None)
  <2>1. Settled(r) = rounds
    BY <1>1, <1>3 DEF Settled
  <2> QED
    BY <2>1
<1> QED
  BY <1>2, <1>3

(* What is quoted of a settled round stays so.                             *)
LEMMA QuotesStay ==
    ASSUME NEW r, rounds[r].result # None => rounds'[r] = rounds[r], Granted(r)
    PROVE  Granted(r)' /\ QuoteOf(r)' = QuoteOf(r)
<1>1. rounds'[r] = rounds[r]
  BY DEF Granted
<1>2. Granted(r)' /\ WinningBid(r)' = WinningBid(r)
  BY <1>1 DEF Granted, WinningBid, Standing
<1> QED
  BY <1>1, <1>2 DEF QuoteOf

(* The initial state satisfies it.                                         *)
LEMMA InitInv == Init => Inv
  BY DEF Init, Inv, TypeOK, Bound

(* A step that changes no round, flight or quote.                          *)
LEMMA IdleKeepsInv ==
    ASSUME Inv, UNCHANGED <<rounds, flight, heard, quotes>>, now' \in Nat,
           current' \in {0, current}, minting' \in {None, minting}
    PROVE  Inv'
<1>1. TypeOK' /\ Bound'
  BY DEF Inv, TypeOK, Bound
<1>2. (\A r \in DOMAIN rounds : Sound(rounds[r], heard[r]))'
  BY DEF Inv
<1>3. (minting # None => Granted(minting))'
  BY DEF Inv, Granted
<1>4. (\A q \in quotes : \E r \in DOMAIN rounds : Granted(r) /\ q = QuoteOf(r))'
  BY DEF Inv, Granted, QuoteOf, WinningBid, Standing
<1> QED
  BY <1>1, <1>2, <1>3, <1>4 DEF Inv

(* A round is opened.                                                      *)
LEMMA OpenRoundKeepsInv == ASSUME Inv, OpenRound PROVE Inv'
<1> DEFINE n == Len(rounds) + 1
           rd == [closesAt |-> Closings[n], bids |-> <<>>, voided |-> FALSE, result |-> None]
<1>1. /\ TypeOK /\ Bound
      /\ rounds \in Seq(Rounds) /\ Len(rounds) \in Nat /\ Len(heard) = Len(rounds)
      /\ heard \in Seq(SUBSET Bids)
  BY DEF Inv, TypeOK
<1>2. Closings[n] \in Nat
  BY <1>1, BidsAssumption DEF OpenRound
<1>3. rd \in Rounds /\ rd.result = None /\ rd.bids = <<>> /\ rd.closesAt = Closings[n]
  BY <1>2 DEF Rounds
<1>4. rounds' = Append(rounds, rd) /\ heard' = Append(heard, {}) /\ current' = n
      /\ UNCHANGED <<now, flight, minting, quotes>>
  BY DEF OpenRound
<1>5. Sound(rd, {})
  <2>1. Range(rd.bids) = {}
    BY <1>3 DEF Range
  <2>2. MaxBids \in Nat
    BY RoundAssumption
  <2> QED
    BY <1>3, <2>1, <2>2, FS_EmptySet DEF Sound, Single, Covers
<1> HIDE DEF rd
<1>6. /\ rounds' \in Seq(Rounds) /\ Len(rounds') = n /\ rounds'[n] = rd
      /\ DOMAIN rounds = 1..Len(rounds) /\ DOMAIN rounds' = 1..n
      /\ \A r \in DOMAIN rounds : r \in DOMAIN rounds' /\ rounds'[r] = rounds[r]
  BY <1>1, <1>3, <1>4
<1>7. /\ heard' \in Seq(SUBSET Bids) /\ Len(heard') = n /\ heard'[n] = {}
      /\ \A r \in DOMAIN rounds : heard'[r] = heard[r]
  BY <1>1, <1>4, <1>6
<1>8. \A r \in DOMAIN rounds' : r \in DOMAIN rounds \/ r = n
  BY <1>1, <1>6
<1>9. TypeOK'
  <2>1. flight' \in [Clients -> {None} \cup [round : DOMAIN rounds', bid : Bids]]
    BY <1>1, <1>4, <1>6 DEF TypeOK
  <2> QED
    BY <1>1, <1>4, <1>6, <1>7, <2>1 DEF TypeOK
<1>10. Bound'
  BY <1>1, <1>4, <1>6, NoneAssumption DEF Bound, TypeOK
<1>11. (\A r \in DOMAIN rounds : Sound(rounds[r], heard[r]))'
  BY <1>5, <1>6, <1>7, <1>8 DEF Inv
<1>12. (minting # None => Granted(minting))'
  BY <1>1, <1>4, <1>6 DEF Inv, TypeOK, Granted
<1>13. (\A q \in quotes : \E r \in DOMAIN rounds : Granted(r) /\ q = QuoteOf(r))'
  BY <1>4, <1>6, QuotesStay DEF Inv
<1> QED
  BY <1>9, <1>10, <1>11, <1>12, <1>13 DEF Inv

(* A step that changes one round, which keeps what is settled.             *)
LEMMA OneRoundKeepsInv ==
    ASSUME Inv, NEW r \in DOMAIN rounds,
           rounds' \in Seq(Rounds), Len(rounds') = Len(rounds), DOMAIN rounds' = DOMAIN rounds,
           \A k \in DOMAIN rounds \ {r} : rounds'[k] = rounds[k] /\ heard'[k] = heard[k],
           rounds'[r].closesAt = rounds[r].closesAt,
           rounds[r].result # None => rounds'[r] = rounds[r],
           heard' \in Seq(SUBSET Bids), Len(heard') = Len(heard),
           Sound(rounds'[r], heard'[r]), UNCHANGED <<now, current, quotes>>,
           minting' \in {None, minting} \/ (minting' = r /\ Granted(r)'),
           \A c \in Clients : flight'[c] \in {None, flight[c]},
           flight' \in [Clients -> {None} \cup [round : DOMAIN rounds, bid : Bids]]
    PROVE  Inv'
<1>1. TypeOK /\ Bound
  BY DEF Inv
<1>2. \A k \in DOMAIN rounds : /\ rounds'[k].closesAt = rounds[k].closesAt
                               /\ rounds[k].result # None => rounds'[k] = rounds[k]
  OBVIOUS
<1>3. TypeOK'
  BY <1>1 DEF TypeOK
<1>4. Bound'
  <2> SUFFICES ASSUME NEW c \in Clients, flight'[c] # None
               PROVE  flight'[c].bid.closesAt = rounds'[flight'[c].round].closesAt
    BY DEF Bound
  <2>1. flight'[c] = flight[c] /\ flight[c].round \in DOMAIN rounds
    BY <1>1 DEF TypeOK
  <2> QED
    BY <1>1, <1>2, <2>1 DEF Bound
<1>5. (\A k \in DOMAIN rounds : Sound(rounds[k], heard[k]))'
  BY DEF Inv
<1>6. (minting # None => Granted(minting))'
  BY <1>1, <1>2 DEF Inv, Granted, TypeOK
<1>7. (\A q \in quotes : \E k \in DOMAIN rounds : Granted(k) /\ q = QuoteOf(k))'
  BY <1>2, QuotesStay DEF Inv
<1> QED
  BY <1>3, <1>4, <1>5, <1>6, <1>7 DEF Inv

(* A round is settled, or asked for another quote.                         *)
LEMMA SettleKeepsInv == ASSUME Inv, Settle PROVE Inv'
<1>1. TypeOK /\ current \in DOMAIN rounds /\ rounds \in Seq(Rounds) /\ now \in Nat
  BY DEF Inv, TypeOK, Settle
<1>2. Sound(rounds[current], heard[current])
  BY <1>1 DEF Inv
<1>3. rounds' = Settled(current) /\ UNCHANGED <<now, current, flight, quotes, heard>>
  BY DEF Settle
<1>4. minting' = None \/ (minting' = current /\ Granted(current)')
  BY <1>3 DEF Settle, Granted
<1>5. /\ rounds' \in Seq(Rounds) /\ Len(rounds') = Len(rounds) /\ DOMAIN rounds' = DOMAIN rounds
      /\ Sound(rounds'[current], heard'[current])
      /\ rounds'[current].closesAt = rounds[current].closesAt
      /\ rounds[current].result # None => rounds'[current] = rounds[current]
      /\ \A k \in DOMAIN rounds \ {current} : rounds'[k] = rounds[k]
  BY <1>1, <1>2, <1>3, SettledIs
<1> QED
  BY <1>1, <1>3, <1>4, <1>5, OneRoundKeepsInv DEF TypeOK

(* A round is voided.                                                      *)
LEMMA VoidKeepsInv == ASSUME Inv, Void PROVE Inv'
<1> DEFINE rd == [rounds[current] EXCEPT !.voided = TRUE]
<1>1. TypeOK /\ current \in DOMAIN rounds /\ rounds \in Seq(Rounds) /\ rounds[current] \in Rounds
  BY DEF Inv, TypeOK, Void
<1>2. Sound(rounds[current], heard[current]) /\ rounds[current].result = None
  BY <1>1 DEF Inv, Void, Open
<1>3. /\ rd \in Rounds /\ rd.bids = rounds[current].bids /\ rd.result = None
      /\ rd.closesAt = rounds[current].closesAt
  BY <1>1, <1>2 DEF Rounds
<1>4. rounds' = [rounds EXCEPT ![current] = rd] /\ UNCHANGED <<now, current, flight, minting, quotes, heard>>
  BY DEF Void
<1> HIDE DEF rd
<1>5. Sound(rd, heard[current])
  BY <1>2, <1>3 DEF Sound
<1>6. /\ rounds' \in Seq(Rounds) /\ Len(rounds') = Len(rounds) /\ DOMAIN rounds' = DOMAIN rounds
      /\ rounds'[current] = rd /\ \A k \in DOMAIN rounds \ {current} : rounds'[k] = rounds[k]
  BY <1>1, <1>3, <1>4
<1> QED
  BY <1>1, <1>2, <1>3, <1>4, <1>5, <1>6, OneRoundKeepsInv DEF TypeOK

(* A quote is signed.                                                      *)
LEMMA MintKeepsInv == ASSUME Inv, Mint PROVE Inv'
<1>1. TypeOK /\ minting \in DOMAIN rounds /\ Granted(minting)
  BY DEF Inv, TypeOK, Mint
<1>2. quotes' = quotes \cup {QuoteOf(minting)} /\ minting' = None
      /\ UNCHANGED <<now, rounds, current, flight, heard>>
  BY DEF Mint, QuoteOf
<1>3. TypeOK' /\ Bound'
  BY <1>2 DEF Inv, TypeOK, Bound
<1>4. (\A r \in DOMAIN rounds : Sound(rounds[r], heard[r]))'
  BY <1>2 DEF Inv
<1>5. (\A q \in quotes : \E r \in DOMAIN rounds : Granted(r) /\ q = QuoteOf(r))'
  <2>1. \A q \in quotes' : \E r \in DOMAIN rounds : Granted(r) /\ q = QuoteOf(r)
    BY <1>1, <1>2 DEF Inv
  <2>2. \A r \in DOMAIN rounds : Granted(r)' = Granted(r) /\ QuoteOf(r)' = QuoteOf(r)
    BY <1>2 DEF Granted, QuoteOf, WinningBid, Standing
  <2> QED
    BY <1>2, <2>1, <2>2
<1> QED
  BY <1>2, <1>3, <1>4, <1>5 DEF Inv

(* A bid comes.                                                            *)
LEMMA SubmitKeepsInv == ASSUME Inv, NEW c \in Clients, Submit(c) PROVE Inv'
<1>1. PICK b \in Bids :
        /\ flight[c] = None /\ current # 0 /\ b.closesAt = rounds[current].closesAt
        /\ IF MayPlace(current, b)
           THEN flight' = [flight EXCEPT ![c] = [round |-> current, bid |-> b]] /\ UNCHANGED heard
           ELSE Hear(current, b) /\ UNCHANGED flight
        /\ UNCHANGED <<now, rounds, current, minting, quotes>>
  BY DEF Submit
<1>2. /\ TypeOK /\ Bound /\ current \in DOMAIN rounds /\ heard \in Seq(SUBSET Bids)
      /\ Sound(rounds[current], heard[current]) /\ rounds \in Seq(Rounds)
      /\ DOMAIN heard = DOMAIN rounds /\ heard[current] \in SUBSET Bids
  BY <1>1 DEF Inv, TypeOK
<1>3. CASE MayPlace(current, b)
  <2>1. flight' = [flight EXCEPT ![c] = [round |-> current, bid |-> b]] /\ UNCHANGED heard
    BY <1>1, <1>3
  <2>2. TypeOK'
    BY <1>1, <1>2, <2>1 DEF TypeOK
  <2>3. Bound'
    BY <1>1, <1>2, <2>1 DEF TypeOK, Bound
  <2>4. (\A r \in DOMAIN rounds : Sound(rounds[r], heard[r]))'
    BY <1>1, <2>1 DEF Inv
  <2>5. (minting # None => Granted(minting))'
    BY <1>1 DEF Inv, Granted
  <2>6. (\A q \in quotes : \E r \in DOMAIN rounds : Granted(r) /\ q = QuoteOf(r))'
    BY <1>1 DEF Inv, Granted, QuoteOf, WinningBid, Standing
  <2> QED
    BY <2>2, <2>3, <2>4, <2>5, <2>6 DEF Inv
<1>4. CASE ~MayPlace(current, b) /\ Authentic(b)
  <2>1. heard' = [heard EXCEPT ![current] = heard[current] \cup {b}] /\ UNCHANGED <<rounds, flight>>
    BY <1>1, <1>4 DEF Hear
  <2>2. Sound(rounds[current], heard[current] \cup {b})
    BY <1>1, <1>2, <1>4, RefusedSound
  <2>3. /\ heard' \in Seq(SUBSET Bids) /\ Len(heard') = Len(heard)
        /\ heard'[current] = heard[current] \cup {b}
        /\ \A k \in DOMAIN rounds \ {current} : heard'[k] = heard[k]
    BY <1>2, <2>1
  <2> QED
    BY <1>1, <1>2, <2>1, <2>2, <2>3, OneRoundKeepsInv DEF TypeOK
<1>5. CASE ~MayPlace(current, b) /\ ~Authentic(b)
  BY <1>1, <1>2, <1>5, IdleKeepsInv DEF Hear, TypeOK
<1> QED
  BY <1>3, <1>4, <1>5

(* A bid has been verified.                                                *)
LEMMA VerifiedKeepsInv == ASSUME Inv, NEW c \in Clients, Verified(c) PROVE Inv'
<1> DEFINE r == flight[c].round
           b == flight[c].bid
           rd == [rounds[r] EXCEPT !.bids = Placed(r, b)]
<1>1. /\ TypeOK /\ Bound /\ r \in DOMAIN rounds /\ b \in Bids /\ b.closesAt = rounds[r].closesAt
      /\ heard \in Seq(SUBSET Bids) /\ rounds \in Seq(Rounds) /\ DOMAIN heard = DOMAIN rounds
  BY DEF Inv, TypeOK, Bound, Verified
<1>2. Sound(rounds[r], heard[r]) /\ heard[r] \in SUBSET Bids
  BY <1>1 DEF Inv
<1>3. flight' = [flight EXCEPT ![c] = None] /\ UNCHANGED <<now, current, minting, quotes>>
  BY DEF Verified
<1>4. /\ \A d \in Clients : flight'[d] \in {None, flight[d]}
      /\ flight' \in [Clients -> {None} \cup [round : DOMAIN rounds, bid : Bids]]
  BY <1>1, <1>3 DEF TypeOK
<1>5. CASE Authentic(b) /\ Open(r)
  <2>1. heard' = [heard EXCEPT ![r] = heard[r] \cup {b}]
    BY <1>5 DEF Verified, StillDecides, Hear
  <2>2. rounds' = IF MayPlace(r, b) THEN [rounds EXCEPT ![r] = rd] ELSE rounds
    BY <1>5 DEF Verified, StillDecides
  <2>3. rounds[r].result = None
    BY <1>5 DEF Open
  <2>4. /\ heard' \in Seq(SUBSET Bids) /\ Len(heard') = Len(heard)
        /\ heard'[r] = heard[r] \cup {b}
        /\ \A k \in DOMAIN rounds \ {r} : heard'[k] = heard[k]
    BY <1>1, <1>2, <2>1
  <2>5. CASE MayPlace(r, b)
    <3>1. Sound(rd, heard[r] \cup {b})
      BY <1>1, <1>2, <1>5, <2>3, <2>5, PlacedSound
    <3>2. rd \in Rounds /\ rd.closesAt = rounds[r].closesAt
      <4>1. rounds[r] \in Rounds
        BY <1>1
      <4> QED
        BY <3>1, <4>1 DEF Rounds, Sound
    <3>3. /\ rounds' \in Seq(Rounds) /\ Len(rounds') = Len(rounds) /\ DOMAIN rounds' = DOMAIN rounds
          /\ rounds'[r] = rd /\ \A k \in DOMAIN rounds \ {r} : rounds'[k] = rounds[k]
      <4> HIDE DEF rd, r, b
      <4> QED
        BY <1>1, <2>2, <2>5, <3>2
    <3> HIDE DEF rd, r, b
    <3> QED
      BY <1>1, <1>3, <1>4, <2>3, <2>4, <3>1, <3>2, <3>3, OneRoundKeepsInv
  <2>6. CASE ~MayPlace(r, b)
    <3>1. Sound(rounds[r], heard[r] \cup {b}) /\ rounds' = rounds
      BY <1>1, <1>2, <1>5, <2>2, <2>6, RefusedSound
    <3> HIDE DEF r, b
    <3> QED
      BY <1>1, <1>3, <1>4, <2>4, <3>1, OneRoundKeepsInv
  <2> QED
    BY <2>5, <2>6
<1>6. CASE ~(Authentic(b) /\ Open(r))
  <2>1. UNCHANGED <<rounds, heard>>
    BY <1>6 DEF Verified, StillDecides
  <2> HIDE DEF r, b
  <2> QED
    BY <1>1, <1>2, <1>3, <1>4, <2>1, OneRoundKeepsInv
<1> QED
  BY <1>5, <1>6

(* Every step keeps it.                                                    *)
LEMMA NextKeepsInv == Inv /\ [Next]_vars => Inv'
<1> SUFFICES ASSUME Inv, [Next]_vars PROVE Inv'
  OBVIOUS
<1>1. CASE OpenRound
  BY <1>1, OpenRoundKeepsInv
<1>2. CASE Settle
  BY <1>2, SettleKeepsInv
<1>3. CASE SettleDue
  BY <1>3, SettleKeepsInv DEF SettleDue
<1>4. CASE Mint
  BY <1>4, MintKeepsInv
<1>5. CASE Void
  BY <1>5, VoidKeepsInv
<1>6. CASE MintFails \/ Prune \/ Pass \/ UNCHANGED vars
  <2>1. UNCHANGED <<rounds, flight, heard, quotes>>
    BY <1>6 DEF MintFails, Prune, Pass, vars
  <2>2. now' \in Nat /\ current' \in {0, current} /\ minting' \in {None, minting}
    BY <1>6 DEF Inv, TypeOK, MintFails, Prune, Pass, vars
  <2> QED
    BY <2>1, <2>2, IdleKeepsInv
<1>7. ASSUME NEW c \in Clients, Submit(c) PROVE Inv'
  BY <1>7, SubmitKeepsInv
<1>8. ASSUME NEW c \in Clients, Verified(c) PROVE Inv'
  BY <1>8, VerifiedKeepsInv
<1> QED
  BY <1>1, <1>2, <1>3, <1>4, <1>5, <1>6, <1>7, <1>8 DEF Next

-----------------------------------------------------------------------------
(* The theorems.                                                           *)

(* In every reachable state the rounds, submissions and quotes are well    *)
(* formed, and each round's bids cover all it heard.                       *)
THEOREM RoundsAreSound == Spec => []Inv
<1> QED
  BY InitInv, NextKeepsInv, PTL DEF Spec

(* A round may keep one bid of each filler and the lowest MaxBids of these *)
(* and decide the same price and the same winning bid as if it had kept    *)
(* every authentic bid that reached it (round.ts, placement).              *)
THEOREM CappingPreservesOutcome == Spec => []OutcomePreserved
<1>1. ASSUME Inv, NEW r \in DOMAIN rounds
      PROVE  LET kept == SelectQuote(Range(Standing(r))) all == SelectQuote(heard[r])
             IN  /\ kept = None <=> all = None
                 /\ kept # None => kept.bump = all.bump /\ kept.winningBid = all.winningBid
  <2> DEFINE bids == rounds[r].bids
             H == heard[r]
  <2>1. Sound(rounds[r], H) /\ Standing(r) = bids
    BY <1>1 DEF Inv, Standing
  <2>2. /\ bids \in Seq(Bids) /\ Single(bids) /\ Len(bids) <= MaxBids /\ H \in SUBSET Bids
        /\ IsFiniteSet(H) /\ Range(bids) \subseteq H /\ Covers(bids, H)
    BY <2>1 DEF Sound, Rounds
  <2> HIDE DEF bids, H
  <2>3. Range(bids) \in SUBSET Bids /\ IsFiniteSet(Range(bids))
    BY <2>2, SingleScores
  <2>4. /\ Range(bids) = {} <=> H = {}
        /\ Range(bids) # {} =>
             /\ SelectQuote(Range(bids)).bump = SelectQuote(H).bump
             /\ SelectQuote(Range(bids)).winningBid = SelectQuote(H).winningBid
    BY <2>2, KeptDecides
  <2>5. /\ SelectQuote(Range(bids)) = None <=> Range(bids) = {}
        /\ SelectQuote(H) = None <=> H = {}
    <3>1. SelectQuote({}) = None
      BY DEF SelectQuote
    <3> QED
      BY <2>2, <2>3, <3>1, QuoteIs
  <2> QED
    BY <2>1, <2>4, <2>5 DEF H
<1>2. Inv => OutcomePreserved
  BY <1>1 DEF OutcomePreserved
<1> QED
  BY <1>2, RoundsAreSound, PTL

(* A settled round passes checkRound, whatever was still being verified    *)
(* when it was settled.                                                    *)
THEOREM SettledRoundsCheck == Spec => []PublishedRoundChecks
<1>1. Inv => PublishedRoundChecks
  BY DEF Inv, Sound, Single, PublishedRoundChecks, Standing
<1> QED
  BY <1>1, RoundsAreSound, PTL

(* A quote's terms come from the bids of its round.                        *)
LEMMA GrantedIsEarned ==
    ASSUME Inv, NEW r \in DOMAIN rounds, Granted(r)
    PROVE  /\ \E b \in heard[r] :
                /\ \A c \in heard[r] : b.bump <= c.bump
                /\ QuoteOf(r).filler \in {Presenter(b), AnyFiller} /\ b.bump <= QuoteOf(r).bump
           /\ \E c \in heard[r] : QuoteOf(r).bump <= c.bump
<1> DEFINE bids == rounds[r].bids
           K == Range(bids)
           H == heard[r]
           q == QuoteOf(r)
<1>1. Sound(rounds[r], H) /\ Standing(r) = bids
  BY DEF Inv, Standing
<1>2. /\ bids \in Seq(Bids) /\ Single(bids) /\ H \in SUBSET Bids /\ K \subseteq H /\ Covers(bids, H)
      /\ K # {} /\ rounds[r].result.outcome = SelectQuote(K)
  BY <1>1 DEF Sound, Rounds, Granted
<1>3. QuoteOf(r).bump = SelectQuote(K).bump /\ SelectQuote(K).bump # 0
  BY <1>2 DEF QuoteOf, Granted
<1>4. QuoteOf(r).filler \in {Presenter(WinningBid(r)), AnyFiller}
  BY DEF QuoteOf
<1>5. WinningBid(r) = CHOOSE b \in K : b.filler = SelectQuote(K).winner
  BY <1>1, <1>2 DEF WinningBid
<1> HIDE DEF bids, K, H
<1>6. K \in SUBSET Bids /\ IsFiniteSet(K) /\ BestOf(K) = K
  BY <1>2, SingleScores DEF K
<1>7. /\ Scores(K) = {[filler |-> b.filler, bump |-> b.bump] : b \in K}
      /\ Scores(K) \in SUBSET ScoreTypes
  BY <1>6, ScoresType
<1>8. /\ Winner(K) \in Scores(K) /\ \A a \in Scores(K) : Winner(K).bump <= a.bump
      /\ Bidders(K) > 1 => RunnerUp(K) \in Others(K)
      /\ Bidders(K) \in Nat
  BY <1>2, <1>6, RankedFirst
<1>9. SelectQuote(K).winner = Winner(K).filler
      /\ SelectQuote(K).bump \in {Winner(K).bump, IF Bidders(K) > 1 THEN RunnerUp(K).bump ELSE Winner(K).bump}
  <2>1. MinBidders \in Nat
    BY RoundAssumption
  <2>2. /\ SelectQuote(K).winner = Winner(K).filler
        /\ Bidders(K) < MinBidders => SelectQuote(K).bump = 0
        /\ Bidders(K) >= MinBidders /\ Vickrey /\ Bidders(K) > 1 => SelectQuote(K).bump = RunnerUp(K).bump
        /\ Bidders(K) >= MinBidders /\ ~(Vickrey /\ Bidders(K) > 1) => SelectQuote(K).bump = Winner(K).bump
    BY <1>2, <1>6, QuoteIs
  <2> QED
    BY <1>3, <1>8, <2>1, <2>2
<1>10. PICK a \in Scores(K) : q.bump = a.bump
  BY <1>3, <1>8, <1>9 DEF Others
<1>11. PICK k \in K : Winner(K) = [filler |-> k.filler, bump |-> k.bump]
  BY <1>7, <1>8
<1>12. PICK d \in K : a = [filler |-> d.filler, bump |-> d.bump]
  BY <1>7
<1>13. k.filler = SelectQuote(K).winner /\ k.bump = Winner(K).bump /\ d.bump = q.bump
  BY <1>9, <1>10, <1>11, <1>12
<1>14. \A i, j \in K : i.filler = j.filler => i = j
  BY <1>2 DEF K, Range, Single
<1>15. WinningBid(r) = k
  BY <1>5, <1>13, <1>14
<1>16. \A b \in H : b.bump \in Nat
  BY <1>2, BidsAssumption
<1>17. ASSUME NEW c \in K PROVE k.bump <= c.bump
  <2>1. [filler |-> c.filler, bump |-> c.bump] \in Scores(K)
    BY <1>7
  <2> QED
    BY <1>8, <1>13, <2>1
<1>18. \A c \in H : k.bump <= c.bump
  BY <1>2, <1>16, <1>17 DEF Covers, K
<1>19. k \in H /\ d \in H /\ k.bump <= q.bump /\ q.bump <= d.bump
  BY <1>2, <1>13, <1>16, <1>17
<1>20. \E b \in H : (\A c \in H : b.bump <= c.bump) /\ q.filler \in {Presenter(b), AnyFiller} /\ b.bump <= q.bump
  BY <1>4, <1>15, <1>18, <1>19
<1> QED
  BY <1>19, <1>20 DEF H

(* Whoever presents a quote, the winner chose it; the concession lies      *)
(* between the lowest bid heard and a bid heard; and a round asked again   *)
(* hands out the same quote (auctioneer.ts, mint).                         *)
THEOREM QuotesAreEarned == Spec => []QuoteIsEarned
<1>1. ASSUME Inv, NEW q \in quotes
      PROVE  /\ \E b \in heard[q.round] :
                  /\ \A c \in heard[q.round] : b.bump <= c.bump
                  /\ q.filler \in {Presenter(b), AnyFiller} /\ b.bump <= q.bump
             /\ \E c \in heard[q.round] : q.bump <= c.bump
             /\ \A p \in quotes : p.round = q.round => p = q
  <2>1. PICK r \in DOMAIN rounds : Granted(r) /\ q = QuoteOf(r)
    BY <1>1 DEF Inv
  <2>2. q.round = r
    BY <2>1 DEF QuoteOf
  <2>3. \A p \in quotes : p.round = q.round => p = q
    <3> SUFFICES ASSUME NEW p \in quotes, p.round = q.round PROVE p = q
      OBVIOUS
    <3>1. PICK s \in DOMAIN rounds : p = QuoteOf(s)
      BY <1>1 DEF Inv
    <3>2. p.round = s
      BY <3>1 DEF QuoteOf
    <3> QED
      BY <2>1, <2>2, <3>1, <3>2
  <2> QED
    BY <1>1, <2>1, <2>2, <2>3, GrantedIsEarned
<1>2. Inv => QuoteIsEarned
  BY <1>1 DEF QuoteIsEarned
<1> QED
  BY <1>2, RoundsAreSound, PTL
=============================================================================

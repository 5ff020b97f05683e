----------------------------- MODULE BookProofs -----------------------------
(***************************************************************************)
(* What the orderbook node holds to for every set of orders, makers,       *)
(* messages, caps and upsets.                                              *)
(***************************************************************************)
EXTENDS Book, SumProofs, SequenceTheorems

(* A book whose counts are those of its entries ...                        *)
Fields == {"entries", "counts", "tombs", "dirty", "gone"}
Exact(b) ==
    /\ DOMAIN b = Fields
    /\ DOMAIN b.entries \subseteq Orders /\ DOMAIN b.counts \subseteq Makers
    /\ \A m \in Makers : CountIn(b, m) = Cardinality(Of(b, m))

(* ... and within the caps, p being a maker's.                             *)
Within(b, p) ==
    /\ Cardinality(DOMAIN b.entries) <= MaxOrders
    /\ \A m \in Makers : Cardinality(Of(b, m)) <= p

(* The tombstones t stand for the orders R that were retracted, n being    *)
(* the time: the real ones are of such orders, and as long as R fits none  *)
(* that could still be listed has lost its own, which lasts to its         *)
(* deadline.                                                               *)
Tombs(t) ==
    /\ DOMAIN t \subseteq Orders \X Makers /\ IsFiniteSet(DOMAIN t)
    /\ \A k \in DOMAIN t : t[k] \in [until : Nat, pending : BOOLEAN]
Real(t) == {k \in DOMAIN t : ~t[k].pending}
Buries(t, o) == <<o, Maker[o]>> \in Real(t) /\ t[<<o, Maker[o]>>].until >= Expiry[o]
Marks(t, R, n) ==
    /\ Tombs(t)
    /\ \A k \in Real(t) : k[1] \in R /\ k[2] = Maker[k[1]]
    /\ Cardinality(R) <= MaxTombs => \A o \in R : Expiry[o] > n => Buries(t, o)
Stands(t, R, n) == Marks(t, R, n) /\ Cardinality(DOMAIN t) <= MaxTombs

StaysOut(b, R, n) == Cardinality(R) <= MaxTombs => \A o \in R \cap DOMAIN b.entries : Expiry[o] <= n

Good(b, R, n) == Exact(b) /\ R \subseteq Orders /\ Stands(b.tombs, R, n) /\ StaysOut(b, R, n)

(* What a call that awaits is about.                                       *)
Awaits(x) ==
    x # None =>
      /\ "kind" \in DOMAIN x /\ x.kind \in {"announce", "replace", "recheck"}
      /\ x.kind # "recheck" => {"order", "replace", "replay"} \subseteq DOMAIN x /\ x.order \in Orders
      /\ x.kind = "replace" => x.replace \in Replaces /\ x.order = x.replace.new

Bounds == [sends : Nat, moves : Nat, faults : Nat, boots : Nat, ticks : Nat, perMaker : Nat \ {0}]

Control ==
    /\ now \in Nat /\ left \in Bounds
    /\ store \in Seq(Messages)
    /\ DOMAIN boot = {"phase", "next", "last"} /\ boot.phase \in {"cancel", "order", "replace", "live"}
    /\ boot.next \in Nat \ {0} /\ boot.last \in 0..Len(store)
Calls == DOMAIN task = Tasks /\ \A t \in Tasks : Awaits(task[t])
Kept(b, p, R, n) == Good(b, R, n) /\ Within(b, p)

Inv == Control /\ Calls /\ Kept(Book, MaxPerMaker, retracted, now)

-----------------------------------------------------------------------------
(* Orders and sets of them are finite.                                     *)
LEMMA FiniteOrders ==
    ASSUME NEW S \in SUBSET Orders
    PROVE  IsFiniteSet(S) /\ Cardinality(S) \in Nat
BY BookAssumption, FS_Subset, FS_CardinalityType DEF BookAssumption

LEMMA MakersOf ==
    /\ \A o \in Orders : Maker[o] \in Makers
    /\ Expiry \in [Orders -> Nat]
    /\ MaxTombs \in Nat /\ MaxOrders \in Nat /\ MaxPending \in Nat /\ MaxOrders >= 1 /\ MaxTtl \in Nat /\ MinTtl \in Nat
BY BookAssumption DEF BookAssumption, Makers, Range

LEMMA Shares ==
    ASSUME NEW b, DOMAIN b.entries \subseteq Orders
    PROVE  \A m : Of(b, m) \subseteq Orders /\ Of(b, m) \subseteq DOMAIN b.entries
BY DEF Of

LEMMA RecordKept ==
    ASSUME NEW b, NEW c, NEW R, NEW n, Good(b, R, n),
           DOMAIN c = Fields, DOMAIN c.entries = DOMAIN b.entries, c.counts = b.counts, c.tombs = b.tombs
    PROVE  /\ Good(c, R, n)
           /\ \A p : Within(b, p) => Within(c, p)
BY DEF Good, Exact, StaysOut, Within, Of, CountIn

-----------------------------------------------------------------------------
(* Listing and evicting.                                                   *)
LEMMA Parts ==
    ASSUME NEW U \in SUBSET Orders, NEW S
    PROVE  /\ IsFiniteSet(U) /\ Cardinality(U) \in Nat /\ Cardinality(U \ S) \in Nat
           /\ Cardinality(U \ S) = Cardinality(U) - Cardinality(U \cap S)
           /\ Cardinality(U \ S) <= Cardinality(U)
           /\ Cardinality(U) = 0 => U = {}
<1>1. /\ IsFiniteSet(U) /\ Cardinality(U) \in Nat
      /\ IsFiniteSet(U \ S) /\ Cardinality(U \ S) \in Nat
      /\ Cardinality(U \cap S) \in Nat
  BY FiniteOrders
<1>2. Cardinality(U \ S) = Cardinality(U) - Cardinality(U \cap S)
  BY <1>1, FS_Difference
<1>3. Cardinality(U) = 0 => U = {}
  BY <1>1, FS_EmptySet
<1> QED
  BY <1>1, <1>2, <1>3

LEMMA EvictResult ==
    ASSUME NEW b, Exact(b), NEW S
    PROVE  /\ Exact(Evict(b, S)) /\ Evict(b, S).tombs = b.tombs
           /\ DOMAIN Evict(b, S).entries = DOMAIN b.entries \ S
           /\ \A m : Of(Evict(b, S), m) = Of(b, m) \ S
           /\ \A p \in Nat : Within(b, p) => Within(Evict(b, S), p)
<1> DEFINE e == Evict(b, S)
           out == S \cap DOMAIN b.entries
           rest(m) == CountIn(b, m) - Cardinality(Of(b, m) \cap out)
<1>1. /\ DOMAIN b = Fields /\ DOMAIN b.entries \subseteq Orders /\ DOMAIN b.counts \subseteq Makers
      /\ \A m \in Makers : CountIn(b, m) = Cardinality(Of(b, m))
  BY DEF Exact
<1>2. \A m : Of(b, m) \in SUBSET Orders /\ Of(b, m) \ S = Of(b, m) \ out
  BY <1>1 DEF Of
<1>3. CASE out = {}
  <2>1. e = b /\ DOMAIN b.entries \ S = DOMAIN b.entries
    BY <1>3 DEF Evict
  <2>2. \A m : Of(b, m) \ S = Of(b, m)
    BY <1>3 DEF Of
  <2> QED
    BY <2>1, <2>2
<1>4. CASE out # {}
  <2>1. /\ DOMAIN e = Fields /\ e.tombs = b.tombs
        /\ e.entries = Restrict(b.entries, DOMAIN b.entries \ out)
        /\ e.counts = [m \in {x \in DOMAIN b.counts : rest(x) > 0} |-> rest(m)]
    BY <1>1, <1>4 DEF Evict, Fields
  <2>2. DOMAIN e.entries = DOMAIN b.entries \ S
    BY <2>1 DEF Restrict
  <2>3. \A m : Of(e, m) = Of(b, m) \ S
    <3> HIDE DEF e
    <3>1. ASSUME NEW m PROVE Of(e, m) = Of(b, m) \ S
      BY <2>2 DEF Of
    <3> QED
      BY <3>1
  <2>4. ASSUME NEW m \in Makers PROVE CountIn(e, m) = Cardinality(Of(e, m))
    <3>1. rest(m) = Cardinality(Of(b, m) \ S) /\ rest(m) \in Nat
      <4>1. /\ Cardinality(Of(b, m) \ out) = Cardinality(Of(b, m)) - Cardinality(Of(b, m) \cap out)
            /\ Cardinality(Of(b, m) \ out) \in Nat
        BY <1>2, Parts
      <4>2. CountIn(b, m) = Cardinality(Of(b, m))
        BY <1>1
      <4> QED
        BY <1>2, <4>1, <4>2
    <3> DEFINE r == rest(m)
    <3>2. CountIn(e, m) = IF m \in DOMAIN b.counts /\ r > 0 THEN r ELSE 0
      BY <2>1 DEF CountIn
    <3>3. m \notin DOMAIN b.counts => r = 0
      <4>1. ASSUME m \notin DOMAIN b.counts PROVE Cardinality(Of(b, m)) = 0
        BY <1>1, <4>1 DEF CountIn
      <4>2. m \notin DOMAIN b.counts => Of(b, m) = {}
        BY <1>2, <4>1, Parts
      <4> QED
        BY <3>1, <4>2, FS_EmptySet
    <3> HIDE DEF r, rest
    <3>4. r = Cardinality(Of(e, m)) /\ r \in Nat
      BY <2>3, <3>1 DEF r
    <3> QED
      BY <3>2, <3>3, <3>4
  <2>5. Exact(e)
    <3>1. DOMAIN e.entries \subseteq Orders /\ DOMAIN e.counts \subseteq Makers
      BY <1>1, <2>1, <2>2
    <3> HIDE DEF e
    <3> QED
      BY <2>1, <2>4, <3>1 DEF Exact
  <2>6. ASSUME NEW p \in Nat, Within(b, p) PROVE Within(e, p)
    <3>1. /\ Cardinality(DOMAIN e.entries) <= Cardinality(DOMAIN b.entries)
          /\ Cardinality(DOMAIN e.entries) \in Nat /\ Cardinality(DOMAIN b.entries) \in Nat
      BY <1>1, <2>2, Parts
    <3>2. ASSUME NEW m \in Makers PROVE Cardinality(Of(e, m)) <= p
      <4>1. /\ Cardinality(Of(e, m)) <= Cardinality(Of(b, m))
            /\ Cardinality(Of(e, m)) \in Nat /\ Cardinality(Of(b, m)) \in Nat
        <5> HIDE DEF e
        <5> QED
          BY <1>2, <2>3, Parts
      <4>2. Cardinality(Of(b, m)) <= p
        BY <2>6 DEF Within
      <4> HIDE DEF e
      <4> QED
        BY <4>1, <4>2
    <3>3. Cardinality(DOMAIN b.entries) <= MaxOrders
      BY <2>6 DEF Within
    <3> HIDE DEF e
    <3>4. Cardinality(DOMAIN e.entries) <= MaxOrders
      BY <3>1, <3>3, MakersOf
    <3> QED
      BY <3>2, <3>4 DEF Within
  <2> QED
    BY <2>1, <2>2, <2>3, <2>5, <2>6
<1> QED
  BY <1>3, <1>4

LEMMA ListResult ==
    ASSUME NEW b, Exact(b), NEW o \in Orders \ DOMAIN b.entries, NEW ok
    PROVE  /\ Exact(List(b, o, ok)) /\ List(b, o, ok).tombs = b.tombs
           /\ DOMAIN List(b, o, ok).entries = DOMAIN b.entries \cup {o}
           /\ \A m : Cardinality(Of(List(b, o, ok), m)) = Cardinality(Of(b, m)) + (IF m = Maker[o] THEN 1 ELSE 0)
           /\ \A m : Of(List(b, o, ok), m) = IF m = Maker[o] THEN Of(b, m) \cup {o} ELSE Of(b, m)
           /\ Cardinality(DOMAIN List(b, o, ok).entries) = Cardinality(DOMAIN b.entries) + 1
<1> DEFINE l == List(b, o, ok)
<1>1. /\ DOMAIN b = Fields /\ DOMAIN b.entries \subseteq Orders /\ DOMAIN b.counts \subseteq Makers
      /\ \A m \in Makers : CountIn(b, m) = Cardinality(Of(b, m))
  BY DEF Exact
<1>2. /\ DOMAIN l = Fields /\ l.tombs = b.tombs
      /\ l.entries = With(b.entries, o, [ok |-> ok, strikes |-> 0])
      /\ l.counts = With(b.counts, Maker[o], CountIn(b, Maker[o]) + 1)
  BY <1>1 DEF List, Fields
<1>3. DOMAIN l.entries = DOMAIN b.entries \cup {o}
  BY <1>2 DEF With
<1> HIDE DEF l
<1>4. \A m : Of(l, m) = IF m = Maker[o] THEN Of(b, m) \cup {o} ELSE Of(b, m)
  <2> SUFFICES ASSUME NEW m PROVE Of(l, m) = IF m = Maker[o] THEN Of(b, m) \cup {o} ELSE Of(b, m)
    OBVIOUS
  <2> QED
    BY <1>3 DEF Of
<1>5. \A m : Of(b, m) \in SUBSET Orders /\ o \notin Of(b, m)
  BY <1>1 DEF Of
<1>6. \A m : Cardinality(Of(l, m)) = Cardinality(Of(b, m)) + (IF m = Maker[o] THEN 1 ELSE 0)
  <2> SUFFICES ASSUME NEW m PROVE Cardinality(Of(l, m)) = Cardinality(Of(b, m)) + (IF m = Maker[o] THEN 1 ELSE 0)
    OBVIOUS
  <2>1. IsFiniteSet(Of(b, m)) /\ Cardinality(Of(b, m)) \in Nat
    BY <1>5, FiniteOrders
  <2>2. Cardinality(Of(b, m) \cup {o}) = Cardinality(Of(b, m)) + 1
    BY <1>5, <2>1, FS_AddElement
  <2> QED
    BY <1>4, <2>1, <2>2
<1>7. ASSUME NEW m \in Makers PROVE CountIn(l, m) = Cardinality(Of(l, m))
  <2>1. CountIn(l, m) = IF m = Maker[o] THEN CountIn(b, m) + 1 ELSE CountIn(b, m)
    BY <1>2 DEF CountIn, With
  <2>2. CountIn(b, m) = Cardinality(Of(b, m)) /\ Cardinality(Of(b, m)) \in Nat
    BY <1>1, <1>5, FiniteOrders
  <2> QED
    BY <1>6, <2>1, <2>2
<1>8. Cardinality(DOMAIN l.entries) = Cardinality(DOMAIN b.entries) + 1
  BY <1>1, <1>3, FiniteOrders, FS_AddElement
<1>9. Exact(l)
  <2>1. DOMAIN l.counts \subseteq Makers
    BY <1>1, <1>2, MakersOf DEF With
  <2>2. DOMAIN l.entries \subseteq Orders
    BY <1>1, <1>3
  <2> QED
    BY <1>2, <1>7, <2>1, <2>2 DEF Exact
<1>10. l = List(b, o, ok)
  BY DEF l
<1> QED
  BY <1>2, <1>3, <1>4, <1>6, <1>8, <1>9, <1>10

-----------------------------------------------------------------------------
(* Tombstones.                                                             *)

(* The real tombstones are no more than the orders they stand for.         *)
LEMMA FewReal ==
    ASSUME NEW t, NEW R \in SUBSET Orders, IsFiniteSet(DOMAIN t),
           \A k \in Real(t) : k[1] \in R /\ k[2] = Maker[k[1]],
           DOMAIN t \subseteq Orders \X Makers
    PROVE  IsFiniteSet(Real(t)) /\ Cardinality(Real(t)) <= Cardinality(R)
<1>1. IsFiniteSet(Real(t)) /\ Cardinality(Real(t)) \in Nat
  BY FS_Subset, FS_CardinalityType DEF Real
<1>2. IsFiniteSet(R) /\ Cardinality(R) \in Nat
  BY FiniteOrders
<1> SUFFICES ASSUME Cardinality(R) < Cardinality(Real(t)) PROVE FALSE
  BY <1>1, <1>2
<1> DEFINE f == [k \in Real(t) |-> k[1]]
<1>3. f \in [Real(t) -> R]
  OBVIOUS
<1>4. PICK x, y \in Real(t) : x # y /\ f[x] = f[y]
  <2> HIDE DEF f
  <2> QED
    BY <1>1, <1>2, <1>3, FS_PigeonHole
<1>5. x[1] = y[1] /\ x[2] = y[2]
  BY <1>4
<1>6. x \in Orders \X Makers /\ y \in Orders \X Makers
  BY <1>4 DEF Real
<1> QED
  BY <1>4, <1>5, <1>6

(* A table that is trimmed gives up one tombstone at most, and no real one *)
(* while a pending one is there.                                           *)
LEMMA TrimmedResult ==
    ASSUME NEW t, IsFiniteSet(DOMAIN t), Cardinality(DOMAIN t) <= MaxTombs + 1
    PROVE  /\ DOMAIN Trimmed(t) \subseteq DOMAIN t
           /\ \A k \in DOMAIN Trimmed(t) : Trimmed(t)[k] = t[k]
           /\ Cardinality(DOMAIN Trimmed(t)) <= MaxTombs
           /\ Cardinality(Real(t)) <= MaxTombs => Real(t) \subseteq DOMAIN Trimmed(t)
           /\ (\E k \in DOMAIN t : t[k].pending) => Real(t) \subseteq DOMAIN Trimmed(t)
<1>1. CASE Cardinality(DOMAIN t) <= MaxTombs
  BY <1>1 DEF Trimmed, Real
<1>2. CASE ~(Cardinality(DOMAIN t) <= MaxTombs)
  <2> DEFINE pending == {k \in DOMAIN t : t[k].pending}
             v == CHOOSE k \in DOMAIN t : pending # {} => k \in pending
  <2>1. Cardinality(DOMAIN t) \in Nat /\ Cardinality(DOMAIN t) = MaxTombs + 1 /\ MaxTombs \in Nat
    BY <1>2, FS_CardinalityType, MakersOf
  <2>2. DOMAIN t # {}
    BY <2>1, FS_EmptySet
  <2>3. v \in DOMAIN t /\ (pending # {} => v \in pending)
    <3>1. \E k \in DOMAIN t : pending # {} => k \in pending
      BY <2>2
    <3> HIDE DEF pending
    <3> QED
      BY <3>1
  <2>4. Trimmed(t) = Restrict(t, DOMAIN t \ {v})
    BY <1>2 DEF Trimmed, Without
  <2> HIDE DEF v
  <2>5. DOMAIN Trimmed(t) = DOMAIN t \ {v} /\ \A k \in DOMAIN Trimmed(t) : Trimmed(t)[k] = t[k]
    BY <2>4 DEF Restrict
  <2>6. Cardinality(DOMAIN Trimmed(t)) = MaxTombs
    BY <2>1, <2>3, <2>5, FS_RemoveElement
  <2>7. pending = {} => Real(t) = DOMAIN t
    BY DEF Real
  <2>8. pending # {} => Real(t) \subseteq DOMAIN Trimmed(t)
    BY <2>3, <2>5 DEF Real
  <2> QED
    BY <2>1, <2>5, <2>6, <2>7, <2>8
<1> QED
  BY <1>1, <1>2

LEMMA TrimStands ==
    ASSUME NEW t, NEW R \in SUBSET Orders, NEW n, Marks(t, R, n),
           Cardinality(DOMAIN t) <= MaxTombs + 1
    PROVE  Stands(Trimmed(t), R, n)
<1> DEFINE u == Trimmed(t)
<1>1. /\ DOMAIN t \subseteq Orders \X Makers /\ IsFiniteSet(DOMAIN t)
      /\ \A k \in DOMAIN t : t[k] \in [until : Nat, pending : BOOLEAN]
      /\ \A k \in Real(t) : k[1] \in R /\ k[2] = Maker[k[1]]
  BY DEF Marks, Tombs
<1>2. /\ DOMAIN u \subseteq DOMAIN t /\ \A k \in DOMAIN u : u[k] = t[k]
      /\ Cardinality(DOMAIN u) <= MaxTombs
      /\ Cardinality(Real(t)) <= MaxTombs => Real(t) \subseteq DOMAIN u
  BY <1>1, TrimmedResult
<1>3. IsFiniteSet(Real(t)) /\ Cardinality(Real(t)) <= Cardinality(R) /\ Cardinality(R) \in Nat /\ Cardinality(Real(t)) \in Nat
  BY <1>1, FewReal, FiniteOrders, FS_CardinalityType
<1>4. Real(u) \subseteq Real(t)
  BY <1>2 DEF Real
<1>5. ASSUME Cardinality(R) <= MaxTombs, NEW o \in R, Expiry[o] > n PROVE Buries(u, o)
  <2>1. Buries(t, o)
    BY <1>5 DEF Marks
  <2>2. Real(t) \subseteq DOMAIN u
    BY <1>2, <1>3, <1>5, MakersOf
  <2> HIDE DEF u
  <2> QED
    BY <1>2, <2>1, <2>2 DEF Buries, Real
<1>6. Tombs(u)
  BY <1>1, <1>2, FS_Subset DEF Tombs
<1> HIDE DEF u
<1>7. Stands(u, R, n)
  BY <1>1, <1>2, <1>4, <1>5, <1>6 DEF Stands, Marks
<1> QED
  BY <1>7 DEF u

(* A table that is marked stays so under the change of one entry, which    *)
(* leaves a real tombstone real, buries no less long, and is of R if real. *)
LEMMA MarkOne ==
    ASSUME NEW t, NEW R \in SUBSET Orders, NEW n, Marks(t, R, n),
           NEW k \in Orders \X Makers, NEW u, DOMAIN u = DOMAIN t \cup {k},
           u[k] \in [until : Nat, pending : BOOLEAN],
           \A j \in DOMAIN t \ {k} : u[j] = t[j],
           k \in DOMAIN t => u[k].until >= t[k].until /\ (~t[k].pending => ~u[k].pending),
           NEW Q \in SUBSET Orders, R \subseteq Q,
           ~u[k].pending => k[1] \in Q /\ k[2] = Maker[k[1]],
           \A o \in Q \ R : k = <<o, Maker[o]>> /\ ~u[k].pending /\ u[k].until >= Expiry[o]
    PROVE  Marks(u, Q, n)
<1>1. /\ DOMAIN t \subseteq Orders \X Makers /\ IsFiniteSet(DOMAIN t)
      /\ \A j \in DOMAIN t : t[j] \in [until : Nat, pending : BOOLEAN]
      /\ \A j \in Real(t) : j[1] \in R /\ j[2] = Maker[j[1]]
  BY DEF Marks, Tombs
<1>2. Tombs(u)
  <2>1. IsFiniteSet(DOMAIN u)
    BY <1>1, FS_AddElement
  <2> QED
    BY <1>1, <2>1 DEF Tombs
<1>3. \A j \in Real(u) : j[1] \in Q /\ j[2] = Maker[j[1]]
  BY <1>1 DEF Real
<1>4. Real(t) \subseteq Real(u) /\ \A j \in Real(t) : u[j].until >= t[j].until
  <2> SUFFICES ASSUME NEW j \in Real(t) PROVE j \in Real(u) /\ u[j].until >= t[j].until
    OBVIOUS
  <2>1. j \in DOMAIN t /\ ~t[j].pending /\ t[j].until \in Nat
    BY <1>1 DEF Real
  <2>2. CASE j = k
    BY <2>1, <2>2 DEF Real
  <2>3. CASE j # k
    BY <2>1, <2>3 DEF Real
  <2> QED
    BY <2>2, <2>3
<1>5. ASSUME Cardinality(Q) <= MaxTombs, NEW o \in Q, Expiry[o] > n PROVE Buries(u, o)
  <2>1. CASE o \in R
    <3>1. Cardinality(R) <= MaxTombs
      <4>1. Cardinality(R) <= Cardinality(Q) /\ Cardinality(R) \in Nat /\ Cardinality(Q) \in Nat
        BY FiniteOrders, FS_Subset
      <4> QED
        BY <1>5, <4>1, MakersOf
    <3>2. Buries(t, o)
      BY <1>5, <2>1, <3>1 DEF Marks
    <3>3. <<o, Maker[o]>> \in Real(u) /\ u[<<o, Maker[o]>>].until >= t[<<o, Maker[o]>>].until
      BY <1>4, <3>2 DEF Buries
    <3>4. t[<<o, Maker[o]>>].until \in Nat /\ u[<<o, Maker[o]>>].until \in Nat /\ Expiry[o] \in Nat
      BY <1>1, <1>2, <3>2, <3>3, MakersOf DEF Buries, Real, Tombs
    <3> QED
      BY <3>2, <3>3, <3>4 DEF Buries
  <2>2. CASE o \notin R
    BY <2>2 DEF Buries, Real
  <2> QED
    BY <2>1, <2>2
<1> QED
  BY <1>2, <1>3, <1>5 DEF Marks

(* A new tombstone of a full table makes room for itself.                  *)
LEMMA AddStands ==
    ASSUME NEW t, NEW R \in SUBSET Orders, NEW n, Stands(t, R, n),
           NEW k \in (Orders \X Makers) \ DOMAIN t, NEW e \in [until : Nat, pending : BOOLEAN],
           NEW Q \in SUBSET Orders, R \subseteq Q,
           ~e.pending => k[1] \in Q /\ k[2] = Maker[k[1]],
           \A o \in Q \ R : k = <<o, Maker[o]>> /\ ~e.pending /\ e.until >= Expiry[o]
    PROVE  Stands(Trimmed(With(t, k, e)), Q, n)
<1> DEFINE u == With(t, k, e)
<1>1. Marks(t, R, n) /\ IsFiniteSet(DOMAIN t) /\ Cardinality(DOMAIN t) <= MaxTombs
  BY DEF Stands, Marks, Tombs
<1>2. DOMAIN u = DOMAIN t \cup {k} /\ u[k] = e /\ \A j \in DOMAIN t \ {k} : u[j] = t[j]
  BY DEF With
<1> HIDE DEF u
<1>3. Marks(u, Q, n)
  BY <1>1, <1>2, MarkOne
<1>4. Cardinality(DOMAIN u) <= MaxTombs + 1
  <2>1. Cardinality(DOMAIN t \cup {k}) = Cardinality(DOMAIN t) + 1
    <3>1. IsFiniteSet(DOMAIN t) /\ k \notin DOMAIN t
      BY <1>1
    <3> QED
      BY <3>1, FS_AddElement
  <2>2. Cardinality(DOMAIN t) \in Nat /\ MaxTombs \in Nat
    BY <1>1, FS_CardinalityType, MakersOf
  <2> QED
    BY <1>1, <1>2, <2>1, <2>2
<1>5. Stands(Trimmed(u), Q, n)
  BY <1>3, <1>4, TrimStands
<1> QED
  BY <1>5 DEF u

(* The tombstone of a retracted order lasts to its deadline.               *)
LEMMA RealTombstone ==
    ASSUME NEW t, NEW R \in SUBSET Orders, NEW n, Stands(t, R, n), NEW o \in Orders
    PROVE  Stands(Tombstone(t, o, Maker[o], Expiry[o], FALSE), R \cup {o}, n)
<1> DEFINE k == <<o, Maker[o]>>
           u == Tombstone(t, o, Maker[o], Expiry[o], FALSE)
<1>1. Marks(t, R, n) /\ Cardinality(DOMAIN t) <= MaxTombs /\ k \in Orders \X Makers /\ Expiry[o] \in Nat
  BY MakersOf DEF Stands
<1>2. CASE k \in DOMAIN t
  <2>1. t[k] \in [until : Nat, pending : BOOLEAN]
    BY <1>1, <1>2 DEF Marks, Tombs
  <2>2. u = [t EXCEPT ![k] = [until |-> IF Expiry[o] > @.until THEN Expiry[o] ELSE @.until,
                              pending |-> @.pending /\ FALSE]]
    BY <1>2 DEF Tombstone
  <2>3. DOMAIN u = DOMAIN t /\ \A j \in DOMAIN t \ {k} : u[j] = t[j]
    BY <2>2
  <2>4. u[k] = [until |-> IF Expiry[o] > t[k].until THEN Expiry[o] ELSE t[k].until, pending |-> FALSE]
    BY <1>2, <2>1, <2>2
  <2>5. /\ u[k] \in [until : Nat, pending : BOOLEAN] /\ ~u[k].pending
        /\ u[k].until >= t[k].until /\ u[k].until >= Expiry[o]
    <3> DEFINE later == IF Expiry[o] > t[k].until THEN Expiry[o] ELSE t[k].until
    <3>1. t[k].until \in Nat
      BY <2>1
    <3>2. later \in Nat /\ later >= t[k].until /\ later >= Expiry[o]
      BY <1>1, <3>1
    <3> HIDE DEF later, u, k
    <3>3. u[k] = [until |-> later, pending |-> FALSE]
      BY <2>4 DEF later
    <3> QED
      BY <3>2, <3>3
  <2>6. k[1] = o /\ k[2] = Maker[o] /\ DOMAIN u = DOMAIN t \cup {k}
    BY <1>2, <2>3
  <2> HIDE DEF u, k
  <2>7. Marks(u, R \cup {o}, n)
    <3>1. \A p \in (R \cup {o}) \ R : k = <<p, Maker[p]>> /\ ~u[k].pending /\ u[k].until >= Expiry[p]
      BY <2>5 DEF k
    <3> QED
      BY <1>1, <2>3, <2>5, <2>6, <3>1, MarkOne
  <2>8. Stands(u, R \cup {o}, n)
    BY <1>1, <2>3, <2>7 DEF Stands
  <2> QED
    BY <2>8 DEF u
<1>3. CASE k \notin DOMAIN t
  <2> DEFINE e == [until |-> Expiry[o], pending |-> FALSE]
  <2>1. u = Trimmed(With(t, k, e))
    BY <1>3 DEF Tombstone
  <2>2. e \in [until : Nat, pending : BOOLEAN] /\ ~e.pending /\ e.until = Expiry[o]
    BY <1>1
  <2>3. k[1] = o /\ k[2] = Maker[o]
    OBVIOUS
  <2>4. \A p \in (R \cup {o}) \ R : k = <<p, Maker[p]>> /\ ~e.pending /\ e.until >= Expiry[p]
    BY <1>1, <2>2
  <2> HIDE DEF u, e, k
  <2>5. Stands(Trimmed(With(t, k, e)), R \cup {o}, n)
    BY <1>1, <1>3, <2>2, <2>3, <2>4, AddStands
  <2> QED
    BY <2>1, <2>5 DEF u
<1> QED
  BY <1>2, <1>3

(* That of an order not seen yet costs no retracted order its own.         *)
LEMMA PendingTombstone ==
    ASSUME NEW t, NEW R \in SUBSET Orders, NEW n, Stands(t, R, n), NEW o \in Orders, NEW m \in Makers,
           NEW until \in Nat
    PROVE  Stands(Tombstone(t, o, m, until, TRUE), R, n)
<1> DEFINE k == <<o, m>>
           u == Tombstone(t, o, m, until, TRUE)
<1>1. Marks(t, R, n) /\ Cardinality(DOMAIN t) <= MaxTombs /\ k \in Orders \X Makers
  BY DEF Stands
<1>2. CASE k \in DOMAIN t
  <2>1. /\ t[k] \in [until : Nat, pending : BOOLEAN]
        /\ ~t[k].pending => k[1] \in R /\ k[2] = Maker[k[1]]
    BY <1>1, <1>2 DEF Marks, Tombs, Real
  <2>2. u = [t EXCEPT ![k] = [until |-> IF until > @.until THEN until ELSE @.until,
                              pending |-> @.pending /\ TRUE]]
    BY <1>2 DEF Tombstone
  <2>3. DOMAIN u = DOMAIN t /\ \A j \in DOMAIN t \ {k} : u[j] = t[j]
    BY <2>2
  <2>4. u[k] = [until |-> IF until > t[k].until THEN until ELSE t[k].until, pending |-> t[k].pending /\ TRUE]
    BY <1>2, <2>1, <2>2
  <2>5. /\ u[k] \in [until : Nat, pending : BOOLEAN] /\ (u[k].pending <=> t[k].pending)
        /\ u[k].until >= t[k].until
    <3> DEFINE later == IF until > t[k].until THEN until ELSE t[k].until
               still == t[k].pending /\ TRUE
    <3>1. t[k].until \in Nat /\ t[k].pending \in BOOLEAN
      BY <2>1
    <3>2. later \in Nat /\ later >= t[k].until
      BY <3>1
    <3>3. still \in BOOLEAN /\ (still <=> t[k].pending)
      BY <3>1
    <3> HIDE DEF later, still, u, k
    <3>4. u[k] = [until |-> later, pending |-> still]
      BY <2>4 DEF later, still
    <3>5. u[k].until = later /\ u[k].pending = still
      BY <3>4
    <3> QED
      BY <3>2, <3>3, <3>4, <3>5
  <2>6. DOMAIN u = DOMAIN t \cup {k}
    BY <1>2, <2>3
  <2> HIDE DEF u, k
  <2>7. Marks(u, R, n)
    BY <1>1, <2>1, <2>3, <2>5, <2>6, MarkOne
  <2>8. Stands(u, R, n)
    BY <1>1, <2>3, <2>7 DEF Stands
  <2> QED
    BY <2>8 DEF u
<1>3. CASE k \notin DOMAIN t
  <2> DEFINE e == [until |-> until, pending |-> TRUE]
  <2>1. u = t \/ u = Trimmed(With(t, k, e))
    BY <1>3 DEF Tombstone
  <2>2. e \in [until : Nat, pending : BOOLEAN] /\ e.pending
    OBVIOUS
  <2> HIDE DEF u, e, k
  <2>3. Stands(Trimmed(With(t, k, e)), R, n)
    BY <1>1, <1>3, <2>2, AddStands
  <2>4. Stands(u, R, n)
    BY <2>1, <2>3
  <2> QED
    BY <2>4 DEF u
<1> QED
  BY <1>2, <1>3

-----------------------------------------------------------------------------
(* What a cancel does with the subsets of the orders it names.             *)
Graves(b, c, S, g) ==
    g = [s \in SUBSET S |-> IF s = {} THEN b.tombs
                            ELSE LET x == CHOOSE x \in s : TRUE IN Buried(b, c, x, g[s \ {x}])]

LEMMA GravesChosen ==
    ASSUME NEW b, NEW c
    PROVE  Retract(b, c) =
             Evict([b EXCEPT !.tombs = (CHOOSE g : Graves(b, c, c.orders, g))[c.orders]], Withdrawn(b, c))
BY DEF Retract, FoldSet, MapThenFoldSet, Graves

LEMMA GravesExist ==
    ASSUME NEW b, NEW c, NEW S, IsFiniteSet(S)
    PROVE  \E g : Graves(b, c, S, g)
<1> DEFINE Entry(g, s) == IF s = {} THEN b.tombs ELSE LET x == CHOOSE x \in s : TRUE IN Buried(b, c, x, g[s \ {x}])
           Small(n) == {s \in SUBSET S : Cardinality(s) <= n}
           Bad == {n \in Nat : ~\E g : g = [s \in Small(n) |-> Entry(g, s)]}
<1>1. \A s \in SUBSET S : IsFiniteSet(s) /\ Cardinality(s) \in Nat /\ (Cardinality(s) = 0 <=> s = {})
  BY FS_Subset, FS_CardinalityType, FS_EmptySet
<1>2. 0 \notin Bad
  <2>1. [s \in Small(0) |-> b.tombs] = [s \in Small(0) |-> Entry([u \in Small(0) |-> b.tombs], s)]
    BY <1>1
  <2> QED
    BY <2>1
<1>3. ASSUME NEW n \in Nat, n + 1 \in Bad PROVE n \in Bad
  <2> SUFFICES ASSUME NEW g, g = [s \in Small(n) |-> Entry(g, s)] PROVE FALSE
    BY <1>3
  <2> DEFINE h == [s \in Small(n + 1) |-> Entry(g, s)]
  <2>1. ASSUME NEW s \in Small(n + 1) PROVE Entry(g, s) = Entry(h, s)
    <3>1. CASE s = {}
      BY <3>1
    <3>2. CASE s # {}
      <4> DEFINE x == CHOOSE x \in s : TRUE
                 r == s \ {x}
      <4>1. x \in s
        BY <3>2
      <4>2. r \in SUBSET S /\ Cardinality(r) = Cardinality(s) - 1
        BY <1>1, <4>1, FS_RemoveElement
      <4>3. r \in Small(n) /\ r \in Small(n + 1)
        BY <4>2, <1>1
      <4>4. g[r] = Entry(g, r) /\ h[r] = Entry(g, r)
        <5> HIDE DEF r, Entry, Small
        <5> QED
          BY <4>3
      <4> QED
        BY <3>2, <4>4
    <3> QED
      BY <3>1, <3>2
  <2>2. h = [s \in Small(n + 1) |-> Entry(h, s)]
    <3> HIDE DEF Entry, Small
    <3> QED
      BY <2>1
  <2> HIDE DEF h
  <2> QED
    BY <1>3, <2>2
<1>4. Bad = {}
  <2> SUFFICES ASSUME Bad # {} PROVE FALSE
    OBVIOUS
  <2>1. PICK k \in Bad : \A j \in Bad : k <= j
    BY LeastOne
  <2>2. k \in Nat /\ k # 0
    BY <1>2, <2>1
  <2>3. k - 1 \in Nat /\ k = (k - 1) + 1
    BY <2>2
  <2> HIDE DEF Bad
  <2>4. k - 1 \in Bad
    <3>1. (k - 1) + 1 \in Bad
      BY <2>1, <2>3
    <3> QED
      BY <1>3, <2>3, <3>1
  <2> QED
    BY <2>1, <2>3, <2>4
<1>5. Small(Cardinality(S)) = SUBSET S /\ Cardinality(S) \in Nat
  BY FS_Subset, FS_CardinalityType
<1>6. PICK g : g = [s \in Small(Cardinality(S)) |-> Entry(g, s)]
  <2> HIDE DEF Entry, Small
  <2> QED
    BY <1>4, <1>5
<1>7. g = [s \in SUBSET S |-> Entry(g, s)]
  <2> HIDE DEF Entry, Small
  <2> QED
    BY <1>5, <1>6
<1> QED
  BY <1>7 DEF Graves


(* The orders a cancel takes off a book are buried one by one.             *)
LEMMA RetractResult ==
    ASSUME now \in Nat, NEW b, NEW R, Good(b, R, now),
           NEW c \in [maker : Makers, orders : SUBSET Orders, expiry : Nat]
    PROVE  /\ Good(Retract(b, c), R \cup Withdrawn(b, c), now)
           /\ \A p \in Nat : Within(Evict(b, Withdrawn(b, c)), p) => Within(Retract(b, c), p)
<1> DEFINE S == c.orders
           W == Withdrawn(b, c)
           t == CHOOSE g : Graves(b, c, S, g)
           Done == {T \in SUBSET S : Stands(t[T], R \cup (W \cap T), now)}
<1>1. c.orders \in SUBSET Orders /\ c.maker \in Makers /\ c.expiry \in Nat
  OBVIOUS
<1>2. R \in SUBSET Orders /\ Stands(b.tombs, R, now) /\ Exact(b) /\ StaysOut(b, R, now)
  BY DEF Good
<1>3. IsFiniteSet(S) /\ W \subseteq S
  BY <1>1, FiniteOrders DEF Withdrawn
<1>4. Graves(b, c, S, t)
  BY <1>3, GravesExist
<1>5. ASSUME NEW T \in SUBSET S, \A x \in T : T \ {x} \in Done PROVE T \in Done
  <2> SUFFICES Stands(t[T], R \cup (W \cap T), now)
    OBVIOUS
  <2> DEFINE x == CHOOSE x \in T : TRUE
             u == t[T \ {x}]
  <2>1. t[T] = IF T = {} THEN b.tombs ELSE Buried(b, c, x, u)
    <3> HIDE DEF t
    <3> QED
      BY <1>4 DEF Graves
  <2>2. CASE T = {}
    <3>1. R \cup (W \cap T) = R
      BY <2>2
    <3> QED
      BY <1>2, <2>1, <2>2, <3>1
  <2>3. CASE T # {}
    <3>1. x \in T /\ x \in Orders
      BY <1>1, <2>3
    <3>2. Stands(u, R \cup (W \cap (T \ {x})), now) /\ R \cup (W \cap (T \ {x})) \in SUBSET Orders
      BY <1>1, <1>2, <1>3, <1>5, <3>1
    <3> HIDE DEF t, u, x, W, Done
    <3>3. CASE x \in W
      <4>1. Maker[x] = c.maker
        BY <3>3 DEF W, Withdrawn, Of
      <4>2. t[T] = Tombstone(u, x, Maker[x], Expiry[x], FALSE)
        BY <2>1, <2>3, <3>3, <4>1 DEF Buried, W
      <4>3. (R \cup (W \cap (T \ {x}))) \cup {x} = R \cup (W \cap T)
        BY <3>1, <3>3
      <4>4. Stands(Tombstone(u, x, Maker[x], Expiry[x], FALSE), (R \cup (W \cap (T \ {x}))) \cup {x}, now)
        BY <3>1, <3>2, RealTombstone
      <4> QED
        BY <4>2, <4>3, <4>4
    <3>4. CASE x \notin W
      <4>1. R \cup (W \cap (T \ {x})) = R \cup (W \cap T)
        BY <3>4
      <4>2. t[T] = u \/ t[T] = Tombstone(u, x, c.maker, Remembered(c), TRUE)
        BY <2>1, <2>3, <3>4 DEF Buried, W
      <4>3. Remembered(c) \in Nat
        BY <1>1, MakersOf DEF Remembered
      <4>4. Stands(Tombstone(u, x, c.maker, Remembered(c), TRUE), R \cup (W \cap (T \ {x})), now)
        BY <1>1, <3>1, <3>2, <4>3, PendingTombstone
      <4> QED
        BY <3>2, <4>1, <4>2, <4>4
    <3> QED
      BY <3>3, <3>4
  <2> HIDE DEF t, W
  <2> QED
    BY <2>2, <2>3
<1>6. Stands(t[S], R \cup W, now)
  <2>1. S \in Done
    <3> HIDE DEF Done, S, W
    <3> QED
      BY <1>3, <1>5, SubsetsOneByOne
  <2>2. W \cap S = W
    BY <1>3
  <2> QED
    BY <2>1, <2>2
<1> DEFINE d == [b EXCEPT !.tombs = t[S]]
           e == Evict(d, W)
<1>7. Retract(b, c) = e
  BY GravesChosen
<1>8. /\ DOMAIN d = Fields /\ d.tombs = t[S] /\ d.entries = b.entries /\ d.counts = b.counts
  BY <1>2 DEF Exact, Fields
<1> HIDE DEF d, t, S, W
<1>9. Exact(d) /\ \A m : Of(d, m) = Of(b, m)
  BY <1>2, <1>8 DEF Exact, Of, CountIn
<1>10. /\ Exact(e) /\ e.tombs = t[S]
       /\ DOMAIN e.entries = DOMAIN b.entries \ W
       /\ \A m : Of(e, m) = Of(b, m) \ W
  BY <1>8, <1>9, EvictResult
<1> HIDE DEF e
<1>11. R \cup W \in SUBSET Orders
  BY <1>1, <1>2, <1>3 DEF S
<1>12. StaysOut(e, R \cup W, now)
  <2> SUFFICES ASSUME Cardinality(R \cup W) <= MaxTombs, NEW o \in (R \cup W) \cap DOMAIN e.entries
               PROVE  Expiry[o] <= now
    BY DEF StaysOut
  <2>1. Cardinality(R) <= Cardinality(R \cup W) /\ Cardinality(R) \in Nat /\ Cardinality(R \cup W) \in Nat
    BY <1>11, FiniteOrders, FS_Subset
  <2>2. Cardinality(R) <= MaxTombs
    BY <2>1, MakersOf
  <2>3. o \in R \cap DOMAIN b.entries
    BY <1>10
  <2> QED
    BY <1>2, <2>2, <2>3 DEF StaysOut
<1>13. Good(e, R \cup W, now)
  BY <1>6, <1>10, <1>11, <1>12 DEF Good
<1>14. ASSUME NEW p \in Nat, Within(Evict(b, W), p) PROVE Within(e, p)
  <2>1. DOMAIN e.entries = DOMAIN Evict(b, W).entries /\ \A m : Of(e, m) = Of(Evict(b, W), m)
    BY <1>2, <1>10, EvictResult
  <2> QED
    BY <1>14, <2>1 DEF Within
<1> QED
  BY <1>7, <1>13, <1>14 DEF W

-----------------------------------------------------------------------------
(* Admission.                                                              *)
LEMMA AdmittedResult ==
    ASSUME MaxPerMaker \in Nat, NEW b, Exact(b), Within(b, MaxPerMaker), NEW o \in Orders, NEW ok, NEW old,
           NEW c \in Admitted(b, o, ok, old)
    PROVE  /\ Exact(c) /\ c.tombs = b.tombs
           /\ DOMAIN c.entries \subseteq DOMAIN b.entries \cup {o}
           /\ o \in DOMAIN b.entries \/ ~SoftCancelled(b, o)
           /\ TakesPredecessorSlot(b, o, old) => old \in DOMAIN c.entries
           /\ \A S : (TakesPredecessorSlot(b, o, old) => old \in S) => Within(Evict(c, S), MaxPerMaker)
<1> DEFINE p == MaxPerMaker
<1>1. /\ DOMAIN b = Fields /\ DOMAIN b.entries \in SUBSET Orders
      /\ \A m : Of(b, m) \in SUBSET Orders
      /\ \A m \in Makers : CountIn(b, m) = Cardinality(Of(b, m)) /\ Cardinality(Of(b, m)) <= p
      /\ Cardinality(DOMAIN b.entries) <= MaxOrders /\ Maker[o] \in Makers
      /\ MaxOrders \in Nat /\ p \in Nat
  BY MakersOf DEF Exact, Within, Of
<1>2. CASE o \in DOMAIN b.entries
  <2>1. c = [b EXCEPT !.entries[o].ok = ok]
    BY <1>2 DEF Admitted
  <2>2. DOMAIN c = Fields /\ DOMAIN c.entries = DOMAIN b.entries /\ c.counts = b.counts /\ c.tombs = b.tombs
    BY <1>1, <2>1 DEF Fields
  <2>3. Exact(c) /\ Within(c, p)
    BY <2>2 DEF Exact, Within, Of, CountIn
  <2>4. \A S : Within(Evict(c, S), p)
    BY <1>1, <2>3, EvictResult
  <2> QED
    BY <1>2, <2>2, <2>3, <2>4 DEF TakesPredecessorSlot
<1>3. CASE o \notin DOMAIN b.entries
  <2>1. ~SoftCancelled(b, o)
    BY <1>3 DEF Admitted
  <2>2. CASE TakesPredecessorSlot(b, o, old)
    <3>1. c = List(b, o, ok)
      BY <1>3, <2>1, <2>2 DEF Admitted
    <3>2. /\ Exact(c) /\ c.tombs = b.tombs /\ DOMAIN c.entries = DOMAIN b.entries \cup {o}
          /\ \A m : Cardinality(Of(c, m)) = Cardinality(Of(b, m)) + (IF m = Maker[o] THEN 1 ELSE 0)
          /\ Cardinality(DOMAIN c.entries) = Cardinality(DOMAIN b.entries) + 1
      BY <1>3, <3>1, ListResult
    <3>3. old \in DOMAIN c.entries /\ old \in Of(c, Maker[o])
      BY <2>2, <3>2 DEF TakesPredecessorSlot, Of
    <3>4. ASSUME NEW S, old \in S PROVE Within(Evict(c, S), p)
      <4> DEFINE e == Evict(c, S)
      <4>1. DOMAIN e.entries = DOMAIN c.entries \ S /\ \A m : Of(e, m) = Of(c, m) \ S
        BY <3>2, EvictResult
      <4> HIDE DEF e
      <4>2. ASSUME NEW U \in SUBSET Orders, NEW V \in SUBSET U
            PROVE  Cardinality(V) <= Cardinality(U) /\ (old \in U \ V => Cardinality(V) < Cardinality(U))
        <5>1. IsFiniteSet(U) /\ Cardinality(U) \in Nat /\ Cardinality(V) \in Nat /\ Cardinality(V) <= Cardinality(U)
          BY FiniteOrders, FS_Subset
        <5>2. CASE old \in U \ V
          <6>1. V \in SUBSET (U \ {old}) /\ Cardinality(U \ {old}) = Cardinality(U) - 1 /\ IsFiniteSet(U \ {old})
            BY <5>1, <5>2, FS_RemoveElement
          <6>2. Cardinality(V) <= Cardinality(U \ {old})
            BY <6>1, FS_Subset
          <6> QED
            BY <5>1, <6>1, <6>2
        <5> QED
          BY <5>1, <5>2
      <4>3. DOMAIN c.entries \in SUBSET Orders /\ \A m : Of(c, m) \in SUBSET Orders
        BY <1>1, <3>2 DEF Of
      <4>4. Cardinality(DOMAIN e.entries) <= MaxOrders
        <5>1. Cardinality(DOMAIN e.entries) < Cardinality(DOMAIN c.entries)
          BY <3>3, <3>4, <4>1, <4>2, <4>3
        <5>2. /\ Cardinality(DOMAIN e.entries) \in Nat /\ Cardinality(DOMAIN c.entries) \in Nat
              /\ Cardinality(DOMAIN b.entries) \in Nat
          BY <1>1, <4>1, <4>3, FiniteOrders
        <5> QED
          BY <1>1, <3>2, <5>1, <5>2
      <4>5. ASSUME NEW m \in Makers PROVE Cardinality(Of(e, m)) <= p
        <5>1. /\ Cardinality(Of(e, m)) <= Cardinality(Of(c, m))
              /\ m = Maker[o] => Cardinality(Of(e, m)) < Cardinality(Of(c, m))
          BY <3>3, <3>4, <4>1, <4>2, <4>3
        <5>2. /\ Cardinality(Of(e, m)) \in Nat /\ Cardinality(Of(c, m)) \in Nat /\ Cardinality(Of(b, m)) \in Nat
          BY <1>1, <4>1, <4>3, FiniteOrders
        <5>3. Cardinality(Of(b, m)) <= p
          BY <1>1
        <5>4. Cardinality(Of(c, m)) = Cardinality(Of(b, m)) + (IF m = Maker[o] THEN 1 ELSE 0)
          BY <3>2
        <5> HIDE DEF p
        <5> QED
          BY <1>1, <5>1, <5>2, <5>3, <5>4
      <4>6. Within(e, p)
        BY <4>4, <4>5 DEF Within
      <4> QED
        BY <4>6 DEF e
    <3> QED
      BY <2>1, <2>2, <3>2, <3>3, <3>4
  <2>3. CASE ~TakesPredecessorSlot(b, o, old)
    <3>1. CountIn(b, Maker[o]) < p
      BY <1>3, <2>1, <2>3 DEF Admitted, RoomOfMaker
    <3>2. ASSUME NEW d, Exact(d), Within(d, p), o \notin DOMAIN d.entries,
                 Cardinality(DOMAIN d.entries) < MaxOrders, Cardinality(Of(d, Maker[o])) < p,
                 DOMAIN d.entries \subseteq DOMAIN b.entries, d.tombs = b.tombs, c = List(d, o, ok)
          PROVE  /\ Exact(c) /\ c.tombs = b.tombs /\ DOMAIN c.entries \subseteq DOMAIN b.entries \cup {o}
                 /\ Within(c, p)
      <4>1. /\ Exact(c) /\ c.tombs = b.tombs /\ DOMAIN c.entries = DOMAIN d.entries \cup {o}
            /\ \A m : Cardinality(Of(c, m)) = Cardinality(Of(d, m)) + (IF m = Maker[o] THEN 1 ELSE 0)
            /\ Cardinality(DOMAIN c.entries) = Cardinality(DOMAIN d.entries) + 1
        BY <3>2, ListResult
      <4>2. DOMAIN d.entries \in SUBSET Orders /\ \A m : Of(d, m) \in SUBSET Orders
        BY <1>1, <3>2 DEF Of
      <4>3. Cardinality(DOMAIN d.entries) \in Nat /\ \A m : Cardinality(Of(d, m)) \in Nat
        BY <4>2, FiniteOrders
      <4>4. Cardinality(DOMAIN c.entries) <= MaxOrders
        BY <1>1, <3>2, <4>1, <4>3
      <4>5. ASSUME NEW m \in Makers PROVE Cardinality(Of(c, m)) <= p
        <5>1. Cardinality(Of(d, m)) <= p /\ (m = Maker[o] => Cardinality(Of(d, m)) < p) /\ Cardinality(Of(d, m)) \in Nat
          BY <3>2, <4>3 DEF Within
        <5>2. Cardinality(Of(c, m)) = Cardinality(Of(d, m)) + (IF m = Maker[o] THEN 1 ELSE 0)
          BY <4>1
        <5> HIDE DEF p
        <5> QED
          BY <1>1, <5>1, <5>2
      <4>6. Within(c, p)
        BY <4>4, <4>5 DEF Within
      <4>7. DOMAIN c.entries \subseteq DOMAIN b.entries \cup {o}
        BY <3>2, <4>1
      <4> QED
        BY <4>1, <4>6, <4>7
    <3>3. /\ Exact(c) /\ c.tombs = b.tombs /\ DOMAIN c.entries \subseteq DOMAIN b.entries \cup {o}
          /\ Within(c, p)
      <4>1. CASE Cardinality(DOMAIN b.entries) < MaxOrders
        <5>1. c = List(b, o, ok)
          BY <1>3, <2>1, <2>3, <4>1 DEF Admitted
        <5>2. Cardinality(Of(b, Maker[o])) < p
          BY <1>1, <3>1
        <5> QED
          BY <1>3, <3>2, <4>1, <5>1, <5>2
      <4>2. CASE ~(Cardinality(DOMAIN b.entries) < MaxOrders)
        <5>1. PICK v \in Victims(b, Maker[o]) : c = List(Evict(b, {v}), o, ok)
          BY <1>3, <2>1, <2>3, <4>2 DEF Admitted
        <5>2. v \in DOMAIN b.entries
          BY <5>1 DEF Victims
        <5> DEFINE d == Evict(b, {v})
        <5>3. /\ Exact(d) /\ d.tombs = b.tombs /\ DOMAIN d.entries = DOMAIN b.entries \ {v}
              /\ Of(d, Maker[o]) = Of(b, Maker[o]) \ {v} /\ Within(d, p)
          BY <1>1, EvictResult
        <5> HIDE DEF d
        <5>4. Cardinality(DOMAIN d.entries) < MaxOrders
          <6>1. IsFiniteSet(DOMAIN b.entries) /\ Cardinality(DOMAIN b.entries) \in Nat
            BY <1>1, FiniteOrders
          <6>2. Cardinality(DOMAIN d.entries) = Cardinality(DOMAIN b.entries) - 1
            BY <5>2, <5>3, <6>1, FS_RemoveElement
          <6> QED
            BY <1>1, <6>1, <6>2
        <5>5. Cardinality(Of(d, Maker[o])) < p
          <6>1. /\ Cardinality(Of(d, Maker[o])) <= Cardinality(Of(b, Maker[o]))
                /\ Cardinality(Of(d, Maker[o])) \in Nat /\ Cardinality(Of(b, Maker[o])) \in Nat
            BY <1>1, <5>3, Parts
          <6>2. Cardinality(Of(b, Maker[o])) < p
            BY <1>1, <3>1
          <6> HIDE DEF p
          <6> QED
            BY <1>1, <6>1, <6>2
        <5>6. c = List(d, o, ok) /\ o \notin DOMAIN d.entries /\ DOMAIN d.entries \subseteq DOMAIN b.entries
          BY <1>3, <5>1, <5>3 DEF d
        <5> QED
          BY <3>2, <5>3, <5>4, <5>5, <5>6
      <4> QED
        BY <4>1, <4>2
    <3>4. \A S : Within(Evict(c, S), p)
      BY <1>1, <3>3, EvictResult
    <3> QED
      BY <2>1, <2>3, <3>3, <3>4
  <2> QED
    BY <2>2, <2>3
<1> QED
  BY <1>2, <1>3

LEMMA AdmittedKeeps ==
    ASSUME now \in Nat, MaxPerMaker \in Nat, NEW b, NEW R, Kept(b, MaxPerMaker, R, now),
           NEW o \in Orders, NEW ok, NEW old, NEW c \in Admitted(b, o, ok, old)
    PROVE  /\ Good(c, R, now)
           /\ ~TakesPredecessorSlot(b, o, old) => Within(c, MaxPerMaker)
<1>1. Exact(b) /\ Within(b, MaxPerMaker) /\ R \subseteq Orders /\ Stands(b.tombs, R, now) /\ StaysOut(b, R, now)
  BY DEF Kept, Good
<1>2. /\ Exact(c) /\ c.tombs = b.tombs /\ DOMAIN c.entries \subseteq DOMAIN b.entries \cup {o}
      /\ o \in DOMAIN b.entries \/ ~SoftCancelled(b, o)
      /\ ~TakesPredecessorSlot(b, o, old) => Within(Evict(c, {}), MaxPerMaker)
  BY <1>1, AdmittedResult
<1>3. Evict(c, {}) = c
  BY DEF Evict
<1>4. StaysOut(c, R, now)
  <2> SUFFICES ASSUME Cardinality(R) <= MaxTombs, NEW p \in R \cap DOMAIN c.entries PROVE Expiry[p] <= now
    BY DEF StaysOut
  <2>1. CASE p \in DOMAIN b.entries
    BY <1>1, <2>1 DEF StaysOut
  <2>2. CASE p \notin DOMAIN b.entries
    <3>1. p = o /\ ~SoftCancelled(b, o)
      BY <1>2, <2>2
    <3>2. Expiry[o] \in Nat
      BY MakersOf
    <3>3. CASE Expiry[o] > now
      <4>1. Buries(b.tombs, o)
        BY <1>1, <3>1, <3>3 DEF Stands, Marks
      <4>2. <<o, Maker[o]>> \in DOMAIN b.tombs /\ b.tombs[<<o, Maker[o]>>].until >= Expiry[o]
        BY <4>1 DEF Buries, Real
      <4>3. b.tombs[<<o, Maker[o]>>].until \in Nat
        BY <1>1, <4>2 DEF Stands, Marks, Tombs
      <4>4. b.tombs[<<o, Maker[o]>>].until > now
        BY <3>2, <3>3, <4>2, <4>3
      <4> QED
        BY <3>1, <4>2, <4>4 DEF SoftCancelled
    <3> QED
      BY <3>1, <3>2, <3>3
  <2> QED
    BY <2>1, <2>2
<1> QED
  BY <1>1, <1>2, <1>3, <1>4 DEF Good

LEMMA EvictKeeps ==
    ASSUME NEW b, NEW p \in Nat, NEW R, NEW n, Kept(b, p, R, n), NEW S
    PROVE  Kept(Evict(b, S), p, R, n)
<1>1. /\ Exact(b) /\ Within(b, p) /\ R \subseteq Orders /\ Stands(b.tombs, R, n) /\ StaysOut(b, R, n)
  BY DEF Kept, Good
<1> DEFINE e == Evict(b, S)
<1>2. Exact(e) /\ e.tombs = b.tombs /\ DOMAIN e.entries = DOMAIN b.entries \ S /\ Within(e, p)
  BY <1>1, EvictResult
<1> HIDE DEF e
<1>3. StaysOut(e, R, n)
  BY <1>1, <1>2 DEF StaysOut
<1>4. Kept(e, p, R, n)
  BY <1>1, <1>2, <1>3 DEF Kept, Good
<1> QED
  BY <1>4 DEF e

LEMMA RefusedKeeps ==
    ASSUME now \in Nat, NEW b, NEW p, NEW R, Kept(b, p, R, now), NEW o \in Orders
    PROVE  Kept(Refused(b, o), p, R, now)
<1>1. /\ Exact(b) /\ R \subseteq Orders /\ Stands(b.tombs, R, now) /\ StaysOut(b, R, now) /\ Within(b, p)
      /\ DOMAIN b = Fields
  BY DEF Kept, Good, Exact
<1> DEFINE k == <<o, Maker[o]>>
           t == b.tombs
           later == IF Expiry[o] > t[k].until THEN Expiry[o] ELSE t[k].until
           u == [t EXCEPT ![k].until = later]
           e == [b EXCEPT !.tombs = u]
<1>2. Refused(b, o) = b \/ (k \in DOMAIN t /\ Refused(b, o) = e)
  BY DEF Refused, SoftCancelled
<1>3. CASE k \in DOMAIN t /\ Refused(b, o) = e
  <2>1. t[k] \in [until : Nat, pending : BOOLEAN] /\ Marks(t, R, now)
    BY <1>1, <1>3 DEF Stands, Marks, Tombs
  <2>2. later \in Nat /\ later >= t[k].until
    BY <2>1, MakersOf
  <2>3. DOMAIN u = DOMAIN t \cup {k} /\ DOMAIN u = DOMAIN t /\ \A j \in DOMAIN t \ {k} : u[j] = t[j]
    BY <1>3
  <2>4. u[k] = [t[k] EXCEPT !.until = later]
    BY <1>3
  <2>5. DOMAIN e = Fields /\ e.entries = b.entries /\ e.counts = b.counts /\ e.tombs = u
    BY <1>1 DEF Fields
  <2>6. k \in Orders \X Makers /\ (~t[k].pending => k[1] \in R /\ k[2] = Maker[k[1]])
    BY <1>1, <1>3 DEF Stands, Marks, Tombs, Real
  <2> HIDE DEF u, e, later, k, t
  <2>7. u[k] \in [until : Nat, pending : BOOLEAN] /\ u[k].until >= t[k].until /\ u[k].pending = t[k].pending
    <3>1. u[k] \in [until : Nat, pending : BOOLEAN] /\ u[k].until = later /\ u[k].pending = t[k].pending
      BY <2>1, <2>2, <2>4
    <3> QED
      BY <2>2, <3>1
  <2>8. Marks(u, R, now)
    BY <1>1, <2>1, <2>3, <2>6, <2>7, MarkOne
  <2>9. Stands(u, R, now)
    BY <1>1, <2>3, <2>8 DEF Stands, t
  <2>10. Exact(e) /\ Within(e, p) /\ StaysOut(e, R, now)
    BY <1>1, <2>5 DEF Exact, Within, StaysOut, Of, CountIn
  <2> QED
    BY <1>1, <1>3, <2>5, <2>9, <2>10 DEF Kept, Good
<1> QED
  BY <1>2, <1>3

(* Time that passes, and tombstones that are pruned when theirs is over.   *)
LEMMA LaterKeeps ==
    ASSUME NEW b, NEW p, NEW R, NEW n \in Nat, Kept(b, p, R, n)
    PROVE  Kept(b, p, R, n + 1)
<1>1. R \subseteq Orders
  BY DEF Kept, Good
<1>2. \A o \in R : Expiry[o] \in Nat
  BY <1>1, MakersOf
<1>3. StaysOut(b, R, n + 1)
  <2>1. StaysOut(b, R, n)
    BY DEF Kept, Good
  <2> QED
    BY <1>2, <2>1 DEF StaysOut
<1>4. Stands(b.tombs, R, n + 1)
  <2>1. Stands(b.tombs, R, n)
    BY DEF Kept, Good
  <2> QED
    BY <1>2, <2>1 DEF Stands, Marks
<1> QED
  BY <1>3, <1>4 DEF Kept, Good

LEMMA PruneKeeps ==
    ASSUME NEW n \in Nat, NEW b, NEW p, NEW R, Kept(b, p, R, n)
    PROVE  Kept([b EXCEPT !.tombs = Restrict(@, {k \in DOMAIN @ : @[k].until > n})], p, R, n)
<1> DEFINE t == b.tombs
           u == Restrict(t, {k \in DOMAIN t : t[k].until > n})
           e == [b EXCEPT !.tombs = u]
<1>1. /\ Exact(b) /\ R \subseteq Orders /\ StaysOut(b, R, n) /\ Within(b, p)
      /\ Stands(t, R, n) /\ DOMAIN b = Fields
  BY DEF Kept, Good, Exact
<1>2. DOMAIN u = {k \in DOMAIN t : t[k].until > n} /\ \A k \in DOMAIN u : u[k] = t[k]
  BY DEF Restrict
<1>3. DOMAIN e = Fields /\ e.entries = b.entries /\ e.counts = b.counts /\ e.tombs = u
  BY <1>1 DEF Fields
<1> HIDE DEF e, u, t
<1>4. /\ IsFiniteSet(DOMAIN t) /\ Cardinality(DOMAIN t) <= MaxTombs /\ DOMAIN u \subseteq DOMAIN t
  BY <1>1, <1>2 DEF Stands, Marks, Tombs
<1>5. IsFiniteSet(DOMAIN u) /\ Cardinality(DOMAIN u) <= MaxTombs
  <2>1. IsFiniteSet(DOMAIN u) /\ Cardinality(DOMAIN u) <= Cardinality(DOMAIN t)
    BY <1>4, FS_Subset
  <2>2. Cardinality(DOMAIN u) \in Nat /\ Cardinality(DOMAIN t) \in Nat /\ MaxTombs \in Nat
    BY <1>4, <2>1, FS_CardinalityType, MakersOf
  <2> QED
    BY <1>4, <2>1, <2>2
<1>6. Tombs(u)
  BY <1>1, <1>2, <1>5 DEF Stands, Marks, Tombs
<1>7. \A k \in Real(u) : k[1] \in R /\ k[2] = Maker[k[1]]
  BY <1>1, <1>2 DEF Stands, Marks, Real
<1>8. ASSUME Cardinality(R) <= MaxTombs, NEW o \in R, Expiry[o] > n PROVE Buries(u, o)
  <2>1. Buries(t, o)
    BY <1>1, <1>8 DEF Stands, Marks
  <2>2. /\ <<o, Maker[o]>> \in DOMAIN t /\ ~t[<<o, Maker[o]>>].pending
        /\ t[<<o, Maker[o]>>].until >= Expiry[o]
    BY <2>1 DEF Buries, Real
  <2>3. t[<<o, Maker[o]>>].until \in Nat /\ Expiry[o] \in Nat
    BY <1>1, <2>2, MakersOf DEF Stands, Marks, Tombs
  <2>4. <<o, Maker[o]>> \in DOMAIN u
    BY <1>2, <1>8, <2>2, <2>3
  <2> QED
    BY <1>2, <2>2, <2>4 DEF Buries, Real
<1>9. Stands(u, R, n)
  BY <1>5, <1>6, <1>7, <1>8 DEF Stands, Marks
<1>10. Exact(e) /\ Within(e, p) /\ StaysOut(e, R, n)
  BY <1>1, <1>3 DEF Exact, Within, StaysOut, Of, CountIn
<1>11. Kept(e, p, R, n)
  BY <1>1, <1>3, <1>9, <1>10 DEF Kept, Good
<1> QED
  BY <1>11 DEF e, u, t

-----------------------------------------------------------------------------
(* The steps.                                                              *)

LEMMA BookFields ==
    /\ DOMAIN Book = Fields /\ Book.entries = entries /\ Book.counts = counts /\ Book.tombs = tombs
    /\ DOMAIN Book.entries = Listed
BY DEF Book, Fields, Listed

LEMMA KeptAs ==
    ASSUME NEW b, NEW c, NEW p, NEW R, NEW n, Kept(b, p, R, n),
           DOMAIN c = Fields, DOMAIN c.entries = DOMAIN b.entries, c.counts = b.counts, c.tombs = b.tombs
    PROVE  Kept(c, p, R, n)
BY RecordKept DEF Kept

(* A book that is written back is what the next state has.                 *)
LEMMA BecameKept ==
    ASSUME NEW b, NEW at, Became(b, at),
           NEW p, NEW R, NEW n, Kept(b, p, R, n)
    PROVE  Kept(Book', p, R, n)
<1>1. PICK c \in {b} : entries' = c.entries /\ counts' = c.counts /\ tombs' = c.tombs
  BY DEF Became
<1>2. /\ DOMAIN Book' = Fields /\ DOMAIN Book'.entries = DOMAIN c.entries
      /\ Book'.counts = c.counts /\ Book'.tombs = c.tombs
  BY <1>1 DEF Book, Fields
<1>3. Kept(c, p, R, n)
  BY <1>1
<1> QED
  BY <1>2, <1>3, KeptAs

LEMMA BecameCalls ==
    ASSUME NEW b, NEW at, Became(b, at), \A t \in Tasks : Awaits(at[t])
    PROVE  Calls'
<1>1. PICK c \in {b} : task' = [t \in Tasks |-> IF at[t] # None /\ at[t].kind = "recheck"
                                  THEN [at[t] EXCEPT !.same = @ \ c.gone] ELSE at[t]]
  BY DEF Became
<1>2. ASSUME NEW t \in Tasks PROVE Awaits(task'[t])
  <2> DEFINE x == at[t]
             y == [x EXCEPT !.same = @ \ c.gone]
  <2>1. task'[t] = x \/ (x # None /\ x.kind = "recheck" /\ task'[t] = y)
    BY <1>1
  <2>2. Awaits(x)
    OBVIOUS
  <2>3. ASSUME x # None, x.kind = "recheck" PROVE Awaits(y)
    <3>1. DOMAIN y = DOMAIN x /\ y.kind = x.kind
      BY <2>2, <2>3 DEF Awaits
    <3> HIDE DEF x, y
    <3> QED
      BY <2>2, <2>3, <3>1 DEF Awaits
  <2> HIDE DEF x, y
  <2> QED
    BY <2>1, <2>2, <2>3
<1> QED
  BY <1>1, <1>2 DEF Calls

LEMMA InitInv == Init => Inv
<1> SUFFICES ASSUME Init PROVE Inv
  OBVIOUS
<1>1. Control
  BY BookAssumption DEF Init, Control, Bounds, BookAssumption
<1>2. Calls
  BY DEF Init, Calls, Awaits
<1>3. /\ DOMAIN Book = Fields /\ DOMAIN Book.entries = {} /\ DOMAIN Book.counts = {} /\ DOMAIN Book.tombs = {}
  BY DEF Init, Book, Fields
<1>4. \A m : Of(Book, m) = {}
  BY <1>3 DEF Of
<1> HIDE DEF Book
<1>5. Exact(Book) /\ Within(Book, MaxPerMaker)
  <2>1. \A m : CountIn(Book, m) = 0
    BY <1>3 DEF CountIn
  <2>2. MaxPerMaker \in Nat /\ MaxOrders \in Nat
    BY <1>1, MakersOf DEF Control, Bounds, MaxPerMaker
  <2> QED
    BY <1>3, <1>4, <2>1, <2>2, FS_EmptySet DEF Exact, Within
<1>6. Stands(Book.tombs, retracted, now)
  <2>1. retracted = {}
    BY DEF Init
  <2>2. IsFiniteSet(DOMAIN Book.tombs) /\ Cardinality(DOMAIN Book.tombs) <= MaxTombs
    BY <1>3, FS_EmptySet, MakersOf
  <2>3. Real(Book.tombs) = {}
    BY <1>3 DEF Real
  <2> QED
    BY <1>3, <2>1, <2>2, <2>3 DEF Stands, Marks, Tombs
<1>7. Good(Book, retracted, now)
  BY <1>5, <1>6 DEF Good, StaysOut, Init
<1> QED
  BY <1>1, <1>2, <1>5, <1>7 DEF Inv, Kept

LEMMA Facts ==
    ASSUME Inv
    PROVE  /\ now \in Nat /\ MaxPerMaker \in Nat
           /\ Kept(Book, MaxPerMaker, retracted, now)
           /\ Calls /\ Control
BY DEF Inv, Control, Bounds, MaxPerMaker

LEMMA SameBook == UNCHANGED book => Book' = Book
BY DEF book, Book

(* What a cancel that a call carries is.                                   *)
Soft == [maker : Makers, orders : SUBSET Orders, expiry : Nat]

LEMMA CancelTypes ==
    /\ \A c \in Cancels : c \in Soft
    /\ \A r \in Replaces : /\ r.old \in Orders /\ r.new \in Orders /\ r.old \in r.cancel.orders
                           /\ r.cancel \in Soft /\ r.cancel.maker = Maker[r.new]
<1>1. \A c \in Cancels : c \in Soft
  BY BookAssumption DEF BookAssumption, Soft, Makers
<1>2. ASSUME NEW r \in Replaces
      PROVE  /\ r.old \in Orders /\ r.new \in Orders /\ r.old \in r.cancel.orders
             /\ r.cancel \in Soft /\ r.cancel.maker = Maker[r.new]
  <2>1. /\ {r.old, r.new} \subseteq Orders /\ r.old \in r.cancel.orders
        /\ r.cancel \in [maker : {Maker[r.new]}, orders : SUBSET Orders, expiry : Nat]
    BY BookAssumption DEF BookAssumption
  <2>2. Maker[r.new] \in Makers
    BY <2>1, MakersOf
  <2> QED
    BY <2>1, <2>2 DEF Soft
<1> QED
  BY <1>1, <1>2

LEMMA CancelledKeeps ==
    ASSUME Inv, NEW b, Kept(b, MaxPerMaker, retracted, now), NEW c \in Soft, NEW applies, NEW at,
           \A t \in Tasks : Awaits(at[t]), Cancelled(b, c, applies, at)
    PROVE  Calls' /\ Kept(Book', MaxPerMaker, retracted', now)
<1>1. now \in Nat /\ MaxPerMaker \in Nat
  BY Facts
<1>2. CASE Became(Retract(b, c), at) /\ retracted' = retracted \cup Withdrawn(b, c)
  <2>1. /\ Good(Retract(b, c), retracted \cup Withdrawn(b, c), now)
        /\ Within(Evict(b, Withdrawn(b, c)), MaxPerMaker) => Within(Retract(b, c), MaxPerMaker)
    BY <1>1, RetractResult DEF Kept, Soft
  <2>2. Within(Evict(b, Withdrawn(b, c)), MaxPerMaker)
    BY <1>1, EvictResult DEF Kept, Good
  <2>3. Kept(Retract(b, c), MaxPerMaker, retracted \cup Withdrawn(b, c), now)
    BY <2>1, <2>2 DEF Kept
  <2>4. Kept(Book', MaxPerMaker, retracted \cup Withdrawn(b, c), now)
    BY <1>2, <2>3, BecameKept
  <2> QED
    BY <1>2, <2>4, BecameCalls
<1>3. CASE Became(b, at) /\ UNCHANGED retracted
  BY <1>3, BecameKept, BecameCalls
<1> QED
  BY <1>2, <1>3 DEF Cancelled

LEMMA CallsChange ==
    ASSUME Calls, NEW t \in Tasks, NEW x, Awaits(x)
    PROVE  \A u \in Tasks : Awaits([task EXCEPT ![t] = x][u])
BY DEF Calls

LEMMA HandleKeeps ==
    ASSUME Inv, NEW t \in Tasks, NEW m \in Messages, NEW replay, Handle(t, m, replay)
    PROVE  Calls' /\ Kept(Book', MaxPerMaker, retracted', now)
<1>1. Calls /\ Kept(Book, MaxPerMaker, retracted, now) /\ \A u \in Tasks : Awaits(task[u])
  BY Facts DEF Calls
<1>2. CASE m \in Announces
  <2>1. PICK o \in Orders : m = [kind |-> "order", order |-> o]
    BY <1>2 DEF Announces
  <2>2. Announce(t, o, replay) /\ UNCHANGED <<book, retracted>>
    BY <2>1 DEF Handle
  <2>3. Awaits(Call("announce", o, None, replay))
    BY DEF Call, Awaits
  <2>4. Calls'
    <3>1. UNCHANGED task \/ task' = [task EXCEPT ![t] = Call("announce", o, None, replay)]
      BY <2>2 DEF Announce
    <3>2. CASE UNCHANGED task
      BY <1>1, <3>2 DEF Calls
    <3>3. CASE task' = [task EXCEPT ![t] = Call("announce", o, None, replay)]
      BY <1>1, <2>3, <3>3, CallsChange DEF Calls
    <3> QED
      BY <3>1, <3>2, <3>3
  <2> QED
    BY <1>1, <2>2, <2>4, SameBook
<1>3. CASE m \in Retractions
  <2>1. PICK c \in Cancels : m = [kind |-> "cancel", cancel |-> c]
    BY <1>3 DEF Retractions
  <2>2. Cancelled(Book, c, TRUE, task)
    BY <2>1 DEF Handle
  <2> QED
    BY <1>1, <2>1, <2>2, CancelTypes, CancelledKeeps
<1>4. CASE m \in Amends
  <2>1. PICK r \in Replaces : m = [kind |-> "replace", replace |-> r]
    BY <1>4 DEF Amends
  <2>2. Replace(t, r, replay)
    BY <2>1 DEF Handle
  <2>3. r.new \in Orders /\ r.cancel \in Soft
    BY <2>1, CancelTypes
  <2>4. CASE ReplaceStarts(r)
    <3>1. /\ task' = [task EXCEPT ![t] = Call("replace", r.new, r, replay)]
          /\ UNCHANGED <<book, retracted>>
      BY <2>2, <2>4 DEF Replace
    <3>2. Awaits(Call("replace", r.new, r, replay))
      BY <2>1, <2>3 DEF Call, Awaits
    <3>3. Calls'
      BY <1>1, <3>1, <3>2, CallsChange DEF Calls
    <3> QED
      BY <1>1, <3>1, <3>3, SameBook
  <2>5. CASE ~ReplaceStarts(r)
    <3>1. Cancelled(Book, r.cancel, replay, task)
      BY <2>2, <2>5 DEF Replace
    <3> QED
      BY <1>1, <2>3, <3>1, CancelledKeeps
  <2> QED
    BY <2>4, <2>5
<1> QED
  BY <1>2, <1>3, <1>4 DEF Messages

-----------------------------------------------------------------------------
(* One lemma for each of what a step may be.                               *)

(* Where the weather changes, it keeps the cap of a maker.                 *)
LEMMA SameControl ==
    ASSUME Control, now' \in Nat, left' \in Bounds, UNCHANGED <<store, boot>>
    PROVE  Control'
BY DEF Control

LEMMA HearsKeeps ==
    ASSUME Inv, NEW t \in Tasks, NEW m \in Messages, Hears(t, m)
    PROVE  Inv'
<1>1. Calls /\ Control /\ Kept(Book, MaxPerMaker, retracted, now)
  BY Facts
<1>2. left' \in Bounds /\ left'.perMaker = left.perMaker /\ MaxPerMaker' = MaxPerMaker
  <2>1. left' = [left EXCEPT !.sends = @ - 1] /\ left.sends > 0
    BY DEF Hears
  <2>2. left \in Bounds
    BY <1>1 DEF Control
  <2> QED
    BY <2>1, <2>2 DEF Bounds, MaxPerMaker
<1>3. UNCHANGED <<now, boot>>
  BY DEF Hears, chain
<1>4. store' \in Seq(Messages) /\ Len(store') \in Nat /\ Len(store') >= Len(store)
  BY <1>1 DEF Hears, Control
<1>5. Control'
  BY <1>1, <1>2, <1>3, <1>4 DEF Control
<1>6. Calls' /\ Kept(Book', MaxPerMaker, retracted', now)
  <2>1. CASE Live
    BY <2>1, HandleKeeps DEF Hears
  <2>2. CASE ~Live
    BY <1>1, <2>2, SameBook DEF Hears, Calls
  <2> QED
    BY <2>1, <2>2
<1> QED
  BY <1>2, <1>3, <1>5, <1>6 DEF Inv

LEMMA AnswerKeeps ==
    ASSUME Inv, NEW t \in Tasks, LensAnswers(t) \/ LensFails(t)
    PROVE  Inv'
<1>1. Calls /\ Control /\ Kept(Book, MaxPerMaker, retracted, now)
  BY Facts
<1>2. left' \in Bounds /\ left'.perMaker = left.perMaker /\ MaxPerMaker' = MaxPerMaker
  BY <1>1 DEF LensAnswers, LensFails, Control, Bounds, MaxPerMaker
<1>3. UNCHANGED <<now, store, boot, book, retracted>> /\ task[t] # None
  BY DEF LensAnswers, LensFails, chain, ghosts, Idle
<1>4. PICK v : task' = [task EXCEPT ![t] = [task[t] EXCEPT !.verdict = v]]
  BY DEF LensAnswers, LensFails
<1>5. Calls'
  <2> DEFINE x == task[t]
             y == [x EXCEPT !.verdict = v]
  <2>1. Awaits(x) /\ x # None
    BY <1>1, <1>3 DEF Calls
  <2>2. DOMAIN y = DOMAIN x /\ \A f \in DOMAIN x \ {"verdict"} : y[f] = x[f]
    OBVIOUS
  <2>3. task' = [task EXCEPT ![t] = y]
    BY <1>4
  <2> HIDE DEF x, y
  <2>4. Awaits(y)
    BY <2>1, <2>2 DEF Awaits
  <2> QED
    BY <1>1, <2>3, <2>4, CallsChange DEF Calls
<1> QED
  BY <1>1, <1>2, <1>3, <1>5, SameBook, SameControl DEF Inv, Control

LEMMA EndsAwait ==
    ASSUME Calls, NEW t \in Tasks
    PROVE  \A u \in Tasks : Awaits(Ends(t)[u])
BY CallsChange DEF Ends, Awaits

LEMMA AnnounceEndsKeeps ==
    ASSUME Inv, NEW t \in Tasks, AnnounceEnds(t)
    PROVE  Inv'
<1>1. Calls /\ Control /\ Kept(Book, MaxPerMaker, retracted, now) /\ now \in Nat /\ MaxPerMaker \in Nat
  BY Facts
<1> DEFINE o == task[t].order
           next == Admitted(Book, o, TRUE, None)
<1>2. o \in Orders
  BY <1>1 DEF AnnounceEnds, Calls, Awaits, Idle
<1>3. /\ UNCHANGED <<now, store, boot, left, retracted>>
      /\ \E b : Became(b, Ends(t)) /\ (b = Book \/ b = Refused(Book, o) \/ b \in next)
  BY DEF AnnounceEnds, chain, ghosts
<1>4. PICK b : Became(b, Ends(t)) /\ (b = Book \/ b = Refused(Book, o) \/ b \in next)
  BY <1>3
<1>5. Kept(b, MaxPerMaker, retracted, now)
  <2>1. CASE b = Book
    BY <1>1, <2>1
  <2>2. CASE b = Refused(Book, o)
    BY <1>1, <1>2, <2>2, RefusedKeeps
  <2>3. CASE b \in next
    <3>1. ~TakesPredecessorSlot(Book, o, None)
      BY DEF TakesPredecessorSlot
    <3> HIDE DEF o
    <3> QED
      BY <1>1, <1>2, <2>3, <3>1, AdmittedKeeps DEF Kept
  <2> QED
    BY <1>4, <2>1, <2>2, <2>3
<1>6. Calls' /\ Kept(Book', MaxPerMaker, retracted, now)
  BY <1>1, <1>4, <1>5, BecameKept, BecameCalls, EndsAwait
<1> QED
  BY <1>1, <1>3, <1>6 DEF Inv, Control, MaxPerMaker

LEMMA ReplaceEndsKeeps ==
    ASSUME Inv, NEW t \in Tasks, ReplaceEnds(t)
    PROVE  Inv'
<1>1. Calls /\ Control /\ Kept(Book, MaxPerMaker, retracted, now) /\ now \in Nat /\ MaxPerMaker \in Nat
  BY Facts
<1> DEFINE o == task[t].order
           r == task[t].replace
           c == r.cancel
           next == IF task[t].verdict = "ok" THEN Admitted(Book, o, TRUE, r.old) ELSE {}
           rest == IF task[t].verdict = "ok" THEN Refused(Book, o) ELSE Book
<1>2. /\ o \in Orders /\ o = r.new /\ c \in Soft /\ r.old \in c.orders /\ c.maker = Maker[o]
  <2>1. r \in Replaces /\ o = r.new
    BY <1>1 DEF ReplaceEnds, Calls, Awaits, Idle
  <2> QED
    BY <2>1, CancelTypes
<1>3. /\ UNCHANGED <<now, store, boot, left>>
      /\ \/ \E b \in next : Became(Retract(b, c), Ends(t)) /\ retracted' = retracted \cup Withdrawn(b, c)
         \/ Cancelled(rest, c, task[t].replay, Ends(t))
  BY DEF ReplaceEnds, chain
<1>4. Calls' /\ Kept(Book', MaxPerMaker, retracted', now)
  <2>1. ASSUME NEW b \in next, Became(Retract(b, c), Ends(t)), retracted' = retracted \cup Withdrawn(b, c)
        PROVE  Calls' /\ Kept(Book', MaxPerMaker, retracted', now)
    <3>1. b \in Admitted(Book, o, TRUE, r.old)
      BY <2>1
    <3> DEFINE W == Withdrawn(b, c)
    <3> HIDE DEF o, r, c, next, rest
    <3>2. Exact(Book) /\ Within(Book, MaxPerMaker)
      BY <1>1 DEF Kept, Good
    <3>3. /\ Good(b, retracted, now)
          /\ TakesPredecessorSlot(Book, o, r.old) => r.old \in DOMAIN b.entries
          /\ (TakesPredecessorSlot(Book, o, r.old) => r.old \in W) => Within(Evict(b, W), MaxPerMaker)
      BY <1>1, <1>2, <3>1, <3>2, AdmittedKeeps, AdmittedResult
    <3>4. TakesPredecessorSlot(Book, o, r.old) => r.old \in W
      BY <1>2, <3>3 DEF TakesPredecessorSlot, Withdrawn, Of
    <3>5. Kept(Retract(b, c), MaxPerMaker, retracted \cup W, now)
      BY <1>1, <1>2, <3>3, <3>4, RetractResult DEF Kept, Soft
    <3>6. Kept(Book', MaxPerMaker, retracted \cup W, now)
      BY <2>1, <3>5, BecameKept
    <3> QED
      BY <1>1, <2>1, <3>6, BecameCalls, EndsAwait
  <2>2. ASSUME Cancelled(rest, c, task[t].replay, Ends(t))
        PROVE  Calls' /\ Kept(Book', MaxPerMaker, retracted', now)
    <3>1. Kept(rest, MaxPerMaker, retracted, now)
      <4> HIDE DEF o
      <4> QED
        BY <1>1, <1>2, RefusedKeeps
    <3> HIDE DEF o, r, c, next, rest
    <3> QED
      BY <1>1, <1>2, <2>2, <3>1, CancelledKeeps, EndsAwait
  <2> HIDE DEF o, r, c, next, rest
  <2> QED
    BY <1>3, <2>1, <2>2
<1> QED
  BY <1>1, <1>3, <1>4 DEF Inv, Control, MaxPerMaker

(* An eviction, of a book with the same orders listed, that is all a step  *)
(* does to it.                                                             *)
LEMMA RecheckEndsKeeps ==
    ASSUME Inv, NEW t \in Tasks, RecheckEnds(t)
    PROVE  Inv'
<1>1. Calls /\ Control /\ Kept(Book, MaxPerMaker, retracted, now) /\ now \in Nat /\ MaxPerMaker \in Nat
  BY Facts
<1>2. UNCHANGED <<now, store, boot, left, retracted>>
  BY DEF RecheckEnds, chain, ghosts
<1> DEFINE v == task[t].verdict
           struck(o) == entries[o].strikes + 1
           e == [o \in Listed |->
                   IF o \notin task[t].same \/ v[o] = "inconclusive" THEN entries[o]
                   ELSE IF v[o] = "isolated" THEN [entries[o] EXCEPT !.strikes = @ + 1]
                   ELSE [ok |-> v[o] = "ok", strikes |-> 0]]
           S == {o \in task[t].captured : v[o] \in {"poor", "dead"}
                   \/ (v[o] = "isolated" /\ o \in task[t].same /\ struck(o) >= MaxStrikes)}
<1>3. Became(Evict([Book EXCEPT !.entries = e], S), Ends(t))
  BY DEF RecheckEnds
<1>4. DOMAIN e = Listed
  OBVIOUS
<1> HIDE DEF e, S
<1> DEFINE b == [Book EXCEPT !.entries = e]
<1>5. /\ DOMAIN b = Fields /\ DOMAIN b.entries = DOMAIN Book.entries
      /\ b.counts = Book.counts /\ b.tombs = Book.tombs
  BY <1>4 DEF Book, Fields, Listed
<1> HIDE DEF b
<1>6. Kept(Evict(b, S), MaxPerMaker, retracted, now)
  BY <1>1, <1>5, KeptAs, EvictKeeps
<1>7. Became(Evict(b, S), Ends(t))
  BY <1>3 DEF b
<1>8. Calls' /\ Kept(Book', MaxPerMaker, retracted, now)
  BY <1>1, <1>6, <1>7, BecameKept, BecameCalls, EndsAwait
<1> QED
  BY <1>1, <1>2, <1>8 DEF Inv, Control, MaxPerMaker

LEMMA ReplayKeeps ==
    ASSUME Inv, NEW t \in Tasks, Replay(t)
    PROVE  Inv'
<1>1. Control /\ MaxPerMaker \in Nat
  BY Facts
<1>2. PICK k \in ToReplay : Handle(t, store[k], TRUE) /\ boot' = [boot EXCEPT !.next = k + 1]
  BY DEF Replay
<1>3. UNCHANGED <<now, store, left>>
  BY DEF Replay, chain
<1>4. k \in 1..Len(store) /\ store[k] \in Messages
  BY <1>1, <1>2 DEF ToReplay, Control
<1>5. Control'
  BY <1>1, <1>2, <1>3, <1>4 DEF Control
<1>6. Calls' /\ Kept(Book', MaxPerMaker, retracted', now)
  BY <1>2, <1>4, HandleKeeps
<1> QED
  BY <1>3, <1>5, <1>6 DEF Inv, MaxPerMaker

LEMMA RestartKeeps ==
    ASSUME Inv, Restart
    PROVE  Inv'
<1>1. Control /\ MaxPerMaker \in Nat /\ now \in Nat
  BY Facts
<1>2. left' = [left EXCEPT !.boots = @ - 1] /\ left.boots > 0 /\ left \in Bounds
  BY <1>1 DEF Restart, Control
<1>3. left' \in Bounds /\ MaxPerMaker' = MaxPerMaker /\ UNCHANGED <<now, store>>
  BY <1>2 DEF Restart, Bounds, MaxPerMaker
<1>4. Control'
  <2>1. boot' = [phase |-> "cancel", next |-> 1, last |-> Len(store)]
    BY DEF Restart, History
  <2> QED
    BY <1>1, <1>3, <2>1 DEF Control
<1>5. Calls'
  BY DEF Restart, Calls, Awaits
<1> DEFINE b == Book'
<1>6. /\ DOMAIN b = Fields /\ DOMAIN b.entries = {} /\ DOMAIN b.counts = {} /\ DOMAIN b.tombs = {}
  BY DEF Restart, Book, Fields
<1> HIDE DEF b
<1>7. \A m : Of(b, m) = {} /\ CountIn(b, m) = 0
  BY <1>6 DEF Of, CountIn
<1>8. Exact(b) /\ Within(b, MaxPerMaker)
  BY <1>1, <1>6, <1>7, FS_EmptySet, MakersOf DEF Exact, Within
<1>9. Stands(b.tombs, {}, now)
  <2>1. IsFiniteSet(DOMAIN b.tombs) /\ Cardinality(DOMAIN b.tombs) <= MaxTombs
    BY <1>6, FS_EmptySet, MakersOf
  <2>2. Real(b.tombs) = {}
    BY <1>6 DEF Real
  <2> QED
    BY <1>6, <2>1, <2>2 DEF Stands, Marks, Tombs
<1>10. Kept(b, MaxPerMaker, {}, now)
  BY <1>8, <1>9 DEF Kept, Good, StaysOut
<1>11. retracted' = {}
  BY DEF Restart
<1> QED
  BY <1>3, <1>4, <1>5, <1>10, <1>11 DEF Inv, b

(* What the chain does by itself, and the end of a phase of the start.     *)
LEMMA BesideKeeps ==
    ASSUME Inv, NextPhase \/ CancelledOnChain \/ FilledOnChain \/ Drained \/ EventLost
    PROVE  Inv'
<1>1. Calls /\ Control /\ Kept(Book, MaxPerMaker, retracted, now)
  BY Facts
<1>2. UNCHANGED <<now, store, book, task, retracted>>
  BY DEF NextPhase, CancelledOnChain, FilledOnChain, Drained, EventLost, Die, Moves, chain, ghosts
<1>3. \/ UNCHANGED boot /\ (UNCHANGED left \/ (left.moves > 0 /\ left' = [left EXCEPT !.moves = @ - 1]))
      \/ UNCHANGED left /\ boot' = History(PhaseAfter(boot.phase))
  BY DEF NextPhase, CancelledOnChain, FilledOnChain, Drained, EventLost, Die, Moves, chain, ghosts
<1>4. left \in Bounds
  BY <1>1 DEF Control
<1>5. left' \in Bounds /\ MaxPerMaker' = MaxPerMaker
  BY <1>3, <1>4 DEF Bounds, MaxPerMaker
<1>6. Control'
  <2>1. CASE UNCHANGED boot
    BY <1>1, <1>2, <1>5, <2>1 DEF Control
  <2>2. CASE boot' = History(PhaseAfter(boot.phase))
    <3>1. boot.phase \in {"cancel", "order", "replace", "live"} /\ Len(store) \in Nat
      BY <1>1 DEF Control
    <3>2. PhaseAfter(boot.phase) \in {"cancel", "order", "replace", "live"}
      BY <3>1 DEF PhaseAfter
    <3>3. /\ DOMAIN boot' = {"phase", "next", "last"} /\ boot'.phase = PhaseAfter(boot.phase)
          /\ boot'.next = 1 /\ boot'.last \in 0..Len(store)
      BY <2>2, <3>1 DEF History
    <3> QED
      BY <1>1, <1>2, <1>5, <3>2, <3>3 DEF Control
  <2> QED
    BY <1>3, <2>1, <2>2
<1> QED
  BY <1>1, <1>2, <1>5, <1>6, SameBook DEF Inv, Calls

LEMMA ChainEventKeeps ==
    ASSUME Inv, ChainEvent
    PROVE  Inv'
<1>1. Calls /\ Control /\ Kept(Book, MaxPerMaker, retracted, now) /\ now \in Nat /\ MaxPerMaker \in Nat
  BY Facts
<1>2. UNCHANGED <<now, store, boot, left, retracted>>
  BY DEF ChainEvent, ghosts
<1>3. PICK gone, touched : Became([Evict(Book, gone) EXCEPT !.dirty = @ \cup touched], task)
  BY DEF ChainEvent
<1> DEFINE e == Evict(Book, gone)
           b == [e EXCEPT !.dirty = @ \cup touched]
<1>4. Kept(e, MaxPerMaker, retracted, now)
  BY <1>1, EvictKeeps
<1>5. DOMAIN e = Fields
  BY <1>4 DEF Kept, Good, Exact
<1>6. DOMAIN b = Fields /\ b.entries = e.entries /\ b.counts = e.counts /\ b.tombs = e.tombs
  <2> HIDE DEF e
  <2> QED
    BY <1>5 DEF Fields
<1> HIDE DEF e
<1>7. Kept(b, MaxPerMaker, retracted, now)
  <2> HIDE DEF b
  <2> QED
    BY <1>4, <1>6, KeptAs
<1>8. Became(b, task)
  BY <1>3 DEF e
<1> HIDE DEF b
<1>9. Calls' /\ Kept(Book', MaxPerMaker, retracted, now)
  BY <1>1, <1>7, <1>8, BecameKept, BecameCalls DEF Calls
<1> QED
  BY <1>1, <1>2, <1>9 DEF Inv, Control, MaxPerMaker

LEMMA PassKeeps ==
    ASSUME Inv, Pass
    PROVE  Inv'
<1>1. Calls /\ Control /\ Kept(Book, MaxPerMaker, retracted, now) /\ now \in Nat
  BY Facts
<1>2. left' = [left EXCEPT !.ticks = @ - 1] /\ left.ticks > 0 /\ left \in Bounds
  BY <1>1 DEF Pass, Control
<1>3. left' \in Bounds /\ MaxPerMaker' = MaxPerMaker
  BY <1>2 DEF Bounds, MaxPerMaker
<1>4. now' = now + 1 /\ UNCHANGED <<store, boot, book, task, retracted>>
  BY DEF Pass, ghosts
<1>5. Kept(Book, MaxPerMaker, retracted, now + 1)
  BY <1>1, LaterKeeps
<1>6. Control'
  BY <1>1, <1>3, <1>4, SameControl
<1> QED
  BY <1>1, <1>3, <1>4, <1>5, <1>6, SameBook DEF Inv, Calls

LEMMA RecheckAwaits ==
    ASSUME Calls, NEW t \in Tasks, NEW S
    PROVE  \A u \in Tasks : Awaits([task EXCEPT ![t] = Recheck(S)][u])
<1>1. Awaits(Recheck(S))
  BY DEF Recheck, Awaits
<1> QED
  BY <1>1, CallsChange

LEMMA RevalidateKeeps ==
    ASSUME Inv, NEW t \in Tasks, Revalidate(t)
    PROVE  Inv'
<1>1. Calls /\ Control /\ Kept(Book, MaxPerMaker, retracted, now) /\ now \in Nat /\ MaxPerMaker \in Nat
  BY Facts
<1>2. UNCHANGED <<now, store, boot, left, retracted>>
  BY DEF Revalidate, chain, ghosts
<1> DEFINE pruned == [Book EXCEPT !.tombs = Restrict(@, {k \in DOMAIN @ : @[k].until > now})]
           b == Evict(pruned, {o \in Listed : Expiry[o] <= now})
           at == IF Due(b) = {} THEN task ELSE [task EXCEPT ![t] = Recheck(Due(b))]
<1>3. Became(b, at)
  BY DEF Revalidate
<1>4. Kept(pruned, MaxPerMaker, retracted, now)
  BY <1>1, PruneKeeps
<1> HIDE DEF pruned
<1>5. Kept(b, MaxPerMaker, retracted, now)
  BY <1>1, <1>4, EvictKeeps
<1> HIDE DEF b
<1>6. \A u \in Tasks : Awaits(at[u])
  BY <1>1, RecheckAwaits DEF Calls
<1> HIDE DEF at
<1>7. Calls' /\ Kept(Book', MaxPerMaker, retracted, now)
  BY <1>3, <1>5, <1>6, BecameKept, BecameCalls
<1> QED
  BY <1>1, <1>2, <1>7 DEF Inv, Control, MaxPerMaker

LEMMA SweepKeeps ==
    ASSUME Inv, NEW t \in Tasks, Sweep(t)
    PROVE  Inv'
<1>1. Calls /\ Control /\ Kept(Book, MaxPerMaker, retracted, now) /\ now \in Nat /\ MaxPerMaker \in Nat
  BY Facts
<1>2. UNCHANGED <<now, store, boot, left, retracted>>
  BY DEF Sweep, chain, ghosts
<1> DEFINE b == [Book EXCEPT !.dirty = {}]
           at == IF dirty \cap Listed = {} THEN task ELSE [task EXCEPT ![t] = Recheck(dirty \cap Listed)]
<1>3. Became(b, at)
  BY DEF Sweep
<1>4. /\ DOMAIN b = Fields /\ DOMAIN b.entries = DOMAIN Book.entries
      /\ b.counts = Book.counts /\ b.tombs = Book.tombs
  BY DEF Book, Fields
<1> HIDE DEF b
<1>5. Kept(b, MaxPerMaker, retracted, now)
  BY <1>1, <1>4, KeptAs
<1>6. \A u \in Tasks : Awaits(at[u])
  BY <1>1, RecheckAwaits DEF Calls
<1> HIDE DEF at
<1>7. Calls' /\ Kept(Book', MaxPerMaker, retracted, now)
  BY <1>3, <1>5, <1>6, BecameKept, BecameCalls
<1> QED
  BY <1>1, <1>2, <1>7 DEF Inv, Control, MaxPerMaker

-----------------------------------------------------------------------------
LEMMA InvHolds == Spec => []Inv
<1>1. Inv /\ [Next]_vars => Inv'
  <2> SUFFICES ASSUME Inv, [Next]_vars PROVE Inv'
    OBVIOUS
  <2>1. CASE UNCHANGED vars
    <3>1. UNCHANGED <<now, store, boot, book, task, left, retracted>>
      BY <2>1 DEF vars, chain, ghosts
    <3>2. Calls /\ Control /\ Kept(Book, MaxPerMaker, retracted, now)
      BY Facts
    <3> QED
      BY <3>1, <3>2, SameBook DEF Inv, Calls, Control, MaxPerMaker
  <2>2. ASSUME NEW t \in Tasks, Publish(t) \/ Step(t) \/ Replay(t) \/ Revalidate(t) \/ Sweep(t)
        PROVE  Inv'
    <3>1. CASE Publish(t)
      BY <3>1, HearsKeeps DEF Publish
    <3>2. CASE Step(t)
      BY <3>2, AnswerKeeps, AnnounceEndsKeeps, ReplaceEndsKeeps, RecheckEndsKeeps DEF Step
    <3> QED
      BY <2>2, <3>1, <3>2, ReplayKeeps, RevalidateKeeps, SweepKeeps
  <2> QED
    BY <2>1, <2>2, RestartKeeps, BesideKeeps, ChainEventKeeps, PassKeeps DEF Next
<1> QED
  BY <1>1, InitInv, PTL DEF Spec

(* No caps are passed and the per-maker counts are exact, for any orders   *)
(* and makers, however announces, replaces, displacements and evictions    *)
(* interleave (book.ts, admit).                                            *)
THEOREM BookWithinCaps == Spec => []CapsHeld
<1>1. Inv => CapsHeld
  <2> SUFFICES ASSUME Inv PROVE CapsHeld
    OBVIOUS
  <2>1. Exact(Book) /\ Within(Book, MaxPerMaker)
    BY Facts DEF Kept, Good
  <2>2. \A m : CountIn(Book, m) = Count(m) /\ Of(Book, m) = {o \in Listed : Maker[o] = m}
    BY DEF CountIn, Count, Of, Book, Listed
  <2> QED
    BY <2>1, <2>2, BookFields DEF CapsHeld, Exact, Within
<1> QED
  BY <1>1, InvHolds, PTL

(* An order its maker took off this node while it was listed is not listed *)
(* again before its deadline, for any flood of cancels and any number of   *)
(* tombstones, as long as the retracted orders fit (book.ts, ingestCancel).*)
THEOREM RetractedAreOut == Spec => []RetractedStaysOut
<1>1. Inv => RetractedStaysOut
  BY Facts, BookFields DEF Kept, Good, StaysOut, RetractedStaysOut
<1> QED
  BY <1>1, InvHolds, PTL
=============================================================================

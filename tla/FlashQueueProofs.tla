-------------------------- MODULE FlashQueueProofs --------------------------
(***************************************************************************)
(* Proofs about FlashQueue, and at the end about FlashFaults and Replay,   *)
(* for every size of the ring, every checkpoint interval and any number of *)
(* appends, power losses, flash commands that time out and publishes.      *)
(***************************************************************************)
EXTENDS FlashFaults, Replay, FiniteSetTheorems, WellFoundedInduction, TLAPS

(***************************************************************************)
(* A bounded function has a largest and a smallest value.                  *)
(***************************************************************************)
LEMMA MinNat ==
    ASSUME NEW S \in SUBSET Nat, S # {}
    PROVE  \E m \in S : \A n \in S : m <= n
<1>1. IsWellFoundedOn(OpToRel(<, Nat), Nat)
    BY NatLessThanWellFounded
<1>2. PICK m \in S : \A n \in S : ~ (<<n, m>> \in OpToRel(<, Nat))
    BY <1>1, WFMin, Zenon
<1>3. \A n \in S : ~(n < m)
    BY <1>2 DEF OpToRel
<1> QED BY <1>3, SMT

LEMMA LargestValue ==
    ASSUME NEW S, S # {}, NEW v \in [S -> Nat], NEW B \in Nat, \A s \in S : v[s] <= B
    PROVE  \E s \in S : \A t \in S : v[t] <= v[s]
<1> DEFINE D == {B - v[s] : s \in S}
<1>1. D \in SUBSET Nat /\ D # {}
    BY SMT
<1>2. PICK m \in D : \A n \in D : m <= n
    BY <1>1, MinNat
<1>3. PICK s \in S : m = B - v[s]
    BY SMT
<1>4. \A t \in S : B - v[s] <= B - v[t]
    BY <1>2, <1>3, SMT
<1> QED BY <1>4, SMT

LEMMA SmallestValue ==
    ASSUME NEW S, S # {}, NEW v \in [S -> Nat]
    PROVE  \E s \in S : \A t \in S : v[s] <= v[t]
<1> DEFINE D == {v[s] : s \in S}
<1>1. D \in SUBSET Nat /\ D # {}
    BY SMT
<1>2. PICK m \in D : \A n \in D : m <= n
    BY <1>1, MinNat
<1> QED BY <1>2, SMT

-----------------------------------------------------------------------------
(***************************************************************************)
(* The geometry of the ring.                                               *)
(***************************************************************************)
LEMMA RingArithmetic ==
    /\ SlotCount \in Nat /\ SlotCount >= 2 /\ SectorSlots \in Nat \ {0}
    /\ 0 \in Slots
    /\ \A s \in Slots : s \in Nat /\ Succ(s) \in Slots
    /\ \A h, s \in Slots : Offset(h, s) \in Nat /\ Offset(h, s) < SlotCount
    /\ \A h, s, t \in Slots : Offset(h, s) = Offset(h, t) => s = t
BY GeometryAssumption, SMT DEF Slots, Succ, Offset

LEMMA SectorGeometry ==
    /\ \A s \in Slots : s \in SectorOf(s) /\ SectorOf(s) \subseteq Slots
    /\ \A s \in Slots : \A t \in SectorOf(s) : SectorOf(t) = SectorOf(s)
    /\ \A s \in Slots : \A t \in SectorOf(s), u \in Slots :
           (s <= u /\ u <= t) \/ (t <= u /\ u <= s) => u \in SectorOf(s)
    /\ SlotCount - 1 \notin SectorOf(0)
<1>1. SectorStarts \subseteq Slots
    BY DEF SectorStarts
<1>2. \A s \in Slots : s \in SectorOf(s) /\ SectorOf(s) \subseteq Slots
    BY DEF SectorOf
<1>3. \A s \in Slots : \A t \in SectorOf(s) : SectorOf(t) = SectorOf(s)
    BY DEF SectorOf
<1>4. \A s \in Slots : \A t \in SectorOf(s), u \in Slots :
           (s <= u /\ u <= t) \/ (t <= u /\ u <= s) => u \in SectorOf(s)
  <2> SUFFICES ASSUME NEW s \in Slots, NEW t \in SectorOf(s), NEW u \in Slots,
                      (s <= u /\ u <= t) \/ (t <= u /\ u <= s)
               PROVE  u \in SectorOf(s)
    OBVIOUS
  <2>1. t \in Slots /\ \A b \in SectorStarts : b <= t <=> b <= s
    BY DEF SectorOf
  <2>2. ASSUME NEW b \in SectorStarts PROVE b <= u <=> b <= s
    <3>1. b \in Nat /\ s \in Nat /\ t \in Nat /\ u \in Nat
      BY <1>1, <2>1, RingArithmetic
    <3>2. b <= t <=> b <= s
      BY <2>1
    <3> QED BY <3>1, <3>2, SMT
  <2> QED BY <2>2 DEF SectorOf
<1>5. SlotCount - 1 \notin SectorOf(0)
  <2>1. SectorSlots \in SectorStarts
    BY GeometryAssumption, SMT DEF SectorStarts, Slots
  <2> QED BY <2>1, GeometryAssumption, SMT DEF SectorOf
<1> QED BY <1>2, <1>3, <1>4, <1>5

-----------------------------------------------------------------------------
(***************************************************************************)
(* The scan of the flash.                                                  *)
(***************************************************************************)

\* Some slots of the ring hold valid records; no order exceeds B.
PagesBelow(f, B) ==
    /\ f \in [Slots -> Page]
    /\ B \in Nat
    /\ \A s \in ValidIn(f) : f[s].order <= B

LEMMA PageFields ==
    ASSUME NEW f \in [Slots -> Page], NEW s \in Slots
    PROVE  f[s].order \in Nat /\ f[s].st \in PageStates /\ f[s].rec \in 0..MaxRecords
BY SMT DEF Page

LEMMA ScanSets ==
    ASSUME NEW f
    PROVE  /\ PendingIn(f) \subseteq ValidIn(f) /\ ValidIn(f) \subseteq Slots
           /\ IsFiniteSet(PendingIn(f)) /\ Cardinality(PendingIn(f)) \in Nat
<1>1. PendingIn(f) \subseteq ValidIn(f) /\ ValidIn(f) \subseteq Slots
    BY DEF PendingIn, ValidIn
<1>2. IsFiniteSet(Slots)
    BY FS_Interval, RingArithmetic, SMT DEF Slots
<1>3. IsFiniteSet(PendingIn(f))
    BY <1>1, <1>2, FS_Subset, Zenon
<1> QED BY <1>1, <1>3, FS_CardinalityType

LEMMA NewestExists ==
    ASSUME NEW f, NEW B, PagesBelow(f, B), ValidIn(f) # {}
    PROVE  /\ Newest(f) \in ValidIn(f)
           /\ \A t \in ValidIn(f) : f[t].order <= f[Newest(f)].order
<1> DEFINE v == [s \in ValidIn(f) |-> f[s].order]
<1>1. v \in [ValidIn(f) -> Nat] /\ \A s \in ValidIn(f) : v[s] <= B
    BY PageFields, ScanSets, Zenon DEF PagesBelow
<1>2. \E s \in ValidIn(f) : \A t \in ValidIn(f) : v[t] <= v[s]
    BY <1>1, LargestValue DEF PagesBelow
<1>3. \E s \in ValidIn(f) : \A t \in ValidIn(f) : f[t].order <= f[s].order
    BY <1>2
<1> QED BY <1>3, Zenon DEF Newest

LEMMA OldestExists ==
    ASSUME NEW f \in [Slots -> Page], PendingIn(f) # {}
    PROVE  /\ Oldest(f) \in PendingIn(f)
           /\ \A t \in PendingIn(f) : f[Oldest(f)].order <= f[t].order
<1> DEFINE v == [s \in PendingIn(f) |-> f[s].order]
<1>1. v \in [PendingIn(f) -> Nat]
    BY PageFields, ScanSets, Zenon
<1>2. \E s \in PendingIn(f) : \A t \in PendingIn(f) : v[s] <= v[t]
    BY <1>1, SmallestValue
<1>3. \E s \in PendingIn(f) : \A t \in PendingIn(f) : f[s].order <= f[t].order
    BY <1>2
<1> QED BY <1>3, Zenon DEF Oldest

LEMMA NextPendingExists ==
    ASSUME NEW f, NEW s \in Slots, PendingIn(f) # {}
    PROVE  /\ NextPending(f, s) \in PendingIn(f)
           /\ \A u \in PendingIn(f) : Offset(Succ(s), NextPending(f, s)) <= Offset(Succ(s), u)
<1> DEFINE v == [t \in PendingIn(f) |-> Offset(Succ(s), t)]
<1>1. v \in [PendingIn(f) -> Nat]
    BY RingArithmetic, ScanSets, Zenon
<1>2. \E t \in PendingIn(f) : \A u \in PendingIn(f) : v[t] <= v[u]
    BY <1>1, SmallestValue
<1>3. \E t \in PendingIn(f) : \A u \in PendingIn(f) : Offset(Succ(s), t) <= Offset(Succ(s), u)
    BY <1>2
<1> QED BY <1>3, Zenon DEF NextPending

LEMMA ScanInRing ==
    ASSUME NEW f, NEW B, PagesBelow(f, B)
    PROVE  /\ HeadOf(f) \in Slots /\ TailOf(f) \in Slots
           /\ NextOrderOf(f) \in Nat \ {0}
           /\ \A s \in ValidIn(f) : f[s].order < NextOrderOf(f)
           /\ NextOrderOf(f) <= B + 1
<1>1. HeadOf(f) \in Slots
    BY RingArithmetic, ScanSets, NewestExists, Zenon DEF HeadOf
<1>2. TailOf(f) \in Slots
    BY <1>1, RingArithmetic, ScanSets, OldestExists, Zenon DEF TailOf, PagesBelow
<1>3. CASE ValidIn(f) = {}
    BY <1>1, <1>2, <1>3, SMT DEF NextOrderOf, PagesBelow
<1>4. CASE ValidIn(f) # {}
  <2>1. /\ Newest(f) \in ValidIn(f)
        /\ \A t \in ValidIn(f) : f[t].order <= f[Newest(f)].order
    BY <1>4, NewestExists
  <2>2. \A s \in ValidIn(f) : f[s].order \in Nat
    BY PageFields, ScanSets DEF PagesBelow
  <2>3. NextOrderOf(f) = f[Newest(f)].order + 1
    BY <1>4 DEF NextOrderOf
  <2> QED BY <1>1, <1>2, <2>1, <2>2, <2>3, SMT DEF PagesBelow
<1> QED BY <1>3, <1>4

-----------------------------------------------------------------------------
(***************************************************************************)
(* The shape of the ring, and how it survives each way the pages change.   *)
(***************************************************************************)
LEMMA NewestUnique ==
    ASSUME NEW f, NEW B, PagesBelow(f, B),
           NEW h \in Slots, SortedFrom(f, h),
           NEW n \in ValidIn(f), \A t \in ValidIn(f) : f[t].order <= f[n].order
    PROVE  Newest(f) = n /\ HeadOf(f) = Succ(n)
<1>1. /\ Newest(f) \in ValidIn(f)
      /\ \A t \in ValidIn(f) : f[t].order <= f[Newest(f)].order
    BY NewestExists, Zenon
<1>2. f[n].order \in Nat /\ f[Newest(f)].order \in Nat
    BY <1>1, PageFields, ScanSets DEF PagesBelow
<1>3. f[n].order = f[Newest(f)].order
    BY <1>1, <1>2, SMT
<1>4. n \in Slots /\ Newest(f) \in Slots
    BY <1>1, ScanSets
<1>5. Offset(h, n) = Offset(h, Newest(f))
  <2>1. ~(Offset(h, n) < Offset(h, Newest(f))) /\ ~(Offset(h, Newest(f)) < Offset(h, n))
    BY <1>1, <1>2, <1>3, SMT DEF SortedFrom
  <2>2. Offset(h, n) \in Nat /\ Offset(h, Newest(f)) \in Nat
    BY <1>4, RingArithmetic
  <2> QED BY <2>1, <2>2, SMT
<1> QED BY <1>1, <1>4, <1>5, RingArithmetic, Zenon DEF HeadOf

\* Outside the sector of h, the slot just before that sector is the last
\* one reached on the way round from h.
LEMMA SectorEnd ==
    ASSUME NEW h \in Slots,
           NEW t \in Slots \ SectorOf(h), Succ(t) \in SectorOf(h),
           NEW u \in Slots \ SectorOf(h)
    PROVE  Offset(h, u) <= Offset(h, t)
<1>1. h \in SectorOf(h)
    BY SectorGeometry
<1>2. ~(Succ(t) <= u /\ u <= h) /\ ~(h <= u /\ u <= Succ(t)) /\ ~(h <= t /\ t <= Succ(t))
    BY SectorGeometry, Zenon
<1> QED BY <1>1, <1>2, RingArithmetic, SMT DEF Succ, Offset, Slots

\* A slot of the sector of h that no slot outside is further from h than
\* lies between the start of the sector and h.
LEMMA SectorTail ==
    ASSUME NEW h \in Slots,
           NEW t \in Slots \ SectorOf(h), Succ(t) \in SectorOf(h),
           NEW n \in SectorOf(h), Offset(h, t) <= Offset(h, n)
    PROVE  n < h /\ Succ(n) \in SectorOf(h)
<1>1. n \in Slots /\ h \in SectorOf(h)
    BY SectorGeometry
<1>2. ~(h <= t /\ t <= n) /\ ~(h <= t /\ t <= Succ(t))
    BY SectorGeometry, Zenon
<1>3. n < h
    BY <1>1, <1>2, RingArithmetic, SMT DEF Succ, Offset, Slots
<1>4. Succ(n) \in Slots /\ n <= Succ(n) /\ Succ(n) <= h
  <2>1. n \in Nat /\ h \in Nat /\ h <= SlotCount - 1 /\ SlotCount \in Nat
    BY <1>1, RingArithmetic, SMT DEF Slots
  <2>2. Succ(n) = n + 1
    BY <2>1, <1>3, SMT DEF Succ
  <2> QED BY <2>1, <2>2, <1>3, SMT DEF Slots
<1>5. SectorOf(n) = SectorOf(h) /\ h \in SectorOf(n)
    BY <1>1, SectorGeometry
<1>6. Succ(n) \in SectorOf(n)
    BY <1>1, <1>4, <1>5, SectorGeometry, Zenon
<1> QED BY <1>3, <1>5, <1>6

\* When the newest record in front of h is n, looking from the slot after n
\* instead of from h shifts every offset by the same amount.
LEMMA OffsetShift ==
    ASSUME NEW h \in Slots, NEW n \in Slots, NEW s \in Slots,
           Offset(h, s) <= Offset(h, n)
    PROVE  Offset(Succ(n), s) = Offset(h, s) + (SlotCount - 1 - Offset(h, n))
BY RingArithmetic, SMT DEF Succ, Offset, Slots

LEMMA SortedFromNewest ==
    ASSUME NEW f, NEW h \in Slots, SortedFrom(f, h),
           NEW n \in ValidIn(f), \A s \in ValidIn(f) : Offset(h, s) <= Offset(h, n)
    PROVE  SortedFrom(f, Succ(n))
<1> SUFFICES ASSUME NEW s \in ValidIn(f), NEW t \in ValidIn(f),
                    Offset(Succ(n), s) < Offset(Succ(n), t)
             PROVE  f[s].order < f[t].order
    BY DEF SortedFrom
<1>1. s \in Slots /\ t \in Slots /\ n \in Slots
    BY ScanSets
<1>2. /\ Offset(Succ(n), s) = Offset(h, s) + (SlotCount - 1 - Offset(h, n))
      /\ Offset(Succ(n), t) = Offset(h, t) + (SlotCount - 1 - Offset(h, n))
    BY <1>1, OffsetShift
<1>3. Offset(h, s) < Offset(h, t)
    BY <1>1, <1>2, RingArithmetic, SMT
<1> QED BY <1>3 DEF SortedFrom

\* Records vanish, all of them from the sector of the head: by a reclaim, or
\* by a power loss in the middle of one.
LEMMA ShapeAfterLoss ==
    ASSUME NEW f, NEW g, NEW B, PagesBelow(f, B), PagesBelow(g, B), RingShape(f),
           \A s \in ValidIn(g) : s \in ValidIn(f) /\ g[s].order = f[s].order,
           ValidIn(f) \ SectorOf(HeadOf(f)) \subseteq ValidIn(g)
    PROVE  RingShape(g) /\ HeadOf(g) \in SectorOf(HeadOf(f))
<1> DEFINE h == HeadOf(f)
           k == HeadOf(g)
<1>1. h \in Slots /\ k \in Slots
    BY ScanInRing
<1>2. SortedFrom(f, h) /\ SortedFrom(g, h)
    BY SMT DEF RingShape, SortedFrom
<1>3. SealedBefore(f, h) \/ FirstLap(f, h)
    BY DEF RingShape
<1>4. \A s \in ValidIn(g) : s \in Slots /\ g[s].order \in Nat
    BY PageFields, ScanSets DEF PagesBelow
<1>5. CASE ValidIn(g) = {}
  <2>1. k = 0
    BY <1>5 DEF HeadOf
  <2>2. FirstLap(f, h)
    BY <1>3, <1>5 DEF SealedBefore
  <2>3. 0 \in SectorOf(h) /\ SectorOf(0) = SectorOf(h)
    BY <2>2, <1>1, SectorGeometry DEF FirstLap
  <2>4. 0 \in SectorOf(0)
    BY RingArithmetic, SectorGeometry
  <2>5. SortedFrom(g, k) /\ FirstLap(g, k)
    BY <1>5, <2>1, <2>4 DEF SortedFrom, FirstLap
  <2> QED BY <2>1, <2>3, <2>5 DEF RingShape
<1>6. CASE ValidIn(g) # {}
  <2> DEFINE n == Newest(g)
  <2>1. n \in ValidIn(g) /\ \A t \in ValidIn(g) : g[t].order <= g[n].order
    BY <1>6, NewestExists
  <2>2. k = Succ(n)
    BY <1>6 DEF HeadOf
  <2>3. \A s \in ValidIn(g) : Offset(h, s) <= Offset(h, n)
    <3> SUFFICES ASSUME NEW s \in ValidIn(g) PROVE Offset(h, s) <= Offset(h, n)
      OBVIOUS
    <3>1. ~(g[n].order < g[s].order)
      BY <2>1, <1>4, SMT
    <3>2. ~(Offset(h, n) < Offset(h, s))
      BY <3>1, <2>1, <1>2 DEF SortedFrom
    <3>3. Offset(h, n) \in Nat /\ Offset(h, s) \in Nat
      BY <1>1, <1>4, <2>1, RingArithmetic
    <3> QED BY <3>2, <3>3, SMT
  <2>4. SortedFrom(g, k)
    BY <1>1, <1>2, <2>1, <2>2, <2>3, SortedFromNewest
  <2>5. n \in Slots /\ n \in ValidIn(f)
    BY <2>1, <1>4
  <2>6. CASE SealedBefore(f, h)
    <3>1. PICK t \in ValidIn(f) \ SectorOf(h) : Succ(t) \in SectorOf(h)
      BY <2>6 DEF SealedBefore
    <3>2. t \in ValidIn(g) /\ t \in Slots \ SectorOf(h)
      BY <3>1, ScanSets
    <3>3. Offset(h, t) <= Offset(h, n)
      BY <2>3, <3>2
    <3>4. k \in SectorOf(h)
      <4>1. CASE n \in SectorOf(h)
        BY <4>1, <1>1, <2>2, <3>1, <3>2, <3>3, SectorTail
      <4>2. CASE n \notin SectorOf(h)
        <5>1. Offset(h, n) <= Offset(h, t)
          BY <4>2, <1>1, <2>5, <3>1, <3>2, SectorEnd
        <5>2. Offset(h, n) = Offset(h, t)
          <6>1. Offset(h, n) \in Nat /\ Offset(h, t) \in Nat
            BY <1>1, <2>5, <3>2, RingArithmetic
          <6> QED BY <5>1, <3>3, <6>1, SMT
        <5>3. n = t
          BY <5>2, <1>1, <2>5, <3>2, RingArithmetic
        <5> QED BY <5>3, <2>2, <3>1
      <4> QED BY <4>1, <4>2
    <3>5. SectorOf(k) = SectorOf(h)
      BY <3>4, <1>1, SectorGeometry
    <3>6. SealedBefore(g, k)
      BY <3>1, <3>2, <3>5 DEF SealedBefore
    <3> QED BY <3>4, <3>6, <2>4 DEF RingShape
  <2>7. CASE FirstLap(f, h)
    <3>1. n \in SectorOf(h) /\ n < h /\ 0 \in SectorOf(h)
      BY <2>7, <2>5 DEF FirstLap
    <3>2. k = n + 1
      BY <3>1, <2>2, <2>5, <1>1, RingArithmetic, SMT DEF Succ, Slots
    <3>3. h \in SectorOf(n) /\ SectorOf(n) = SectorOf(h)
      BY <3>1, <1>1, SectorGeometry
    <3>4. k \in SectorOf(n)
      <4>1. n <= k /\ k <= h
        <5>1. n \in Nat /\ h \in Nat
          BY <2>5, <1>1, RingArithmetic
        <5> QED BY <5>1, <3>1, <3>2, SMT
      <4> QED BY <4>1, <3>3, <1>1, <2>5, SectorGeometry, Zenon
    <3>5. SectorOf(k) = SectorOf(h)
      BY <3>3, <3>4, <2>5, SectorGeometry
    <3>6. \A s \in ValidIn(g) : s \in SectorOf(k) /\ s < k
      <4> SUFFICES ASSUME NEW s \in ValidIn(g) PROVE s \in SectorOf(k) /\ s < k
        OBVIOUS
      <4>1. s \in SectorOf(h) /\ s < h /\ s \in Slots
        BY <2>7, <1>4 DEF FirstLap
      <4>2. Offset(h, s) <= Offset(h, n)
        BY <2>3
      <4>3. s \in Nat /\ h \in Nat /\ n \in Nat /\ SlotCount \in Nat
        BY <4>1, <1>1, <2>5, RingArithmetic
      <4>4. s <= n
        BY <4>1, <4>2, <4>3, <3>1, SMT DEF Offset
      <4> QED BY <4>1, <4>3, <4>4, <3>2, <3>5, SMT
    <3>7. FirstLap(g, k)
      BY <3>1, <3>5, <3>6 DEF FirstLap
    <3> QED BY <3>3, <3>4, <3>7, <2>4 DEF RingShape
  <2> QED BY <2>6, <2>7, <1>3
<1> QED BY <1>5, <1>6

\* A page that is not valid is programmed, or a pending record is marked
\* delivered: the valid records and their orders stay as they are.
LEMMA ShapeUnchanged ==
    ASSUME NEW f, NEW g, NEW B, PagesBelow(f, B), PagesBelow(g, B), RingShape(f),
           ValidIn(g) = ValidIn(f), \A s \in ValidIn(f) : g[s].order = f[s].order
    PROVE  RingShape(g) /\ HeadOf(g) = HeadOf(f)
<1>1. HeadOf(f) \in Slots
    BY ScanInRing
<1>2. SortedFrom(f, HeadOf(f)) /\ SortedFrom(g, HeadOf(f))
    BY SMT DEF RingShape, SortedFrom
<1>3. HeadOf(g) = HeadOf(f)
  <2>1. CASE ValidIn(f) = {}
    BY <2>1 DEF HeadOf
  <2>2. CASE ValidIn(f) # {}
    <3>1. /\ Newest(f) \in ValidIn(g)
          /\ \A t \in ValidIn(g) : g[t].order <= g[Newest(f)].order
      BY <2>2, NewestExists, SMT
    <3>2. HeadOf(g) = Succ(Newest(f))
      BY <3>1, <1>1, <1>2, NewestUnique, Zenon
    <3> QED BY <3>2, <2>2 DEF HeadOf
  <2> QED BY <2>1, <2>2
<1> QED BY <1>2, <1>3 DEF RingShape, SealedBefore, FirstLap

\* A record with a new highest order becomes valid at the head.
LEMMA ShapeAfterAppend ==
    ASSUME NEW f, NEW g, NEW B, PagesBelow(f, B), PagesBelow(g, B), RingShape(f),
           NEW h, h = HeadOf(f), h \notin ValidIn(f),
           ValidIn(g) = ValidIn(f) \cup {h},
           \A s \in ValidIn(f) : g[s].order = f[s].order /\ f[s].order < g[h].order
    PROVE  RingShape(g) /\ HeadOf(g) = Succ(h)
<1>1. h \in Slots /\ Succ(h) \in Slots
    BY ScanInRing, RingArithmetic
<1>2. \A s \in ValidIn(g) : s \in Slots /\ g[s].order \in Nat
    BY PageFields, ScanSets DEF PagesBelow
<1>3. \A s \in ValidIn(g) : s # h => Offset(Succ(h), s) + 1 = Offset(h, s)
    BY <1>1, <1>2, RingArithmetic, SMT DEF Offset, Succ, Slots
<1>4. Offset(Succ(h), h) = SlotCount - 1
    BY <1>1, RingArithmetic, SMT DEF Offset, Succ, Slots
<1>5. SortedFrom(g, Succ(h))
  <2> SUFFICES ASSUME NEW s \in ValidIn(g), NEW t \in ValidIn(g),
                      Offset(Succ(h), s) < Offset(Succ(h), t)
               PROVE  g[s].order < g[t].order
    BY DEF SortedFrom
  <2>1. s # h
    <3>1. Offset(Succ(h), t) < SlotCount
      BY <1>1, <1>2, RingArithmetic
    <3>2. Offset(Succ(h), t) \in Nat /\ Offset(Succ(h), s) \in Nat /\ SlotCount \in Nat
      BY <1>1, <1>2, RingArithmetic
    <3> QED BY <3>1, <3>2, <1>4, SMT
  <2>2. CASE t = h
    BY <2>1, <2>2
  <2>3. CASE t # h
    <3>1. Offset(h, s) < Offset(h, t)
      BY <2>1, <2>3, <1>1, <1>2, <1>3, RingArithmetic, SMT
    <3> QED BY <3>1, <2>1, <2>3 DEF RingShape, SortedFrom
  <2> QED BY <2>2, <2>3
<1>6. HeadOf(g) = Succ(h)
  <2>1. \A t \in ValidIn(g) : g[t].order <= g[h].order
    BY <1>2, SMT
  <2> QED BY <2>1, <1>1, <1>5, NewestUnique, Zenon
<1>7. CASE Succ(h) \in SectorOf(h)
  <2>1. SectorOf(Succ(h)) = SectorOf(h)
    BY <1>1, <1>7, SectorGeometry
  <2>2. CASE SealedBefore(f, h)
    BY <2>1, <2>2, <1>5, <1>6 DEF SealedBefore, RingShape
  <2>3. CASE FirstLap(f, h)
    <3>1. Succ(h) = h + 1
      <4>1. SlotCount - 1 \notin SectorOf(h)
        BY <2>3, <1>1, SectorGeometry DEF FirstLap
      <4>2. h # SlotCount - 1
        BY <4>1, <1>1, SectorGeometry
      <4> QED BY <4>2, <1>1, RingArithmetic, SMT DEF Succ
    <3>2. h \in SectorOf(h)
      BY <1>1, SectorGeometry
    <3>3. \A s \in ValidIn(g) : s \in SectorOf(h) /\ s < Succ(h)
      <4> SUFFICES ASSUME NEW s \in ValidIn(g) PROVE s \in SectorOf(h) /\ s < h + 1
        BY <3>1
      <4>1. s \in SectorOf(h) /\ (s = h \/ s < h)
        BY <2>3, <3>2 DEF FirstLap
      <4>2. s \in Nat /\ h \in Nat
        BY <1>1, <1>2, RingArithmetic
      <4> QED BY <4>1, <4>2, SMT
    <3>4. FirstLap(g, Succ(h))
      BY <2>1, <2>3, <3>3 DEF FirstLap
    <3> QED BY <3>4, <1>5, <1>6 DEF RingShape
  <2> QED BY <2>2, <2>3 DEF RingShape
<1>8. CASE Succ(h) \notin SectorOf(h)
  <2>1. h \notin SectorOf(Succ(h))
    BY <1>1, <1>8, SectorGeometry
  <2>2. Succ(h) \in SectorOf(Succ(h))
    BY <1>1, SectorGeometry
  <2>3. SealedBefore(g, Succ(h))
    BY <2>1, <2>2 DEF SealedBefore
  <2> QED BY <2>3, <1>5, <1>6 DEF RingShape
<1> QED BY <1>7, <1>8

-----------------------------------------------------------------------------
(***************************************************************************)
(* The inductive invariant.                                                *)
(***************************************************************************)
LEMMA InitialShape ==
    ASSUME NEW f, f = [s \in Slots |->
                          IF s < PriorRecords
                          THEN [st |-> "delivered", order |-> s + 1, rec |-> 0]
                          ELSE Blank]
    PROVE  /\ PagesBelow(f, PriorRecords)
           /\ RingShape(f)
           /\ PendingIn(f) = {}
<1>1. PriorRecords \in Nat /\ PriorRecords <= SlotCount /\ SlotCount \in Nat /\ SlotCount >= 2
    BY PriorAssumption, RingArithmetic, SMT
<1>2. \A s \in Slots : s \in Nat /\ s < SlotCount
    BY <1>1, SMT DEF Slots
<1>3. f \in [Slots -> Page]
    BY <1>2, BoundAssumption, SMT DEF Page, Blank, PageStates
<1>4. ValidIn(f) = {s \in Slots : s < PriorRecords} /\ PendingIn(f) = {}
    BY DEF ValidIn, PendingIn, Blank
<1>5. \A s \in ValidIn(f) : s \in Slots /\ s < PriorRecords /\ f[s].order = s + 1
    BY <1>4
<1>6. PagesBelow(f, PriorRecords)
  <2>1. \A s \in ValidIn(f) : f[s].order <= PriorRecords
    BY <1>1, <1>2, <1>5, SMT
  <2> QED BY <1>1, <1>3, <2>1 DEF PagesBelow
<1>7. CASE PriorRecords = 0
  <2>1. ValidIn(f) = {}
    BY <1>2, <1>4, <1>7, SMT
  <2>2. HeadOf(f) = 0 /\ 0 \in SectorOf(0)
    BY <2>1, RingArithmetic, SectorGeometry DEF HeadOf
  <2>3. RingShape(f)
    BY <2>1, <2>2 DEF RingShape, SortedFrom, FirstLap
  <2> QED BY <2>3, <1>4, <1>6
<1>8. CASE PriorRecords > 0
  <2> DEFINE n == PriorRecords - 1
             h == Succ(n)
  <2>1. n \in Slots /\ n \in ValidIn(f) /\ h \in Slots
    <3>1. n \in Slots
      BY <1>1, <1>8, SMT DEF Slots
    <3> QED BY <3>1, <1>1, <1>4, <1>8, RingArithmetic, SMT
  <2>2. \A s \in ValidIn(f) : s \in Nat /\ s <= n /\ n \in Nat
    BY <1>1, <1>2, <1>5, <1>8, SMT
  <2>3. SortedFrom(f, h)
    <3> SUFFICES ASSUME NEW s \in ValidIn(f), NEW t \in ValidIn(f), Offset(h, s) < Offset(h, t)
                 PROVE  f[s].order < f[t].order
      BY DEF SortedFrom
    <3>1. s < t
      <4>1. s \in Nat /\ t \in Nat /\ n \in Nat /\ s <= n /\ t <= n /\ n < SlotCount
        BY <2>1, <2>2, <1>2
      <4>2. h = 0 \/ h = n + 1
        BY DEF Succ
      <4> QED BY <4>1, <4>2, <1>1, SMT DEF Offset
    <3> QED BY <3>1, <1>5, <2>2, SMT
  <2>4. HeadOf(f) = h
    <3>1. \A t \in ValidIn(f) : f[t].order <= f[n].order
      BY <1>5, <2>1, <2>2, SMT
    <3> QED BY <3>1, <2>1, <2>3, <1>6, NewestUnique, Zenon
  <2>5. CASE 0 \in SectorOf(h) /\ h # 0
    <3>1. h = n + 1
      BY <2>5 DEF Succ
    <3>2. \A s \in ValidIn(f) : s \in SectorOf(h) /\ s < h
      <4> SUFFICES ASSUME NEW s \in ValidIn(f) PROVE s \in SectorOf(h) /\ s < h
        OBVIOUS
      <4>1. s \in Slots /\ s < h /\ 0 <= s /\ s <= h
        BY <1>5, <2>2, <3>1, SMT
      <4> QED BY <4>1, <2>1, <2>5, SectorGeometry, Zenon
    <3>3. RingShape(f)
      BY <2>3, <2>4, <2>5, <3>2 DEF RingShape, FirstLap
    <3> QED BY <3>3, <1>4, <1>6
  <2>6. CASE h = 0
    <3>1. n = SlotCount - 1
      BY <2>6, <2>2, <2>1, SMT DEF Succ
    <3>2. n \notin SectorOf(h) /\ h \in SectorOf(h)
      BY <3>1, <2>1, <2>6, SectorGeometry
    <3>3. SealedBefore(f, h)
      BY <3>2, <2>1 DEF SealedBefore
    <3>4. RingShape(f)
      BY <3>3, <2>3, <2>4 DEF RingShape
    <3> QED BY <3>4, <1>4, <1>6
  <2>7. CASE 0 \notin SectorOf(h)
    <3>1. h \in SectorOf(h) /\ SectorOf(h) \subseteq Slots
      BY <2>1, SectorGeometry
    <3>2. SectorOf(h) \in SUBSET Nat
      BY <3>1, <1>2
    <3>3. PICK b \in SectorOf(h) : \A u \in SectorOf(h) : b <= u
      BY <3>1, <3>2, MinNat
    <3>4. b \in Nat /\ b # 0 /\ b <= h /\ b < SlotCount /\ h \in Nat
      BY <2>7, <3>1, <3>2, <3>3, <1>2
    <3>5. h = n + 1
      BY <3>4, <2>2, <2>1, SMT DEF Succ
    <3>6. b - 1 \in ValidIn(f)
      BY <3>4, <3>5, <1>1, <1>4, SMT DEF Slots
    <3>7. b - 1 \notin SectorOf(h)
      BY <3>3, <3>4, SMT
    <3>8. Succ(b - 1) = b
      BY <3>4, SMT DEF Succ
    <3>9. SealedBefore(f, h)
      BY <3>6, <3>7, <3>8 DEF SealedBefore
    <3>10. RingShape(f)
      BY <3>9, <2>3, <2>4 DEF RingShape
    <3> QED BY <3>10, <1>4, <1>6
  <2> QED BY <2>5, <2>6, <2>7
<1> QED BY <1>1, <1>4, <1>6, <1>7, <1>8, SMT

LEMMA InitInv == Init => IInv
<1> SUFFICES ASSUME Init PROVE IInv
    OBVIOUS
<1>1. PagesBelow(flash, PriorRecords) /\ RingShape(flash) /\ PendingIn(flash) = {}
    BY InitialShape DEF Init
<1>2. TypeOK
  <2>1. 0 \in Slots /\ 0 \in 0..MaxRecords /\ 0 \in 0..MaxCrashes
    BY RingArithmetic, BoundAssumption, SMT
  <2>2. flash \in [Slots -> Page]
    BY <1>1 DEF PagesBelow
  <2>3. /\ saved = 0 /\ erased = 0 /\ ready = FALSE /\ head = 0 /\ tail = 0
        /\ count = 0 /\ dropped = 0 /\ nextOrder = 1 /\ sinceCheckpoint = 0
        /\ pc = "idle" /\ popped = {} /\ arrivals = 0 /\ crashes = 0
    BY DEF Init
  <2>4. 0 \in Nat /\ 1 \in Nat \ {0}
    BY SMT
  <2> QED BY <2>1, <2>2, <2>3, <2>4, Zenon DEF TypeOK
<1>3. OrdersBounded
  <2>1. PriorRecords \in Nat /\ \A s \in Valid : flash[s].order <= PriorRecords
    BY <1>1 DEF PagesBelow, Valid
  <2>2. NewestOffered = 0 /\ ~ready
    BY DEF Init, NewestOffered, AppendInProgress
  <2> QED BY <2>1, <2>2, SMT DEF OrdersBounded
<1>4. HeadPage /\ CountMatches
    BY DEF Init, HeadPage, HeadIsBlank, CountMatches
<1> QED BY <1>1, <1>2, <1>3, <1>4 DEF Init, IInv, RingInv, AppendInProgress

\* What the invariant says of the pages and of the ids handed out.
LEMMA PagesInv ==
    ASSUME RingInv
    PROVE  /\ NewestOffered \in Nat /\ arrivals \in Nat /\ PriorRecords \in Nat
           /\ PagesBelow(flash, PriorRecords + NewestOffered)
<1>1. arrivals \in Nat /\ PriorRecords \in Nat
    BY BoundAssumption, PriorAssumption, GeometryAssumption, SMT DEF RingInv, TypeOK
<1>2. NewestOffered \in Nat
    BY <1>1, SMT DEF RingInv, NewestOffered
<1>3. flash \in [Slots -> Page]
    BY DEF RingInv, TypeOK
<1>4. \A s \in ValidIn(flash) : flash[s].order <= PriorRecords + NewestOffered
    BY DEF RingInv, OrdersBounded, Valid
<1>5. PriorRecords + NewestOffered \in Nat
    BY <1>1, <1>2, SMT
<1> QED BY <1>1, <1>2, <1>3, <1>4, <1>5 DEF PagesBelow

\* What a scan leaves in QueueState.
LEMMA Rebuilt ==
    ASSUME NEW f, NEW B, PagesBelow(f, B), RebuildFrom(f)
    PROVE  /\ head' = HeadOf(f) /\ head' \in Slots /\ tail' \in Slots
           /\ count' = Cardinality(PendingIn(f)) /\ count' \in Nat
           /\ nextOrder' \in Nat \ {0} /\ nextOrder' <= B + 1
           /\ \A s \in ValidIn(f) : f[s].order < nextOrder'
BY ScanInRing, ScanSets, Zenon DEF RebuildFrom

\* storage_init and a peek that scans: the pages stay, the RAM is rebuilt.
LEMMA ScanStep ==
    ASSUME RingInv, StorageInit \/ PeekRebuilds
    PROVE  IInv'
<1>1. /\ pc = "idle" /\ pc' = "idle" /\ ready' = TRUE
      /\ flash' = flash /\ saved' = saved /\ erased' = erased
      /\ sinceCheckpoint' = sinceCheckpoint /\ arrivals' = arrivals
      /\ popped' = popped /\ crashes' = crashes
      /\ dropped' = saved \/ dropped' = dropped
      /\ RebuildFrom(flash)
    BY DEF RingInv, StorageInit, PeekRebuilds
<1> DEFINE B == PriorRecords + NewestOffered
<1>2. /\ PagesBelow(flash, B) /\ NewestOffered \in Nat /\ PriorRecords \in Nat
    BY PagesInv
<1>3. /\ head' = HeadOf(flash) /\ head' \in Slots /\ tail' \in Slots
      /\ count' = Cardinality(PendingIn(flash)) /\ count' \in Nat
      /\ nextOrder' \in Nat \ {0} /\ nextOrder' <= B + 1
      /\ \A s \in ValidIn(flash) : flash[s].order < nextOrder'
    BY <1>1, <1>2, Rebuilt
<1>4. NewestOffered' = NewestOffered /\ ~AppendInProgress'
    BY <1>1 DEF NewestOffered, AppendInProgress
<1>5. TypeOK'
    BY <1>1, <1>3, Zenon DEF RingInv, TypeOK
<1>6. OrdersBounded'
    BY <1>1, <1>2, <1>3, <1>4, SMT DEF RingInv, OrdersBounded, FreshOrder, Valid
<1>7. HeadPage' /\ CountMatches'
    BY <1>1, <1>3 DEF HeadPage, HeadIsBlank, CountMatches, Pending
<1> QED BY <1>1, <1>4, <1>5, <1>6, <1>7 DEF IInv, RingInv

\* storage_append up to its first flash command.
LEMMA StartStep ==
    ASSUME RingInv, AppendToBlankPage \/ AppendToUsedPage
    PROVE  RingInv' /\ (HeadPage => HeadPage') /\ (CountMatches => CountMatches')
<1>1. /\ pc = "idle" /\ ready /\ ready' = ready /\ pc' \in {"body", "erase"}
      /\ arrivals < MaxRecords /\ arrivals' = arrivals + 1
      /\ flash' = flash /\ saved' = saved /\ erased' = erased
      /\ head' = head /\ tail' = tail /\ nextOrder' = nextOrder
      /\ sinceCheckpoint' = sinceCheckpoint /\ popped' = popped /\ crashes' = crashes
    BY DEF AppendToBlankPage, AppendToUsedPage, StartAppend, ram
<1>2. /\ pc' = "body" => /\ flash[head].st = "blank"
                         /\ count' = count /\ dropped' = dropped
    BY DEF AppendToBlankPage, AppendToUsedPage, ram
<1>3. arrivals \in Nat /\ arrivals' \in 0..MaxRecords /\ arrivals' > 0
    BY <1>1, BoundAssumption, SMT DEF RingInv, TypeOK
<1>4. NewestOffered' = NewestOffered
    BY <1>1, <1>3, SMT DEF NewestOffered, AppendInProgress
<1>5. count' \in Nat /\ dropped' \in Nat
  <2>1. count \in Nat /\ dropped \in Nat
    BY DEF RingInv, TypeOK
  <2>2. CASE AppendToBlankPage
    BY <2>1, <2>2 DEF AppendToBlankPage, ram
  <2>3. CASE AppendToUsedPage
    <3> DEFINE lost == Cardinality(Pending \cap SectorOf(head))
    <3>1. lost \in Nat
      <4>1. IsFiniteSet(Pending)
        BY ScanSets DEF Pending
      <4>2. IsFiniteSet(Pending \cap SectorOf(head))
        BY <4>1, FS_Subset, Zenon
      <4> QED BY <4>2, FS_CardinalityType
    <3>2. /\ count' = IF count < lost THEN 0 ELSE count - lost
          /\ dropped' = dropped + lost
      BY <2>3 DEF AppendToUsedPage
    <3> HIDE DEF lost
    <3> QED BY <2>1, <3>1, <3>2, SMT
  <2> QED BY <2>2, <2>3
<1>6. TypeOK'
    BY <1>1, <1>3, <1>5, Zenon DEF RingInv, TypeOK
<1>7. OrdersBounded'
    BY <1>1, <1>4, SMT DEF RingInv, OrdersBounded, FreshOrder, Valid
<1>8. (HeadPage => HeadPage') /\ (CountMatches => CountMatches')
    BY <1>1, <1>2 DEF RingInv, HeadPage, HeadIsBlank, CountMatches, Pending
<1> QED BY <1>1, <1>3, <1>6, <1>7, <1>8 DEF RingInv

\* What an erase leaves, complete or not: outside the sector of h the pages
\* are untouched, inside it no valid record is there that was not before.
LossFrom(f, g, h) ==
    /\ g \in [Slots -> Page]
    /\ \A s \in Slots \ SectorOf(h) : g[s] = f[s]
    /\ \A s \in SectorOf(h) : g[s] = f[s] \/ g[s].st \in {"blank", "garbage"}

LEMMA Loss ==
    ASSUME NEW f, NEW g, NEW B, PagesBelow(f, B), RingShape(f), LossFrom(f, g, HeadOf(f))
    PROVE  PagesBelow(g, B) /\ RingShape(g) /\ HeadOf(g) \in SectorOf(HeadOf(f))
<1>1. \A s \in ValidIn(g) : s \in ValidIn(f) /\ g[s].order = f[s].order
    BY DEF LossFrom, ValidIn
<1>2. ValidIn(f) \ SectorOf(HeadOf(f)) \subseteq ValidIn(g)
    BY DEF LossFrom, ValidIn
<1>3. PagesBelow(g, B)
    BY <1>1 DEF PagesBelow, LossFrom
<1> QED BY <1>1, <1>2, <1>3, ShapeAfterLoss

LEMMA BlankPages == Blank \in Page /\ Garbage \in Page
BY BoundAssumption, SMT DEF Blank, Garbage, Page, PageStates

\* A reclaim, told by pages f that differ from the flash in the sector it
\* erases at most: the flash itself, or what the RAM knows of it.
LEMMA EraseStep ==
    ASSUME TypeOK, ready, arrivals > 0, EraseSector,
           NEW f, PagesBelow(f, PriorRecords + NewestOffered), RingShape(f), head = HeadOf(f),
           \A s \in Slots \ SectorOf(head) : f[s] = flash[s]
    PROVE  IInv' /\ LossFrom(f, flash', HeadOf(f))
<1> DEFINE B == PriorRecords + NewestOffered
<1>1. /\ pc = "erase" /\ pc' = "body" /\ ready' = ready
      /\ flash' = [s \in Slots |-> IF s \in SectorOf(head) THEN Blank ELSE flash[s]]
      /\ RebuildFrom(flash')
      /\ erased' = erased + Cardinality(Pending \cap SectorOf(head))
      /\ saved' = saved /\ dropped' = dropped /\ sinceCheckpoint' = sinceCheckpoint
      /\ arrivals' = arrivals /\ popped' = popped /\ crashes' = crashes
    BY DEF EraseSector
<1>2. PagesBelow(f, B) /\ NewestOffered \in Nat /\ PriorRecords \in Nat /\ f \in [Slots -> Page]
    BY <1>1, PriorAssumption, GeometryAssumption DEF TypeOK, NewestOffered, AppendInProgress, PagesBelow
<1>3. head \in Slots /\ SectorOf(head) \subseteq Slots
    BY SectorGeometry DEF TypeOK
<1>4. LossFrom(f, flash', HeadOf(f))
  <2>1. flash \in [Slots -> Page]
    BY DEF TypeOK
  <2>2. flash' \in [Slots -> Page]
    BY <1>1, <2>1, BlankPages
  <2>3. \A s \in Slots \ SectorOf(head) : flash'[s] = f[s]
    BY <1>1
  <2>4. \A s \in SectorOf(head) : flash'[s].st = "blank"
    BY <1>1, <1>3 DEF Blank
  <2> QED BY <2>2, <2>3, <2>4, <1>3 DEF LossFrom
<1>5. /\ PagesBelow(flash', B) /\ RingShape(flash')
      /\ HeadOf(flash') \in SectorOf(head)
    BY <1>2, <1>3, <1>4, Loss
<1>6. /\ head' = HeadOf(flash') /\ head' \in Slots /\ tail' \in Slots
      /\ count' = Cardinality(PendingIn(flash')) /\ count' \in Nat
      /\ nextOrder' \in Nat \ {0} /\ nextOrder' <= B + 1
      /\ \A s \in ValidIn(flash') : flash'[s].order < nextOrder'
    BY <1>1, <1>5, Rebuilt
<1>7. flash'[head'].st = "blank"
    BY <1>1, <1>3, <1>5, <1>6 DEF Blank
<1>8. NewestOffered' = NewestOffered /\ (AppendInProgress' <=> AppendInProgress)
    BY <1>1 DEF NewestOffered, AppendInProgress
<1>9. erased' \in Nat
  <2>1. IsFiniteSet(Pending)
    BY ScanSets DEF Pending
  <2>2. IsFiniteSet(Pending \cap SectorOf(head))
    BY <2>1, FS_Subset, Zenon
  <2>3. Cardinality(Pending \cap SectorOf(head)) \in Nat
    BY <2>2, FS_CardinalityType
  <2> QED BY <1>1, <2>3, SMT DEF TypeOK
<1>10. TypeOK'
  <2>1. flash' \in [Slots -> Page]
    BY <1>4 DEF LossFrom
  <2> QED BY <1>1, <1>6, <1>9, <2>1, Zenon DEF TypeOK
<1>11. OrdersBounded'
  <2>1. \A s \in Valid' : flash'[s].order <= B
    BY <1>5 DEF PagesBelow, Valid
  <2>2. FreshOrder' = nextOrder'
    BY <1>1 DEF FreshOrder
  <2> QED BY <1>6, <1>8, <2>1, <2>2 DEF OrdersBounded, Valid
<1>12. HeadPage' /\ CountMatches'
    BY <1>1, <1>6, <1>7 DEF HeadPage, HeadIsBlank, CountMatches, Pending
<1> QED BY <1>1, <1>4, <1>5, <1>8, <1>10, <1>11, <1>12 DEF IInv, RingInv

\* A body, whole or torn, is programmed into the head's page.
LEMMA BodyPages ==
    ASSUME RingInv, HeadIsBlank, pc = "body",
           NEW page \in Page, page.st \in {"body", "garbage"},
           flash' = [flash EXCEPT ![head] = page]
    PROVE  /\ PagesBelow(flash', PriorRecords + NewestOffered) /\ RingShape(flash')
           /\ ValidIn(flash') = ValidIn(flash) /\ PendingIn(flash') = PendingIn(flash)
           /\ \A s \in Slots : s # head => flash'[s] = flash[s]
           /\ HeadOf(flash') = HeadOf(flash) /\ flash'[head] = page
<1> DEFINE B == PriorRecords + NewestOffered
<1>1. /\ PagesBelow(flash, B) /\ RingShape(flash) /\ flash \in [Slots -> Page] /\ head \in Slots
      /\ flash[head].st = "blank"
    BY PagesInv DEF RingInv, TypeOK, HeadIsBlank
<1>2. /\ flash' \in [Slots -> Page] /\ flash'[head] = page
      /\ \A s \in Slots : s # head => flash'[s] = flash[s]
    BY <1>1
<1>3. /\ ValidIn(flash') = ValidIn(flash) /\ PendingIn(flash') = PendingIn(flash)
      /\ \A s \in ValidIn(flash) : flash'[s].order = flash[s].order
    BY <1>1, <1>2 DEF ValidIn, PendingIn
<1>4. PagesBelow(flash', B)
    BY <1>1, <1>2, <1>3 DEF PagesBelow
<1> QED BY <1>1, <1>2, <1>3, <1>4, ShapeUnchanged

LEMMA BodyStep ==
    ASSUME RingInv, HeadPage, ProgramBody
    PROVE  RingInv' /\ HeadPage' /\ (CountMatches => CountMatches')
<1> DEFINE page == [st |-> "body", order |-> nextOrder, rec |-> arrivals]
<1>1. /\ pc = "body" /\ pc' = "commit" /\ ready /\ ready' = ready
      /\ nextOrder' = nextOrder + 1
      /\ saved' = saved /\ erased' = erased /\ head' = head /\ tail' = tail
      /\ count' = count /\ dropped' = dropped /\ sinceCheckpoint' = sinceCheckpoint
      /\ arrivals' = arrivals /\ popped' = popped /\ crashes' = crashes
    BY DEF RingInv, ProgramBody
<1>2. head = HeadOf(flash) /\ HeadIsBlank /\ nextOrder \in Nat \ {0}
    BY <1>1 DEF RingInv, TypeOK, HeadPage
<1>3. flash' = [flash EXCEPT ![head] = page]
    BY <1>1, <1>2 DEF ProgramBody, HeadIsBlank
<1>4. page \in Page
    BY <1>2, SMT DEF RingInv, TypeOK, Page, PageStates
<1>5. /\ PagesBelow(flash', PriorRecords + NewestOffered) /\ RingShape(flash')
      /\ ValidIn(flash') = ValidIn(flash) /\ PendingIn(flash') = PendingIn(flash)
      /\ \A s \in Slots : s # head => flash'[s] = flash[s]
      /\ HeadOf(flash') = head /\ flash'[head] = page
    BY <1>1, <1>2, <1>3, <1>4, BodyPages
<1>6. \A s \in ValidIn(flash) : flash'[s].order = flash[s].order
    BY <1>1, <1>2, <1>5 DEF HeadIsBlank, ValidIn
<1>7. nextOrder' \in Nat \ {0} /\ FreshOrder' = nextOrder /\ FreshOrder = nextOrder
    BY <1>1, <1>2, SMT DEF FreshOrder
<1>8. NewestOffered' = NewestOffered /\ (AppendInProgress' <=> AppendInProgress)
    BY <1>1 DEF NewestOffered, AppendInProgress
<1>9. TypeOK'
    BY <1>1, <1>5, <1>7, Zenon DEF RingInv, TypeOK, PagesBelow
<1>10. OrdersBounded'
    BY <1>1, <1>5, <1>6, <1>7, <1>8 DEF RingInv, OrdersBounded, Valid
<1>11. HeadPage' /\ (CountMatches => CountMatches')
    BY <1>1, <1>5, <1>7 DEF RingInv, HeadPage, HeadIsBlank, CountMatches, Pending
<1> QED BY <1>1, <1>5, <1>8, <1>9, <1>10, <1>11 DEF RingInv

\* The commit byte is written: a record becomes valid at the head.
Committed == [flash EXCEPT ![head].st = IF @ = "body" THEN "pending" ELSE @]

LEMMA CommitPages ==
    ASSUME RingInv, HeadPage, pc = "commit",
           flash' = Committed
    PROVE  /\ head \in Slots /\ head \notin ValidIn(flash) /\ flash[head].st = "body"
           /\ ValidIn(flash') = ValidIn(flash) \cup {head}
           /\ PendingIn(flash') = PendingIn(flash) \cup {head}
           /\ \A s \in Slots : s # head => flash'[s] = flash[s]
           /\ flash'[head].st = "pending" /\ flash'[head].order = nextOrder - 1
           /\ \A s \in ValidIn(flash) : flash'[s].order = flash[s].order /\ flash[s].order < nextOrder - 1
           /\ \A s \in ValidIn(flash') : flash'[s].order < nextOrder
           /\ nextOrder <= PriorRecords + arrivals + 1
           /\ PagesBelow(flash', PriorRecords + arrivals)
           /\ RingShape(flash') /\ HeadOf(flash') = Succ(head)
           /\ Cardinality(PendingIn(flash')) = Cardinality(PendingIn(flash)) + 1
<1> DEFINE B == PriorRecords + arrivals
<1>1. ready /\ arrivals > 0
    BY DEF RingInv, AppendInProgress
<1>2. /\ flash \in [Slots -> Page] /\ head \in Slots /\ head = HeadOf(flash)
      /\ flash[head].st = "body" /\ flash[head].order = nextOrder - 1
      /\ nextOrder \in Nat \ {0} /\ arrivals \in Nat
    BY <1>1, PagesInv DEF RingInv, TypeOK, HeadPage, FreshOrder
<1>3. NewestOffered = arrivals - 1 /\ PriorRecords \in Nat /\ B \in Nat
    BY <1>1, <1>2, PagesInv, SMT DEF NewestOffered, AppendInProgress
<1>4. /\ nextOrder - 1 <= PriorRecords + (arrivals - 1) + 1
      /\ \A s \in ValidIn(flash) : /\ flash[s].order <= PriorRecords + (arrivals - 1)
                                   /\ flash[s].order < nextOrder - 1
                                   /\ flash[s].order \in Nat
    BY <1>1, <1>2, <1>3, PageFields, ScanSets DEF RingInv, OrdersBounded, FreshOrder, Valid
<1>5. /\ flash'[head] = [flash[head] EXCEPT !.st = "pending"]
      /\ \A s \in Slots : s # head => flash'[s] = flash[s]
    BY <1>2 DEF Committed
<1>6. /\ flash'[head].st = "pending" /\ flash'[head].order = nextOrder - 1
      /\ flash'[head] \in Page
  <2>1. flash[head] \in Page
    BY <1>2
  <2> QED BY <2>1, <1>2, <1>5, SMT DEF Page, PageStates
<1>7. flash' \in [Slots -> Page]
    BY <1>2, <1>5, <1>6 DEF Committed
<1>8. /\ ValidIn(flash') = ValidIn(flash) \cup {head} /\ head \notin ValidIn(flash)
      /\ PendingIn(flash') = PendingIn(flash) \cup {head} /\ head \notin PendingIn(flash)
    BY <1>2, <1>5, <1>6 DEF ValidIn, PendingIn
<1>9. \A s \in ValidIn(flash) : flash'[s].order = flash[s].order
    BY <1>5, <1>8, ScanSets
<1>10. PagesBelow(flash, B)
  <2>1. \A s \in ValidIn(flash) : flash[s].order <= B
    BY <1>2, <1>3, <1>4, SMT
  <2> QED BY <2>1, <1>2, <1>3 DEF PagesBelow
<1>11. \A s \in ValidIn(flash') : flash'[s].order <= B /\ flash'[s].order < nextOrder
  <2>1. nextOrder - 1 <= B /\ nextOrder - 1 < nextOrder
    BY <1>2, <1>3, <1>4, SMT
  <2>2. \A s \in ValidIn(flash) : flash[s].order <= B /\ flash[s].order < nextOrder
    BY <1>2, <1>3, <1>4, SMT
  <2> QED BY <2>1, <2>2, <1>6, <1>8, <1>9
<1>12. PagesBelow(flash', B)
    BY <1>3, <1>7, <1>11 DEF PagesBelow
<1>13. RingShape(flash') /\ HeadOf(flash') = Succ(head)
  <2>1. \A s \in ValidIn(flash) : flash'[s].order = flash[s].order /\ flash[s].order < flash'[head].order
    BY <1>4, <1>6, <1>9
  <2>2. RingShape(flash)
    BY DEF RingInv
  <2> QED BY <1>2, <1>8, <1>10, <1>12, <2>1, <2>2, ShapeAfterAppend
<1>14. Cardinality(PendingIn(flash')) = Cardinality(PendingIn(flash)) + 1
    BY <1>8, ScanSets, FS_AddElement
<1>15. nextOrder <= PriorRecords + arrivals + 1
    BY <1>2, <1>3, <1>4, SMT
<1> QED BY <1>2, <1>4, <1>5, <1>6, <1>8, <1>9, <1>11, <1>12, <1>13, <1>14, <1>15

LEMMA CommitStep ==
    ASSUME RingInv, HeadPage, ProgramCommit
    PROVE  RingInv' /\ HeadPage' /\ (CountMatches => CountMatches')
<1>1. /\ pc = "commit" /\ pc' \in {"checkpoint", "idle"} /\ ready /\ ready' = ready
      /\ flash' = Committed
      /\ head' = Succ(head) /\ count' = count + 1
      /\ sinceCheckpoint' = sinceCheckpoint + 1
      /\ saved' = saved /\ erased' = erased /\ tail' = tail /\ dropped' = dropped
      /\ nextOrder' = nextOrder
      /\ arrivals' = arrivals /\ popped' = popped /\ crashes' = crashes
    BY DEF RingInv, ProgramCommit, Committed
<1>2. /\ head \in Slots
      /\ \A s \in ValidIn(flash') : flash'[s].order < nextOrder
      /\ nextOrder <= PriorRecords + arrivals + 1
      /\ PagesBelow(flash', PriorRecords + arrivals)
      /\ RingShape(flash') /\ HeadOf(flash') = Succ(head)
      /\ Cardinality(PendingIn(flash')) = Cardinality(PendingIn(flash)) + 1
    BY <1>1, CommitPages
<1>3. NewestOffered' = arrivals /\ ~AppendInProgress' /\ FreshOrder' = nextOrder
    BY <1>1 DEF NewestOffered, AppendInProgress, FreshOrder
<1>4. TypeOK'
  <2>1. Succ(head) \in Slots /\ sinceCheckpoint' \in Nat /\ count' \in Nat
    BY <1>1, <1>2, RingArithmetic, SMT DEF RingInv, TypeOK
  <2> QED BY <1>1, <1>2, <2>1, Zenon DEF RingInv, TypeOK, PagesBelow
<1>5. OrdersBounded'
    BY <1>1, <1>2, <1>3 DEF OrdersBounded, Valid, PagesBelow
<1>6. HeadPage' /\ (CountMatches => CountMatches')
    BY <1>1, <1>2 DEF HeadPage, HeadIsBlank, CountMatches, Pending
<1> QED BY <1>1, <1>2, <1>3, <1>4, <1>5, <1>6 DEF RingInv

\* checkpointLocked, and the operations that only ask for it.
LEMMA CheckpointStep ==
    ASSUME RingInv, Checkpoint \/ Flush
    PROVE  RingInv' /\ (HeadPage => HeadPage') /\ (CountMatches => CountMatches')
<1>1. /\ pc \in {"checkpoint", "idle"} /\ pc' \in {"checkpoint", "idle"}
      /\ ready /\ ready' = ready
      /\ flash' = flash /\ head' = head /\ tail' = tail /\ count' = count
      /\ dropped' = dropped /\ nextOrder' = nextOrder /\ erased' = erased
      /\ arrivals' = arrivals /\ popped' = popped /\ crashes' = crashes
      /\ saved' \in {saved, dropped} /\ sinceCheckpoint' \in {0, sinceCheckpoint}
    BY DEF RingInv, Checkpoint, Flush, ram
<1>2. ~AppendInProgress /\ ~AppendInProgress' /\ NewestOffered' = NewestOffered
    BY <1>1 DEF NewestOffered, AppendInProgress
<1>3. TypeOK'
  <2>1. saved' \in Nat /\ sinceCheckpoint' \in Nat
    BY <1>1, SMT DEF RingInv, TypeOK
  <2> QED BY <1>1, <2>1, Zenon DEF RingInv, TypeOK
<1>4. OrdersBounded'
    BY <1>1, <1>2 DEF RingInv, OrdersBounded, FreshOrder, Valid
<1>5. (HeadPage => HeadPage') /\ (CountMatches => CountMatches')
    BY <1>1 DEF RingInv, HeadPage, HeadIsBlank, CountMatches, Pending
<1> QED BY <1>1, <1>2, <1>3, <1>4, <1>5 DEF RingInv

\* The record at the tail is marked delivered.
Delivered == [flash EXCEPT ![tail].st = "delivered"]

LEMMA PopPages ==
    ASSUME RingInv, TailPending, flash' = Delivered
    PROVE  /\ ValidIn(flash') = ValidIn(flash)
           /\ tail \in Slots /\ tail \in PendingIn(flash)
           /\ PendingIn(flash') = PendingIn(flash) \ {tail}
           /\ flash'[tail].st = "delivered"
           /\ \A s \in Slots : s # tail => flash'[s] = flash[s]
           /\ \A s \in ValidIn(flash) : flash'[s].order = flash[s].order
           /\ PagesBelow(flash', PriorRecords + NewestOffered)
           /\ RingShape(flash') /\ HeadOf(flash') = HeadOf(flash)
           /\ Cardinality(PendingIn(flash')) = Cardinality(PendingIn(flash)) - 1
           /\ flash[tail].rec \in 0..MaxRecords
<1> DEFINE B == PriorRecords + NewestOffered
<1>1. PagesBelow(flash, B)
    BY PagesInv
<1>2. flash \in [Slots -> Page] /\ tail \in Slots /\ flash[tail] \in Page /\ flash[tail].st = "pending"
    BY DEF RingInv, TypeOK, TailPending
<1>3. /\ flash'[tail] = [flash[tail] EXCEPT !.st = "delivered"]
      /\ \A s \in Slots : s # tail => flash'[s] = flash[s]
    BY <1>2 DEF Delivered
<1>4. /\ flash'[tail].st = "delivered" /\ flash'[tail].order = flash[tail].order
      /\ flash'[tail] \in Page /\ flash[tail].rec \in 0..MaxRecords
    BY <1>2, <1>3, SMT DEF Page, PageStates
<1>5. flash' \in [Slots -> Page]
    BY <1>2, <1>3, <1>4 DEF Delivered
<1>6. /\ ValidIn(flash') = ValidIn(flash)
      /\ tail \in PendingIn(flash)
      /\ PendingIn(flash') = PendingIn(flash) \ {tail}
    BY <1>2, <1>3, <1>4 DEF ValidIn, PendingIn
<1>7. \A s \in ValidIn(flash) : flash'[s].order = flash[s].order
    BY <1>3, <1>4, ScanSets
<1>8. PagesBelow(flash', B)
    BY <1>1, <1>5, <1>6, <1>7 DEF PagesBelow
<1>9. RingShape(flash') /\ HeadOf(flash') = HeadOf(flash)
    BY <1>1, <1>6, <1>7, <1>8, ShapeUnchanged DEF RingInv
<1>10. Cardinality(PendingIn(flash')) = Cardinality(PendingIn(flash)) - 1
    BY <1>6, ScanSets, FS_RemoveElement
<1> QED BY <1>2, <1>3, <1>4, <1>6, <1>7, <1>8, <1>9, <1>10

LEMMA PopStep ==
    ASSUME RingInv, Pop, count > 0
    PROVE  RingInv' /\ (HeadPage => HeadPage') /\ (CountMatches => CountMatches')
<1>1. /\ pc = "idle" /\ pc' \in {"checkpoint", "idle"} /\ ready /\ ready' = ready
      /\ TailPending
      /\ flash' = Delivered
      /\ count' = count - 1
      /\ tail' = IF count' = 0 THEN head
                 ELSE IF PendingIn(flash') = {} THEN head
                 ELSE NextPending(flash', tail)
      /\ sinceCheckpoint' = sinceCheckpoint + 1
      /\ popped' = popped \cup {flash[tail].rec}
      /\ saved' = saved /\ erased' = erased /\ head' = head /\ dropped' = dropped
      /\ nextOrder' = nextOrder /\ arrivals' = arrivals /\ crashes' = crashes
    BY DEF Pop, Delivered
<1>2. /\ ValidIn(flash') = ValidIn(flash)
      /\ \A s \in ValidIn(flash) : flash'[s].order = flash[s].order
      /\ PagesBelow(flash', PriorRecords + NewestOffered)
      /\ RingShape(flash') /\ HeadOf(flash') = HeadOf(flash)
      /\ Cardinality(PendingIn(flash')) = Cardinality(PendingIn(flash)) - 1
      /\ flash[tail].rec \in 0..MaxRecords
    BY <1>1, PopPages
<1>3. head \in Slots /\ tail \in Slots /\ count' \in Nat /\ sinceCheckpoint' \in Nat
    BY <1>1 DEF RingInv, TypeOK
<1>4. tail' \in Slots
  <2>1. PendingIn(flash') # {} => NextPending(flash', tail) \in Slots
    BY <1>3, NextPendingExists, ScanSets
  <2> QED BY <1>1, <1>3, <2>1
<1>5. ~AppendInProgress /\ ~AppendInProgress' /\ NewestOffered' = NewestOffered
    BY <1>1 DEF NewestOffered, AppendInProgress
<1>6. TypeOK'
  <2>1. popped' \subseteq 0..MaxRecords
    BY <1>1, <1>2 DEF RingInv, TypeOK
  <2> QED BY <1>1, <1>2, <1>3, <1>4, <2>1, Zenon DEF RingInv, TypeOK, PagesBelow
<1>7. OrdersBounded'
    BY <1>1, <1>2, <1>5 DEF RingInv, OrdersBounded, FreshOrder, Valid
<1>8. (HeadPage => HeadPage') /\ (CountMatches => CountMatches')
    BY <1>1, <1>2 DEF HeadPage, HeadIsBlank, CountMatches, Pending
<1> QED BY <1>1, <1>2, <1>5, <1>6, <1>7, <1>8 DEF RingInv

\* What an erase that is interrupted may leave.
LEMMA EraseCut ==
    ASSUME flash \in [Slots -> Page], head \in Slots, pc = "erase", flash' \in Interrupted
    PROVE  /\ flash' \in [Slots -> Page] /\ SectorOf(head) \subseteq Slots
           /\ \A s \in Slots \ SectorOf(head) : flash'[s] = flash[s]
           /\ \A s \in SectorOf(head) : flash'[s] = flash[s] \/ flash'[s].st \in {"blank", "garbage"}
<1>1. PICK left \in [SectorOf(head) -> {"kept", "blank", "garbage"}] :
         flash' = [s \in Slots |-> IF s \in SectorOf(head)
                                   THEN LeftOf(flash[s], left[s]) ELSE flash[s]]
    BY DEF Interrupted
<1>2. SectorOf(head) \subseteq Slots
    BY SectorGeometry
<1>3. \A s \in SectorOf(head) : flash'[s] \in {flash[s], Blank, Garbage}
    BY <1>1, <1>2 DEF LeftOf
<1>4. \A s \in Slots : flash'[s] \in Page
    BY <1>1, <1>2, <1>3, BlankPages
<1> QED BY <1>1, <1>2, <1>3, <1>4 DEF Blank, Garbage

LEMMA EraseCutLoss ==
    ASSUME RingInv, HeadPage, pc = "erase", flash' \in Interrupted
    PROVE  LossFrom(flash, flash', HeadOf(flash))
<1>1. flash \in [Slots -> Page] /\ head \in Slots /\ head = HeadOf(flash)
    BY DEF RingInv, TypeOK, HeadPage
<1> QED BY <1>1, EraseCut DEF LossFrom

LEMMA PowerLossStep ==
    ASSUME RingInv, HeadIsBlank, PowerLoss, pc = "erase" => RingShape(flash')
    PROVE  IInv'
<1> DEFINE B == PriorRecords + NewestOffered
<1>1. /\ pc' = "idle" /\ ready' = FALSE /\ flash' \in Interrupted
      /\ erased' = erased + Cardinality(Pending \ PendingIn(flash'))
      /\ head' = 0 /\ tail' = 0 /\ count' = 0 /\ dropped' = 0
      /\ nextOrder' = 1 /\ sinceCheckpoint' = 0
      /\ crashes < MaxCrashes /\ crashes' = crashes + 1
      /\ saved' = saved /\ arrivals' = arrivals /\ popped' = popped
    BY DEF PowerLoss
<1>2. /\ PagesBelow(flash, B) /\ NewestOffered \in Nat /\ PriorRecords \in Nat
      /\ arrivals \in Nat /\ flash \in [Slots -> Page] /\ head \in Slots
    BY PagesInv DEF RingInv, TypeOK
<1>3. PagesBelow(flash', B) /\ RingShape(flash')
  <2>1. CASE pc = "erase"
    <3>1. /\ flash' \in [Slots -> Page] /\ SectorOf(head) \subseteq Slots
          /\ \A s \in Slots : flash'[s] = flash[s] \/ flash'[s].st \in {"blank", "garbage"}
      BY <1>1, <1>2, <2>1, EraseCut
    <3>2. \A s \in ValidIn(flash') : s \in ValidIn(flash) /\ flash'[s] = flash[s]
      BY <3>1 DEF ValidIn
    <3> QED BY <1>2, <2>1, <3>1, <3>2 DEF PagesBelow
  <2>2. CASE pc = "body" /\ flash' = [flash EXCEPT ![head] = Garbage]
    BY <2>2, BlankPages, BodyPages DEF Garbage
  <2>3. CASE flash' = flash
    BY <1>2, <2>3 DEF RingInv
  <2> QED BY <1>1, <2>1, <2>2, <2>3 DEF Interrupted
<1>4. erased' \in Nat
  <2>1. IsFiniteSet(Pending)
    BY ScanSets DEF Pending
  <2>2. IsFiniteSet(Pending \ PendingIn(flash'))
    BY <2>1, FS_Subset, Zenon
  <2>3. Cardinality(Pending \ PendingIn(flash')) \in Nat
    BY <2>2, FS_CardinalityType
  <2> QED BY <1>1, <2>3, SMT DEF RingInv, TypeOK
<1>5. TypeOK'
  <2>1. crashes' \in 0..MaxCrashes
    BY <1>1, BoundAssumption, SMT DEF RingInv, TypeOK
  <2>2. 0 \in Slots /\ 0 \in Nat /\ 1 \in Nat \ {0} /\ flash' \in [Slots -> Page]
    BY <1>3, RingArithmetic, SMT DEF PagesBelow
  <2> QED BY <1>1, <1>4, <2>1, <2>2, Zenon DEF RingInv, TypeOK
<1>6. ~AppendInProgress' /\ NewestOffered' \in Nat /\ NewestOffered <= NewestOffered'
  <2>1. ~AppendInProgress' /\ NewestOffered' = arrivals
    BY <1>1 DEF NewestOffered, AppendInProgress
  <2> QED BY <1>2, <2>1, SMT DEF NewestOffered
<1>7. OrdersBounded'
  <2>1. \A s \in ValidIn(flash') : flash'[s].order \in Nat /\ flash'[s].order <= B
    BY <1>3, PageFields, ScanSets DEF PagesBelow
  <2>2. \A s \in ValidIn(flash') : flash'[s].order <= PriorRecords + NewestOffered'
    BY <1>2, <1>6, <2>1, SMT
  <2> QED BY <1>1, <2>2 DEF OrdersBounded, Valid
<1>8. HeadPage' /\ CountMatches'
    BY <1>1 DEF HeadPage, HeadIsBlank, CountMatches
<1> QED BY <1>1, <1>3, <1>5, <1>6, <1>7, <1>8 DEF IInv, RingInv

\* A pop that finds a pending record finds it counted.
LEMMA PopCounted == ASSUME IInv, Pop PROVE count > 0
<1>1. tail \in PendingIn(flash) /\ count = Cardinality(PendingIn(flash)) /\ count \in Nat
    BY DEF Pop, TailPending, IInv, RingInv, TypeOK, CountMatches, Pending, PendingIn
<1>2. count # 0
    BY <1>1, ScanSets, FS_EmptySet, Zenon
<1> QED BY <1>1, <1>2

LEMMA NextInv ==
    ASSUME IInv, [Next]_vars
    PROVE  IInv'
<1>0. RingInv /\ HeadPage /\ CountMatches
    BY DEF IInv
<1>1. CASE StorageInit \/ PeekRebuilds
    BY <1>0, <1>1, ScanStep
<1>2. CASE AppendToBlankPage \/ AppendToUsedPage
    BY <1>0, <1>2, StartStep DEF IInv
<1>3. CASE EraseSector
    BY <1>0, <1>3, PagesInv, EraseStep DEF RingInv, HeadPage, AppendInProgress, EraseSector
<1>4. CASE ProgramBody
    BY <1>0, <1>4, BodyStep DEF IInv
<1>5. CASE ProgramCommit
    BY <1>0, <1>5, CommitStep DEF IInv
<1>6. CASE Checkpoint \/ Flush
    BY <1>0, <1>6, CheckpointStep DEF IInv
<1>7. CASE Pop
    BY <1>0, <1>7, PopCounted, PopStep DEF IInv
<1>8. CASE PowerLoss
  <2>1. pc = "erase" => RingShape(flash')
    BY <1>0, <1>8, EraseCutLoss, PagesInv, Loss DEF RingInv, PowerLoss
  <2> QED BY <1>0, <1>8, <2>1, PowerLossStep DEF HeadPage
<1>9. CASE UNCHANGED vars
    BY <1>9, Zenon DEF vars, ram, IInv, RingInv, TypeOK, AppendInProgress, RingShape, OrdersBounded,
       FreshOrder, NewestOffered, HeadPage, HeadIsBlank, CountMatches, Valid, Pending
<1> QED BY <1>1, <1>2, <1>3, <1>4, <1>5, <1>6, <1>7, <1>8, <1>9 DEF Next

-----------------------------------------------------------------------------
(***************************************************************************)
(* The theorems.                                                           *)
(***************************************************************************)

\* The bookkeeping in RAM and the pages on flash stay related as IInv says
\* through every operation and every power loss.
THEOREM InductiveInvariant == Spec => []IInv
<1>1. Init => IInv
    BY InitInv
<1>2. IInv /\ [Next]_vars => IInv'
    BY NextInv
<1> QED BY <1>1, <1>2, PTL DEF Spec

\* Every variable of the queue keeps its type; in particular head and tail
\* stay inside the ring and the number of pending records never underflows.
THEOREM TypeCorrect == Spec => []TypeOK
<1>1. IInv => TypeOK
    BY DEF IInv, RingInv
<1> QED BY <1>1, InductiveInvariant, PTL

\* state.count is the number of pending records on flash, whatever was
\* appended, popped, reclaimed or lost before.
THEOREM CountIsExact == Spec => []CountMatches
<1>1. IInv => CountMatches
    BY DEF IInv, RingInv
<1> QED BY <1>1, InductiveInvariant, PTL

\* No record body is ever programmed over a page that is not erased.
THEOREM NoOverwrite == Spec => []HeadIsBlank
<1>1. IInv => HeadIsBlank
    BY DEF IInv, RingInv, HeadPage
<1> QED BY <1>1, InductiveInvariant, PTL

\* Round the ring from the head the orders of the valid records increase.
THEOREM RingStaysSorted == Spec => []RingSorted
<1>1. IInv => RingSorted
    BY DEF IInv, RingInv, HeadPage, RingShape, RingSorted
<1> QED BY <1>1, InductiveInvariant, PTL

-----------------------------------------------------------------------------
(* The drop counter.                                                       *)

\* What the reclaim under way has counted and not destroyed yet.
Doomed == IF pc = "erase" THEN Cardinality(Pending \cap SectorOf(head)) ELSE 0

Counting ==
    /\ saved <= erased
    /\ dropped <= erased + Doomed
    /\ crashes = 0 => IF ready THEN dropped = erased + Doomed ELSE saved = erased

LEMMA Finitely == \A S : Cardinality(Pending \cap S) \in Nat /\ Cardinality(Pending \ S) \in Nat
<1> SUFFICES ASSUME NEW S
             PROVE  Cardinality(Pending \cap S) \in Nat /\ Cardinality(Pending \ S) \in Nat
    OBVIOUS
<1>1. IsFiniteSet(Pending)
    BY ScanSets DEF Pending
<1>2. IsFiniteSet(Pending \cap S) /\ IsFiniteSet(Pending \ S)
    BY <1>1, FS_Subset, Zenon
<1> QED BY <1>2, FS_CardinalityType

LEMMA CountingStep == ASSUME IInv, Counting, [Next]_vars PROVE Counting'
<1>0. saved \in Nat /\ erased \in Nat /\ dropped \in Nat /\ crashes \in Nat /\ (pc # "idle" => ready)
      /\ Doomed \in Nat
  <2>1. saved \in Nat /\ erased \in Nat /\ dropped \in Nat /\ (pc # "idle" => ready)
    BY DEF IInv, RingInv, TypeOK
  <2>2. crashes \in Nat
    BY BoundAssumption DEF IInv, RingInv, TypeOK
  <2>3. Doomed \in Nat
    BY Finitely DEF Doomed
  <2> QED BY <2>1, <2>2, <2>3
<1>1. CASE StorageInit
  <2>1. pc = "idle" /\ pc' = pc
    BY <1>0, <1>1 DEF StorageInit
  <2> QED BY <1>0, <1>1, <2>1 DEF StorageInit, Counting, Doomed
<1>2. CASE AppendToUsedPage
  <2>1. /\ pc = "idle" /\ pc' = "erase" /\ ready /\ ready' = ready
        /\ dropped' = dropped + Cardinality(Pending \cap SectorOf(head))
        /\ saved' = saved /\ erased' = erased /\ crashes' = crashes
        /\ flash' = flash /\ head' = head
    BY <1>2 DEF AppendToUsedPage, StartAppend
  <2>2. Doomed = 0 /\ Doomed' = Cardinality(Pending \cap SectorOf(head))
    BY <2>1 DEF Doomed, Pending
  <2>3. Doomed' \in Nat /\ dropped' = dropped + Doomed'
    BY <2>1, <2>2, Finitely
  <2> QED BY <1>0, <2>1, <2>2, <2>3 DEF Counting
<1>3. CASE EraseSector
  <2>1. /\ pc = "erase" /\ pc' = "body" /\ ready' = ready
        /\ erased' = erased + Cardinality(Pending \cap SectorOf(head))
        /\ saved' = saved /\ dropped' = dropped /\ crashes' = crashes
    BY <1>3 DEF EraseSector
  <2>2. Doomed = Cardinality(Pending \cap SectorOf(head)) /\ Doomed' = 0
    BY <2>1 DEF Doomed
  <2> QED BY <1>0, <2>1, <2>2 DEF Counting
<1>4. CASE Checkpoint
  <2>1. /\ pc = "checkpoint" /\ pc' = "idle" /\ saved' = dropped /\ ready' = ready
        /\ erased' = erased /\ dropped' = dropped /\ crashes' = crashes
    BY <1>4 DEF Checkpoint
  <2> QED BY <1>0, <2>1 DEF Counting, Doomed
<1>5. CASE PowerLoss
  <2>1. /\ crashes' = crashes + 1 /\ pc' = "idle" /\ saved' = saved /\ dropped' = 0
        /\ erased' = erased + Cardinality(Pending \ PendingIn(flash'))
    BY <1>5 DEF PowerLoss
  <2>2. Cardinality(Pending \ PendingIn(flash')) \in Nat
    BY Finitely
  <2>3. erased <= erased' /\ erased' \in Nat
    BY <1>0, <2>1, <2>2
  <2> QED BY <1>0, <2>1, <2>3 DEF Counting, Doomed
<1>6. CASE AppendToBlankPage \/ ProgramBody \/ ProgramCommit \/ Pop \/ PeekRebuilds \/ Flush \/ UNCHANGED vars
  <2>1. /\ saved' = saved /\ erased' = erased /\ dropped' = dropped /\ crashes' = crashes /\ ready' = ready
    BY <1>6 DEF AppendToBlankPage, StartAppend, ProgramBody, ProgramCommit, Pop, PeekRebuilds, Flush, vars, ram
  <2>2. CASE UNCHANGED vars
    BY <1>0, <2>1, <2>2 DEF Counting, Doomed, vars, ram, Pending
  <2>3. CASE pc # "erase" /\ pc' # "erase"
    BY <1>0, <2>1, <2>3 DEF Counting, Doomed
  <2> QED BY <1>6, <2>2, <2>3 DEF AppendToBlankPage, StartAppend, ProgramBody, ProgramCommit, Pop, PeekRebuilds, Flush
<1> QED BY <1>1, <1>2, <1>3, <1>4, <1>5, <1>6 DEF Next

\* The drop counter never claims more than was destroyed, and after a reclaim
\* exactly that while power holds (ensureWritableSlotLocked, checkpointLocked).
THEOREM DropsAreCounted == Spec => []DropsCounted
<1>1. Init => Counting
    BY DEF Init, Counting, Doomed
<1>2. IInv /\ Counting /\ [Next]_vars => Counting'
    BY CountingStep
<1>3. IInv /\ Counting => DropsCounted
    BY DEF IInv, RingInv, TypeOK, Counting, Doomed, DropsCounted
<1> QED BY InductiveInvariant, <1>1, <1>2, <1>3, PTL DEF Spec

(***************************************************************************)
(* The queue gives its records out oldest first, and implements            *)
(* StoreForward and DropCounter, once its first sector has been filled.    *)
(* Before that it need not: when nothing is valid the scan puts the tail   *)
(* on slot 1 and the head on slot 0, and a reclaim of the first sector on  *)
(* the first lap leaves nothing valid.  What rules that out later is that  *)
(* the slot before the sector of the head is valid.                        *)
(***************************************************************************)

\* The pages in the order of delivery, and the tail where the next pop is due.
InOrder(f) == \A s \in ValidIn(f) \ PendingIn(f), t \in PendingIn(f) : f[s].order < f[t].order

TailDue(f, h, t) ==
    IF PendingIn(f) = {} THEN t = h
    ELSE t \in PendingIn(f) /\ \A s \in PendingIn(f) : f[t].order <= f[s].order

Aligned == SealedBefore(flash, HeadOf(flash)) /\ InOrder(flash)

Ordered == Aligned /\ (ready => TailDue(flash, head, tail))

-----------------------------------------------------------------------------
(* The slot before the sector of the head.                                 *)

LEMMA SealedAtFirst ==
    ASSUME PriorRecords >= SectorSlots, Init
    PROVE  SealedBefore(flash, HeadOf(flash))
<1> DEFINE h == HeadOf(flash)
<1>1. PagesBelow(flash, PriorRecords) /\ RingShape(flash)
    BY InitialShape DEF Init
<1>2. h \in Slots
    BY <1>1, ScanInRing
<1>3. PriorRecords \in Nat /\ SectorSlots \in Nat \ {0} /\ SectorSlots < SlotCount /\ SlotCount \in Nat
    BY PriorAssumption, GeometryAssumption, SMT
<1>4. \A s \in 0..(SectorSlots - 1) : s \in ValidIn(flash)
    BY <1>3 DEF Init, ValidIn, Slots
<1> HIDE DEF h
<1>5. ASSUME FirstLap(flash, h) PROVE FALSE
  <2>1. SectorSlots - 1 < h
    BY <1>3, <1>4, <1>5 DEF FirstLap
  <2>2. SectorSlots <= h /\ SectorSlots \in Slots
    BY <1>2, <1>3, <2>1 DEF Slots
  <2>3. SectorSlots % SectorSlots = 0
    BY <1>3, SMT
  <2>4. SectorSlots \in SectorStarts
    BY <2>2, <2>3 DEF SectorStarts
  <2>5. SectorSlots <= 0 <=> SectorSlots <= h
    BY <1>5, <2>4 DEF FirstLap, SectorOf
  <2> QED BY <1>3, <2>2, <2>5
<1> QED BY <1>1, <1>5 DEF RingShape, h

LEMMA SealedAfterLoss ==
    ASSUME NEW f, NEW g, NEW B, PagesBelow(f, B), SealedBefore(f, HeadOf(f)),
           HeadOf(g) \in SectorOf(HeadOf(f)), ValidIn(f) \ SectorOf(HeadOf(f)) \subseteq ValidIn(g)
    PROVE  SealedBefore(g, HeadOf(g))
<1>1. HeadOf(f) \in Slots
    BY ScanInRing
<1>2. SectorOf(HeadOf(g)) = SectorOf(HeadOf(f))
    BY <1>1, SectorGeometry
<1> QED BY <1>2 DEF SealedBefore

LEMMA SealedAfterAppend ==
    ASSUME NEW f, NEW g, NEW B, PagesBelow(f, B), SealedBefore(f, HeadOf(f)),
           ValidIn(g) = ValidIn(f) \cup {HeadOf(f)}, HeadOf(g) = Succ(HeadOf(f))
    PROVE  SealedBefore(g, HeadOf(g))
<1> DEFINE h == HeadOf(f)
<1>1. h \in Slots /\ Succ(h) \in Slots
    BY ScanInRing, RingArithmetic
<1> HIDE DEF h
<1>2. CASE Succ(h) \in SectorOf(h)
  <2>1. SectorOf(Succ(h)) = SectorOf(h)
    BY <1>1, <1>2, SectorGeometry
  <2> QED BY <2>1 DEF SealedBefore, h
<1>3. CASE Succ(h) \notin SectorOf(h)
  <2>1. Succ(h) \in SectorOf(Succ(h))
    BY <1>1, SectorGeometry
  <2>2. h \notin SectorOf(Succ(h))
    BY <1>1, <1>3, <2>1, SectorGeometry
  <2>3. h \in ValidIn(g) \ SectorOf(Succ(h))
    BY <2>2 DEF h
  <2> QED BY <2>1, <2>3 DEF SealedBefore, h
<1> QED BY <1>2, <1>3

-----------------------------------------------------------------------------
(* The tail.                                                               *)

\* Where a scan puts the tail.
LEMMA ScanFindsTail ==
    ASSUME NEW f \in [Slots -> Page], SealedBefore(f, HeadOf(f))
    PROVE  TailDue(f, HeadOf(f), TailOf(f))
<1>1. ValidIn(f) # {}
    BY DEF SealedBefore
<1>2. CASE PendingIn(f) = {}
    BY <1>1, <1>2 DEF TailOf, TailDue
<1>3. CASE PendingIn(f) # {}
    BY <1>3, OldestExists DEF TailOf, TailDue
<1> QED BY <1>2, <1>3

\* Two valid slots of a sorted ring hold different orders.
LEMMA OrdersDiffer ==
    ASSUME NEW f \in [Slots -> Page], NEW h \in Slots, SortedFrom(f, h),
           NEW s \in ValidIn(f), NEW t \in ValidIn(f), f[s].order <= f[t].order, s # t
    PROVE  f[s].order < f[t].order /\ Offset(h, s) < Offset(h, t)
<1>1. s \in Slots /\ t \in Slots /\ f[s].order \in Nat /\ f[t].order \in Nat
    BY ScanSets, PageFields
<1>2. Offset(h, s) \in Nat /\ Offset(h, t) \in Nat /\ Offset(h, s) # Offset(h, t)
    BY <1>1, RingArithmetic
<1>3. ~(Offset(h, t) < Offset(h, s))
    BY <1>1 DEF SortedFrom
<1>4. Offset(h, s) < Offset(h, t)
    BY <1>2, <1>3
<1> QED BY <1>4 DEF SortedFrom

\* Beyond the oldest pending record, the nearest pending slot is the oldest:
\* advanceTailLocked need not look at the orders.
LEMMA NearestIsOldest ==
    ASSUME NEW f \in [Slots -> Page], NEW h \in Slots, SortedFrom(f, h), NEW t \in ValidIn(f),
           \A s \in PendingIn(f) : f[t].order <= f[s].order /\ s # t, PendingIn(f) # {}
    PROVE  /\ NextPending(f, t) \in PendingIn(f)
           /\ \A s \in PendingIn(f) : f[NextPending(f, t)].order <= f[s].order
<1> DEFINE n == NextPending(f, t)
<1>1. t \in Slots /\ \A s \in PendingIn(f) : s \in ValidIn(f) /\ s \in Slots
    BY ScanSets
<1>2. n \in PendingIn(f) /\ \A s \in PendingIn(f) : Offset(Succ(t), n) <= Offset(Succ(t), s)
    BY <1>1, NextPendingExists
<1> HIDE DEF n
<1>3. \A s \in PendingIn(f) : Offset(h, t) < Offset(h, s)
    BY <1>1, OrdersDiffer
<1>4. \A s \in PendingIn(f) : Offset(Succ(t), s) = Offset(h, s) - Offset(h, t) - 1
  <2>1. ASSUME NEW s \in Slots, Offset(h, t) < Offset(h, s)
        PROVE  Offset(Succ(t), s) = Offset(h, s) - Offset(h, t) - 1
    BY <1>1, <2>1, RingArithmetic, SMT DEF Succ, Offset, Slots
  <2> QED BY <1>1, <1>3, <2>1
<1>5. ASSUME NEW s \in PendingIn(f) PROVE f[n].order <= f[s].order
  <2>1. f[n].order \in Nat /\ f[s].order \in Nat /\ Offset(h, n) \in Nat /\ Offset(h, s) \in Nat
    BY <1>1, <1>2, PageFields, RingArithmetic
  <2>2. Offset(h, n) <= Offset(h, s)
    <3>1. Offset(h, t) \in Nat
      BY <1>1, RingArithmetic
    <3>2. Offset(h, n) - Offset(h, t) - 1 <= Offset(h, s) - Offset(h, t) - 1
      BY <1>2, <1>4
    <3> QED BY <2>1, <3>1, <3>2
  <2>3. CASE n = s
    BY <2>1, <2>3
  <2>4. CASE n # s
    <3>1. Offset(h, n) # Offset(h, s)
      BY <1>1, <1>2, <2>4, RingArithmetic
    <3>2. f[n].order < f[s].order
      BY <1>1, <1>2, <2>1, <2>2, <3>1 DEF SortedFrom
    <3> QED BY <2>1, <3>2
  <2> QED BY <2>3, <2>4
<1> QED BY <1>2, <1>5 DEF n

-----------------------------------------------------------------------------
(* Every step.                                                             *)

LEMMA InitOrdered == ASSUME PriorRecords >= SectorSlots, Init PROVE Ordered
<1>1. SealedBefore(flash, HeadOf(flash))
    BY SealedAtFirst
<1>2. PendingIn(flash) = {}
    BY InitialShape DEF Init
<1> QED BY <1>1, <1>2 DEF Ordered, Aligned, InOrder, Init

\* What is left of the pages after a loss is in order.
LEMMA InOrderAfterLoss ==
    ASSUME NEW f, NEW g, NEW h, h = HeadOf(f), SectorOf(h) \subseteq Slots, LossFrom(f, g, h), InOrder(f)
    PROVE  /\ InOrder(g) /\ ValidIn(f) \ SectorOf(h) \subseteq ValidIn(g)
<1>1. \A s \in Slots : g[s] = f[s] \/ g[s].st \in {"blank", "garbage"}
    BY DEF LossFrom
<1>2. \A s \in ValidIn(g) : s \in ValidIn(f) /\ g[s] = f[s]
    BY <1>1 DEF ValidIn
<1>3. PendingIn(g) \subseteq PendingIn(f) /\ \A s \in ValidIn(g) \ PendingIn(g) : s \notin PendingIn(f)
    BY <1>2 DEF ValidIn, PendingIn
<1>4. InOrder(g)
    BY <1>2, <1>3, ScanSets DEF InOrder
<1>5. ValidIn(f) \ SectorOf(h) \subseteq ValidIn(g)
    BY DEF LossFrom, ValidIn
<1> QED BY <1>4, <1>5

LEMMA EraseOrdered ==
    ASSUME TypeOK, ready, arrivals > 0, EraseSector,
           NEW f, PagesBelow(f, PriorRecords + NewestOffered), RingShape(f), head = HeadOf(f),
           \A s \in Slots \ SectorOf(head) : f[s] = flash[s],
           SealedBefore(f, HeadOf(f)), InOrder(f)
    PROVE  Ordered'
<1>1. RebuildFrom(flash') /\ SectorOf(head) \subseteq Slots
    BY SectorGeometry DEF EraseSector, TypeOK
<1>2. LossFrom(f, flash', HeadOf(f))
    BY EraseStep
<1>3. InOrder(flash') /\ ValidIn(f) \ SectorOf(head) \subseteq ValidIn(flash')
    BY <1>1, <1>2, InOrderAfterLoss
<1>4. HeadOf(flash') \in SectorOf(HeadOf(f))
    BY <1>2, Loss
<1>5. SealedBefore(flash', HeadOf(flash'))
    BY <1>3, <1>4, SealedAfterLoss
<1>6. TailDue(flash', head', tail')
    BY <1>1, <1>2, <1>5, ScanFindsTail DEF RebuildFrom, LossFrom
<1> QED BY <1>3, <1>5, <1>6 DEF Ordered, Aligned

LEMMA BodyAligned ==
    ASSUME RingInv, HeadIsBlank, Aligned, pc = "body",
           NEW page \in Page, page.st \in {"body", "garbage"},
           flash' = [flash EXCEPT ![head] = page]
    PROVE  Aligned' /\ (TailDue(flash, head, tail) => TailDue(flash', head, tail))
<1>1. /\ ValidIn(flash') = ValidIn(flash) /\ PendingIn(flash') = PendingIn(flash)
      /\ \A s \in Slots : s # head => flash'[s] = flash[s]
      /\ HeadOf(flash') = HeadOf(flash) /\ flash[head].st = "blank"
    BY BodyPages DEF HeadIsBlank
<1>2. \A s \in ValidIn(flash) : flash'[s] = flash[s]
    BY <1>1 DEF ValidIn
<1> QED BY <1>1, <1>2, ScanSets DEF Aligned, SealedBefore, InOrder, TailDue

LEMMA PowerLossOrdered == ASSUME RingInv, HeadPage, Aligned, PowerLoss PROVE Ordered'
<1>1. ready' = FALSE /\ flash' \in Interrupted
    BY DEF PowerLoss
<1>2. PagesBelow(flash, PriorRecords + NewestOffered) /\ RingShape(flash)
    BY PagesInv DEF RingInv
<1>3. CASE pc = "erase"
  <2>1. LossFrom(flash, flash', HeadOf(flash)) /\ SectorOf(HeadOf(flash)) \subseteq Slots
    BY <1>1, <1>2, <1>3, EraseCutLoss, SectorGeometry, ScanInRing
  <2>2. InOrder(flash') /\ ValidIn(flash) \ SectorOf(HeadOf(flash)) \subseteq ValidIn(flash')
    BY <2>1, InOrderAfterLoss DEF Aligned
  <2>3. SealedBefore(flash', HeadOf(flash'))
    BY <1>2, <2>1, <2>2, Loss, SealedAfterLoss DEF Aligned
  <2> QED BY <1>1, <2>2, <2>3 DEF Ordered, Aligned
<1>4. CASE pc = "body" /\ flash' = [flash EXCEPT ![head] = Garbage]
    BY <1>1, <1>4, BlankPages, BodyAligned DEF HeadPage, Ordered, Garbage
<1>5. CASE flash' = flash
    BY <1>1, <1>5 DEF Ordered, Aligned
<1> QED BY <1>1, <1>3, <1>4, <1>5 DEF Interrupted

LEMMA BodyOrdered ==
    ASSUME RingInv, HeadPage, Aligned, ProgramBody
    PROVE  Aligned' /\ (TailDue(flash, head, tail) => TailDue(flash, head, tail)')
<1> DEFINE page == [st |-> "body", order |-> nextOrder, rec |-> arrivals]
<1>1. pc = "body" /\ head' = head /\ tail' = tail /\ HeadIsBlank
    BY DEF ProgramBody, HeadPage
<1>2. page \in Page
    BY SMT DEF RingInv, TypeOK, Page, PageStates
<1>3. flash' = [flash EXCEPT ![head] = page]
    BY <1>1 DEF ProgramBody, HeadIsBlank
<1> QED BY <1>1, <1>2, <1>3, BodyAligned

LEMMA CommitAligned ==
    ASSUME RingInv, HeadPage, Aligned, pc = "commit",
           flash' = Committed
    PROVE  Aligned' /\ \A h : TailDue(flash, head, tail) => TailDue(flash', h, tail)
<1>1. /\ head \notin ValidIn(flash) /\ head \in Slots
      /\ ValidIn(flash') = ValidIn(flash) \cup {head}
      /\ PendingIn(flash') = PendingIn(flash) \cup {head}
      /\ \A s \in Slots : s # head => flash'[s] = flash[s]
      /\ flash'[head].order = nextOrder - 1
      /\ \A s \in ValidIn(flash) : flash[s].order < nextOrder - 1
      /\ PagesBelow(flash', PriorRecords + arrivals) /\ HeadOf(flash') = Succ(head)
    BY CommitPages
<1>2. /\ PagesBelow(flash, PriorRecords + NewestOffered) /\ flash \in [Slots -> Page]
      /\ head = HeadOf(flash)
    BY PagesInv DEF RingInv, HeadPage, TypeOK
<1>3. \A s \in ValidIn(flash) : flash'[s] = flash[s]
    BY <1>1, ScanSets
<1>4. SealedBefore(flash', HeadOf(flash'))
    BY <1>1, <1>2, SealedAfterAppend DEF Aligned
<1>5. InOrder(flash')
    BY <1>1, <1>3, ScanSets DEF Aligned, InOrder
<1>6. ASSUME NEW h, TailDue(flash, head, tail) PROVE TailDue(flash', h, tail)
  <2>1. CASE PendingIn(flash) = {}
    <3>1. tail = head /\ PendingIn(flash') = {head}
      BY <1>1, <1>6, <2>1 DEF TailDue
    <3>2. flash'[head].order \in Nat
      BY <1>1, PageFields DEF PagesBelow
    <3> QED BY <3>1, <3>2 DEF TailDue
  <2>2. CASE PendingIn(flash) # {}
    <3>1. tail \in PendingIn(flash) /\ \A s \in PendingIn(flash) : flash[tail].order <= flash[s].order
      BY <1>6, <2>2 DEF TailDue
    <3>2. flash[tail].order \in Nat /\ flash[tail].order < nextOrder - 1 /\ flash'[tail] = flash[tail]
      BY <1>1, <1>2, <1>3, <3>1, ScanSets, PageFields
    <3>3. flash'[tail].order <= flash'[head].order
      <4>1. nextOrder \in Nat
        BY DEF RingInv, TypeOK
      <4> QED BY <1>1, <3>2, <4>1
    <3>4. \A s \in PendingIn(flash') : flash'[tail].order <= flash'[s].order
      BY <1>1, <1>3, <3>1, <3>2, <3>3, ScanSets
    <3> QED BY <1>1, <3>1, <3>4 DEF TailDue
  <2> QED BY <2>1, <2>2
<1> QED BY <1>4, <1>5, <1>6 DEF Aligned

LEMMA CommitOrdered ==
    ASSUME RingInv, HeadPage, Aligned, ProgramCommit
    PROVE  Aligned' /\ (TailDue(flash, head, tail) => TailDue(flash, head, tail)')
BY CommitAligned DEF ProgramCommit, Committed

\* The oldest pending record is marked delivered.
LEMMA PopAligned ==
    ASSUME RingInv, Aligned, TailPending, TailDue(flash, head, tail),
           flash' = Delivered
    PROVE  /\ Aligned'
           /\ PendingIn(flash') # {} =>
                /\ NextPending(flash', tail) \in PendingIn(flash')
                /\ \A s \in PendingIn(flash') : flash'[NextPending(flash', tail)].order <= flash'[s].order
<1>1. /\ ValidIn(flash') = ValidIn(flash) /\ tail \in PendingIn(flash)
      /\ PendingIn(flash') = PendingIn(flash) \ {tail}
      /\ \A s \in ValidIn(flash) : flash'[s].order = flash[s].order
      /\ PagesBelow(flash', PriorRecords + NewestOffered)
      /\ RingShape(flash') /\ HeadOf(flash') = HeadOf(flash)
    BY PopPages
<1>2. /\ flash \in [Slots -> Page] /\ flash' \in [Slots -> Page] /\ HeadOf(flash) \in Slots
      /\ SortedFrom(flash, HeadOf(flash)) /\ SortedFrom(flash', HeadOf(flash))
    BY <1>1, PagesInv, ScanInRing DEF RingInv, TypeOK, RingShape, PagesBelow
<1>3. \A s \in PendingIn(flash) : flash[tail].order <= flash[s].order
    BY <1>1 DEF TailDue
<1>4. \A s \in PendingIn(flash') : flash[tail].order < flash[s].order /\ s # tail
    BY <1>1, <1>2, <1>3, ScanSets, OrdersDiffer
<1>5. InOrder(flash')
    BY <1>1, <1>4, ScanSets DEF Aligned, InOrder
<1>6. SealedBefore(flash', HeadOf(flash'))
    BY <1>1 DEF Aligned, SealedBefore
<1>7. \A s \in PendingIn(flash') : flash'[tail].order <= flash'[s].order /\ s # tail
    BY <1>1, <1>3, <1>4, ScanSets
<1> QED BY <1>1, <1>2, <1>5, <1>6, <1>7, ScanSets, NearestIsOldest DEF Aligned

LEMMA PopOrdered == ASSUME IInv, Ordered, Pop PROVE Ordered'
<1>1. /\ ready /\ ready' = ready /\ TailPending
      /\ flash' = Delivered /\ head' = head
      /\ tail' = IF count' = 0 THEN head
                 ELSE IF PendingIn(flash') = {} THEN head
                 ELSE NextPending(flash', tail)
    BY DEF Pop, Delivered
<1>2. /\ Aligned'
      /\ PendingIn(flash') # {} =>
           /\ NextPending(flash', tail) \in PendingIn(flash')
           /\ \A s \in PendingIn(flash') : flash'[NextPending(flash', tail)].order <= flash'[s].order
    BY <1>1, PopAligned DEF IInv, Ordered
<1>3. CountMatches' /\ pc' # "erase"
    BY PopCounted, PopStep DEF Pop, IInv
<1>4. PendingIn(flash') # {} => count' # 0
    BY <1>1, <1>3, ScanSets, FS_EmptySet, Zenon DEF CountMatches, Pending
<1> QED BY <1>1, <1>2, <1>4 DEF Ordered, TailDue

\* The other steps leave the pages alone; a scan sets the tail.
LEMMA NextOrdered == ASSUME IInv, Ordered, [Next]_vars PROVE Ordered'
<1>1. CASE StorageInit \/ PeekRebuilds
  <2>1. flash' = flash /\ RebuildFrom(flash) /\ flash \in [Slots -> Page]
    BY <1>1 DEF StorageInit, PeekRebuilds, IInv, RingInv, TypeOK
  <2>2. TailDue(flash, HeadOf(flash), TailOf(flash))
    BY <2>1, ScanFindsTail DEF Ordered, Aligned
  <2> QED BY <2>1, <2>2 DEF Ordered, Aligned, RebuildFrom
<1>2. CASE AppendToBlankPage \/ AppendToUsedPage \/ Checkpoint \/ Flush \/ UNCHANGED vars
  <2>1. flash' = flash /\ ready' = ready /\ head' = head /\ tail' = tail
    BY <1>2 DEF AppendToBlankPage, AppendToUsedPage, Checkpoint, Flush, vars, ram
  <2> QED BY <2>1 DEF Ordered, Aligned
<1>3. CASE ProgramBody \/ ProgramCommit
  <2>1. ready /\ ready' = ready
    BY <1>3 DEF IInv, RingInv, ProgramBody, ProgramCommit
  <2>2. RingInv /\ HeadPage /\ Aligned /\ TailDue(flash, head, tail)
    BY <2>1 DEF IInv, Ordered
  <2> QED BY <1>3, <2>1, <2>2, BodyOrdered, CommitOrdered DEF Ordered
<1>4. CASE EraseSector
  <2>1. /\ TypeOK /\ ready /\ arrivals > 0 /\ RingShape(flash) /\ head = HeadOf(flash)
        /\ SealedBefore(flash, HeadOf(flash)) /\ InOrder(flash)
    BY <1>4 DEF IInv, RingInv, HeadPage, AppendInProgress, EraseSector, Ordered, Aligned
  <2>2. PagesBelow(flash, PriorRecords + NewestOffered)
    BY PagesInv DEF IInv
  <2> QED BY <1>4, <2>1, <2>2, EraseOrdered
<1>5. CASE PowerLoss
    BY <1>5, PowerLossOrdered DEF IInv, Ordered
<1> QED BY <1>1, <1>2, <1>3, <1>4, <1>5, PopOrdered DEF Next

\* Once the first sector was filled, the flash queue gives its records out
\* oldest first through any appends, pops, reclaims and power losses
\* (storage_peek, storage_pop, advanceTailLocked).
THEOREM OldestGoesFirst ==
    ASSUME PriorRecords >= SectorSlots
    PROVE  Spec => []OldestFirst
<1>1. Init => IInv /\ Ordered
    BY InitInv, InitOrdered
<1>2. IInv /\ Ordered /\ [Next]_vars => (IInv /\ Ordered)'
    BY NextInv, NextOrdered
<1>3. IInv /\ Ordered => OldestFirst
  <2> SUFFICES ASSUME IInv, Ordered PROVE OldestFirst
    OBVIOUS
  <2>1. DeliveredInOrder
    BY DEF Ordered, Aligned, InOrder, DeliveredInOrder, Valid, Pending
  <2>2. TailIsOldest
    BY DEF Ordered, Aligned, TailDue, TailIsOldest, TailPending, Pending, PendingIn
  <2> QED BY <2>1, <2>2 DEF OldestFirst
<1> QED BY <1>1, <1>2, <1>3, PTL DEF Spec

-----------------------------------------------------------------------------
(* What is given up.  While power has held, the ring is written without a  *)
(* gap: behind the head everything is valid, before it is either room or   *)
(* a ring that is full.                                                    *)

\* On the first lap nothing was written beyond the head; later everything
\* outside its sector was.
Room(f, h) ==
    /\ f[h].st \in {"blank", "body"}
    /\ \A s \in SectorOf(h) : s > h => f[s].st = "blank"
    /\ \/ Slots \ SectorOf(h) \subseteq ValidIn(f)
       \/ \A s \in Slots : (s < h => s \in ValidIn(f)) /\ (s > h => f[s].st = "blank")

Full(f, h) == h \in SectorStarts /\ Slots \subseteq ValidIn(f)

Gapless(f, h) ==
    /\ \A s \in SectorOf(h) : s < h => s \in ValidIn(f)
    /\ Room(f, h) \/ Full(f, h)

Tidy ==
    /\ pc = "erase" => flash[head].st # "blank"
    /\ crashes = 0 => /\ Gapless(flash, HeadOf(flash))
                      /\ flash[HeadOf(flash)].st = "body" => pc = "commit"

LEMMA SlotOrder ==
    \A s, t \in Slots : /\ s \in Nat /\ s < SlotCount
                        /\ s < t \/ s = t \/ s > t
                        /\ s > t => s >= t /\ t + 1 <= s /\ ~(s < t)
BY GeometryAssumption, SMT DEF Slots

LEMMA StartBeyond ==
    ASSUME NEW t \in Slots, Succ(t) \notin SectorOf(t)
    PROVE  Succ(t) \in SectorStarts
<1>1. Succ(t) \in Slots /\ t \in Nat /\ SectorSlots \in Nat \ {0} /\ 0 \in Slots
    BY RingArithmetic
<1>2. CASE Succ(t) = 0
  <2>1. 0 % SectorSlots = 0
    BY <1>1, SMT
  <2> QED BY <1>1, <1>2, <2>1 DEF SectorStarts
<1>3. CASE Succ(t) = t + 1
  <2>1. PICK b \in SectorStarts : ~(b <= t + 1 <=> b <= t)
    BY <1>1, <1>3 DEF SectorOf
  <2>2. b \in Nat
    BY RingArithmetic DEF SectorStarts
  <2>3. b = t + 1
    BY <1>1, <2>1, <2>2
  <2> QED BY <1>3, <2>3
<1> QED BY <1>2, <1>3 DEF Succ

\* A sector has one start, and it comes first.
LEMMA StartIsFirst ==
    ASSUME NEW h \in SectorStarts, NEW s \in SectorOf(h)
    PROVE  h <= s /\ (s \in SectorStarts => s = h)
<1>1. h \in Nat /\ s \in Nat /\ s \in Slots
    BY RingArithmetic DEF SectorStarts, SectorOf
<1>2. h <= s <=> h <= h
    BY DEF SectorOf
<1>3. s \in SectorStarts => (s <= s <=> s <= h)
    BY DEF SectorOf
<1> QED BY <1>1, <1>2, <1>3

LEMMA InitTidy == ASSUME PriorRecords >= SectorSlots, Init PROVE Tidy
<1> DEFINE h == HeadOf(flash)
           n == PriorRecords - 1
<1>1. PagesBelow(flash, PriorRecords) /\ RingShape(flash)
    BY InitialShape DEF Init
<1>2. PriorRecords \in Nat \ {0} /\ PriorRecords <= SlotCount /\ SlotCount \in Nat /\ SectorSlots \in Nat \ {0}
    BY PriorAssumption, GeometryAssumption
<1>3. \A s \in Slots : IF s < PriorRecords THEN s \in ValidIn(flash) /\ flash[s].order = s + 1
                                           ELSE flash[s].st = "blank"
    BY DEF Init, ValidIn, Blank
<1>4. n \in ValidIn(flash) /\ \A t \in ValidIn(flash) : flash[t].order <= flash[n].order
  <2>1. n \in Slots /\ n < PriorRecords
    BY <1>2 DEF Slots
  <2>2. \A t \in ValidIn(flash) : t \in Slots /\ t \in Nat /\ t < PriorRecords
    BY <1>3, RingArithmetic DEF ValidIn
  <2> QED BY <1>2, <1>3, <2>1, <2>2
<1>5. h = Succ(n) /\ h \in Slots
    BY <1>1, <1>4, ScanInRing, NewestUnique DEF RingShape
<1>6. h \in Nat /\ \A s \in SectorOf(h) : s \in Slots /\ s \in Nat
  <2>1. SectorOf(h) \subseteq Slots /\ \A s \in Slots : s \in Nat
    BY <1>5, SectorGeometry, RingArithmetic
  <2> QED BY <1>5, <2>1
<1> HIDE DEF h
<1>7. CASE PriorRecords = SlotCount
  <2>1. h = 0
    BY <1>2, <1>5, <1>7 DEF Succ
  <2>2. 0 % SectorSlots = 0
    BY <1>2, SMT
  <2>3. Full(flash, h)
    BY <1>2, <1>3, <1>5, <1>7, <2>1, <2>2 DEF Full, SectorStarts, Slots
  <2>4. \A s \in SectorOf(h) : ~(s < h)
    BY <1>6, <2>1
  <2>5. flash[h].st # "body"
    BY <1>5, <2>3 DEF Full, ValidIn
  <2> QED BY <2>3, <2>4, <2>5 DEF Tidy, Gapless, Init, h
<1>8. CASE PriorRecords # SlotCount
  <2>1. h = PriorRecords
    BY <1>2, <1>5, <1>8 DEF Succ
  <2>2. \A s \in Slots : (s < h => s \in ValidIn(flash)) /\ (s >= h => flash[s].st = "blank")
    <3> SUFFICES ASSUME NEW s \in Slots PROVE (s < h => s \in ValidIn(flash)) /\ (s >= h => flash[s].st = "blank")
      OBVIOUS
    <3>1. s \in Nat
      BY <1>2 DEF Slots
    <3>2. IF s < h THEN s \in ValidIn(flash) ELSE flash[s].st = "blank"
      BY <1>3, <2>1
    <3> QED BY <1>2, <2>1, <3>1, <3>2
  <2>3. Room(flash, h) /\ \A s \in SectorOf(h) : s < h => s \in ValidIn(flash)
    <3>1. flash[h].st = "blank"
      BY <1>5, <1>6, <2>2
    <3>2. \A s \in SectorOf(h) : (s < h => s \in ValidIn(flash)) /\ (s > h => flash[s].st = "blank")
      BY <1>6, <2>2
    <3>3. \A s \in Slots : (s < h => s \in ValidIn(flash)) /\ (s > h => flash[s].st = "blank")
      BY <1>5, <2>2, SlotOrder
    <3> QED BY <3>1, <3>2, <3>3 DEF Room
  <2>4. flash[h].st # "body"
    BY <1>5, <2>1, <2>2, <1>2
  <2> QED BY <2>3, <2>4 DEF Tidy, Gapless, Init, h
<1> QED BY <1>7, <1>8

\* The head moves on within its sector, to a sector written a lap ago, or to
\* one never written.
LEMMA GaplessAfterAppend ==
    ASSUME NEW f, NEW g, NEW h \in Slots, Gapless(f, h), Room(f, h), g[h].st = "pending",
           \A s \in Slots : s # h => g[s] = f[s]
    PROVE  Gapless(g, Succ(h)) /\ g[Succ(h)].st # "body"
<1> DEFINE k == Succ(h)
<1>1. h \in Nat /\ k \in Slots /\ k \in Nat /\ \A s \in Slots : s \in Nat /\ s < SlotCount
    BY RingArithmetic, SMT DEF Slots
<1>2. /\ SectorOf(h) \subseteq Slots /\ SectorOf(k) \subseteq Slots /\ h \in SectorOf(h) /\ k \in SectorOf(k)
    BY <1>1, SectorGeometry
<1>3. ValidIn(f) \subseteq ValidIn(g) /\ h \in ValidIn(g)
    BY DEF ValidIn
<1>4. SlotCount \in Nat /\ (k = IF h + 1 = SlotCount THEN 0 ELSE h + 1)
    BY RingArithmetic DEF Succ
<1> HIDE DEF k
<1>5. CASE k \in SectorOf(h)
  <2>1. SectorOf(k) = SectorOf(h)
    BY <1>5, SectorGeometry
  <2>2. k = h + 1
    <3>1. ASSUME h + 1 = SlotCount PROVE FALSE
      <4>1. k = 0 /\ h = SlotCount - 1
        BY <1>1, <1>4, <3>1
      <4>2. h \in SectorOf(0)
        BY <1>2, <2>1, <4>1
      <4> QED BY <4>1, <4>2, SectorGeometry
    <3> QED BY <1>4, <3>1
  <2>3. g[k].st = "blank"
    BY <1>1, <1>2, <1>5, <2>2 DEF Room
  <2>4. \A s \in SectorOf(k) : (s < k => s \in ValidIn(g)) /\ (s > k => g[s].st = "blank")
    <3>1. ASSUME NEW s \in SectorOf(h) PROVE (s < k => s \in ValidIn(g)) /\ (s > k => g[s].st = "blank")
      <4>1. s \in Slots /\ s \in Nat
        BY <1>1, <1>2
      <4>2. s < h \/ s = h \/ s > h
        BY <1>1, <4>1
      <4>3. (s < h => s \in ValidIn(f)) /\ (s > h => f[s].st = "blank")
        BY DEF Gapless, Room
      <4> QED BY <1>1, <1>3, <2>2, <4>1, <4>2, <4>3
    <3> QED BY <2>1, <3>1
  <2>5. \/ Slots \ SectorOf(k) \subseteq ValidIn(g)
        \/ \A s \in Slots : (s < k => s \in ValidIn(g)) /\ (s > k => g[s].st = "blank")
    <3>1. CASE Slots \ SectorOf(h) \subseteq ValidIn(f)
      BY <1>3, <2>1, <3>1
    <3>2. CASE \A s \in Slots : (s < h => s \in ValidIn(f)) /\ (s > h => f[s].st = "blank")
      <4>1. ASSUME NEW s \in Slots PROVE (s < k => s \in ValidIn(g)) /\ (s > k => g[s].st = "blank")
        <5>1. s \in Nat /\ (s < h \/ s = h \/ s > h)
          BY SlotOrder
        <5> QED BY <1>1, <1>3, <2>2, <3>2, <5>1
      <4> QED BY <4>1
    <3> QED BY <3>1, <3>2 DEF Room
  <2> QED BY <2>3, <2>4, <2>5 DEF Gapless, Room, k
<1>6. CASE k \notin SectorOf(h)
  <2>1. k \in SectorStarts
    BY <1>6, StartBeyond DEF k
  <2>2. \A s \in SectorOf(k) : ~(s < k)
    <3>1. \A s \in SectorOf(k) : k <= s /\ s \in Nat
      BY <1>1, <1>2, <2>1, StartIsFirst
    <3> QED BY <1>1, <3>1
  <2>3. SectorOf(h) \subseteq ValidIn(g)
    <3>1. ASSUME NEW s \in SectorOf(h), s > h PROVE FALSE
      <4>1. s \in Nat /\ s < SlotCount /\ h + 1 <= s /\ k = h + 1
        <5>1. s \in Nat /\ s < SlotCount /\ h + 1 <= s
          BY <1>2, <3>1, SlotOrder
        <5> QED BY <1>1, <1>4, <5>1
      <4>2. h <= k /\ k <= s
        BY <1>1, <4>1
      <4>3. k \in SectorOf(h)
        <5>1. SectorOf(s) = SectorOf(h) /\ s \in Slots
          BY <1>2, SectorGeometry
        <5> QED BY <1>1, <1>2, <4>2, <5>1, SectorGeometry
      <4> QED BY <1>6, <4>3
    <3>2. \A s \in SectorOf(h) : s < h \/ s = h
      BY <1>2, <3>1, SlotOrder
    <3> QED BY <1>3, <3>2 DEF Gapless
  <2>4. CASE Slots \ SectorOf(h) \subseteq ValidIn(f)
    <3>1. Full(g, k)
      BY <1>3, <2>1, <2>3, <2>4 DEF Full
    <3> QED BY <1>1, <2>2, <3>1 DEF Gapless, Full, ValidIn, k
  <2>5. CASE \A s \in Slots : (s < h => s \in ValidIn(f)) /\ (s > h => f[s].st = "blank")
    <3>1. CASE h + 1 = SlotCount
      <4>1. Slots \subseteq ValidIn(g)
        <5>1. \A s \in Slots : s < h \/ s = h
          BY <1>1, <3>1
        <5> QED BY <1>3, <2>5, <5>1
      <4>2. Full(g, k)
        BY <2>1, <4>1 DEF Full
      <4> QED BY <1>1, <2>2, <4>1, <4>2 DEF Gapless, ValidIn, k
    <3>2. CASE h + 1 # SlotCount
      <4>1. k = h + 1
        BY <1>4, <3>2
      <4>2. \A s \in Slots : (s < k => s \in ValidIn(g)) /\ (s >= k => g[s].st = "blank")
        <5>1. ASSUME NEW s \in Slots PROVE (s < k => s \in ValidIn(g)) /\ (s >= k => g[s].st = "blank")
          <6>1. s \in Nat /\ (s < h \/ s = h \/ s > h)
            BY SlotOrder
          <6> QED BY <1>1, <1>3, <2>5, <4>1, <6>1
        <5> QED BY <5>1
      <4>3. g[k].st = "blank"
        BY <1>1, <4>2
      <4>4. \A s \in Slots : s > k => s >= k
        BY <1>1
      <4>5. Room(g, k)
        BY <1>2, <4>2, <4>3, <4>4 DEF Room
      <4> QED BY <2>2, <4>3, <4>5 DEF Gapless, k
    <3> QED BY <3>1, <3>2
  <2> QED BY <2>4, <2>5 DEF Room
<1> QED BY <1>5, <1>6

\* A full sector is erased where the head is, and the head stays there.
LEMMA GaplessAfterErase ==
    ASSUME NEW f, NEW g, NEW B, PagesBelow(g, B), NEW h \in Slots, Full(f, h), HeadOf(g) \in SectorOf(h),
           \A s \in Slots : g[s] = IF s \in SectorOf(h) THEN Blank ELSE f[s]
    PROVE  Gapless(g, HeadOf(g)) /\ g[HeadOf(g)].st # "body"
<1> DEFINE k == HeadOf(g)
           n == Newest(g)
<1>1. SectorOf(h) \subseteq Slots /\ h \in SectorOf(h) /\ h \in SectorStarts
    BY SectorGeometry DEF Full
<1>2. /\ \A s \in SectorOf(h) : g[s].st = "blank"
      /\ \A s \in Slots \ SectorOf(h) : s \in ValidIn(g)
      /\ \A s \in ValidIn(g) : s \in Slots \ SectorOf(h)
    BY <1>1 DEF Full, ValidIn, Blank
<1>3. k = h
  <2>1. CASE ValidIn(g) = {}
    <3>1. k = 0
      BY <2>1 DEF HeadOf
    <3>2. 0 \in SectorStarts
      <4>1. 0 \in Slots /\ SectorSlots \in Nat \ {0}
        BY RingArithmetic
      <4>2. 0 % SectorSlots = 0
        BY <4>1, SMT
      <4> QED BY <4>1, <4>2 DEF SectorStarts
    <3> QED BY <1>1, <3>1, <3>2, StartIsFirst
  <2>2. CASE ValidIn(g) # {}
    <3>1. n \in Slots \ SectorOf(h) /\ k = Succ(n)
      BY <1>2, <2>2, NewestExists DEF HeadOf
    <3>2. k \notin SectorOf(n)
      <4>1. ASSUME k \in SectorOf(n) PROVE FALSE
        <5>1. SectorOf(k) = SectorOf(n) /\ n \in SectorOf(n) /\ SectorOf(k) = SectorOf(h)
          BY <3>1, <4>1, SectorGeometry
        <5> QED BY <3>1, <5>1
      <4> QED BY <4>1
    <3>3. k \in SectorStarts
      BY <3>1, <3>2, StartBeyond
    <3> QED BY <1>1, <3>3, StartIsFirst
  <2> QED BY <2>1, <2>2
<1> HIDE DEF k
<1>4. \A s \in SectorOf(h) : ~(s < h)
  <2>1. \A s \in SectorOf(h) : h <= s /\ s \in Slots
    BY <1>1, StartIsFirst
  <2>2. h \in Nat /\ \A s \in SectorOf(h) : s \in Nat
    BY <1>1, <2>1, RingArithmetic
  <2> QED BY <2>1, <2>2
<1>5. Gapless(g, h)
    BY <1>1, <1>2, <1>4 DEF Gapless, Room
<1> QED BY <1>1, <1>2, <1>3, <1>5 DEF k

LEMMA NextTidy == ASSUME PriorRecords >= SectorSlots, IInv, Tidy, [Next]_vars PROVE Tidy'
<1>0. /\ flash \in [Slots -> Page] /\ head \in Slots /\ crashes \in Nat
      /\ PagesBelow(flash, PriorRecords + NewestOffered) /\ RingShape(flash)
      /\ ready => head = HeadOf(flash)
      /\ pc # "idle" => ready
    BY PagesInv, BoundAssumption DEF IInv, RingInv, TypeOK, HeadPage
<1>I. IInv'
    BY NextInv
<1>1. CASE StorageInit \/ PeekRebuilds
  <2>1. flash' = flash /\ crashes' = crashes /\ pc' = pc /\ pc = "idle"
    BY <1>0, <1>1 DEF StorageInit, PeekRebuilds
  <2> QED BY <2>1 DEF Tidy
<1>2. CASE AppendToBlankPage
  <2>1. /\ flash' = flash /\ crashes' = crashes /\ pc' = "body" /\ pc = "idle" /\ ready
    BY <1>2 DEF AppendToBlankPage, StartAppend
  <2> QED BY <2>1 DEF Tidy
<1>3. CASE AppendToUsedPage
  <2>1. /\ flash' = flash /\ head' = head /\ crashes' = crashes /\ pc' = "erase" /\ pc = "idle" /\ ready
        /\ flash[head].st # "blank"
    BY <1>3 DEF AppendToUsedPage, StartAppend
  <2> QED BY <2>1 DEF Tidy
<1>4. CASE EraseSector
  <2>1. /\ crashes' = crashes /\ pc' = "body" /\ pc = "erase" /\ head = HeadOf(flash)
        /\ flash' = [s \in Slots |-> IF s \in SectorOf(head) THEN Blank ELSE flash[s]]
        /\ ready' /\ flash[head].st # "blank"
    BY <1>0, <1>4 DEF EraseSector, Tidy
  <2>2. ASSUME crashes = 0 PROVE Gapless(flash', HeadOf(flash')) /\ flash'[HeadOf(flash')].st # "body"
    <3>1. Full(flash, head)
      BY <2>1, <2>2 DEF Tidy, Gapless, Room
    <3>2. LossFrom(flash, flash', HeadOf(flash))
      <4>1. SectorOf(head) \subseteq Slots
        BY <1>0, SectorGeometry
      <4>2. flash' \in [Slots -> Page] /\ \A s \in SectorOf(head) : flash'[s].st = "blank"
        BY <1>0, <2>1, <4>1, BlankPages DEF Blank
      <4> QED BY <2>1, <4>1, <4>2 DEF LossFrom
    <3>3. /\ PagesBelow(flash', PriorRecords + NewestOffered)
          /\ HeadOf(flash') \in SectorOf(head)
      BY <1>0, <2>1, <3>2, Loss
    <3>4. \A s \in Slots : flash'[s] = IF s \in SectorOf(head) THEN Blank ELSE flash[s]
      BY <2>1
    <3> QED BY <1>0, <3>1, <3>3, <3>4, GaplessAfterErase
  <2> QED BY <2>1, <2>2 DEF Tidy
<1>5. CASE ProgramBody
  <2>1. /\ crashes' = crashes /\ pc' = "commit" /\ pc = "body" /\ ready' /\ head' = head /\ head = HeadOf(flash)
        /\ flash[head].st = "blank"
    BY <1>0, <1>5 DEF ProgramBody, IInv, RingInv, HeadPage, HeadIsBlank
  <2>2. flash'[head].st = "body" /\ \A s \in Slots : s # head => flash'[s] = flash[s]
    BY <1>0, <1>5, <2>1 DEF ProgramBody
  <2>3. HeadOf(flash') = head
    BY <1>I, <2>1 DEF IInv, RingInv, HeadPage
  <2>4. ASSUME crashes = 0 PROVE Gapless(flash', head)
    <3>1. Gapless(flash, head) /\ Room(flash, head)
      BY <1>0, <2>1, <2>4 DEF Tidy, Gapless, Full, ValidIn
    <3>2. ValidIn(flash') = ValidIn(flash)
      BY <1>0, <2>1, <2>2 DEF ValidIn
    <3>3. \A s \in Slots : s > head => s # head
      BY <1>0, SlotOrder
    <3>4. \A s \in Slots : s > head /\ flash[s].st = "blank" => flash'[s].st = "blank"
      BY <2>2, <3>3
    <3>5. SectorOf(head) \subseteq Slots
      BY <1>0, SectorGeometry
    <3>6. Room(flash', head)
      BY <2>2, <3>1, <3>2, <3>4, <3>5 DEF Room
    <3> QED BY <3>1, <3>2, <3>6 DEF Gapless
  <2> QED BY <2>1, <2>3, <2>4 DEF Tidy
<1>6. CASE ProgramCommit
  <2>1. /\ crashes' = crashes /\ pc' # "erase" /\ pc = "commit" /\ ready' /\ head' = Succ(head)
        /\ head = HeadOf(flash) /\ flash[head].st = "body"
        /\ flash' = [flash EXCEPT ![head].st = IF @ = "body" THEN "pending" ELSE @]
    BY <1>0, <1>6 DEF ProgramCommit, IInv, RingInv, HeadPage
  <2>2. flash'[head].st = "pending" /\ \A s \in Slots : s # head => flash'[s] = flash[s]
    <3>1. flash[head] \in Page /\ flash'[head] = [flash[head] EXCEPT !.st = "pending"]
      BY <1>0, <2>1
    <3>2. flash'[head].st = "pending"
      BY <3>1, SMT DEF Page
    <3> QED BY <1>0, <2>1, <3>2
  <2>3. HeadOf(flash') = Succ(head)
    BY <1>I, <2>1 DEF IInv, RingInv, HeadPage
  <2>4. ASSUME crashes = 0 PROVE Gapless(flash', Succ(head)) /\ flash'[Succ(head)].st # "body"
    <3>1. Gapless(flash, head) /\ Room(flash, head)
      BY <1>0, <2>1, <2>4 DEF Tidy, Gapless, Full, ValidIn
    <3> QED BY <1>0, <2>2, <3>1, GaplessAfterAppend
  <2> QED BY <2>1, <2>3, <2>4 DEF Tidy
<1>7. CASE Checkpoint \/ Flush \/ UNCHANGED vars
  <2>1. flash' = flash /\ crashes' = crashes /\ head' = head
    BY <1>7 DEF Checkpoint, Flush, vars, ram
  <2>2. CASE pc' = pc
    BY <2>1, <2>2 DEF Tidy
  <2>3. CASE pc \in {"idle", "checkpoint"} /\ pc' \in {"idle", "checkpoint"}
    BY <2>1, <2>3 DEF Tidy
  <2> QED BY <1>7, <2>2, <2>3 DEF Checkpoint, Flush, vars
<1>8. CASE Pop
  <2>1. /\ crashes' = crashes /\ pc = "idle" /\ pc' # "erase" /\ ready /\ ready' /\ head' = head /\ head = HeadOf(flash)
        /\ flash[tail].st = "pending" /\ flash' = [flash EXCEPT ![tail].st = "delivered"] /\ tail \in Slots
    BY <1>0, <1>8 DEF Pop, TailPending, IInv, RingInv, TypeOK
  <2>2. flash'[tail].st = "delivered" /\ \A s \in Slots : s # tail => flash'[s] = flash[s]
    <3>1. flash[tail] \in Page /\ flash'[tail] = [flash[tail] EXCEPT !.st = "delivered"]
      BY <1>0, <2>1
    <3>2. flash'[tail].st = "delivered"
      BY <3>1, SMT DEF Page
    <3> QED BY <1>0, <2>1, <3>2
  <2>3. /\ HeadOf(flash') = head /\ ValidIn(flash') = ValidIn(flash)
        /\ \A s \in Slots : flash[s].st \in {"blank", "body"} => flash'[s] = flash[s]
        /\ flash'[head].st = "body" => flash[head].st = "body"
    BY <1>0, <1>I, <2>1, <2>2 DEF IInv, RingInv, HeadPage, ValidIn
  <2>4. ASSUME crashes = 0 PROVE Gapless(flash', head) /\ flash'[head].st # "body"
    <3>1. SectorOf(head) \subseteq Slots
      BY <1>0, SectorGeometry
    <3> QED BY <1>0, <2>1, <2>3, <2>4, <3>1 DEF Tidy, Gapless, Room, Full
  <2> QED BY <2>1, <2>3, <2>4 DEF Tidy
<1>9. CASE PowerLoss
  <2>1. crashes' = crashes + 1 /\ pc' = "idle"
    BY <1>9 DEF PowerLoss
  <2> QED BY <1>0, <2>1 DEF Tidy
<1> QED BY <1>1, <1>2, <1>3, <1>4, <1>5, <1>6, <1>7, <1>8, <1>9 DEF Next

\* With the head at the start of a sector that holds a pending record, every
\* valid record elsewhere is newer, so none of them is delivered.
LEMMA NothingDeliveredElsewhere ==
    ASSUME IInv, Ordered, ready, head \in SectorStarts, Pending \cap SectorOf(head) # {}
    PROVE  Valid \ SectorOf(head) \subseteq Pending
<1>1. PICK p \in Pending : p \in SectorOf(head)
    OBVIOUS
<1> SUFFICES ASSUME NEW u \in Valid \ SectorOf(head) PROVE u \in Pending
    OBVIOUS
<1>2. /\ flash \in [Slots -> Page] /\ head \in Slots /\ p \in Slots /\ u \in Slots
      /\ p \in ValidIn(flash) /\ u \in ValidIn(flash) /\ SortedFrom(flash, head)
    BY <1>1, ScanSets DEF IInv, RingInv, TypeOK, HeadPage, RingShape, Pending, Valid
<1>3. head <= p
    BY <1>1, StartIsFirst
<1>4. ~(head <= u /\ u <= p)
    BY <1>1, <1>2, SectorGeometry
<1>5. Offset(head, p) < Offset(head, u)
    BY <1>2, <1>3, <1>4, GeometryAssumption, SMT DEF Offset, Slots
<1>6. flash[p].order < flash[u].order /\ flash[p].order \in Nat /\ flash[u].order \in Nat
    BY <1>2, <1>5, PageFields DEF SortedFrom
<1>7. CASE u \notin Pending
  <2>1. flash[u].order < flash[p].order
    BY <1>1, <1>2, <1>7 DEF Ordered, Aligned, InOrder, Pending
  <2> QED BY <1>6, <2>1
<1> QED BY <1>7

\* Records are given up by a full queue only, or where power losses have left
\* a torn page or a gap, and each is counted (ensureWritableSlotLocked).
THEOREM OnlyFullQueuesDrop ==
    ASSUME PriorRecords >= SectorSlots
    PROVE  Spec => []DropsJustified
<1>1. Init => IInv /\ Ordered /\ Tidy
    BY InitInv, InitOrdered, InitTidy
<1>2. IInv /\ Ordered /\ Tidy /\ [Next]_vars => (IInv /\ Ordered /\ Tidy)'
    BY NextInv, NextOrdered, NextTidy
<1>3. IInv /\ Ordered /\ Tidy => ReclaimJustified
  <2> SUFFICES ASSUME IInv, Ordered, Tidy, pc = "erase", Pending \cap SectorOf(head) # {}
               PROVE  \/ Slots \ SectorOf(head) \subseteq Pending
                      \/ /\ crashes > 0
                         /\ head \notin SectorStarts \/ Valid \ SectorOf(head) \subseteq Pending
    BY DEF ReclaimJustified
  <2>1. ready /\ head = HeadOf(flash) /\ flash[head].st # "blank" /\ crashes \in Nat
    BY BoundAssumption DEF IInv, RingInv, TypeOK, HeadPage, Tidy
  <2>2. head \in SectorStarts => Valid \ SectorOf(head) \subseteq Pending
    BY <2>1, NothingDeliveredElsewhere
  <2>3. crashes = 0 => Full(flash, head)
    BY <2>1 DEF Tidy, Gapless, Room
  <2>4. crashes = 0 => Slots \ SectorOf(head) \subseteq Pending
    BY <2>2, <2>3 DEF Full, Valid
  <2> QED BY <2>1, <2>2, <2>4
<1>4. ReclaimJustified /\ DropsCounted => DropsJustified
    BY DEF DropsJustified
<1> QED BY <1>1, <1>2, <1>3, <1>4, DropsAreCounted, PTL DEF Spec


-----------------------------------------------------------------------------
(* The drop counter: a reclaim is Drop unless nothing pending is in the    *)
(* way, a checkpoint is Save.                                              *)

LEMMA CounterStep == ASSUME IInv, [Next]_vars PROVE [Counter!Next]_(Counter!vars)
<1>0. (pc # "idle" => ready) /\ dropped \in Nat
    BY DEF IInv, RingInv, TypeOK
<1>1. CASE StorageInit
    BY <1>1 DEF StorageInit, Counter!Next, Counter!Boot
<1>2. CASE AppendToUsedPage
  <2>1. /\ ready /\ ready' = ready /\ saved' = saved
        /\ dropped' = dropped + Cardinality(Pending \cap SectorOf(head))
    BY <1>2 DEF AppendToUsedPage, StartAppend
  <2>2. Cardinality(Pending \cap SectorOf(head)) \in Nat
    BY Finitely
  <2>3. dropped' = dropped \/ dropped' > dropped
    BY <1>0, <2>1, <2>2
  <2> QED BY <2>1, <2>3 DEF Counter!Next, Counter!Drop, Counter!vars
<1>3. CASE Checkpoint
    BY <1>0, <1>3 DEF Checkpoint, Counter!Next, Counter!Save
<1>4. CASE PowerLoss
    BY <1>4 DEF PowerLoss, Counter!Next, Counter!PowerLoss
<1>5. CASE AppendToBlankPage \/ EraseSector \/ ProgramBody \/ ProgramCommit \/ Pop \/ PeekRebuilds \/ Flush \/ UNCHANGED vars
  <2>1. saved' = saved /\ dropped' = dropped /\ ready' = ready
    BY <1>5 DEF AppendToBlankPage, StartAppend, EraseSector, ProgramBody, ProgramCommit, Pop, PeekRebuilds,
       Flush, vars, ram
  <2> QED BY <2>1 DEF Counter!vars
<1> QED BY <1>1, <1>2, <1>3, <1>4, <1>5 DEF Next

LEMMA CounterImplemented == Spec => Counter!Spec
<1>1. Init => Counter!Init
    BY DEF Init, Counter!Init
<1>2. IInv /\ [Next]_vars => [Counter!Next]_(Counter!vars)
    BY CounterStep
<1> QED BY <1>1, <1>2, InductiveInvariant, PTL DEF Spec, Counter!Spec

-----------------------------------------------------------------------------
(* What every step does to the records that wait.                          *)

\* How a step changes the pages that hold pending records.
LEMMA PendingKept ==
    ASSUME IInv, [Next]_vars, ~ProgramCommit
    PROVE  \A s \in Pending' : s \in Pending /\ flash'[s] = flash[s]
<1>0. flash \in [Slots -> Page] /\ head \in Slots /\ tail \in Slots
    BY DEF IInv, RingInv, TypeOK
<1>1. CASE StorageInit \/ PeekRebuilds \/ AppendToBlankPage \/ AppendToUsedPage \/ Checkpoint \/ Flush \/ UNCHANGED vars
  <2>1. flash' = flash
    BY <1>1, Zenon DEF StorageInit, PeekRebuilds, AppendToBlankPage, AppendToUsedPage, Checkpoint, Flush, vars
  <2> QED BY <2>1 DEF Pending
<1>2. CASE EraseSector
  <2>1. flash' = [s \in Slots |-> IF s \in SectorOf(head) THEN Blank ELSE flash[s]]
    BY <1>2 DEF EraseSector
  <2> QED BY <2>1 DEF Pending, PendingIn, Blank
<1>3. CASE ProgramBody
  <2>1. flash' = [flash EXCEPT ![head] = [st |-> "body", order |-> nextOrder, rec |-> arrivals]]
    BY <1>3 DEF ProgramBody, IInv, HeadPage, HeadIsBlank
  <2>2. flash'[head].st = "body" /\ \A s \in Slots : s # head => flash'[s] = flash[s]
    BY <1>0, <2>1
  <2> QED BY <2>2 DEF Pending, PendingIn
<1>4. CASE Pop
  <2>1. TailPending /\ flash' = Delivered /\ RingInv
    BY <1>4 DEF Pop, Delivered, IInv
  <2>2. PendingIn(flash') = PendingIn(flash) \ {tail} /\ \A s \in Slots : s # tail => flash'[s] = flash[s]
    BY <2>1, PopPages
  <2> QED BY <2>2, ScanSets DEF Pending
<1>5. CASE PowerLoss
  <2>1. \A s \in Slots : flash'[s] = flash[s] \/ flash'[s].st \in {"blank", "garbage"}
    <3>1. CASE pc = "erase"
      BY <1>0, <1>5, <3>1, EraseCut DEF PowerLoss
    <3>2. CASE pc = "body" /\ flash' = [flash EXCEPT ![head] = Garbage]
      BY <1>0, <3>2 DEF Garbage
    <3>3. CASE flash' = flash
      BY <3>3
    <3> QED BY <1>5, <3>1, <3>2, <3>3 DEF PowerLoss, Interrupted
  <2> QED BY <2>1 DEF Pending, PendingIn
<1> QED BY <1>1, <1>2, <1>3, <1>4, <1>5 DEF Next

LEMMA CommitAdds ==
    ASSUME IInv, ProgramCommit
    PROVE  /\ Pending' = Pending \cup {head} /\ head \in Slots /\ head \notin Valid
           /\ flash'[head].st = "pending" /\ flash'[head].order = FreshOrder
           /\ flash'[head].rec = flash[head].rec
           /\ \A s \in Slots : s # head => flash'[s] = flash[s]
           /\ \A s \in Valid : s \in Slots /\ s # head /\ flash[s].order < FreshOrder
           /\ Valid' = Valid \cup {head}
<1>1. /\ flash \in [Slots -> Page] /\ head \in Slots /\ flash[head] \in Page
      /\ flash[head].st = "body" /\ flash[head].order = FreshOrder
      /\ \A s \in Valid : s \in Slots /\ flash[s].order < FreshOrder
    BY ScanSets DEF ProgramCommit, IInv, RingInv, TypeOK, HeadPage, OrdersBounded, Valid
<1>2. /\ flash'[head] = [flash[head] EXCEPT !.st = "pending"]
      /\ \A s \in Slots : s # head => flash'[s] = flash[s]
    BY <1>1 DEF ProgramCommit
<1>3. flash'[head].st = "pending" /\ flash'[head].order = FreshOrder /\ flash'[head].rec = flash[head].rec
    BY <1>1, <1>2, SMT DEF Page
<1>4. head \notin Valid /\ Pending' = Pending \cup {head} /\ Valid' = Valid \cup {head}
    BY <1>1, <1>2, <1>3 DEF Valid, Pending, ValidIn, PendingIn
<1> QED BY <1>1, <1>2, <1>3, <1>4

LEMMA OfferedGrows ==
    ASSUME IInv, [Next]_vars
    PROVE  /\ NewestOffered \in Nat /\ NewestOffered' \in Nat /\ NewestOffered <= NewestOffered'
           /\ ProgramCommit => NewestOffered' = arrivals /\ NewestOffered < arrivals
<1>1. IInv'
    BY NextInv
<1>2. /\ arrivals \in Nat /\ (AppendInProgress => arrivals > 0) /\ (pc # "idle" => ready)
      /\ NewestOffered \in Nat
    BY PagesInv DEF IInv, RingInv
<1>3. arrivals' \in Nat /\ (AppendInProgress' => arrivals' > 0)
    BY <1>1, BoundAssumption, SMT DEF IInv, RingInv, TypeOK
<1>4. NewestOffered' \in Nat
  <2>1. \A n \in Nat : n > 0 => n - 1 \in Nat
    OBVIOUS
  <2> QED BY <1>3, <2>1, Zenon DEF NewestOffered
<1>5. CASE AppendToBlankPage \/ AppendToUsedPage
  <2>1. pc = "idle" /\ pc' \in {"body", "erase"} /\ arrivals' = arrivals + 1
    BY <1>5 DEF AppendToBlankPage, AppendToUsedPage, StartAppend
  <2> QED BY <1>2, <1>4, <1>5, <2>1 DEF NewestOffered, AppendInProgress, ProgramCommit
<1>6. CASE ~(AppendToBlankPage \/ AppendToUsedPage)
  <2>1. arrivals' = arrivals
    BY <1>6 DEF Next, StorageInit, PeekRebuilds, EraseSector, ProgramBody, ProgramCommit, Checkpoint, Pop, Flush,
       PowerLoss, vars, ram
  <2>2. AppendInProgress' => AppendInProgress
    BY <1>2, <1>6 DEF Next, StorageInit, PeekRebuilds, EraseSector, ProgramBody, ProgramCommit, Checkpoint, Pop, Flush,
       PowerLoss, vars, ram, AppendInProgress
  <2>3. NewestOffered <= NewestOffered'
    BY <1>2, <2>1, <2>2 DEF NewestOffered
  <2>4. ProgramCommit => AppendInProgress /\ ~AppendInProgress'
    BY DEF ProgramCommit, AppendInProgress
  <2> QED BY <1>2, <1>4, <2>1, <2>3, <2>4 DEF NewestOffered
<1> QED BY <1>5, <1>6

-----------------------------------------------------------------------------
(* The ids of the records: storage_append gets them in ascending order, so *)
(* along the ring they ascend as the orders do.                            *)

Numbered ==
    /\ \A s \in Pending : flash[s].rec \in 1..NewestOffered
    /\ \A s, t \in Pending : flash[s].order < flash[t].order => flash[s].rec < flash[t].rec
    /\ pc = "commit" => flash[head].rec = arrivals

\* A step that adds no pending record leaves the numbers as they are.
LEMMA NumberedKept ==
    ASSUME Numbered, NewestOffered \in Nat, NewestOffered' \in Nat, NewestOffered <= NewestOffered',
           \A s \in Pending' : s \in Pending /\ flash'[s].order = flash[s].order /\ flash'[s].rec = flash[s].rec,
           (pc = "commit" => flash[head].rec = arrivals)'
    PROVE  Numbered'
<1>1. \A s \in Pending' : flash'[s].rec \in 1..NewestOffered'
    BY SMT DEF Numbered
<1>2. \A s, t \in Pending' : flash'[s].order < flash'[t].order => flash'[s].rec < flash'[t].rec
    BY DEF Numbered
<1> QED BY <1>1, <1>2 DEF Numbered

LEMMA NumberedStep == ASSUME IInv, Numbered, [Next]_vars PROVE Numbered'
<1>0. /\ flash \in [Slots -> Page] /\ head \in Slots /\ arrivals \in Nat
      /\ (AppendInProgress => arrivals > 0) /\ (pc # "idle" => ready)
      /\ NewestOffered \in Nat /\ NewestOffered' \in Nat /\ NewestOffered <= NewestOffered'
    BY PagesInv, OfferedGrows DEF IInv, RingInv, TypeOK
<1>1. CASE ~ProgramCommit
  <2>1. \A s \in Pending' : s \in Pending /\ flash'[s] = flash[s]
    BY <1>1, PendingKept
  <2>2. pc' = "commit" => flash'[head'].rec = arrivals'
    <3>1. CASE ProgramBody
      <4>1. flash' = [flash EXCEPT ![head] = [st |-> "body", order |-> nextOrder, rec |-> arrivals]]
        BY <3>1 DEF ProgramBody, IInv, HeadPage, HeadIsBlank
      <4>2. flash'[head].rec = arrivals
        BY <1>0, <4>1
      <4> QED BY <3>1, <4>2 DEF ProgramBody
    <3>2. CASE UNCHANGED vars
      BY <3>2 DEF vars, ram, Numbered
    <3>3. CASE ~ProgramBody /\ ~UNCHANGED vars
      BY <1>0, <1>1, <3>3 DEF Next, StorageInit, PeekRebuilds, AppendToBlankPage, AppendToUsedPage, EraseSector,
         Checkpoint, Pop, Flush, PowerLoss
    <3> QED BY <3>1, <3>2, <3>3
  <2> QED BY <1>0, <2>1, <2>2, NumberedKept
<1>2. CASE ProgramCommit
  <2>1. pc = "commit" /\ pc' \in {"checkpoint", "idle"} /\ ready
    BY <1>0, <1>2 DEF ProgramCommit
  <2>2. NewestOffered' = arrivals /\ NewestOffered = arrivals - 1 /\ arrivals > 0
    BY <1>0, <1>2, <2>1, OfferedGrows DEF NewestOffered, AppendInProgress
  <2>3. /\ flash'[head].rec = arrivals /\ flash'[head].order = FreshOrder
        /\ Pending' = Pending \cup {head} /\ \A s \in Pending : s # head /\ flash'[s] = flash[s]
        /\ \A s \in Pending : s \in Slots /\ flash[s].order < FreshOrder
    BY <1>2, <2>1, CommitAdds, ScanSets DEF Numbered, Valid, Pending
  <2>4. FreshOrder \in Int
    BY DEF IInv, RingInv, TypeOK, FreshOrder
  <2>5. \A s \in Pending : /\ flash[s].rec \in Nat /\ 1 <= flash[s].rec /\ flash[s].rec < arrivals
                           /\ flash[s].order \in Nat
    <3>1. \A s \in Pending : flash[s].rec \in 1..(arrivals - 1)
      BY <2>2 DEF Numbered
    <3> QED BY <1>0, <2>3, <3>1, PageFields
  <2>6. \A s \in Pending' : flash'[s].rec \in 1..NewestOffered'
    BY <1>0, <2>2, <2>3, <2>5
  <2>7. ASSUME NEW s \in Pending', NEW t \in Pending', flash'[s].order < flash'[t].order
        PROVE  flash'[s].rec < flash'[t].rec
    <3>1. CASE s \in Pending /\ t \in Pending
      BY <2>3, <2>7, <3>1 DEF Numbered
    <3>2. CASE s \in Pending /\ t = head
      BY <2>3, <2>5, <3>2
    <3>3. CASE s = head
      BY <2>3, <2>4, <2>5, <2>7, <3>3
    <3> QED BY <2>3, <3>1, <3>2, <3>3
  <2> QED BY <2>1, <2>6, <2>7 DEF Numbered
<1> QED BY <1>1, <1>2

-----------------------------------------------------------------------------
(* How many records are in question.                                       *)

Ids(S) == {flash[s].rec : s \in S}

\* Records on different slots have different ids.
LEMMA IdsDiffer ==
    ASSUME IInv, Numbered, NEW s \in Pending, NEW t \in Pending, s # t
    PROVE  flash[s].rec # flash[t].rec
<1>1. flash \in [Slots -> Page] /\ RingShape(flash) /\ s \in ValidIn(flash) /\ t \in ValidIn(flash)
    BY ScanSets DEF IInv, RingInv, TypeOK, Pending
<1>2. HeadOf(flash) \in Slots /\ SortedFrom(flash, HeadOf(flash))
    BY PagesInv, ScanInRing DEF IInv, RingInv, RingShape
<1>3. flash[s].order \in Nat /\ flash[t].order \in Nat /\ flash[s].rec \in Nat /\ flash[t].rec \in Nat
  <2>1. flash[s].rec \in 1..NewestOffered /\ flash[t].rec \in 1..NewestOffered
    BY DEF Numbered
  <2> QED BY <1>1, <2>1, ScanSets, PageFields, PagesInv
<1>4. flash[s].order < flash[t].order \/ flash[t].order < flash[s].order
  <2>1. flash[s].order <= flash[t].order \/ flash[t].order <= flash[s].order
    BY <1>3
  <2> QED BY <1>1, <1>2, <2>1, OrdersDiffer
<1> QED BY <1>3, <1>4 DEF Numbered

LEMMA IdsCount ==
    ASSUME IInv, Numbered, NEW S \in SUBSET Pending
    PROVE  IsFiniteSet(S) /\ Cardinality(S) \in Nat /\ Cardinality(Ids(S)) = Cardinality(S)
<1> DEFINE id == [s \in S |-> flash[s].rec]
<1>1. IsFiniteSet(S)
    BY ScanSets, FS_Subset, Zenon DEF Pending
<1>2. id \in [S -> Ids(S)] /\ \A r \in Ids(S) : \E s \in S : id[s] = r
    BY DEF Ids
<1>3. \A s, t \in S : id[s] = id[t] => s = t
    BY IdsDiffer
<1>4. ExistsBijection(S, Ids(S))
  <2>1. DOMAIN id = S
    OBVIOUS
  <2>2. IsInjective(id)
    BY <1>3, <2>1, Zenon DEF IsInjective
  <2>3. id \in Bijection(S, Ids(S))
    BY <1>2, <2>2, Zenon DEF Bijection, Injection, Surjection
  <2> QED BY <2>3, Zenon DEF ExistsBijection
<1> QED BY <1>1, <1>4, FS_Bijection, FS_CardinalityType

\* A sector has at most SectorSlots slots.
LEMMA Multiple == ASSUME NEW a \in Nat, NEW S \in Nat \ {0} PROVE (S * a) % S = 0
BY SMT

LEMMA SectorBase ==
    ASSUME NEW a \in Nat, NEW S \in Nat \ {0}
    PROVE  \E b \in Nat : b <= a /\ a < b + S /\ b % S = 0 /\ (b + S) % S = 0
<1> DEFINE q == a \div S
<1>1. a = S * q + (a % S) /\ a % S \in Nat /\ a % S < S /\ a % S <= a
    BY SMT
<1>2. q \in Nat
    BY SMT
<1> HIDE DEF q
<1>3. (S * q) % S = 0 /\ (S * (q + 1)) % S = 0
  <2>1. q + 1 \in Nat
    BY <1>2
  <2> QED BY <1>2, <2>1, Multiple
<1>4. S * (q + 1) = S * q + S /\ S * q \in Nat
    BY <1>2, SMT
<1> QED BY <1>1, <1>3, <1>4

LEMMA SectorSize ==
    ASSUME NEW h \in Slots
    PROVE  IsFiniteSet(SectorOf(h)) /\ Cardinality(SectorOf(h)) \in Nat /\ Cardinality(SectorOf(h)) <= SectorSlots
<1>1. h \in Nat /\ h < SlotCount /\ SlotCount \in Nat /\ SectorSlots \in Nat \ {0}
    BY RingArithmetic, SlotOrder
<1>2. PICK b \in Nat : b <= h /\ h < b + SectorSlots /\ b % SectorSlots = 0 /\ (b + SectorSlots) % SectorSlots = 0
    BY <1>1, SectorBase
<1> DEFINE e == b + SectorSlots
           I == b..(e - 1)
<1>3. b \in SectorStarts
    BY <1>1, <1>2 DEF SectorStarts, Slots
<1>4. SectorOf(h) \subseteq I
  <2> SUFFICES ASSUME NEW t \in SectorOf(h) PROVE t \in I
    OBVIOUS
  <2>1. t \in Nat /\ t < SlotCount
    BY SectorGeometry, SlotOrder
  <2>2. b <= t
    BY <1>2, <1>3 DEF SectorOf
  <2>3. t < e
    <3>1. CASE e \in Slots
      <4>1. e \in SectorStarts
        BY <1>2, <3>1 DEF SectorStarts
      <4>2. e <= t <=> e <= h
        BY <4>1 DEF SectorOf
      <4> QED BY <1>1, <1>2, <2>1, <4>2
    <3>2. CASE e \notin Slots
      BY <1>1, <1>2, <2>1, <3>2 DEF Slots
    <3> QED BY <3>1, <3>2
  <2> QED BY <1>1, <2>1, <2>2, <2>3
<1>5. IsFiniteSet(I) /\ Cardinality(I) = SectorSlots
  <2>1. b \in Int /\ e - 1 \in Int /\ ~(b > e - 1) /\ e - 1 - b + 1 = SectorSlots
    BY <1>1
  <2> QED BY <2>1, FS_Interval
<1>6. SectorOf(h) \in SUBSET I
    BY <1>4
<1>7. IsFiniteSet(SectorOf(h)) /\ Cardinality(SectorOf(h)) <= Cardinality(I)
    BY <1>5, <1>6, FS_Subset
<1> QED BY <1>5, <1>7, FS_CardinalityType

-----------------------------------------------------------------------------
(* Every step of the ring is a step of the abstract queue, or none.        *)

Abstract == <<WaitingRecords, popped, NewestOffered>>

PromiseStep == Promise!Next \/ (crashes' > 0 /\ Promise!Lose)

\* StoreForward counts as FlashQueue does.
LEMMA SameCardinality == \A S : Promise!Cardinality(S) = Cardinality(S)
BY Zenon DEF Promise!Cardinality, Cardinality

\* What the steps that destroy records of the head's sector have in common.
LEMMA Discarded ==
    ASSUME IInv, Numbered, NEW S, S \subseteq Pending \cap SectorOf(head), S # {},
           Pending' = Pending \ S, \A s \in Pending' : flash'[s] = flash[s], popped' = popped
    PROVE  Ids(S) \in SUBSET WaitingRecords /\ Promise!Discard(Ids(S))
<1>1. head \in Slots /\ SectorSlots \in Nat
    BY RingArithmetic DEF IInv, RingInv, TypeOK
<1>2. Ids(S) \in SUBSET WaitingRecords /\ Ids(S) # {}
    BY DEF Ids, WaitingRecords
<1>3. Cardinality(Ids(S)) <= SectorSlots
  <2>1. IsFiniteSet(SectorOf(head)) /\ Cardinality(SectorOf(head)) \in Nat /\ Cardinality(SectorOf(head)) <= SectorSlots
    BY <1>1, SectorSize
  <2>2. S \in SUBSET SectorOf(head) /\ S \in SUBSET Pending
    OBVIOUS
  <2>3. Cardinality(S) <= Cardinality(SectorOf(head))
    BY <2>1, <2>2, FS_Subset
  <2>4. Cardinality(S) \in Nat /\ Cardinality(Ids(S)) = Cardinality(S)
    BY <2>2, IdsCount
  <2> QED BY <1>1, <2>1, <2>3, <2>4
<1>4. WaitingRecords' = WaitingRecords \ Ids(S)
  <2>1. WaitingRecords' = {flash[s].rec : s \in Pending \ S}
    BY DEF WaitingRecords
  <2>2. \A s \in Pending \ S : flash[s].rec \notin Ids(S)
    BY IdsDiffer DEF Ids
  <2> QED BY <2>1, <2>2 DEF WaitingRecords, Ids
<1> QED BY <1>2, <1>3, <1>4, SameCardinality DEF Promise!Discard

\* A full ring gives up its oldest records: the head is at the start of its
\* sector, so everything elsewhere is newer and, the ring being full and in
\* order, pending.
LEMMA FullGivesOldest ==
    ASSUME IInv, Ordered, Numbered, ready, Full(flash, head), Pending \cap SectorOf(head) # {}
    PROVE  /\ Cardinality(WaitingRecords) > SlotCount - SectorSlots
           /\ Promise!AreOldest(Ids(Pending \cap SectorOf(head)))
<1> DEFINE S == Pending \cap SectorOf(head)
<1>1. /\ flash \in [Slots -> Page] /\ head \in Slots /\ SortedFrom(flash, head) /\ head \in SectorStarts
      /\ SectorSlots \in Nat /\ SlotCount \in Nat
    BY RingArithmetic DEF IInv, RingInv, TypeOK, HeadPage, RingShape, Full
<1>2. Pending \subseteq Slots /\ IsFiniteSet(Pending) /\ Cardinality(Pending) \in Nat
    BY ScanSets DEF Pending
<1>3. Slots \ SectorOf(head) = Pending \ SectorOf(head)
  <2>1. Valid \ SectorOf(head) \subseteq Pending
    BY <1>1, NothingDeliveredElsewhere
  <2> QED BY <1>2, <2>1 DEF Full, Valid
<1>4. Cardinality(WaitingRecords) > SlotCount - SectorSlots
  <2>1. WaitingRecords = Ids(Pending)
    BY DEF WaitingRecords, Ids
  <2>2. Cardinality(WaitingRecords) = Cardinality(Pending)
    BY <2>1, IdsCount
  <2>3. IsFiniteSet(Slots) /\ Cardinality(Slots) = SlotCount
    <3>1. 0 \in Int /\ SlotCount - 1 \in Int /\ ~(0 > SlotCount - 1) /\ SlotCount - 1 - 0 + 1 = SlotCount
      BY RingArithmetic
    <3> QED BY <3>1, FS_Interval DEF Slots
  <2>4. IsFiniteSet(SectorOf(head)) /\ Cardinality(SectorOf(head)) \in Nat /\ Cardinality(SectorOf(head)) <= SectorSlots
    BY <1>1, SectorSize
  <2>5. Cardinality(Slots \ SectorOf(head)) = SlotCount - Cardinality(SectorOf(head))
    <3>1. Slots \cap SectorOf(head) = SectorOf(head)
      BY <1>1, SectorGeometry
    <3>2. Cardinality(Slots \ SectorOf(head)) = Cardinality(Slots) - Cardinality(Slots \cap SectorOf(head))
      BY <2>3, FS_Difference
    <3> QED BY <2>3, <3>1, <3>2
  <2>6. Cardinality(Pending \ SectorOf(head)) = Cardinality(Pending) - Cardinality(S)
    BY <1>2, FS_Difference
  <2>7. Cardinality(S) \in Nat /\ Cardinality(S) # 0
    <3>1. IsFiniteSet(S)
      BY <1>2, FS_Subset, Zenon
    <3> QED BY <3>1, FS_EmptySet, FS_CardinalityType
  <2>8. Cardinality(Pending) = SlotCount - Cardinality(SectorOf(head)) + Cardinality(S)
    <3>1. SlotCount - Cardinality(SectorOf(head)) = Cardinality(Pending) - Cardinality(S)
      BY <1>3, <2>5, <2>6, Zenon
    <3> QED BY <1>1, <1>2, <2>4, <2>7, <3>1
  <2>9. SlotCount - Cardinality(SectorOf(head)) + Cardinality(S) > SlotCount - SectorSlots
    BY <1>1, <2>4, <2>7
  <2> QED BY <2>2, <2>8, <2>9
<1>5. ASSUME NEW r \in Ids(S), NEW q \in WaitingRecords \ Ids(S) PROVE r < q
  <2>1. PICK s \in S : r = flash[s].rec
    BY DEF Ids
  <2>2. PICK u \in Pending : q = flash[u].rec
    BY DEF WaitingRecords
  <2>3. u \notin SectorOf(head) /\ s \in SectorOf(head) /\ s \in Pending
    BY <1>5, <2>1, <2>2 DEF Ids
  <2>4. head <= s
    BY <1>1, <2>3, StartIsFirst
  <2>5. s \in Slots /\ u \in Slots /\ ~(head <= u /\ u <= s)
    BY <1>1, <1>2, <2>2, <2>3, SectorGeometry
  <2>6. Offset(head, s) < Offset(head, u)
    BY <1>1, <2>4, <2>5, GeometryAssumption, SMT DEF Offset, Slots
  <2>7. flash[s].order < flash[u].order
    BY <1>1, <2>2, <2>3, <2>6, ScanSets DEF SortedFrom, Pending
  <2> QED BY <2>1, <2>2, <2>3, <2>7 DEF Numbered
<1>6. Promise!AreOldest(Ids(S))
    BY <1>5 DEF Promise!AreOldest
<1> QED BY <1>4, <1>6

LEMMA ErasePromised == ASSUME IInv, Ordered, Tidy, Numbered, EraseSector PROVE [PromiseStep]_Abstract
<1> DEFINE S == Pending \cap SectorOf(head)
<1>1. /\ pc = "erase" /\ pc' = "body" /\ arrivals' = arrivals /\ popped' = popped /\ crashes' = crashes /\ ready
      /\ flash' = [s \in Slots |-> IF s \in SectorOf(head) THEN Blank ELSE flash[s]]
      /\ head = HeadOf(flash) /\ flash[head].st # "blank" /\ crashes \in Nat /\ NewestOffered \in Nat
    BY PagesInv, BoundAssumption DEF EraseSector, IInv, RingInv, HeadPage, Tidy, TypeOK
<1>2. NewestOffered' = NewestOffered
    BY <1>1 DEF NewestOffered, AppendInProgress
<1>3. Pending' = Pending \ S /\ \A s \in Pending' : flash'[s] = flash[s]
    BY <1>1 DEF Pending, PendingIn, Blank
<1>4. CASE S = {}
  <2>1. WaitingRecords' = WaitingRecords
    BY <1>3, <1>4 DEF WaitingRecords
  <2> QED BY <1>1, <1>2, <2>1 DEF Abstract
<1>5. CASE S # {}
  <2>1. Ids(S) \in SUBSET WaitingRecords /\ Promise!Discard(Ids(S))
    BY <1>1, <1>3, <1>5, Discarded
  <2>2. CASE crashes = 0
    <3>1. Full(flash, head)
      BY <1>1, <2>2 DEF Tidy, Gapless, Room
    <3>2. Cardinality(WaitingRecords) > SlotCount - SectorSlots /\ Promise!AreOldest(Ids(S))
      BY <1>1, <1>5, <3>1, FullGivesOldest
    <3>3. Promise!Reclaim
      BY <1>2, <2>1, <3>2, SameCardinality DEF Promise!Reclaim
    <3> QED BY <3>3 DEF PromiseStep, Promise!Next
  <2>3. CASE crashes # 0
    <3>1. crashes' > 0
      BY <1>1, <2>3
    <3>2. NewestOffered' \in NewestOffered..MaxRecords
      <4>1. NewestOffered <= MaxRecords /\ MaxRecords \in Nat
        BY <1>1, BoundAssumption DEF IInv, RingInv, TypeOK, NewestOffered, AppendInProgress
      <4> QED BY <1>1, <1>2, <4>1
    <3>3. Promise!Lose
      BY <2>1, <3>2 DEF Promise!Lose
    <3> QED BY <3>1, <3>3 DEF PromiseStep
  <2> QED BY <2>2, <2>3
<1> QED BY <1>4, <1>5

LEMMA CommitPromised == ASSUME IInv, Numbered, ProgramCommit PROVE [PromiseStep]_Abstract
<1>1. /\ pc = "commit" /\ pc' \in {"checkpoint", "idle"} /\ arrivals' = arrivals /\ popped' = popped /\ ready
      /\ flash' = [flash EXCEPT ![head].st = IF @ = "body" THEN "pending" ELSE @]
      /\ flash \in [Slots -> Page] /\ head \in Slots /\ flash[head].st = "body" /\ flash[head].rec = arrivals
      /\ arrivals \in Nat /\ arrivals <= MaxRecords /\ MaxRecords \in Nat
    BY BoundAssumption DEF IInv, RingInv, TypeOK, HeadPage, Numbered, ProgramCommit
<1>2. NewestOffered = arrivals - 1 /\ NewestOffered' = arrivals
    BY <1>1 DEF NewestOffered, AppendInProgress
<1>3. flash'[head].st = "pending" /\ flash'[head].rec = arrivals /\ \A s \in Slots : s # head => flash'[s] = flash[s]
  <2>1. flash[head] \in Page /\ flash'[head] = [flash[head] EXCEPT !.st = "pending"]
    BY <1>1
  <2>2. flash'[head].st = "pending" /\ flash'[head].rec = flash[head].rec
    BY <2>1, SMT DEF Page
  <2> QED BY <1>1, <2>2
<1>4. Pending' = Pending \cup {head} /\ \A s \in Pending : flash'[s] = flash[s]
    BY <1>1, <1>3 DEF Pending, PendingIn
<1>5. WaitingRecords' = WaitingRecords \cup {arrivals}
    BY <1>3, <1>4 DEF WaitingRecords
<1>6. arrivals \in (arrivals - 1 + 1)..MaxRecords
    BY <1>1
<1>7. Promise!Accept
    BY <1>1, <1>2, <1>5, <1>6 DEF Promise!Accept
<1> QED BY <1>7 DEF PromiseStep, Promise!Next

LEMMA PopPromised == ASSUME IInv, Ordered, Numbered, Pop PROVE [PromiseStep]_Abstract
<1> DEFINE r == flash[tail].rec
<1>1. /\ pc = "idle" /\ pc' \in {"checkpoint", "idle"} /\ arrivals' = arrivals /\ popped' = popped \cup {r} /\ ready
      /\ flash' = [flash EXCEPT ![tail].st = "delivered"] /\ flash[tail].st = "pending"
      /\ flash \in [Slots -> Page] /\ tail \in Slots /\ head \in Slots /\ SortedFrom(flash, head)
    BY DEF Pop, TailPending, IInv, RingInv, TypeOK, HeadPage, RingShape
<1>2. NewestOffered' = NewestOffered
    BY <1>1 DEF NewestOffered, AppendInProgress
<1>3. flash'[tail].st = "delivered" /\ \A s \in Slots : s # tail => flash'[s] = flash[s]
  <2>1. flash[tail] \in Page /\ flash'[tail] = [flash[tail] EXCEPT !.st = "delivered"]
    BY <1>1
  <2>2. flash'[tail].st = "delivered"
    BY <2>1, SMT DEF Page
  <2> QED BY <1>1, <2>2
<1>4. Pending' = Pending \ {tail} /\ tail \in Pending /\ \A s \in Pending' : flash'[s] = flash[s]
    BY <1>1, <1>3 DEF Pending, PendingIn
<1>5. r \in WaitingRecords /\ WaitingRecords' = WaitingRecords \ {r}
  <2>1. WaitingRecords' = {flash[s].rec : s \in Pending \ {tail}}
    BY <1>4 DEF WaitingRecords
  <2>2. \A s \in Pending \ {tail} : flash[s].rec # r
    BY <1>4, IdsDiffer
  <2> QED BY <1>4, <2>1, <2>2 DEF WaitingRecords
<1>6. ASSUME NEW q \in WaitingRecords \ {r} PROVE r < q
  <2>1. PICK u \in Pending : q = flash[u].rec
    BY DEF WaitingRecords
  <2>2. u # tail /\ u \in ValidIn(flash) /\ tail \in ValidIn(flash)
    BY <1>4, <1>6, <2>1, ScanSets DEF Pending
  <2>3. flash[tail].order <= flash[u].order
    BY <1>1, <2>1 DEF Ordered, Aligned, TailDue, Pending
  <2>4. flash[tail].order < flash[u].order
    BY <1>1, <2>2, <2>3, OrdersDiffer
  <2> QED BY <1>4, <2>1, <2>4 DEF Numbered
<1>7. Promise!AreOldest({r})
    BY <1>6 DEF Promise!AreOldest
<1>8. Promise!Deliver
    BY <1>1, <1>2, <1>5, <1>7 DEF Promise!Deliver
<1> QED BY <1>8 DEF PromiseStep, Promise!Next

\* A torn erase loses records of one sector; a torn append, the record.
LEMMA PowerLossPromised == ASSUME IInv, Numbered, PowerLoss PROVE [PromiseStep]_Abstract
<1>1. /\ pc' = "idle" /\ arrivals' = arrivals /\ popped' = popped /\ crashes' = crashes + 1 /\ flash' \in Interrupted
      /\ flash \in [Slots -> Page] /\ head \in Slots /\ arrivals \in Nat /\ arrivals <= MaxRecords /\ MaxRecords \in Nat
      /\ crashes \in Nat /\ crashes' > 0 /\ NewestOffered \in Nat
    BY BoundAssumption, PagesInv DEF IInv, RingInv, TypeOK, PowerLoss
<1>2. /\ NewestOffered' = arrivals
      /\ NewestOffered = arrivals \/ NewestOffered = arrivals - 1
    BY <1>1 DEF NewestOffered, AppendInProgress
<1>3. NewestOffered' = NewestOffered \/ NewestOffered' \in (NewestOffered + 1)..MaxRecords
    BY <1>1, <1>2
<1>4. ASSUME WaitingRecords' = WaitingRecords PROVE [PromiseStep]_Abstract
  <2>1. NewestOffered' = NewestOffered \/ Promise!Refuse
    BY <1>1, <1>3, <1>4 DEF Promise!Refuse
  <2> QED BY <1>1, <1>4, <2>1 DEF PromiseStep, Promise!Next, Abstract
<1>5. CASE pc = "erase"
  <2>1. PICK left \in [SectorOf(head) -> {"kept", "blank", "garbage"}] :
             flash' = [s \in Slots |-> IF s \in SectorOf(head)
                                       THEN LeftOf(flash[s], left[s]) ELSE flash[s]]
    BY <1>1, <1>5 DEF Interrupted
  <2>2. /\ \A s \in Slots : flash'[s] = flash[s] \/ flash'[s].st \in {"blank", "garbage"}
        /\ \A s \in Slots \ SectorOf(head) : flash'[s] = flash[s]
    BY <2>1 DEF LeftOf, Blank, Garbage
  <2> DEFINE S == Pending \ Pending'
  <2>3. /\ Pending' \subseteq Pending /\ S \subseteq Pending \cap SectorOf(head)
        /\ Pending' = Pending \ S /\ \A s \in Pending' : flash'[s] = flash[s]
    BY <2>2 DEF Pending, PendingIn
  <2>4. CASE S = {}
    <3>1. WaitingRecords' = WaitingRecords
      BY <2>3, <2>4 DEF WaitingRecords
    <3> QED BY <1>4, <3>1
  <2>5. CASE S # {}
    <3>1. Ids(S) \in SUBSET WaitingRecords /\ Promise!Discard(Ids(S))
      BY <1>1, <2>3, <2>5, Discarded
    <3>2. NewestOffered' \in NewestOffered..MaxRecords
      BY <1>1, <1>2
    <3>3. Promise!Lose
      BY <3>1, <3>2 DEF Promise!Lose
    <3> QED BY <1>1, <3>3 DEF PromiseStep
  <2> QED BY <2>4, <2>5
<1>6. CASE pc = "body" /\ flash' = [flash EXCEPT ![head] = Garbage]
  <2>1. flash[head].st = "blank" /\ flash'[head].st = "garbage" /\ \A s \in Slots : s # head => flash'[s] = flash[s]
    BY <1>1, <1>6 DEF IInv, RingInv, HeadPage, HeadIsBlank, Garbage
  <2>2. Pending' = Pending /\ \A s \in Pending : flash'[s] = flash[s]
    BY <2>1 DEF Pending, PendingIn
  <2>3. WaitingRecords' = WaitingRecords
    BY <2>2 DEF WaitingRecords
  <2> QED BY <1>4, <2>3
<1>7. CASE flash' = flash
  <2>1. WaitingRecords' = WaitingRecords
    BY <1>7 DEF WaitingRecords, Pending
  <2> QED BY <1>4, <2>1
<1> QED BY <1>1, <1>5, <1>6, <1>7 DEF Interrupted

\* The other steps move no record.
LEMMA NextPromised == ASSUME IInv, Ordered, Tidy, Numbered, [Next]_vars PROVE [PromiseStep]_Abstract
<1>0. (pc # "idle" => ready) /\ arrivals \in Nat
    BY PagesInv DEF IInv, RingInv
<1>1. CASE StorageInit \/ PeekRebuilds \/ AppendToBlankPage \/ AppendToUsedPage \/ Checkpoint \/ Flush \/ UNCHANGED vars
  <2>1. flash' = flash /\ popped' = popped
    BY <1>1 DEF StorageInit, PeekRebuilds, AppendToBlankPage, AppendToUsedPage, Checkpoint, Flush, vars
  <2>2. NewestOffered' = NewestOffered
    <3>1. CASE UNCHANGED vars
      BY <3>1 DEF vars, NewestOffered, AppendInProgress
    <3>2. CASE ~UNCHANGED vars
      BY <1>0, <1>1, <3>2 DEF StorageInit, PeekRebuilds, AppendToBlankPage, AppendToUsedPage, StartAppend, Checkpoint,
         Flush, NewestOffered, AppendInProgress
    <3> QED BY <3>1, <3>2
  <2>3. WaitingRecords' = WaitingRecords
    BY <2>1 DEF WaitingRecords, Pending
  <2> QED BY <2>1, <2>2, <2>3 DEF Abstract
<1>2. CASE ProgramBody
  <2>1. /\ flash' = [flash EXCEPT ![head] = [st |-> "body", order |-> nextOrder, rec |-> arrivals]]
        /\ pc = "body" /\ pc' = "commit" /\ arrivals' = arrivals /\ popped' = popped
        /\ flash \in [Slots -> Page] /\ head \in Slots /\ flash[head].st = "blank"
    BY <1>2 DEF ProgramBody, IInv, RingInv, TypeOK, HeadPage, HeadIsBlank
  <2>2. NewestOffered' = NewestOffered
    BY <2>1 DEF NewestOffered, AppendInProgress
  <2>3. flash'[head].st = "body" /\ \A s \in Slots : s # head => flash'[s] = flash[s]
    BY <2>1
  <2>4. Pending' = Pending /\ \A s \in Pending : flash'[s] = flash[s]
    BY <2>1, <2>3 DEF Pending, PendingIn
  <2>5. WaitingRecords' = WaitingRecords
    BY <2>4 DEF WaitingRecords
  <2> QED BY <2>1, <2>2, <2>5 DEF Abstract
<1> QED BY <1>1, <1>2, ErasePromised, CommitPromised, PopPromised, PowerLossPromised DEF Next

LEMMA InitPromised == ASSUME Init PROVE Promise!Init /\ Numbered
<1>1. Pending = {} /\ NewestOffered = 0 /\ pc = "idle" /\ popped = {}
  <2>1. \A s \in Slots : flash[s].st # "pending"
    BY DEF Init, Blank
  <2> QED BY <2>1 DEF Init, NewestOffered, AppendInProgress, Pending, PendingIn
<1>2. WaitingRecords = {}
    BY <1>1 DEF WaitingRecords
<1> QED BY <1>1, <1>2 DEF Promise!Init, Numbered

\* Once its first sector was filled, the flash queue (src/storage.cpp) is a
\* queue: first in, first out; until the first power loss only a full queue
\* gives up records, its oldest ones, and a power loss costs at most a sector
\* of records and takes the drop counter back to the last checkpoint.
THEOREM PromiseKept ==
    ASSUME PriorRecords >= SectorSlots
    PROVE  Spec => KeepsPromise
<1>1. Init => IInv /\ Ordered /\ Tidy /\ Numbered /\ Promise!Init
    BY InitInv, InitOrdered, InitTidy, InitPromised
<1>2. IInv /\ Ordered /\ Tidy /\ Numbered /\ [Next]_vars => (IInv /\ Ordered /\ Tidy /\ Numbered)'
    BY NextInv, NextOrdered, NextTidy, NumberedStep
<1>3. IInv /\ Ordered /\ Tidy /\ Numbered /\ [Next]_vars
         => [Promise!Next \/ (crashes' > 0 /\ Promise!Lose)]_<<WaitingRecords, popped, NewestOffered>>
    BY NextPromised DEF PromiseStep, Abstract
<1> QED BY <1>1, <1>2, <1>3, CounterImplemented, PTL DEF Spec, KeepsPromise

-----------------------------------------------------------------------------
(***************************************************************************)
(* Commands that time out (FlashFaults).  While every erase ends in time   *)
(* the queue is in one of three modes: its bookkeeping is exact; a pop was *)
(* told that it failed, so that the tail rests on a delivered record until *)
(* the next scan; or the record at the head is on flash although its       *)
(* append failed, and the RAM describes the ring without it.               *)
(***************************************************************************)

Exact == IInv /\ Ordered

LatePop ==
    /\ RingInv /\ HeadPage /\ Aligned /\ ready
    /\ pc # "erase" => flash[tail].st = "delivered" /\ Cardinality(Pending) <= count

\* The pages as the RAM knows them when a commit ended late.
Undone == [flash EXCEPT ![head] = Garbage]

TailKnown ==
    \/ flash[tail].st = "delivered" /\ Cardinality(Pending \ {head}) <= count
    \/ TailDue(flash, head, tail) /\ Cardinality(Pending \ {head}) = count

LateCommit ==
    /\ RingInv /\ Aligned /\ ready /\ pc \notin {"body", "commit"}
    /\ flash[head].st = "pending" /\ HeadOf(flash) = Succ(head)
    /\ RingShape(Undone) /\ SealedBefore(Undone, head) /\ HeadOf(Undone) = head
    /\ pc # "erase" => TailKnown

FaultInv == eraseLate \/ Exact \/ LatePop \/ LateCommit

\* The mode is told by the state of the queue alone.
LEMMA SameMode ==
    ASSUME flash' = flash, ready' = ready, head' = head, tail' = tail, count' = count
    PROVE  /\ Aligned => Aligned'
           /\ TailDue(flash, head, tail) => TailDue(flash, head, tail)'
           /\ TailKnown => TailKnown'
           /\ Undone' = Undone /\ Pending' = Pending
BY DEF Aligned, TailKnown, Undone, Pending

\* A scan makes the bookkeeping exact again, whatever the mode was.
LEMMA ScanExact ==
    ASSUME RingInv, Aligned, StorageInit \/ PeekRebuilds
    PROVE  Exact'
<1>1. flash' = flash /\ RebuildFrom(flash) /\ flash \in [Slots -> Page]
    BY DEF StorageInit, PeekRebuilds, RingInv, TypeOK
<1>2. TailDue(flash, HeadOf(flash), TailOf(flash))
    BY <1>1, ScanFindsTail DEF Aligned
<1> QED BY <1>1, <1>2, ScanStep DEF Exact, Ordered, Aligned, RebuildFrom

\* So does a reclaim.
LEMMA EraseExact ==
    ASSUME RingInv, HeadPage, Aligned, EraseSector
    PROVE  Exact'
<1>1. /\ TypeOK /\ ready /\ arrivals > 0 /\ RingShape(flash) /\ head = HeadOf(flash)
      /\ SealedBefore(flash, HeadOf(flash)) /\ InOrder(flash)
    BY DEF RingInv, HeadPage, AppendInProgress, EraseSector, Aligned
<1>2. PagesBelow(flash, PriorRecords + NewestOffered)
    BY PagesInv
<1> QED BY <1>1, <1>2, EraseStep, EraseOrdered DEF Exact

LEMMA PowerLossExact ==
    ASSUME RingInv, HeadPage, Aligned, PowerLoss
    PROVE  Exact'
<1>1. pc = "erase" => RingShape(flash')
    BY EraseCutLoss, PagesInv, Loss DEF RingInv, PowerLoss
<1> QED BY <1>1, PowerLossStep, PowerLossOrdered DEF HeadPage, Exact

-----------------------------------------------------------------------------
(* A pop that was told it failed.                                          *)

\* The steps of the queue among those of FaultNext.
TimelyNext ==
    \/ StorageInit
    \/ AppendToBlankPage \/ AppendToUsedPage
    \/ EraseSector \/ ProgramBody \/ ProgramCommit \/ Checkpoint
    \/ TimelyPop \/ PeekRebuilds \/ Flush
    \/ PowerLoss

LEMMA LatePopQueueStep ==
    ASSUME LatePop, TimelyNext
    PROVE  Exact' \/ LatePop'
<1>0. /\ RingInv /\ HeadPage /\ Aligned /\ ready
      /\ pc # "erase" => flash[tail].st = "delivered" /\ Cardinality(Pending) <= count
    BY DEF LatePop
<1>1. CASE StorageInit \/ PeekRebuilds
    BY <1>0, <1>1, ScanExact
<1>2. CASE AppendToBlankPage \/ AppendToUsedPage
  <2>1. RingInv' /\ HeadPage'
    BY <1>0, <1>2, StartStep
  <2>2. /\ flash' = flash /\ ready' = ready /\ head' = head /\ tail' = tail
        /\ pc = "idle" /\ (pc' = "erase" \/ count' = count)
    BY <1>2 DEF AppendToBlankPage, AppendToUsedPage, StartAppend, ram
  <2> QED BY <1>0, <2>1, <2>2 DEF LatePop, Aligned, Pending
<1>3. CASE EraseSector
    BY <1>0, <1>3, EraseExact
<1>4. CASE ProgramBody
  <2>1. RingInv' /\ HeadPage' /\ Aligned'
    BY <1>0, <1>4, BodyStep, BodyOrdered
  <2>2. /\ pc = "body" /\ ready' = ready /\ tail' = tail /\ count' = count
        /\ flash[head].st = "blank"
        /\ flash' = [flash EXCEPT ![head] = [st |-> "body", order |-> nextOrder, rec |-> arrivals]]
    BY <1>0, <1>4 DEF ProgramBody, HeadPage, HeadIsBlank
  <2>3. flash \in [Slots -> Page] /\ head \in Slots /\ tail \in Slots
    BY <1>0 DEF RingInv, TypeOK
  <2>4. PendingIn(flash') = PendingIn(flash) /\ flash'[tail] = flash[tail]
    BY <1>0, <2>2, <2>3 DEF PendingIn
  <2> QED BY <1>0, <2>1, <2>2, <2>4 DEF LatePop, Pending
<1>5. CASE ProgramCommit
  <2>1. RingInv' /\ HeadPage' /\ Aligned'
    BY <1>0, <1>5, CommitStep, CommitOrdered
  <2>2. /\ pc = "commit" /\ ready' = ready /\ tail' = tail /\ count' = count + 1
        /\ flash[head].st = "body"
        /\ flash' = [flash EXCEPT ![head].st = IF @ = "body" THEN "pending" ELSE @]
    BY <1>0, <1>5 DEF ProgramCommit, HeadPage
  <2>3. flash \in [Slots -> Page] /\ head \in Slots /\ tail \in Slots /\ count \in Nat
    BY <1>0 DEF RingInv, TypeOK
  <2>4. flash[head] \in Page /\ \A s \in Slots : s # head => flash'[s] = flash[s]
    BY <2>2, <2>3
  <2>5. flash'[head].st = "pending"
    BY <2>2, <2>3, <2>4, SMT DEF Page
  <2>6. PendingIn(flash') = PendingIn(flash) \cup {head} /\ head \notin PendingIn(flash)
    BY <2>2, <2>3, <2>4, <2>5 DEF PendingIn
  <2>7. Cardinality(PendingIn(flash')) <= count + 1
    <3>1. Cardinality(PendingIn(flash')) = Cardinality(PendingIn(flash)) + 1
      BY <1>0, <1>5, CommitPages DEF ProgramCommit, Committed
    <3>2. Cardinality(PendingIn(flash)) \in Nat /\ Cardinality(PendingIn(flash)) <= count
      BY <1>0, <2>2, ScanSets DEF Pending
    <3> QED BY <2>3, <3>1, <3>2
  <2>8. flash'[tail].st = "delivered"
    BY <1>0, <2>2, <2>3, <2>4
  <2> QED BY <1>0, <2>1, <2>2, <2>7, <2>8 DEF LatePop, Pending
<1>6. CASE Checkpoint \/ Flush
  <2>1. RingInv' /\ HeadPage'
    BY <1>0, <1>6, CheckpointStep
  <2>2. /\ flash' = flash /\ ready' = ready /\ head' = head /\ tail' = tail
        /\ pc # "erase" /\ count' = count
    BY <1>6 DEF Checkpoint, Flush, ram
  <2> QED BY <1>0, <2>1, <2>2 DEF LatePop, Aligned, Pending
<1>7. CASE TimelyPop
    BY <1>0, <1>7 DEF TimelyPop, Pop, TailPending
<1>8. CASE PowerLoss
    BY <1>0, <1>8, PowerLossExact
<1> QED BY <1>1, <1>2, <1>3, <1>4, <1>5, <1>6, <1>7, <1>8 DEF TimelyNext

-----------------------------------------------------------------------------
(* A record body that times out: its page is spoilt or not, its order is   *)
(* used up.                                                                *)

LEMMA BodyLate ==
    ASSUME RingInv, HeadPage, Aligned, BodyTimesOut
    PROVE  /\ RingInv' /\ HeadPage' /\ Aligned' /\ Pending' = Pending
           /\ TailDue(flash, head, tail) => TailDue(flash, head, tail)'
           /\ flash[tail].st = "delivered" => flash'[tail].st = "delivered"
<1> DEFINE body == [st |-> "body", order |-> nextOrder, rec |-> arrivals]
<1>1. /\ pc = "body" /\ pc' = "idle" /\ ready /\ ready' = ready
      /\ nextOrder' = nextOrder + 1
      /\ saved' = saved /\ erased' = erased /\ head' = head /\ tail' = tail
      /\ count' = count /\ dropped' = dropped /\ sinceCheckpoint' = sinceCheckpoint
      /\ arrivals' = arrivals /\ popped' = popped /\ crashes' = crashes
      /\ flash' \in {flash, [flash EXCEPT ![head] = Garbage], [flash EXCEPT ![head] = body]}
    BY DEF BodyTimesOut, TimesOut, Interrupted, RingInv
<1>2. /\ flash \in [Slots -> Page] /\ head \in Slots /\ tail \in Slots /\ arrivals \in Nat
      /\ nextOrder \in Nat \ {0} /\ HeadIsBlank /\ flash[head].st = "blank" /\ head = HeadOf(flash)
    BY <1>1, PagesInv DEF RingInv, TypeOK, HeadPage, HeadIsBlank
<1>3. body \in Page /\ Garbage \in Page /\ Garbage.st = "garbage"
    BY <1>2, BlankPages, SMT DEF RingInv, TypeOK, Page, PageStates, Garbage
<1>4. /\ PagesBelow(flash', PriorRecords + NewestOffered) /\ RingShape(flash')
      /\ ValidIn(flash') = ValidIn(flash) /\ PendingIn(flash') = PendingIn(flash)
      /\ \A s \in Slots : s # head => flash'[s] = flash[s]
      /\ HeadOf(flash') = HeadOf(flash) /\ Aligned'
      /\ TailDue(flash, head, tail) => TailDue(flash', head, tail)
  <2>1. CASE flash' = flash
    BY <2>1, PagesInv DEF RingInv, Aligned
  <2>2. CASE flash' = [flash EXCEPT ![head] = Garbage]
    BY <1>1, <1>2, <1>3, <2>2, BodyPages, BodyAligned
  <2>3. CASE flash' = [flash EXCEPT ![head] = body]
    BY <1>1, <1>2, <1>3, <2>3, BodyPages, BodyAligned
  <2> QED BY <1>1, <2>1, <2>2, <2>3
<1>5. /\ NewestOffered = arrivals - 1 /\ NewestOffered' = arrivals /\ ~AppendInProgress'
      /\ FreshOrder = nextOrder /\ FreshOrder' = nextOrder + 1 /\ PriorRecords \in Nat
    BY <1>1, PagesInv DEF NewestOffered, AppendInProgress, FreshOrder
<1>6. TypeOK'
  <2>1. nextOrder' \in Nat \ {0} /\ flash' \in [Slots -> Page]
    BY <1>1, <1>2, <1>4 DEF PagesBelow
  <2> QED BY <1>1, <2>1, Zenon DEF RingInv, TypeOK
<1>7. OrdersBounded'
  <2>1. /\ \A s \in ValidIn(flash) : flash'[s].order = flash[s].order /\ flash[s].order \in Nat
        /\ \A s \in ValidIn(flash) : flash[s].order <= PriorRecords + (arrivals - 1) /\ flash[s].order < nextOrder
        /\ nextOrder <= PriorRecords + (arrivals - 1) + 1
    BY <1>1, <1>2, <1>4, <1>5, PageFields, ScanSets DEF RingInv, OrdersBounded, Valid, ValidIn
  <2>2. /\ \A s \in ValidIn(flash') : flash'[s].order <= PriorRecords + arrivals /\ flash'[s].order < nextOrder + 1
        /\ nextOrder + 1 <= PriorRecords + arrivals + 1
    BY <1>2, <1>4, <1>5, <2>1, SMT
  <2> QED BY <1>5, <2>2 DEF OrdersBounded, Valid
<1>8. HeadPage'
    BY <1>1, <1>2, <1>4 DEF HeadPage, HeadIsBlank
<1> QED BY <1>1, <1>2, <1>4, <1>5, <1>6, <1>7, <1>8 DEF RingInv, Pending

-----------------------------------------------------------------------------
(* A commit that times out: the record is on flash or not.                 *)

LEMMA CommitLate ==
    ASSUME RingInv, HeadPage, Aligned, CommitTimesOut
    PROVE  /\ RingInv' /\ Aligned' /\ ready' /\ pc' = "idle" /\ count' = count
           /\ \/ /\ flash' = flash /\ HeadPage' /\ head' = head /\ tail' = tail
              \/ /\ flash'[head'].st = "pending" /\ HeadOf(flash') = Succ(head')
                 /\ RingShape(Undone') /\ SealedBefore(Undone', head') /\ HeadOf(Undone') = head'
                 /\ Pending' \ {head'} = Pending
                 /\ TailDue(flash, head, tail) => TailDue(flash, head, tail)'
                 /\ flash[tail].st = "delivered" => flash'[tail'].st = "delivered"
<1>1. /\ pc = "commit" /\ pc' = "idle" /\ ready /\ ready' = ready
      /\ nextOrder' = nextOrder
      /\ saved' = saved /\ erased' = erased /\ head' = head /\ tail' = tail
      /\ count' = count /\ dropped' = dropped /\ sinceCheckpoint' = sinceCheckpoint
      /\ arrivals' = arrivals /\ popped' = popped /\ crashes' = crashes
      /\ flash' \in {flash, Committed}
    BY DEF CommitTimesOut, TimesOut, RingInv, Committed
<1>2. /\ flash \in [Slots -> Page] /\ head \in Slots /\ tail \in Slots /\ arrivals \in Nat
      /\ nextOrder \in Nat \ {0} /\ head = HeadOf(flash) /\ flash[head].st = "body"
      /\ PagesBelow(flash, PriorRecords + NewestOffered)
    BY <1>1, PagesInv DEF RingInv, TypeOK, HeadPage
<1>3. /\ NewestOffered = arrivals - 1 /\ NewestOffered' = arrivals /\ ~AppendInProgress'
      /\ FreshOrder = nextOrder - 1 /\ FreshOrder' = nextOrder /\ PriorRecords \in Nat
    BY <1>1, PagesInv DEF NewestOffered, AppendInProgress, FreshOrder
<1>4. CASE flash' = flash
  <2>1. TypeOK'
    BY <1>1, <1>4, Zenon DEF RingInv, TypeOK
  <2>2. OrdersBounded'
    <3>1. /\ \A s \in ValidIn(flash) : flash[s].order \in Nat
          /\ \A s \in ValidIn(flash) : flash[s].order <= PriorRecords + (arrivals - 1) /\ flash[s].order < nextOrder - 1
          /\ nextOrder - 1 <= PriorRecords + (arrivals - 1) + 1
      BY <1>1, <1>2, <1>3, PageFields, ScanSets DEF RingInv, OrdersBounded, Valid
    <3>2. /\ \A s \in ValidIn(flash) : flash[s].order <= PriorRecords + arrivals /\ flash[s].order < nextOrder
          /\ nextOrder <= PriorRecords + arrivals + 1
      BY <1>2, <1>3, <3>1, SMT
    <3> QED BY <1>3, <1>4, <3>2 DEF OrdersBounded, Valid
  <2>3. HeadPage'
    BY <1>1, <1>2, <1>4 DEF HeadPage, HeadIsBlank
  <2> QED BY <1>1, <1>3, <1>4, <2>1, <2>2, <2>3 DEF RingInv, Aligned
<1>5. CASE flash' = Committed
  <2>1. /\ head \notin ValidIn(flash)
        /\ ValidIn(flash') = ValidIn(flash) \cup {head}
        /\ PendingIn(flash') = PendingIn(flash) \cup {head}
        /\ \A s \in Slots : s # head => flash'[s] = flash[s]
        /\ flash'[head].st = "pending"
        /\ \A s \in ValidIn(flash') : flash'[s].order < nextOrder
        /\ nextOrder <= PriorRecords + arrivals + 1
        /\ PagesBelow(flash', PriorRecords + arrivals)
        /\ RingShape(flash') /\ HeadOf(flash') = Succ(head)
    BY <1>1, <1>5, CommitPages
  <2>2. Aligned' /\ (TailDue(flash, head, tail) => TailDue(flash', head, tail))
    BY <1>1, <1>5, CommitAligned
  <2>3. TypeOK'
    BY <1>1, <2>1, Zenon DEF RingInv, TypeOK, PagesBelow
  <2>4. OrdersBounded'
    BY <1>1, <1>3, <2>1 DEF OrdersBounded, Valid, PagesBelow
  <2>5. /\ ValidIn(Undone') = ValidIn(flash) /\ Undone' \in [Slots -> Page]
        /\ \A s \in ValidIn(flash) : Undone'[s] = flash[s]
    <3>1. Undone' = [flash' EXCEPT ![head] = Garbage] /\ flash' \in [Slots -> Page]
      BY <1>1, <2>1 DEF Undone, PagesBelow
    <3>2. /\ Undone' \in [Slots -> Page] /\ Undone'[head].st = "garbage"
          /\ \A s \in Slots : s # head => Undone'[s] = flash[s]
      BY <1>2, <2>1, <3>1, BlankPages DEF Garbage
    <3> QED BY <1>2, <3>2 DEF ValidIn
  <2>6. PagesBelow(Undone', PriorRecords + NewestOffered)
    BY <1>2, <2>5 DEF PagesBelow
  <2>7. RingShape(Undone') /\ HeadOf(Undone') = head
    <3>1. RingShape(flash)
      BY DEF RingInv
    <3> QED BY <1>2, <2>5, <2>6, <3>1, ShapeUnchanged
  <2>8. SealedBefore(Undone', head)
    BY <1>2, <2>5 DEF Aligned, SealedBefore
  <2>9. flash[tail].st = "delivered" => flash'[tail].st = "delivered"
    BY <1>2, <2>1
  <2>10. PendingIn(flash') \ {head} = PendingIn(flash)
    BY <2>1, ScanSets
  <2>11. RingInv'
    BY <1>1, <1>3, <2>1, <2>3, <2>4 DEF RingInv
  <2> QED BY <1>1, <2>1, <2>2, <2>7, <2>8, <2>9, <2>10, <2>11 DEF Pending
<1> QED BY <1>1, <1>4, <1>5

-----------------------------------------------------------------------------
(* A pop or a checkpoint that times out.                                   *)

\* What such a command leaves alone.
LEMMA RamKept ==
    ASSUME RingInv, PopTimesOut \/ CheckpointTimesOut
    PROVE  /\ pc \in {"idle", "checkpoint"} /\ pc' = "idle" /\ ready /\ ready' = ready
           /\ head' = head /\ tail' = tail /\ count' = count /\ nextOrder' = nextOrder
           /\ RingShape(flash') /\ HeadOf(flash') = HeadOf(flash)
           /\ RingInv' /\ (HeadPage => HeadPage')
           /\ flash' # flash => TailPending /\ count > 0 /\ flash' = Delivered
<1>1. /\ pc \in {"idle", "checkpoint"} /\ pc' = "idle" /\ ready /\ ready' = ready
      /\ head' = head /\ tail' = tail /\ count' = count /\ nextOrder' = nextOrder
      /\ dropped' = dropped /\ sinceCheckpoint' = sinceCheckpoint /\ erased' = erased
      /\ arrivals' = arrivals /\ crashes' = crashes /\ saved' \in {saved, dropped}
      /\ \/ flash' = flash /\ popped' = popped
         \/ TailPending /\ count > 0 /\ flash' = Delivered /\ popped' = popped \cup {flash[tail].rec}
    BY DEF PopTimesOut, TimesOut, CheckpointTimesOut, RingInv, ram, Delivered
<1>2. /\ PagesBelow(flash, PriorRecords + NewestOffered) /\ RingShape(flash)
      /\ head \in Slots /\ tail \in Slots /\ flash \in [Slots -> Page] /\ popped \subseteq 0..MaxRecords
    BY PagesInv DEF RingInv, TypeOK
<1>3. /\ PagesBelow(flash', PriorRecords + NewestOffered)
      /\ RingShape(flash') /\ HeadOf(flash') = HeadOf(flash)
      /\ ValidIn(flash') = ValidIn(flash)
      /\ \A s \in ValidIn(flash) : flash'[s].order = flash[s].order
      /\ popped' \subseteq 0..MaxRecords
  <2>1. CASE flash' = flash /\ popped' = popped
    BY <1>2, <2>1
  <2>2. CASE TailPending /\ flash' = Delivered /\ popped' = popped \cup {flash[tail].rec}
    BY <1>2, <2>2, PopPages
  <2> QED BY <1>1, <2>1, <2>2
<1>4. ~AppendInProgress /\ ~AppendInProgress' /\ NewestOffered' = NewestOffered
    BY <1>1 DEF NewestOffered, AppendInProgress
<1>5. TypeOK'
  <2>1. saved' \in Nat
    BY <1>1 DEF RingInv, TypeOK
  <2> QED BY <1>1, <1>3, <2>1, Zenon DEF RingInv, TypeOK, PagesBelow
<1>6. OrdersBounded'
    BY <1>1, <1>3, <1>4 DEF RingInv, OrdersBounded, FreshOrder, Valid
<1>7. HeadPage => HeadPage'
    BY <1>1, <1>3 DEF HeadPage, HeadIsBlank
<1> QED BY <1>1, <1>3, <1>4, <1>5, <1>6, <1>7 DEF RingInv

-----------------------------------------------------------------------------
(* Steps from a queue whose bookkeeping is exact.                          *)

LEMMA ExactFault ==
    ASSUME Exact, BodyTimesOut \/ CommitTimesOut \/ PopTimesOut \/ CheckpointTimesOut
    PROVE  Exact' \/ LatePop' \/ LateCommit'
<1>0. /\ RingInv /\ HeadPage /\ CountMatches /\ Aligned
      /\ ready => TailDue(flash, head, tail)
    BY DEF Exact, IInv, Ordered
<1>1. CASE BodyTimesOut
  <2>1. /\ RingInv' /\ HeadPage' /\ Aligned' /\ Pending' = Pending
        /\ TailDue(flash, head, tail) => TailDue(flash, head, tail)'
    BY <1>0, <1>1, BodyLate
  <2>2. pc = "body" /\ ready' = ready /\ ready /\ count' = count
    BY <1>0, <1>1 DEF BodyTimesOut, TimesOut, RingInv
  <2> QED BY <1>0, <2>1, <2>2 DEF Exact, IInv, Ordered, CountMatches
<1>2. CASE CommitTimesOut
  <2>1. pc = "commit" /\ ready /\ TailDue(flash, head, tail) /\ count = Cardinality(Pending)
    BY <1>0, <1>2 DEF CommitTimesOut, RingInv, CountMatches
  <2>2. /\ RingInv' /\ Aligned' /\ ready' /\ pc' = "idle" /\ count' = count
        /\ \/ /\ flash' = flash /\ HeadPage' /\ head' = head /\ tail' = tail
           \/ /\ flash'[head'].st = "pending" /\ HeadOf(flash') = Succ(head')
              /\ RingShape(Undone') /\ SealedBefore(Undone', head') /\ HeadOf(Undone') = head'
              /\ Pending' \ {head'} = Pending
              /\ TailDue(flash, head, tail)'
    BY <1>0, <1>2, <2>1, CommitLate
  <2>3. CASE flash' = flash /\ HeadPage' /\ head' = head /\ tail' = tail
    BY <2>1, <2>2, <2>3 DEF Exact, IInv, Ordered, CountMatches, Pending
  <2> QED BY <2>1, <2>2, <2>3 DEF LateCommit, TailKnown
<1>3. CASE PopTimesOut \/ CheckpointTimesOut
  <2>1. /\ pc \in {"idle", "checkpoint"} /\ pc' = "idle" /\ ready /\ ready' = ready
        /\ head' = head /\ tail' = tail /\ count' = count
        /\ RingInv' /\ HeadPage'
        /\ flash' # flash => TailPending /\ flash' = Delivered
    BY <1>0, <1>3, RamKept
  <2>2. CASE flash' = flash
    BY <1>0, <2>1, <2>2 DEF Exact, IInv, Ordered, Aligned, CountMatches, Pending
  <2>3. CASE flash' # flash
    <3>1. Aligned' /\ flash'[tail].st = "delivered"
          /\ Cardinality(PendingIn(flash')) = Cardinality(PendingIn(flash)) - 1
      BY <1>0, <2>1, <2>3, PopAligned, PopPages
    <3>2. count = Cardinality(PendingIn(flash)) /\ count \in Nat
      BY <1>0, <2>1 DEF CountMatches, Pending, RingInv, TypeOK
    <3>3. Cardinality(PendingIn(flash')) <= count
      BY <3>1, <3>2
    <3> QED BY <2>1, <3>1, <3>3 DEF LatePop, Pending
  <2> QED BY <2>2, <2>3
<1> QED BY <1>1, <1>2, <1>3

LEMMA LatePopFault ==
    ASSUME LatePop, BodyTimesOut \/ CommitTimesOut \/ PopTimesOut \/ CheckpointTimesOut
    PROVE  LatePop' \/ LateCommit'
<1>0. /\ RingInv /\ HeadPage /\ Aligned /\ ready
      /\ pc # "erase" => flash[tail].st = "delivered" /\ Cardinality(Pending) <= count
    BY DEF LatePop
<1>1. CASE BodyTimesOut
  <2>1. /\ RingInv' /\ HeadPage' /\ Aligned' /\ Pending' = Pending
        /\ flash[tail].st = "delivered" => flash'[tail].st = "delivered"
    BY <1>0, <1>1, BodyLate
  <2>2. pc = "body" /\ ready' = ready /\ count' = count /\ tail' = tail
    BY <1>1 DEF BodyTimesOut, TimesOut
  <2> QED BY <1>0, <2>1, <2>2 DEF LatePop
<1>2. CASE CommitTimesOut
  <2>1. pc = "commit"
    BY <1>2 DEF CommitTimesOut
  <2>2. /\ RingInv' /\ Aligned' /\ ready' /\ pc' = "idle" /\ count' = count
        /\ \/ /\ flash' = flash /\ HeadPage' /\ head' = head /\ tail' = tail
           \/ /\ flash'[head'].st = "pending" /\ HeadOf(flash') = Succ(head')
              /\ RingShape(Undone') /\ SealedBefore(Undone', head') /\ HeadOf(Undone') = head'
              /\ Pending' \ {head'} = Pending
              /\ flash'[tail'].st = "delivered"
    BY <1>0, <1>2, <2>1, CommitLate
  <2>3. CASE flash' = flash /\ HeadPage' /\ head' = head /\ tail' = tail
    BY <1>0, <2>1, <2>2, <2>3 DEF LatePop, Pending
  <2> QED BY <1>0, <2>1, <2>2, <2>3 DEF LateCommit, TailKnown
<1>3. CASE PopTimesOut \/ CheckpointTimesOut
  <2>1. /\ pc \in {"idle", "checkpoint"} /\ pc' = "idle" /\ ready /\ ready' = ready
        /\ head' = head /\ tail' = tail /\ count' = count
        /\ RingInv' /\ HeadPage'
        /\ flash' # flash => TailPending
    BY <1>0, <1>3, RamKept
  <2>2. flash' = flash
    BY <1>0, <2>1 DEF TailPending
  <2> QED BY <1>0, <2>1, <2>2 DEF LatePop, Aligned, Pending
<1> QED BY <1>1, <1>2, <1>3

-----------------------------------------------------------------------------
(* Steps from a queue whose last commit ended late.                        *)

LEMMA UndonePages ==
    ASSUME RingInv, Aligned, flash[head].st = "pending", HeadOf(flash) = Succ(head)
    PROVE  /\ PagesBelow(Undone, PriorRecords + NewestOffered)
           /\ ValidIn(Undone) = ValidIn(flash) \ {head} /\ PendingIn(Undone) = PendingIn(flash) \ {head}
           /\ \A s \in Slots : s # head => Undone[s] = flash[s]
           /\ Undone[head].st = "garbage" /\ InOrder(Undone)
           /\ head \in Slots /\ head \in PendingIn(flash)
           /\ \A s \in ValidIn(flash) : flash[s].order <= flash[head].order
<1>1. /\ PagesBelow(flash, PriorRecords + NewestOffered) /\ flash \in [Slots -> Page] /\ head \in Slots
    BY PagesInv DEF RingInv, TypeOK
<1>2. /\ Undone \in [Slots -> Page] /\ Undone[head].st = "garbage"
      /\ \A s \in Slots : s # head => Undone[s] = flash[s]
    BY <1>1, BlankPages DEF Undone, Garbage
<1>3. head \in PendingIn(flash) /\ head \in ValidIn(flash)
    BY <1>1 DEF PendingIn, ValidIn
<1>4. ValidIn(Undone) = ValidIn(flash) \ {head} /\ PendingIn(Undone) = PendingIn(flash) \ {head}
    BY <1>1, <1>2 DEF ValidIn, PendingIn
<1>5. PagesBelow(Undone, PriorRecords + NewestOffered)
    BY <1>1, <1>2, <1>4, ScanSets DEF PagesBelow
<1>6. InOrder(Undone)
    BY <1>2, <1>3, <1>4, ScanSets DEF InOrder, Aligned
<1>7. Newest(flash) = head
  <2>1. HeadOf(flash) = Succ(Newest(flash)) /\ Newest(flash) \in Slots
    BY <1>1, <1>3, NewestExists, ScanSets, Zenon DEF HeadOf
  <2>2. \A s, t \in Slots : Succ(s) = Succ(t) => s = t
    BY GeometryAssumption, SMT DEF Succ, Slots
  <2> QED BY <1>1, <2>1, <2>2
<1>8. \A s \in ValidIn(flash) : flash[s].order <= flash[head].order
    BY <1>1, <1>3, <1>7, NewestExists
<1> QED BY <1>1, <1>2, <1>3, <1>4, <1>5, <1>6, <1>8

\* A late commit in the middle of the reclaim that its record brought about.
LEMMA LateCommitPowerLoss ==
    ASSUME LateCommit, PowerLoss
    PROVE  Exact'
<1>0. /\ RingInv /\ Aligned /\ pc \notin {"body", "commit"}
      /\ flash[head].st = "pending" /\ HeadOf(flash) = Succ(head)
      /\ RingShape(Undone) /\ SealedBefore(Undone, head) /\ HeadOf(Undone) = head
      /\ ready' = FALSE /\ flash' \in Interrupted /\ RingShape(flash)
      /\ SealedBefore(flash, HeadOf(flash)) /\ InOrder(flash)
    BY DEF LateCommit, PowerLoss, RingInv, Aligned
<1> DEFINE B == PriorRecords + NewestOffered
<1>1. /\ PagesBelow(flash, B) /\ PagesBelow(Undone, B) /\ InOrder(Undone)
      /\ Undone[head].st = "garbage" /\ head \in Slots /\ head \in PendingIn(flash)
      /\ \A s \in Slots : s # head => Undone[s] = flash[s]
      /\ \A s \in ValidIn(flash) : flash[s].order <= flash[head].order
      /\ flash \in [Slots -> Page]
    BY <1>0, UndonePages, PagesInv DEF PagesBelow
<1>2. ASSUME pc = "erase"
      PROVE  RingShape(flash') /\ SealedBefore(flash', HeadOf(flash')) /\ InOrder(flash')
  <2>1. /\ flash' \in [Slots -> Page] /\ SectorOf(head) \subseteq Slots
        /\ \A s \in Slots \ SectorOf(head) : flash'[s] = flash[s]
        /\ \A s \in SectorOf(head) : flash'[s] = flash[s] \/ flash'[s].st \in {"blank", "garbage"}
        /\ head \in SectorOf(head)
    BY <1>0, <1>1, <1>2, EraseCut, SectorGeometry
  <2>2. CASE flash'[head] # flash[head]
    <3>1. LossFrom(Undone, flash', HeadOf(Undone))
      BY <1>0, <1>1, <2>1, <2>2 DEF LossFrom
    <3>2. InOrder(flash') /\ ValidIn(Undone) \ SectorOf(head) \subseteq ValidIn(flash')
      BY <1>0, <1>1, <2>1, <3>1, InOrderAfterLoss
    <3>3. RingShape(flash') /\ HeadOf(flash') \in SectorOf(HeadOf(Undone))
      BY <1>0, <1>1, <3>1, Loss
    <3>4. SealedBefore(flash', HeadOf(flash'))
      BY <1>0, <1>1, <3>2, <3>3, SealedAfterLoss
    <3> QED BY <3>2, <3>3, <3>4
  <2>3. CASE flash'[head] = flash[head] /\ Succ(head) \in SectorOf(head)
    <3>1. SectorOf(HeadOf(flash)) = SectorOf(head)
      BY <1>0, <1>1, <2>3, SectorGeometry
    <3>2. LossFrom(flash, flash', HeadOf(flash))
      BY <2>1, <3>1 DEF LossFrom
    <3>3. InOrder(flash') /\ ValidIn(flash) \ SectorOf(HeadOf(flash)) \subseteq ValidIn(flash')
      BY <1>0, <2>1, <3>1, <3>2, InOrderAfterLoss
    <3>4. RingShape(flash') /\ HeadOf(flash') \in SectorOf(HeadOf(flash))
      BY <1>0, <1>1, <3>2, Loss
    <3>5. SealedBefore(flash', HeadOf(flash'))
      BY <1>0, <1>1, <3>3, <3>4, SealedAfterLoss
    <3> QED BY <3>3, <3>4, <3>5
  <2>4. CASE flash'[head] = flash[head] /\ Succ(head) \notin SectorOf(head)
    <3>1. \A s \in ValidIn(flash') : s \in ValidIn(flash) /\ flash'[s] = flash[s]
      BY <2>1 DEF ValidIn
    <3>2. head \in ValidIn(flash') /\ Succ(head) \in Slots
      BY <1>0, <1>1, <2>4, RingArithmetic DEF ValidIn
    <3>3. PagesBelow(flash', B)
      BY <1>1, <2>1, <3>1 DEF PagesBelow
    <3>4. SortedFrom(flash', Succ(head))
      BY <1>0, <3>1 DEF RingShape, SortedFrom
    <3>5. HeadOf(flash') = Succ(head)
      BY <1>1, <3>1, <3>2, <3>3, <3>4, NewestUnique
    <3>6. SealedBefore(flash', Succ(head))
      <4>1. Succ(head) \in SectorOf(Succ(head)) /\ head \notin SectorOf(Succ(head))
        BY <1>1, <2>4, <3>2, SectorGeometry
      <4> QED BY <3>2, <4>1 DEF SealedBefore
    <3>7. InOrder(flash')
      <4>1. PendingIn(flash') \subseteq PendingIn(flash)
            /\ \A s \in ValidIn(flash') \ PendingIn(flash') : s \in ValidIn(flash) \ PendingIn(flash)
        BY <3>1 DEF ValidIn, PendingIn
      <4> QED BY <1>0, <3>1, <4>1, ScanSets DEF InOrder
    <3> QED BY <3>4, <3>5, <3>6, <3>7 DEF RingShape
  <2> QED BY <2>2, <2>3, <2>4
<1>3. pc # "erase" => flash' = flash
    BY <1>0 DEF Interrupted
<1>4. IInv'
    BY <1>0, <1>2, PowerLossStep DEF HeadIsBlank
<1>5. Ordered'
    BY <1>0, <1>2, <1>3 DEF Ordered, Aligned
<1> QED BY <1>4, <1>5 DEF Exact

\* A late commit outlives the delivery of an older record.
LEMMA LateCommitPopped ==
    ASSUME LateCommit, TailPending, count > 0, pc = "idle", flash' = Delivered, head' = head
    PROVE  /\ TailDue(flash, head, tail) /\ Cardinality(Pending \ {head}) = count
           /\ Aligned' /\ flash'[head].st = "pending" /\ HeadOf(flash') = Succ(head)
           /\ RingShape(Undone') /\ SealedBefore(Undone', head) /\ HeadOf(Undone') = head
           /\ Cardinality(Pending' \ {head}) = count - 1
           /\ head \in PendingIn(flash') /\ flash'[tail].st = "delivered"
<1>0. /\ RingInv /\ Aligned /\ flash[head].st = "pending" /\ HeadOf(flash) = Succ(head)
      /\ RingShape(Undone) /\ SealedBefore(Undone, head) /\ HeadOf(Undone) = head /\ TailKnown
      /\ RingShape(flash)
    BY DEF LateCommit, RingInv
<1> DEFINE B == PriorRecords + NewestOffered
<1>1. TailDue(flash, head, tail) /\ Cardinality(Pending \ {head}) = count
    BY <1>0 DEF TailKnown, TailPending
<1>2. /\ PagesBelow(flash, B) /\ PagesBelow(Undone, B)
      /\ ValidIn(Undone) = ValidIn(flash) \ {head}
      /\ \A s \in Slots : s # head => Undone[s] = flash[s]
      /\ head \in Slots /\ head \in PendingIn(flash)
      /\ \A s \in ValidIn(flash) : flash[s].order <= flash[head].order
      /\ flash \in [Slots -> Page] /\ count \in Nat
    BY <1>0, UndonePages, PagesInv DEF PagesBelow, RingInv, TypeOK
<1>3. /\ ValidIn(flash') = ValidIn(flash)
      /\ tail \in Slots /\ tail \in PendingIn(flash)
      /\ PendingIn(flash') = PendingIn(flash) \ {tail}
      /\ flash'[tail].st = "delivered"
      /\ \A s \in Slots : s # tail => flash'[s] = flash[s]
      /\ \A s \in ValidIn(flash) : flash'[s].order = flash[s].order
      /\ PagesBelow(flash', B) /\ HeadOf(flash') = HeadOf(flash)
      /\ Aligned'
    BY <1>0, <1>1, PopPages, PopAligned
<1>4. tail # head
  <2> SUFFICES ASSUME tail = head PROVE FALSE
    OBVIOUS
  <2>1. ASSUME NEW s \in PendingIn(flash), s # head PROVE FALSE
    <3>1. flash[head].order <= flash[s].order
      BY <1>1, <1>3, <2>1 DEF TailDue
    <3>2. SortedFrom(flash, HeadOf(flash)) /\ HeadOf(flash) \in Slots
      BY <1>0, <1>2, ScanInRing DEF RingShape
    <3>3. flash[head].order < flash[s].order
      BY <1>2, <2>1, <3>1, <3>2, ScanSets, OrdersDiffer
    <3>4. flash[s].order <= flash[head].order /\ flash[s].order \in Nat /\ flash[head].order \in Nat
      BY <1>2, <2>1, ScanSets, PageFields
    <3> QED BY <3>3, <3>4
  <2>2. Pending \ {head} = {}
    BY <2>1 DEF Pending
  <2>3. Cardinality(Pending \ {head}) = 0
    BY <2>2, FS_EmptySet
  <2> QED BY <1>1, <2>3
<1>5. flash'[head] = flash[head] /\ head \in PendingIn(flash')
    BY <1>2, <1>3, <1>4
<1>6. /\ Undone' \in [Slots -> Page] /\ ValidIn(Undone') = ValidIn(Undone)
      /\ \A s \in ValidIn(Undone) : Undone'[s].order = Undone[s].order
  <2>1. /\ Undone' \in [Slots -> Page] /\ Undone'[head].st = "garbage"
        /\ \A s \in Slots : s # head => Undone'[s] = flash'[s]
    <3>1. Undone' = [flash' EXCEPT ![head] = Garbage] /\ flash' \in [Slots -> Page]
      BY <1>3 DEF Undone, PagesBelow
    <3> QED BY <1>2, <3>1, BlankPages DEF Garbage
  <2>2. ValidIn(Undone') = ValidIn(flash') \ {head}
    BY <1>2, <2>1 DEF ValidIn
  <2> QED BY <1>2, <1>3, <2>1, <2>2, ScanSets
<1>7. PagesBelow(Undone', B)
    BY <1>2, <1>6 DEF PagesBelow
<1>8. RingShape(Undone') /\ HeadOf(Undone') = head
    BY <1>0, <1>2, <1>6, <1>7, ShapeUnchanged
<1>9. SealedBefore(Undone', head)
    BY <1>0, <1>6 DEF SealedBefore
<1>10. Cardinality(Pending' \ {head}) = count - 1
  <2>1. Pending' \ {head} = (Pending \ {head}) \ {tail} /\ tail \in Pending \ {head}
    BY <1>3, <1>4 DEF Pending
  <2>2. IsFiniteSet(Pending \ {head})
    BY ScanSets, FS_Subset DEF Pending
  <2> QED BY <1>1, <2>1, <2>2, FS_RemoveElement
<1> QED BY <1>0, <1>1, <1>3, <1>5, <1>8, <1>9, <1>10

LEMMA LateCommitQueueStep ==
    ASSUME LateCommit, TimelyNext
    PROVE  Exact' \/ LateCommit'
<1>0. /\ RingInv /\ Aligned /\ ready /\ pc \notin {"body", "commit"}
      /\ flash[head].st = "pending" /\ HeadOf(flash) = Succ(head)
      /\ RingShape(Undone) /\ SealedBefore(Undone, head) /\ HeadOf(Undone) = head
      /\ pc # "erase" => TailKnown
    BY DEF LateCommit
<1>1. CASE StorageInit \/ PeekRebuilds
    BY <1>0, <1>1, ScanExact
<1>2. CASE AppendToBlankPage
    BY <1>0, <1>2 DEF AppendToBlankPage
<1>3. CASE AppendToUsedPage \/ Checkpoint \/ Flush
  <2>1. RingInv'
    BY <1>0, <1>3, StartStep, CheckpointStep
  <2>2. /\ flash' = flash /\ ready' = ready /\ head' = head /\ tail' = tail
        /\ pc' \notin {"body", "commit"} /\ pc # "erase"
        /\ pc' # "erase" => count' = count
    BY <1>3 DEF AppendToUsedPage, StartAppend, Checkpoint, Flush, ram
  <2>3. Undone' = Undone
    BY <2>2 DEF Undone
  <2>4. pc' # "erase" => TailKnown'
    BY <1>0, <2>2 DEF TailKnown, Pending
  <2> QED BY <1>0, <2>1, <2>2, <2>3, <2>4 DEF LateCommit, Aligned
<1>4. CASE EraseSector
  <2>1. TypeOK /\ arrivals > 0 /\ head \in SectorOf(head)
    BY <1>0, <1>4, SectorGeometry DEF RingInv, TypeOK, EraseSector, AppendInProgress
  <2>2. /\ PagesBelow(Undone, PriorRecords + NewestOffered) /\ InOrder(Undone)
        /\ \A s \in Slots : s # head => Undone[s] = flash[s]
    BY <1>0, UndonePages
  <2>3. \A s \in Slots \ SectorOf(head) : Undone[s] = flash[s]
    BY <2>1, <2>2
  <2> QED BY <1>0, <1>4, <2>1, <2>2, <2>3, EraseStep, EraseOrdered DEF Exact
<1>5. CASE ProgramBody \/ ProgramCommit
    BY <1>0, <1>5 DEF ProgramBody, ProgramCommit
<1>6. CASE TimelyPop
  <2>1. /\ pc = "idle" /\ pc' \in {"checkpoint", "idle"} /\ ready' = ready /\ TailPending /\ count > 0
        /\ flash' = Delivered /\ count' = count - 1 /\ head' = head
        /\ tail' = IF count' = 0 THEN head
                   ELSE IF PendingIn(flash') = {} THEN head
                   ELSE NextPending(flash', tail)
    BY <1>6 DEF TimelyPop, Pop, Delivered
  <2>2. RingInv'
    BY <1>0, <1>6, PopStep DEF TimelyPop
  <2>3. /\ TailDue(flash, head, tail)
        /\ Aligned' /\ flash'[head].st = "pending" /\ HeadOf(flash') = Succ(head)
        /\ RingShape(Undone') /\ SealedBefore(Undone', head) /\ HeadOf(Undone') = head
        /\ Cardinality(Pending' \ {head}) = count - 1
        /\ head \in PendingIn(flash')
    BY <2>1, LateCommitPopped
  <2>4. TailDue(flash', head', tail')
    <3>1. CASE count' = 0
      <4>1. Cardinality(Pending' \ {head}) = 0 /\ IsFiniteSet(Pending' \ {head})
        BY <2>1, <2>3, <3>1, ScanSets, FS_Subset DEF Pending
      <4>2. Pending' \ {head} = {}
        BY <4>1, FS_EmptySet
      <4>3. PendingIn(flash') = {head}
        BY <2>3, <4>2 DEF Pending
      <4>4. flash'[head].order \in Nat
        <5>1. flash' \in [Slots -> Page] /\ head \in Slots
          BY <2>1, <2>2 DEF RingInv, TypeOK
        <5>2. flash'[head] \in Page
          BY <5>1, Zenon
        <5> QED BY <5>2 DEF Page
      <4>5. tail' = head /\ head' = head
        BY <2>1, <3>1
      <4>6. \A s \in {head} : flash'[head].order <= flash'[s].order
        BY <4>4
      <4>7. head \in PendingIn(flash') /\ PendingIn(flash') # {}
        BY <2>3
      <4> QED BY <4>3, <4>5, <4>6, <4>7, Zenon DEF TailDue
    <3>2. CASE count' # 0
      <4>1. /\ NextPending(flash', tail) \in PendingIn(flash')
            /\ \A s \in PendingIn(flash') : flash'[NextPending(flash', tail)].order <= flash'[s].order
        BY <1>0, <2>1, <2>3, PopAligned
      <4> QED BY <2>1, <2>3, <3>2, <4>1 DEF TailDue
    <3> QED BY <3>1, <3>2
  <2>5. TailKnown'
    BY <2>1, <2>3, <2>4 DEF TailKnown
  <2> QED BY <1>0, <2>1, <2>2, <2>3, <2>5 DEF LateCommit
<1>7. CASE PowerLoss
    BY <1>7, LateCommitPowerLoss
<1> QED BY <1>1, <1>2, <1>3, <1>4, <1>5, <1>6, <1>7 DEF TimelyNext

LEMMA LateCommitFault ==
    ASSUME LateCommit, BodyTimesOut \/ CommitTimesOut \/ PopTimesOut \/ CheckpointTimesOut
    PROVE  LateCommit'
<1>0. /\ RingInv /\ Aligned /\ ready /\ pc \notin {"body", "commit"}
      /\ flash[head].st = "pending" /\ HeadOf(flash) = Succ(head)
      /\ RingShape(Undone) /\ SealedBefore(Undone, head) /\ HeadOf(Undone) = head
      /\ pc # "erase" => TailKnown
    BY DEF LateCommit
<1>1. PopTimesOut \/ CheckpointTimesOut
    BY <1>0 DEF BodyTimesOut, CommitTimesOut
<1>2. /\ pc \in {"idle", "checkpoint"} /\ pc' = "idle" /\ ready' = ready
      /\ head' = head /\ tail' = tail /\ count' = count /\ RingInv'
      /\ flash' # flash => TailPending /\ count > 0 /\ flash' = Delivered
    BY <1>0, <1>1, RamKept
<1>3. CASE flash' = flash
  <2>1. Undone' = Undone /\ TailKnown'
    BY <1>0, <1>2, <1>3 DEF Undone, TailKnown, Pending
  <2> QED BY <1>0, <1>2, <1>3, <2>1 DEF LateCommit, Aligned
<1>4. CASE flash' # flash
  <2>1. pc = "idle"
    BY <1>1, <1>4 DEF PopTimesOut, CheckpointTimesOut
  <2>2. /\ Aligned' /\ flash'[head].st = "pending" /\ HeadOf(flash') = Succ(head)
        /\ RingShape(Undone') /\ SealedBefore(Undone', head) /\ HeadOf(Undone') = head
        /\ Cardinality(Pending' \ {head}) = count - 1 /\ flash'[tail].st = "delivered"
    BY <1>2, <1>4, <2>1, LateCommitPopped
  <2>3. TailKnown'
    <3>1. count \in Nat
      BY <1>0 DEF RingInv, TypeOK
    <3> QED BY <1>2, <2>2, <3>1 DEF TailKnown
  <2> QED BY <1>0, <1>2, <2>2, <2>3 DEF LateCommit
<1> QED BY <1>3, <1>4

-----------------------------------------------------------------------------
(* All of it together.                                                     *)

LEMMA ExactStep == ASSUME Exact, [Next]_vars PROVE Exact'
BY NextInv, NextOrdered DEF Exact

LEMMA FaultStep == ASSUME FaultInv, [FaultNext]_fvars PROVE FaultInv'
<1>1. CASE UNCHANGED fvars
  <2>1. UNCHANGED vars /\ eraseLate' = eraseLate
    BY <1>1 DEF fvars
  <2>2. CASE Exact
    BY <2>1, <2>2, ExactStep DEF FaultInv
  <2>3. CASE eraseLate
    BY <2>1, <2>3 DEF FaultInv
  <2>4. CASE LatePop \/ LateCommit
    BY <2>1, <2>4, Zenon DEF FaultInv, LatePop, LateCommit, TailKnown, Undone, Aligned, vars, ram, RingInv, TypeOK,
       AppendInProgress, RingShape, OrdersBounded, FreshOrder, NewestOffered, HeadPage, HeadIsBlank, Valid, Pending
  <2> QED BY <2>2, <2>3, <2>4 DEF FaultInv
<1>2. CASE TimelyNext /\ UNCHANGED <<timeouts, eraseLate>>
  <2>1. Next
    BY <1>2 DEF TimelyNext, TimelyPop, Next
  <2> QED BY <1>2, <2>1, ExactStep, LatePopQueueStep, LateCommitQueueStep DEF FaultInv
<1>3. CASE BodyTimesOut \/ CommitTimesOut \/ PopTimesOut \/ CheckpointTimesOut
  <2>1. eraseLate => eraseLate'
    BY <1>3 DEF BodyTimesOut, CommitTimesOut, PopTimesOut, CheckpointTimesOut, TimesOut
  <2> QED BY <1>3, <2>1, ExactFault, LatePopFault, LateCommitFault DEF FaultInv
<1>4. CASE EraseTimesOut
    BY <1>4 DEF EraseTimesOut, TimesOut, FaultInv
<1> QED BY <1>1, <1>2, <1>3, <1>4 DEF FaultNext, TimelyNext

\* While every erase ends in time, commands that time out spoil neither the
\* order of delivery nor, but for a record whose append failed, what the
\* network task sees (waitReady, storage_append, storage_pop).  The first
\* sector has been filled, as in OldestGoesFirst.
THEOREM TimeoutsAreContained ==
    ASSUME PriorRecords >= SectorSlots
    PROVE  FaultSpec => []FaultsAreContained
<1>1. FaultInit => FaultInv
    BY InitInv, InitOrdered DEF FaultInit, FaultInv, Exact
<1>2. FaultInv /\ [FaultNext]_fvars => FaultInv'
    BY FaultStep
<1>3. FaultInv => FaultsAreContained
  <2> SUFFICES ASSUME FaultInv, ~eraseLate PROVE FaultsAreContained
    BY DEF FaultsAreContained, OrderUnlessEraseLate, HiddenOnlyAtHead
  <2>1. RingInv /\ Aligned
    BY DEF FaultInv, Exact, LatePop, LateCommit, IInv, Ordered
  <2>2. OrderUnlessEraseLate
    BY <2>1 DEF Aligned, InOrder, OrderUnlessEraseLate, Valid, Pending
  <2>3. ASSUME ready, pc # "erase" PROVE Cardinality(Pending \ {head}) <= count
    <3>1. count \in Nat
      BY <2>1 DEF RingInv, TypeOK
    <3>2. /\ Cardinality(Pending \ {head}) <= Cardinality(Pending)
          /\ Cardinality(Pending) \in Nat /\ Cardinality(Pending \ {head}) \in Nat
      BY Finitely, ScanSets, FS_Subset DEF Pending
    <3>3. CASE Exact \/ LatePop
      <4>1. Cardinality(Pending) <= count
        BY <2>3, <3>1, <3>3 DEF Exact, IInv, CountMatches, LatePop
      <4> QED BY <3>1, <3>2, <4>1
    <3>4. CASE LateCommit
      BY <2>3, <3>1, <3>4 DEF LateCommit, TailKnown
    <3> QED BY <3>3, <3>4 DEF FaultInv
  <2> QED BY <2>2, <2>3 DEF FaultsAreContained, HiddenOnlyAtHead
<1> QED BY <1>1, <1>2, <1>3, PTL DEF FaultSpec

-----------------------------------------------------------------------------
(***************************************************************************)
(* Forwarding (Replay), on any ring, a blank one too.  There the tail      *)
(* starts behind the head, and the record with order 1, which is appended  *)
(* at the head, is delivered when the tail comes round.                    *)
(***************************************************************************)

(* The tail, as far as a ring that started blank keeps it in order.        *)

\* All pending records but the one with order 1.
LaterIn(f) == {s \in PendingIn(f) : f[s].order > 1}
Later == LaterIn(flash)

TailPlaced(f, h, t) ==
    \/ f[t].st = "pending" /\ \A s \in LaterIn(f) : f[t].order <= f[s].order
    \/ f[t].st # "pending" /\ t = h /\ LaterIn(f) = {}
    \/ f[t].st # "pending" /\ ValidIn(f) = {} /\ h = 0 /\ t = Succ(0)

TailFirst ==
    ready => TailPlaced(flash, head, tail) /\ (Valid = {} => FreshOrder = 1)

\* Where a scan puts the tail.
LEMMA ScanPlacesTail ==
    ASSUME NEW f, NEW B, PagesBelow(f, B)
    PROVE  TailPlaced(f, HeadOf(f), TailOf(f))
<1>1. CASE PendingIn(f) # {}
  <2>1. TailOf(f) \in PendingIn(f) /\ \A s \in PendingIn(f) : f[TailOf(f)].order <= f[s].order
    BY <1>1, OldestExists DEF TailOf, PagesBelow
  <2> QED BY <2>1 DEF TailPlaced, LaterIn, PendingIn
<1>2. CASE PendingIn(f) = {}
  <2>1. LaterIn(f) = {} /\ \A s \in Slots : f[s].st # "pending"
    BY <1>2 DEF LaterIn, PendingIn
  <2>2. CASE ValidIn(f) = {}
    BY <1>2, <2>1, <2>2, RingArithmetic DEF TailOf, HeadOf, TailPlaced
  <2>3. CASE ValidIn(f) # {}
    <3>1. TailOf(f) = HeadOf(f) /\ HeadOf(f) \in Slots
      BY <1>2, <2>3, ScanInRing DEF TailOf
    <3> QED BY <2>1, <3>1 DEF TailPlaced
  <2> QED BY <2>2, <2>3
<1> QED BY <1>1, <1>2

\* Beyond the tail, the nearest pending slot is the oldest but for order 1.
LEMMA NearestIsOldestLater ==
    ASSUME NEW f \in [Slots -> Page], NEW h \in Slots, SortedFrom(f, h), NEW t \in ValidIn(f),
           \A s \in PendingIn(f) : s # t, PendingIn(f) # {},
           \A s \in LaterIn(f) : f[t].order <= f[s].order
    PROVE  /\ NextPending(f, t) \in PendingIn(f)
           /\ \A s \in LaterIn(f) : f[NextPending(f, t)].order <= f[s].order
<1> DEFINE n == NextPending(f, t)
<1>1. t \in Slots /\ \A s \in PendingIn(f) : s \in ValidIn(f) /\ s \in Slots
    BY ScanSets
<1>2. n \in PendingIn(f) /\ \A s \in PendingIn(f) : Offset(Succ(t), n) <= Offset(Succ(t), s)
    BY <1>1, NextPendingExists
<1>3. \A s \in LaterIn(f) : s \in PendingIn(f)
    BY DEF LaterIn
<1> HIDE DEF n
<1>4. ASSUME NEW s \in LaterIn(f) PROVE f[n].order <= f[s].order
  <2>1. /\ f[n].order \in Nat /\ f[s].order \in Nat /\ f[t].order \in Nat
        /\ Offset(h, n) \in Nat /\ Offset(h, s) \in Nat /\ Offset(h, t) \in Nat
        /\ s \in Slots /\ n \in Slots /\ s \in ValidIn(f) /\ n \in ValidIn(f)
    BY <1>1, <1>2, <1>3, PageFields, RingArithmetic
  <2>2. Offset(h, t) < Offset(h, s)
    BY <1>1, <1>3, OrdersDiffer
  <2>3. Offset(Succ(t), s) = Offset(h, s) - Offset(h, t) - 1
    BY <1>1, <2>1, <2>2, RingArithmetic, SMT DEF Succ, Offset, Slots
  <2>4. CASE Offset(h, t) < Offset(h, n)
    <3>1. Offset(Succ(t), n) = Offset(h, n) - Offset(h, t) - 1
      BY <1>1, <2>1, <2>4, RingArithmetic, SMT DEF Succ, Offset, Slots
    <3>2. Offset(Succ(t), n) <= Offset(Succ(t), s)
      BY <1>2, <1>3
    <3>3. Offset(h, n) <= Offset(h, s)
      BY <2>1, <2>3, <3>1, <3>2
    <3>4. CASE n = s
      BY <2>1, <3>4
    <3>5. CASE n # s
      <4>1. Offset(h, n) # Offset(h, s)
        BY <2>1, <3>5, RingArithmetic
      <4>2. f[n].order < f[s].order
        BY <2>1, <3>3, <4>1 DEF SortedFrom
      <4> QED BY <2>1, <4>2
    <3> QED BY <3>4, <3>5
  <2>5. CASE Offset(h, n) < Offset(h, t)
    <3>1. f[n].order < f[t].order
      BY <2>1, <2>5 DEF SortedFrom
    <3>2. f[t].order <= f[s].order
      OBVIOUS
    <3> QED BY <2>1, <3>1, <3>2
  <2>6. Offset(h, n) # Offset(h, t)
    BY <1>1, <1>2, <2>1, RingArithmetic
  <2> QED BY <2>1, <2>4, <2>5, <2>6
<1> QED BY <1>2, <1>4 DEF n

LEMMA TailFirstStep ==
    ASSUME IInv, TailFirst, [Next]_vars
    PROVE  TailFirst'
<1>0. /\ flash \in [Slots -> Page] /\ head \in Slots /\ tail \in Slots /\ nextOrder \in Nat
      /\ (pc # "idle" => ready) /\ PagesBelow(flash, PriorRecords + NewestOffered)
    BY PagesInv DEF IInv, RingInv, TypeOK
<1>1. CASE StorageInit \/ PeekRebuilds
  <2>1. flash' = flash /\ RebuildFrom(flash) /\ pc' # "commit"
    BY <1>0, <1>1 DEF StorageInit, PeekRebuilds
  <2>2. TailPlaced(flash', head', tail')
    BY <1>0, <2>1, ScanPlacesTail DEF RebuildFrom
  <2>3. Valid' = {} => FreshOrder' = 1
    BY <2>1 DEF RebuildFrom, NextOrderOf, FreshOrder, Valid
  <2> QED BY <2>2, <2>3 DEF TailFirst
<1>2. CASE AppendToBlankPage \/ AppendToUsedPage \/ Checkpoint \/ Flush \/ UNCHANGED vars
  <2>1. /\ flash' = flash /\ ready' = ready /\ head' = head /\ tail' = tail /\ nextOrder' = nextOrder
        /\ pc' = "commit" <=> pc = "commit"
    BY <1>2 DEF AppendToBlankPage, AppendToUsedPage, StartAppend, Checkpoint, Flush, vars, ram
  <2> QED BY <2>1 DEF TailFirst, FreshOrder, Valid
<1>3. CASE EraseSector
  <2>1. RebuildFrom(flash') /\ pc' = "body" /\ pc = "erase"
    BY <1>3 DEF EraseSector
  <2>2. PagesBelow(flash', PriorRecords + NewestOffered)
    <3>1. IInv'
      BY <1>3, NextInv DEF Next
    <3>2. flash' \in [Slots -> Page]
      BY <3>1 DEF IInv, RingInv, TypeOK
    <3>3. \A s \in ValidIn(flash') : s \in ValidIn(flash) /\ flash'[s] = flash[s]
      BY <1>3 DEF EraseSector, ValidIn, Blank
    <3> QED BY <1>0, <3>2, <3>3 DEF PagesBelow
  <2>3. TailPlaced(flash', head', tail')
    BY <2>1, <2>2, ScanPlacesTail DEF RebuildFrom
  <2>4. Valid' = {} => FreshOrder' = 1
    BY <2>1 DEF RebuildFrom, NextOrderOf, FreshOrder, Valid
  <2> QED BY <2>3, <2>4 DEF TailFirst
<1>4. CASE ProgramBody
  <2>1. /\ flash' = [flash EXCEPT ![head] = [st |-> "body", order |-> nextOrder, rec |-> arrivals]]
        /\ flash[head].st = "blank" /\ pc = "body" /\ pc' = "commit" /\ head' = head /\ tail' = tail
        /\ nextOrder' = nextOrder + 1 /\ ready /\ ready' = ready
    BY <1>0, <1>4 DEF ProgramBody, IInv, HeadPage, HeadIsBlank
  <2>2. flash'[head].st = "body" /\ \A s \in Slots : s # head => flash'[s] = flash[s]
    BY <1>0, <2>1
  <2>3. /\ PendingIn(flash') = PendingIn(flash) /\ ValidIn(flash') = ValidIn(flash)
        /\ \A s \in PendingIn(flash) : flash'[s] = flash[s]
    BY <2>1, <2>2 DEF PendingIn, ValidIn
  <2>4. LaterIn(flash') = LaterIn(flash) /\ \A s \in LaterIn(flash) : flash'[s] = flash[s]
    BY <2>3 DEF LaterIn
  <2>5. /\ flash'[tail].st = "pending" <=> flash[tail].st = "pending"
        /\ flash[tail].st = "pending" => flash'[tail] = flash[tail]
    BY <1>0, <2>1, <2>2
  <2>6. TailPlaced(flash', head, tail)
    BY <2>1, <2>3, <2>4, <2>5 DEF TailFirst, TailPlaced
  <2>7. FreshOrder' = FreshOrder
    BY <1>0, <2>1 DEF FreshOrder
  <2> QED BY <2>1, <2>3, <2>6, <2>7 DEF TailFirst, Valid
<1>5. CASE ProgramCommit
  <2>1. ready /\ head' = Succ(head) /\ tail' = tail /\ ready' = ready /\ flash[head].st = "body"
    BY <1>0, <1>5 DEF ProgramCommit, IInv, HeadPage
  <2>2. /\ Pending' = Pending \cup {head} /\ head \notin Valid
        /\ flash'[head].st = "pending" /\ flash'[head].order = FreshOrder
        /\ \A s \in Slots : s # head => flash'[s] = flash[s]
        /\ \A s \in Valid : s \in Slots /\ s # head /\ flash[s].order < FreshOrder
        /\ Valid' = Valid \cup {head}
    BY <1>5, CommitAdds
  <2>3. /\ \A s \in LaterIn(flash') : s = head \/ (s \in LaterIn(flash) /\ flash'[s] = flash[s])
        /\ FreshOrder = 1 => \A s \in LaterIn(flash') : s # head
    BY <2>2, ScanSets DEF LaterIn, Pending, Valid
  <2>4. CASE flash[tail].st = "pending"
    <3>1. tail \in Valid /\ tail # head
      BY <1>0, <2>1, <2>4 DEF Valid, ValidIn
    <3>2. \A s \in LaterIn(flash) : flash[tail].order <= flash[s].order
      BY <2>1, <2>4 DEF TailFirst, TailPlaced
    <3>3. flash'[tail] = flash[tail] /\ flash[tail].order < FreshOrder
      BY <1>0, <2>2, <3>1
    <3>4. flash[tail].order \in Nat /\ FreshOrder \in Int
      BY <1>0, PageFields DEF FreshOrder
    <3>5. \A s \in LaterIn(flash') : flash'[tail].order <= flash'[s].order
      BY <2>2, <2>3, <3>2, <3>3, <3>4
    <3> QED BY <2>1, <2>2, <2>4, <3>3, <3>5 DEF TailFirst, TailPlaced
  <2>5. CASE flash[tail].st # "pending" /\ tail = head /\ LaterIn(flash) = {}
    <3>1. FreshOrder \in Int
      BY <1>0 DEF FreshOrder
    <3>2. \A s \in LaterIn(flash') : flash'[tail].order <= flash'[s].order
      BY <2>2, <2>3, <2>5, <3>1
    <3> QED BY <2>1, <2>2, <2>5, <3>2 DEF TailFirst, TailPlaced
  <2>6. CASE flash[tail].st # "pending" /\ ValidIn(flash) = {} /\ head = 0 /\ tail = Succ(0)
    <3>1. tail # head
      BY <2>6, RingArithmetic DEF Succ
    <3>2. flash'[tail].st # "pending"
      BY <1>0, <2>2, <2>6, <3>1
    <3>3. FreshOrder = 1
      BY <2>1, <2>6 DEF TailFirst, Valid
    <3>4. LaterIn(flash') = {}
      BY <2>3, <2>6, <3>3, ScanSets DEF LaterIn
    <3> QED BY <2>1, <2>2, <2>6, <3>2, <3>4 DEF TailFirst, TailPlaced
  <2> QED BY <2>1, <2>4, <2>5, <2>6 DEF TailFirst, TailPlaced
<1>6. CASE Pop
  <2>1. /\ ready /\ ready' = ready /\ TailPending /\ pc = "idle" /\ pc' # "commit" /\ pc' # "erase"
        /\ flash' = Delivered /\ head' = head /\ nextOrder' = nextOrder
        /\ tail' = IF count' = 0 THEN head
                   ELSE IF PendingIn(flash') = {} THEN head
                   ELSE NextPending(flash', tail)
    BY <1>6 DEF Pop, Delivered
  <2>2. /\ ValidIn(flash') = ValidIn(flash) /\ tail \in PendingIn(flash)
        /\ PendingIn(flash') = PendingIn(flash) \ {tail}
        /\ \A s \in ValidIn(flash) : flash'[s].order = flash[s].order
        /\ PagesBelow(flash', PriorRecords + NewestOffered)
        /\ RingShape(flash') /\ HeadOf(flash') = head
    BY <2>1, PopPages DEF IInv, HeadPage
  <2>3. IInv'
    BY <1>6, NextInv DEF Next
  <2>4. count' = 0 => PendingIn(flash') = {}
    BY <2>1, <2>3, ScanSets, FS_EmptySet, Zenon DEF IInv, CountMatches, Pending
  <2>5. TailPlaced(flash', head, tail')
    <3>1. CASE PendingIn(flash') = {}
      <4>1. tail' = head /\ LaterIn(flash') = {} /\ flash'[head].st # "pending"
        BY <1>0, <2>1, <3>1 DEF LaterIn, PendingIn
      <4> QED BY <4>1 DEF TailPlaced
    <3>2. CASE PendingIn(flash') # {}
      <4>1. tail' = NextPending(flash', tail)
        BY <2>1, <2>4, <3>2
      <4>2. \A s \in LaterIn(flash') : flash'[tail].order <= flash'[s].order
        <5>1. \A s \in LaterIn(flash) : flash[tail].order <= flash[s].order
          BY <2>1 DEF TailFirst, TailPlaced, TailPending
        <5>2. \A s \in LaterIn(flash') : s \in LaterIn(flash) /\ s \in ValidIn(flash)
          BY <2>2, ScanSets DEF LaterIn
        <5>3. tail \in ValidIn(flash)
          BY <2>2, ScanSets
        <5> QED BY <2>2, <5>1, <5>2, <5>3
      <4>3. /\ flash' \in [Slots -> Page] /\ SortedFrom(flash', head) /\ tail \in ValidIn(flash')
            /\ \A s \in PendingIn(flash') : s # tail
        BY <2>2, ScanSets DEF PagesBelow, RingShape
      <4>4. /\ NextPending(flash', tail) \in PendingIn(flash')
            /\ \A s \in LaterIn(flash') : flash'[NextPending(flash', tail)].order <= flash'[s].order
        BY <1>0, <3>2, <4>2, <4>3, NearestIsOldestLater
      <4> QED BY <4>1, <4>4 DEF TailPlaced, PendingIn
    <3> QED BY <3>1, <3>2
  <2>6. FreshOrder' = FreshOrder
    BY <2>1 DEF FreshOrder
  <2> QED BY <2>1, <2>2, <2>5, <2>6 DEF TailFirst, Valid
<1>7. CASE PowerLoss
    BY <1>7 DEF PowerLoss, TailFirst
<1> QED BY <1>1, <1>2, <1>3, <1>4, <1>5, <1>6, <1>7 DEF Next

-----------------------------------------------------------------------------
(* The network task and what it has in hand.                               *)

\* What is forwarded is older than what is not; the record in hand is as old
\* as the oldest one waiting and, until a reclaim, still at the tail.
Forwarding ==
    /\ forwarded \subseteq 0..NewestOffered
    /\ \A s \in Later, r \in forwarded : flash[s].rec \notin forwarded => r < flash[s].rec
    /\ at # "poll" => ready
    /\ at \in {"publish", "pop"} => /\ held \in 0..NewestOffered
                                    /\ reclaimed \/ (TailPending /\ flash[tail].rec = held)
    /\ at = "publish" => \A s \in Later : held <= flash[s].rec
    /\ at = "pop" => held \in forwarded

ReplayInv == IInv /\ Numbered /\ TailFirst /\ Forwarding

\* Every step of the system is a step of the queue, or none.
LEMMA QueueMoves == ASSUME [ReplayNext]_rvars PROVE [Next]_vars
BY DEF ReplayNext, ReplayAppend, ReplayFlashStep, ReplayErase, ReplayBoot, ReplayPowerLoss, NetworkStep,
   StartReplay, FinishReplay, PeekRefused, PeekTail, PeekAfterRebuild, PublishOk, PublishFails, PopRefused, PopTail,
   Next, rvars

\* The ids of pending records: the oldest has the smallest.
LEMMA OldestId ==
    ASSUME IInv, Numbered, NEW t \in Pending, \A s \in Later : flash[t].order <= flash[s].order
    PROVE  flash[t].rec \in 1..NewestOffered /\ \A s \in Later : flash[t].rec <= flash[s].rec
<1>1. flash[t].rec \in 1..NewestOffered /\ NewestOffered \in Nat
    BY PagesInv DEF Numbered, IInv
<1>2. ASSUME NEW s \in Later PROVE flash[t].rec <= flash[s].rec
  <2>1. s \in Pending
    BY DEF Later, LaterIn, Pending
  <2>2. CASE s = t
    BY <1>1, <2>2
  <2>3. CASE s # t
    <3>1. flash \in [Slots -> Page] /\ HeadOf(flash) \in Slots /\ SortedFrom(flash, HeadOf(flash))
      BY PagesInv, ScanInRing DEF IInv, RingInv, TypeOK, RingShape
    <3>2. flash[t].order < flash[s].order
      BY <2>1, <2>3, <3>1, ScanSets, OrdersDiffer DEF Pending
    <3>3. flash[t].rec < flash[s].rec
      BY <2>1, <3>2 DEF Numbered
    <3>4. flash[s].rec \in Nat
      BY <1>1, <2>1 DEF Numbered
    <3> QED BY <1>1, <3>3, <3>4
  <2> QED BY <2>2, <2>3
<1> QED BY <1>1, <1>2

\* What a step of the queue does to the records that are not forwarded yet.
LEMMA LaterMoves ==
    ASSUME IInv, Numbered, [Next]_vars, NEW s \in Later'
    PROVE  \/ s \in Later /\ flash'[s].rec = flash[s].rec
           \/ flash'[s].rec \in Nat /\ \A n \in 0..NewestOffered : n < flash'[s].rec
<1>1. s \in Pending' /\ flash'[s].order > 1
    BY DEF Later, LaterIn, Pending
<1>2. CASE ~ProgramCommit
  <2>1. s \in Pending /\ flash'[s] = flash[s]
    BY <1>1, <1>2, PendingKept
  <2> QED BY <1>1, <2>1 DEF Later, LaterIn, Pending
<1>3. CASE ProgramCommit
  <2>1. /\ s \in Pending \/ s = head
        /\ head \notin Valid /\ flash'[head].rec = flash[head].rec
        /\ \A t \in Slots : t # head => flash'[t] = flash[t]
    BY <1>1, <1>3, CommitAdds
  <2>2. CASE s = head
    <3>1. flash'[s].rec = arrivals
      BY <1>3, <2>1, <2>2 DEF ProgramCommit, Numbered
    <3>2. NewestOffered \in Nat /\ NewestOffered < arrivals /\ arrivals \in Nat
      BY <1>3, OfferedGrows, PagesInv DEF IInv
    <3> QED BY <3>1, <3>2
  <2>3. CASE s # head
    <3>1. s \in Pending /\ s \in Slots
      BY <2>1, <2>3, ScanSets DEF Pending
    <3> QED BY <1>1, <2>1, <2>3, <3>1 DEF Later, LaterIn, Pending
  <2> QED BY <2>2, <2>3
<1> QED BY <1>2, <1>3

\* The queue moves; what is forwarded, and how it was forwarded, stays.
LEMMA ForwardingKept ==
    ASSUME IInv, Numbered, Forwarding, [Next]_vars, forwarded' = forwarded
    PROVE  /\ forwarded' \subseteq 0..NewestOffered'
           /\ \A s \in Later', r \in forwarded' : flash'[s].rec \notin forwarded' => r < flash'[s].rec
           /\ held \in 0..NewestOffered => held \in 0..NewestOffered'
           /\ held \in 0..NewestOffered /\ (\A s \in Later : held <= flash[s].rec)
                => \A s \in Later' : held <= flash'[s].rec
<1>1. NewestOffered \in Nat /\ NewestOffered' \in Nat /\ NewestOffered <= NewestOffered'
    BY OfferedGrows
<1>2. forwarded \subseteq 0..NewestOffered
    BY DEF Forwarding
<1>3. ASSUME NEW s \in Later', NEW r \in forwarded', flash'[s].rec \notin forwarded'
      PROVE  r < flash'[s].rec
    BY <1>2, <1>3, LaterMoves DEF Forwarding
<1>4. ASSUME held \in 0..NewestOffered, \A s \in Later : held <= flash[s].rec, NEW s \in Later'
      PROVE  held <= flash'[s].rec
  <2>1. CASE s \in Later /\ flash'[s].rec = flash[s].rec
    BY <1>4, <2>1
  <2>2. CASE flash'[s].rec \in Nat /\ \A n \in 0..NewestOffered : n < flash'[s].rec
    <3>1. held < flash'[s].rec /\ held \in Nat
      BY <1>1, <1>4, <2>2
    <3> QED BY <2>2, <3>1
  <2> QED BY <2>1, <2>2, LaterMoves
<1> QED BY <1>1, <1>2, <1>3, <1>4

\* The other tasks leave the pending record at the tail where it is.
LEMMA TailKept ==
    ASSUME IInv, TailPending, ReplayAppend \/ ProgramBody \/ ProgramCommit \/ Checkpoint
    PROVE  tail' = tail /\ ready' = ready /\ flash'[tail] = flash[tail]
<1>1. tail \in Slots /\ head \in Slots /\ flash \in [Slots -> Page] /\ flash[tail].st = "pending"
    BY DEF IInv, RingInv, TypeOK, TailPending
<1>2. CASE ReplayAppend \/ Checkpoint
    BY <1>2 DEF ReplayAppend, AppendToBlankPage, AppendToUsedPage, Flush, Checkpoint, ram
<1>3. CASE ProgramBody
  <2>1. flash[head].st = "blank"
    BY <1>3 DEF ProgramBody, IInv, HeadPage, HeadIsBlank
  <2> QED BY <1>1, <1>3, <2>1 DEF ProgramBody
<1>4. CASE ProgramCommit
  <2>1. flash[head].st = "body"
    BY <1>4 DEF ProgramCommit, IInv, HeadPage
  <2> QED BY <1>1, <1>4, <2>1 DEF ProgramCommit
<1> QED BY <1>2, <1>3, <1>4

LEMMA ForwardingStep ==
    ASSUME ReplayInv, [ReplayNext]_rvars
    PROVE  Forwarding'
<1>0. /\ IInv /\ Numbered /\ TailFirst /\ Forwarding /\ [Next]_vars
      /\ NewestOffered \in Nat /\ NewestOffered' \in Nat /\ NewestOffered <= NewestOffered'
    BY QueueMoves, OfferedGrows DEF ReplayInv
<1>K. forwarded' = forwarded =>
          /\ forwarded' \subseteq 0..NewestOffered'
          /\ \A s \in Later', r \in forwarded' : flash'[s].rec \notin forwarded' => r < flash'[s].rec
          /\ held \in 0..NewestOffered => held \in 0..NewestOffered'
          /\ held \in 0..NewestOffered /\ (\A s \in Later : held <= flash[s].rec)
               => \A s \in Later' : held <= flash'[s].rec
    BY <1>0, ForwardingKept
<1>1. CASE ReplayAppend \/ ((ProgramBody \/ ProgramCommit \/ Checkpoint) /\ UNCHANGED task)
  <2>1. at' = at /\ held' = held /\ forwarded' = forwarded /\ reclaimed' = reclaimed
    BY <1>1 DEF ReplayAppend, task
  <2>2. ready' = ready
    BY <1>1 DEF ReplayAppend, AppendToBlankPage, AppendToUsedPage, Flush, ProgramBody, ProgramCommit, Checkpoint, ram
  <2>3. TailPending /\ flash[tail].rec = held => TailPending' /\ flash'[tail'].rec = held
    BY <1>0, <1>1, TailKept DEF TailPending
  <2> QED BY <1>0, <1>K, <2>1, <2>2, <2>3 DEF Forwarding
<1>2. CASE ReplayErase
  <2>1. at' = at /\ held' = held /\ forwarded' = forwarded /\ reclaimed' = TRUE /\ ready' = ready
    BY <1>2 DEF ReplayErase, EraseSector
  <2> QED BY <1>0, <1>K, <2>1 DEF Forwarding
<1>3. CASE ReplayBoot
  <2>1. at' = at /\ held' = held /\ forwarded' = forwarded /\ ready' = TRUE /\ ~ready
    BY <1>3 DEF ReplayBoot, task, StorageInit
  <2> QED BY <1>0, <1>K, <2>1 DEF Forwarding
<1>4. CASE ReplayPowerLoss
  <2>1. at' = "poll" /\ forwarded' = forwarded
    BY <1>4 DEF ReplayPowerLoss, GoTo
  <2> QED BY <1>K, <2>1 DEF Forwarding
<1>5. CASE StartReplay \/ FinishReplay \/ PeekRefused \/ PopRefused
  <2>1. at' \in {"poll", "peek"} /\ forwarded' = forwarded /\ ready' = ready /\ (at' # "poll" => ready)
    BY <1>0, <1>5 DEF StartReplay, FinishReplay, PeekRefused, PopRefused, GoTo, HasPending, vars, ram
  <2> QED BY <1>K, <2>1 DEF Forwarding
<1>6. CASE PeekTail
  <2>1. /\ at = "peek" /\ at' = "publish" /\ held' = flash[tail].rec /\ forwarded' = forwarded
        /\ UNCHANGED vars /\ TailPending
    BY <1>6 DEF PeekTail, GoTo
  <2>2. /\ flash' = flash /\ ready' = ready /\ tail' = tail /\ NewestOffered' = NewestOffered
        /\ Later' = Later /\ TailPending'
    BY <2>1 DEF vars, ram, NewestOffered, AppendInProgress, Later, TailPending
  <2>3. ready /\ tail \in Pending /\ \A s \in Later : flash[tail].order <= flash[s].order
    BY <1>0, <2>1 DEF Forwarding, TailFirst, TailPlaced, TailPending, Later, Pending, PendingIn, IInv, RingInv, TypeOK
  <2>4. flash[tail].rec \in 1..NewestOffered /\ \A s \in Later : flash[tail].rec <= flash[s].rec
    BY <1>0, <2>3, OldestId
  <2> QED BY <1>0, <1>K, <2>1, <2>2, <2>3, <2>4 DEF Forwarding
<1>7. CASE PeekAfterRebuild
  <2>1. /\ at = "peek" /\ PeekRebuilds /\ forwarded' = forwarded
        /\ (count' > 0 /\ at' = "publish" /\ held' = flash[tail'].rec) \/ at' = "poll"
    BY <1>7 DEF PeekAfterRebuild, GoTo
  <2>2. CASE at' = "poll"
    BY <1>K, <2>1, <2>2 DEF Forwarding
  <2>3. CASE count' > 0 /\ at' = "publish" /\ held' = flash[tail'].rec
    <3>1. /\ flash' = flash /\ ready' = ready /\ ready /\ pc = "idle" /\ pc' = pc /\ arrivals' = arrivals
          /\ count' = Cardinality(PendingIn(flash)) /\ tail' = TailOf(flash)
      BY <2>1 DEF PeekRebuilds, RebuildFrom
    <3>2. PendingIn(flash) # {}
      BY <2>3, <3>1, FS_EmptySet
    <3>3. /\ tail' \in PendingIn(flash) /\ \A s \in PendingIn(flash) : flash[tail'].order <= flash[s].order
      BY <1>0, <3>1, <3>2, OldestExists DEF TailOf, IInv, RingInv, TypeOK
    <3>4. NewestOffered' = NewestOffered /\ Later' = Later /\ TailPending'
      BY <3>1, <3>3 DEF NewestOffered, AppendInProgress, Later, TailPending, PendingIn
    <3>5. tail' \in Pending /\ \A s \in Later : flash[tail'].order <= flash[s].order
      BY <3>3 DEF Later, LaterIn, Pending
    <3>6. PICK t \in Pending : t = tail'
      BY <3>5
    <3>7. flash[t].rec \in 1..NewestOffered /\ \A s \in Later : flash[t].rec <= flash[s].rec
      BY <1>0, <3>5, <3>6, OldestId
    <3> QED BY <1>0, <1>K, <2>1, <2>3, <3>1, <3>4, <3>6, <3>7 DEF Forwarding
  <2> QED BY <2>1, <2>2, <2>3
<1>8. CASE PublishOk \/ PublishFails
  <2>1. /\ at = "publish" /\ at' \in {"pop", "poll"} /\ UNCHANGED <<vars, reclaimed>>
        /\ at' = "pop" => held' = held /\ forwarded' = forwarded \cup {held}
        /\ forwarded' = forwarded \/ forwarded' = forwarded \cup {held}
    BY <1>8 DEF PublishOk, PublishFails, GoTo
  <2>2. /\ flash' = flash /\ ready' = ready /\ tail' = tail /\ NewestOffered' = NewestOffered
        /\ Later' = Later /\ (TailPending' <=> TailPending) /\ reclaimed' = reclaimed
    BY <2>1 DEF vars, ram, NewestOffered, AppendInProgress, Later, TailPending
  <2>3. /\ held \in 0..NewestOffered /\ \A s \in Later : held <= flash[s].rec
        /\ reclaimed \/ (TailPending /\ flash[tail].rec = held)
        /\ ready
    BY <1>0, <2>1 DEF Forwarding
  <2>4. \A s \in Later : flash[s].rec \in Nat
    BY <1>0 DEF Numbered, Later, LaterIn, Pending
  <2>5. \A s \in Later' : flash'[s].rec \notin forwarded \cup {held} => held < flash'[s].rec
    BY <1>0, <2>2, <2>3, <2>4
  <2>6. /\ forwarded' \subseteq 0..NewestOffered'
        /\ \A s \in Later', r \in forwarded' : flash'[s].rec \notin forwarded' => r < flash'[s].rec
    BY <1>0, <1>K, <2>1, <2>2, <2>3, <2>5 DEF Forwarding
  <2>7. ready'
    BY <1>0, <2>1, <2>2 DEF Forwarding
  <2> QED BY <2>1, <2>2, <2>3, <2>6, <2>7 DEF Forwarding
<1>9. CASE PopTail
  <2>1. at' = "poll" /\ forwarded' = forwarded
    BY <1>9 DEF PopTail, GoTo
  <2> QED BY <1>K, <2>1 DEF Forwarding
<1>10. CASE UNCHANGED rvars
  <2>1. /\ at' = at /\ held' = held /\ forwarded' = forwarded /\ reclaimed' = reclaimed
        /\ flash' = flash /\ ready' = ready /\ tail' = tail
    BY <1>10 DEF rvars, task, vars, ram
  <2>2. TailPending' <=> TailPending
    BY <2>1 DEF TailPending
  <2> QED BY <1>0, <1>K, <2>1, <2>2 DEF Forwarding
<1> QED BY <1>1, <1>2, <1>3, <1>4, <1>5, <1>6, <1>7, <1>8, <1>9, <1>10
        DEF ReplayNext, ReplayFlashStep, NetworkStep

\* Only a pop marks a record delivered: the one at the tail.
LEMMA SkipStep ==
    ASSUME ReplayInv, [ReplayNext]_rvars, NEW s \in Pending \cap ValidIn(flash'), flash'[s].st = "delivered"
    PROVE  flash[s].rec \in forwarded \/ reclaimed
<1>1. IInv /\ [Next]_vars /\ s \in Slots /\ flash[s].st = "pending" /\ flash \in [Slots -> Page] /\ head \in Slots
    BY QueueMoves DEF ReplayInv, IInv, RingInv, TypeOK, Pending, PendingIn
<1>2. flash'[s] # flash[s]
    BY <1>1
<1>3. PopTail
  <2>1. ASSUME ~Pop PROVE FALSE
    <3>1. CASE StorageInit \/ PeekRebuilds \/ AppendToBlankPage \/ AppendToUsedPage \/ Checkpoint \/ Flush \/ UNCHANGED vars
      <4>1. flash' = flash
        BY <3>1, Zenon DEF StorageInit, PeekRebuilds, AppendToBlankPage, AppendToUsedPage, Checkpoint, Flush, vars
      <4> QED BY <1>2, <4>1
    <3>2. CASE EraseSector
      BY <1>1, <3>2 DEF EraseSector, Blank
    <3>3. CASE ProgramBody
      <4>1. flash[head].st = "blank"
        BY <3>3 DEF ProgramBody, IInv, HeadPage, HeadIsBlank, ReplayInv
      <4> QED BY <1>1, <3>3, <4>1 DEF ProgramBody
    <3>4. CASE ProgramCommit
      BY <1>1, <3>4, CommitAdds
    <3>5. CASE PowerLoss
      <4>1. CASE pc = "erase"
        BY <1>1, <1>2, <3>5, <4>1, EraseCut DEF PowerLoss
      <4>2. CASE pc = "body" /\ flash' = [flash EXCEPT ![head] = Garbage]
        BY <1>1, <4>2 DEF Garbage
      <4>3. CASE flash' = flash
        BY <1>2, <4>3
      <4> QED BY <3>5, <4>1, <4>2, <4>3 DEF PowerLoss, Interrupted
    <3> QED BY <1>1, <2>1, <3>1, <3>2, <3>3, <3>4, <3>5 DEF Next
  <2>2. ~UNCHANGED vars
    BY <1>2 DEF vars
  <2>3. ~StorageInit /\ ~PeekRebuilds /\ ~AppendToBlankPage /\ ~AppendToUsedPage /\ ~Checkpoint /\ ~Flush
    BY <1>2 DEF StorageInit, PeekRebuilds, AppendToBlankPage, AppendToUsedPage, Checkpoint, Flush
  <2>4. pc = "idle" /\ ready'
    BY <1>1, <2>1 DEF Pop
  <2>5. ~EraseSector /\ ~ProgramBody /\ ~ProgramCommit /\ ~PowerLoss
    BY <2>4 DEF EraseSector, ProgramBody, ProgramCommit, PowerLoss
  <2> QED BY <2>2, <2>3, <2>5 DEF ReplayNext, ReplayAppend, ReplayFlashStep, ReplayErase, ReplayBoot, ReplayPowerLoss,
        NetworkStep, StartReplay, FinishReplay, PeekRefused, PeekTail, PeekAfterRebuild, PublishOk, PublishFails,
        PopRefused, rvars
<1>4. at = "pop" /\ tail \in Slots /\ flash' = [flash EXCEPT ![tail].st = "delivered"]
    BY <1>1, <1>3 DEF PopTail, Pop, IInv, RingInv, TypeOK
<1>5. s = tail
    BY <1>1, <1>2, <1>4
<1> QED BY <1>4, <1>5 DEF ReplayInv, Forwarding

\* The network task forwards the records first in, first out, on a new device
\* too, where the first record ever may come late, and marks none delivered
\* that the broker has not accepted unless a sector is reclaimed between its
\* peek and its pop (networkTask, storage_peek, storage_pop).
THEOREM ForwardingIsFaithful == ReplaySpec => ForwardsFaithfully
<1>1. ReplayInit => ReplayInv
  <2> SUFFICES ASSUME ReplayInit PROVE ReplayInv
    OBVIOUS
  <2>1. /\ IInv /\ Numbered /\ ~ready /\ at = "poll" /\ forwarded = {}
    BY InitInv, InitPromised DEF ReplayInit, Init
  <2> QED BY <2>1 DEF ReplayInv, Forwarding, TailFirst
<1>2. ReplayInv /\ [ReplayNext]_rvars => ReplayInv'
    BY QueueMoves, NextInv, NumberedStep, TailFirstStep, ForwardingStep DEF ReplayInv
<1>3. ReplayInv => ForwardedInOrder
    BY DEF ReplayInv, Forwarding, ForwardedInOrder, Later, LaterIn, Pending
<1>4. ReplayInv /\ [ReplayNext]_rvars =>
        [\A s \in Pending \cap ValidIn(flash') :
            flash'[s].st = "delivered" => flash[s].rec \in forwarded \/ reclaimed]_rvars
    BY SkipStep
<1> QED BY <1>1, <1>2, <1>3, <1>4, PTL DEF ReplaySpec, ForwardsFaithfully, SkipsOnlyAfterReclaim
=============================================================================

---------------------------- MODULE IndexProofs -----------------------------
(***************************************************************************)
(* Proofs about the files of a corpus and the lookups in them, for any         *)
(* number of spans, nodes, layers, tokens and files.                          *)
(*                                                                         *)
(* A lookup is a binary search, which is a recursive function, and the terms   *)
(* of a layer are listed by a fold, which is one too.  What such a function     *)
(* returns is shown in three steps: there is a function that satisfies its      *)
(* equation; the one it is defined by choice to be satisfies it then; and its   *)
(* values follow by taking the least number at which one would be wrong.        *)
(***************************************************************************)
EXTENDS CorpusCalls, FiniteSetTheorems, SequenceTheorems, WellFoundedInduction, TLAPS

(* Induction: of some numbers there is always a least one. *)
LEMMA LeastNumber ==
  ASSUME NEW T, T \subseteq Nat, T # {}
  PROVE  \E m \in T : \A k \in T : m <= k
<1>1. PICK m \in T : \A k \in T : ~ (<<k, m>> \in OpToRel(<, Nat))
  BY NatLessThanWellFounded, WFMin, Zenon
<1>2. \A k \in T : ~ (k < m)
  BY <1>1 DEF OpToRel
<1> QED BY <1>2

(* Hence Min is what its name says. *)
LEMMA MinOfNumbers ==
  ASSUME NEW T, T \subseteq Nat, T # {}
  PROVE  Min(T) \in T /\ \A k \in T : Min(T) <= k
BY LeastNumber, Zenon DEF Min

-----------------------------------------------------------------------------
(* The binary search. *)

(* The right side of the equation that the search of Bisect satisfies. *)
Halves(search, below, n) ==
  [window \in (0 .. n) \X (0 .. n) |->
        LET lo == window[1]
            hi == window[2]
            mid == lo + (hi - lo) \div 2
        IN IF lo >= hi THEN lo ELSE IF mid \in below THEN search[<<mid + 1, hi>>] ELSE search[<<lo, mid>>]]

(* Bisect asks a solution of this equation about the whole window. *)
LEMMA BisectUnfolds ==
  ASSUME NEW below, NEW n
  PROVE Bisect(below, n) = (CHOOSE search : search = Halves(search, below, n))[<<0, n>>]
  BY Zenon DEF Bisect, Halves

(* The middle of a window that is not empty is in it. *)
LEMMA MidBetween ==
  ASSUME NEW lo \in Nat, NEW hi \in Nat, lo < hi
  PROVE  /\ lo + (hi - lo) \div 2 \in Nat
         /\ lo <= lo + (hi - lo) \div 2
         /\ lo + (hi - lo) \div 2 < hi
  OBVIOUS

(* When the numbers below are those before k, the function that brings k back  *)
(* into its window solves the equation.                                      *)
LEMMA HalvesHasFixpoint ==
  ASSUME NEW n \in Nat, NEW k \in 0 .. n, NEW below, \A i \in 0 .. n - 1 : i \in below <=> i < k
  PROVE  \E search : search = Halves(search, below, n)
<1> DEFINE g == [window \in (0 .. n) \X (0 .. n) |->
                  IF window[1] >= window[2] \/ k <= window[1] THEN window[1] ELSE IF k >= window[2] THEN window[2] ELSE k]
<1>1. \A lo \in 0 .. n, hi \in 0 .. n : g[<<lo, hi>>] = IF lo >= hi \/ k <= lo THEN lo ELSE IF k >= hi THEN hi ELSE k
  OBVIOUS
<1>2. ASSUME NEW lo \in 0 .. n, NEW hi \in 0 .. n
      PROVE g[<<lo, hi>>] = Halves(g, below, n)[<<lo, hi>>]
  <2> DEFINE mid == lo + (hi - lo) \div 2
  <2> HIDE DEF g
  <2>1. Halves(g, below, n)[<<lo, hi>>] = IF lo >= hi THEN lo ELSE IF mid \in below THEN g[<<mid + 1, hi>>] ELSE g[<<lo, mid>>]
    BY DEF Halves
  <2>2. CASE lo >= hi
    BY <2>1, <2>2, <1>1
  <2>3. CASE lo < hi
    <3>1. mid \in 0 .. n - 1 /\ lo <= mid /\ mid < hi /\ mid + 1 \in 0 .. n /\ mid \in 0 .. n
      BY <2>3, MidBetween
    <3> HIDE DEF mid
    <3>2. CASE mid < k
      <4>1. mid \in below BY <3>1, <3>2
      <4>2. Halves(g, below, n)[<<lo, hi>>] = g[<<mid + 1, hi>>] BY <2>1, <2>3, <4>1
      <4>3. g[<<mid + 1, hi>>] = IF mid + 1 >= hi \/ k <= mid + 1 THEN mid + 1 ELSE IF k >= hi THEN hi ELSE k
        BY <1>1, <3>1
      <4> QED BY <4>2, <4>3, <3>1, <3>2, <1>1
    <3>3. CASE ~(mid < k)
      <4>1. mid \notin below BY <3>1, <3>3
      <4>2. Halves(g, below, n)[<<lo, hi>>] = g[<<lo, mid>>] BY <2>1, <2>3, <4>1
      <4>3. g[<<lo, mid>>] = IF lo >= mid \/ k <= lo THEN lo ELSE IF k >= mid THEN mid ELSE k
        BY <1>1, <3>1
      <4> QED BY <4>2, <4>3, <3>1, <3>3, <1>1
    <3> QED BY <3>2, <3>3
  <2> QED BY <2>2, <2>3
<1>3. \A window \in (0 .. n) \X (0 .. n) : g[window] = Halves(g, below, n)[window]
  <2> HIDE DEF g
  <2> TAKE window \in (0 .. n) \X (0 .. n)
  <2>1. window = <<window[1], window[2]>> /\ window[1] \in 0 .. n /\ window[2] \in 0 .. n
    OBVIOUS
  <2> QED BY <2>1, <1>2, Zenon
<1>4. g = Halves(g, below, n)
  BY <1>3, Zenon DEF Halves
<1> QED BY <1>4

(* Every solution finds k in a window that holds it: one of the smallest        *)
(* windows where it did not would have a smaller one.                          *)
LEMMA HalvesOfPrefix ==
  ASSUME NEW n \in Nat, NEW k \in 0 .. n, NEW below, \A i \in 0 .. n - 1 : i \in below <=> i < k,
         NEW search, search = Halves(search, below, n)
  PROVE  search[<<0, n>>] = k
<1> DEFINE T == {d \in Nat : \E lo \in 0 .. n, hi \in 0 .. n :
                   lo <= k /\ k <= hi /\ d = hi - lo /\ search[<<lo, hi>>] # k}
<1>1. T = {}
  <2> SUFFICES ASSUME T # {} PROVE FALSE
    OBVIOUS
  <2>1. PICK d \in T : \A e \in T : d <= e
    <3> HIDE DEF T
    <3>1. T \subseteq Nat BY DEF T
    <3> QED BY <3>1, LeastNumber
  <2>2. PICK lo \in 0 .. n, hi \in 0 .. n : lo <= k /\ k <= hi /\ d = hi - lo /\ search[<<lo, hi>>] # k
    BY <2>1
  <2> DEFINE mid == lo + (hi - lo) \div 2
  <2>3. search[<<lo, hi>>] = IF lo >= hi THEN lo
                             ELSE IF mid \in below THEN search[<<mid + 1, hi>>] ELSE search[<<lo, mid>>]
    <3>1. Halves(search, below, n)[<<lo, hi>>] = IF lo >= hi THEN lo
                             ELSE IF mid \in below THEN search[<<mid + 1, hi>>] ELSE search[<<lo, mid>>]
      BY DEF Halves
    <3> QED BY <3>1
  <2>4. CASE lo >= hi
    BY <2>2, <2>3, <2>4
  <2>5. CASE lo < hi
    <3>1. mid \in 0 .. n - 1 /\ lo <= mid /\ mid < hi /\ mid + 1 \in 0 .. n /\ mid \in 0 .. n
      BY <2>5, MidBetween
    <3> HIDE DEF mid, T
    <3>2. \A l \in 0 .. n, h \in 0 .. n : l <= k /\ k <= h /\ h - l < d /\ l <= h => search[<<l, h>>] = k
      <4> SUFFICES ASSUME NEW l \in 0 .. n, NEW h \in 0 .. n, l <= k, k <= h, h - l < d, l <= h, search[<<l, h>>] # k
                   PROVE FALSE
        OBVIOUS
      <4>1. h - l \in T
        <5>1. h - l \in Nat
          OBVIOUS
        <5> QED BY <5>1, Zenon DEF T
      <4> QED BY <4>1, <2>1, <2>2
    <3>3. CASE mid < k
      BY <3>1, <3>2, <3>3, <2>2, <2>3, <2>5
    <3>4. CASE ~(mid < k)
      BY <3>1, <3>2, <3>4, <2>2, <2>3, <2>5
    <3> QED BY <3>3, <3>4
  <2> QED BY <2>4, <2>5
<1>2. n - 0 \in Nat /\ 0 <= k /\ k <= n /\ n \in 0 .. n /\ 0 \in 0 .. n
  OBVIOUS
<1> QED BY <1>1, <1>2, Zenon

(* A binary search finds the end of a prefix, wherever it is: the halving loses *)
(* no index and stops.                                                       *)
THEOREM BisectFindsBoundary ==
  ASSUME NEW n \in Nat, NEW k \in 0 .. n, NEW below, \A i \in 0 .. n - 1 : i \in below <=> i < k
  PROVE  Bisect(below, n) = k
<1> DEFINE search == CHOOSE search : search = Halves(search, below, n)
<1>1. search = Halves(search, below, n)
  BY HalvesHasFixpoint, Zenon
<1> HIDE DEF search
<1>2. search[<<0, n>>] = k
  BY <1>1, HalvesOfPrefix
<1> QED BY <1>2, BisectUnfolds, Zenon DEF search

(* A set of indices that has all those before one it has is a prefix. *)
LEMMA BoundaryExists ==
  ASSUME NEW n \in Nat, NEW below,
         \A i \in 0 .. n - 1, j \in 0 .. n - 1 : i < j /\ j \in below => i \in below
  PROVE  \E k \in 0 .. n : \A i \in 0 .. n - 1 : i \in below <=> i < k
<1> DEFINE T == {k \in 0 .. n : \A i \in 0 .. n - 1 : i \in below => i < k}
<1>1. n \in T
  OBVIOUS
<1>2. PICK k \in T : \A m \in T : k <= m
  <2>1. T \subseteq Nat
    OBVIOUS
  <2> HIDE DEF T
  <2> QED BY <1>1, <2>1, LeastNumber
<1>3. ASSUME NEW i \in 0 .. n - 1, i < k PROVE i \in below
  <2> SUFFICES ASSUME i \notin below PROVE FALSE
    OBVIOUS
  <2>1. k - 1 \in 0 .. n - 1 /\ i <= k - 1
    BY <1>3
  <2>2. ASSUME NEW j \in 0 .. n - 1, j \in below PROVE j < k - 1
    BY <2>2, <1>3, <1>2
  <2>3. k - 1 \in T
    BY <2>1, <2>2
  <2> QED BY <2>3, <1>2
<1> QED BY <1>2, <1>3

(* partition_point: when the indexes that satisfy a test come first, the search  *)
(* returns how many there are, so that just the indexes before it satisfy it.    *)
THEOREM BisectSplits ==
  ASSUME NEW n \in Nat, NEW below,
         \A i \in 0 .. n - 1, j \in 0 .. n - 1 : i < j /\ j \in below => i \in below
  PROVE  /\ Bisect(below, n) \in 0 .. n
         /\ \A i \in 0 .. n - 1 : i \in below <=> i < Bisect(below, n)
<1>1. PICK k \in 0 .. n : \A i \in 0 .. n - 1 : i \in below <=> i < k
  BY BoundaryExists
<1>2. Bisect(below, n) = k
  BY <1>1, BisectFindsBoundary
<1> QED BY <1>1, <1>2

(* The same with the indexes of a sequence, from 1. *)
LEMMA BisectCounts ==
  ASSUME NEW n \in Nat, NEW below, NEW holds,
         \A i \in 1 .. n : i - 1 \in below <=> i \in holds,
         \A i \in 1 .. n, j \in 1 .. n : i < j /\ j \in holds => i \in holds
  PROVE  /\ Bisect(below, n) \in 0 .. n
         /\ \A i \in 1 .. n : i \in holds <=> i <= Bisect(below, n)
<1> DEFINE k == Bisect(below, n)
<1>1. ASSUME NEW i \in 0 .. n - 1 PROVE i + 1 \in 1 .. n /\ (i \in below <=> i + 1 \in holds)
  <2>1. i + 1 \in 1 .. n /\ (i + 1) - 1 = i
    OBVIOUS
  <2> QED BY <2>1
<1>2. \A i \in 0 .. n - 1, j \in 0 .. n - 1 : i < j /\ j \in below => i \in below
  BY <1>1
<1>3. k \in 0 .. n /\ \A i \in 0 .. n - 1 : i \in below <=> i < k
  BY <1>2, BisectSplits
<1> HIDE DEF k
<1>4. \A i \in 1 .. n : i \in holds <=> i <= k
  <2> TAKE i \in 1 .. n
  <2>1. i - 1 \in 0 .. n - 1
    OBVIOUS
  <2>2. i - 1 < k <=> i <= k
    BY <1>3
  <2> QED BY <1>3, <2>1, <2>2
<1> QED BY <1>3, <1>4 DEF k

-----------------------------------------------------------------------------
(* Lookups in spans. *)

(* Spans that follow one another, with or without gaps, and may be empty. *)
InDisjointOrder(spans) ==
  \A i \in DOMAIN spans :
    /\ spans[i].start \in Nat /\ spans[i].end \in Nat /\ spans[i].start <= spans[i].end
    /\ \A j \in DOMAIN spans : i < j => spans[i].end <= spans[j].start

(* The same by index. *)
LEMMA DisjointOrder ==
  ASSUME NEW X, NEW spans \in Seq(X), InDisjointOrder(spans)
  PROVE  /\ Len(spans) \in Nat
         /\ DOMAIN spans = 1 .. Len(spans)
         /\ \A i \in 1 .. Len(spans) :
              /\ spans[i].start \in Nat /\ spans[i].end \in Nat /\ spans[i].start <= spans[i].end
              /\ \A j \in 1 .. Len(spans) : i < j => spans[i].end <= spans[j].start
BY DEF InDisjointOrder

(* How many spans end by a position. *)
LEMMA EndsBefore ==
  ASSUME NEW X, NEW spans \in Seq(X), InDisjointOrder(spans), NEW position \in Nat, NEW k,
         k = Bisect({i \in 0 .. Len(spans) - 1 : spans[i + 1].end <= position}, Len(spans))
  PROVE  k \in 0 .. Len(spans) /\ \A i \in 1 .. Len(spans) : spans[i].end <= position <=> i <= k
<1> DEFINE n == Len(spans)
           holds == {i \in 1 .. n : spans[i].end <= position}
<1>1. \A i \in 1 .. n, j \in 1 .. n : i < j /\ j \in holds => i \in holds
  BY DisjointOrder
<1> DEFINE below == {i \in 0 .. n - 1 : spans[i + 1].end <= position}
<1>2. ASSUME NEW i \in 1 .. n PROVE i - 1 \in below <=> i \in holds
  <2>1. i - 1 \in 0 .. n - 1 /\ (i - 1) + 1 = i
    OBVIOUS
  <2> QED BY <2>1
<1>3. k \in 0 .. n /\ \A i \in 1 .. n : i \in holds <=> i <= k
  <2>1. k = Bisect(below, n) /\ n \in Nat
    OBVIOUS
  <2> HIDE DEF holds, below, n
  <2>2. Bisect(below, n) \in 0 .. n /\ \A i \in 1 .. n : i \in holds <=> i <= Bisect(below, n)
    BY <1>1, <1>2, <2>1, BisectCounts
  <2> QED BY <2>1, <2>2
<1> QED BY <1>3

(* How many spans start by a position. *)
LEMMA StartsBy ==
  ASSUME NEW X, NEW spans \in Seq(X), InDisjointOrder(spans), NEW position \in Nat, NEW k,
         k = Bisect({i \in 0 .. Len(spans) - 1 : spans[i + 1].start <= position}, Len(spans))
  PROVE  k \in 0 .. Len(spans) /\ \A i \in 1 .. Len(spans) : spans[i].start <= position <=> i <= k
<1> DEFINE n == Len(spans)
           holds == {i \in 1 .. n : spans[i].start <= position}
<1>1. \A i \in 1 .. n, j \in 1 .. n : i < j /\ j \in holds => i \in holds
  BY DisjointOrder
<1> DEFINE below == {i \in 0 .. n - 1 : spans[i + 1].start <= position}
<1>2. ASSUME NEW i \in 1 .. n PROVE i - 1 \in below <=> i \in holds
  <2>1. i - 1 \in 0 .. n - 1 /\ (i - 1) + 1 = i
    OBVIOUS
  <2> QED BY <2>1
<1>3. k \in 0 .. n /\ \A i \in 1 .. n : i \in holds <=> i <= k
  <2>1. k = Bisect(below, n) /\ n \in Nat
    OBVIOUS
  <2> HIDE DEF holds, below, n
  <2>2. Bisect(below, n) \in 0 .. n /\ \A i \in 1 .. n : i \in holds <=> i <= Bisect(below, n)
    BY <1>1, <1>2, <2>1, BisectCounts
  <2> QED BY <2>1, <2>2
<1> QED BY <1>3

(* The span found for a position is the one that holds it, and none is found    *)
(* when none holds it: in a gap, or behind the last.                           *)
THEOREM SpanContainingIsExact ==
  ASSUME NEW X, NEW spans \in Seq(X), InDisjointOrder(spans), NEW position \in Nat
  PROVE  SpanContaining(spans, position)
           = {i \in 0 .. Len(spans) - 1 : spans[i + 1].start <= position /\ position < spans[i + 1].end}
<1> DEFINE n == Len(spans)
           k == Bisect({i \in 0 .. n - 1 : spans[i + 1].end <= position}, n)
<1>1. SpanContaining(spans, position) = IF k < n /\ spans[k + 1].start <= position THEN {k} ELSE {}
  BY Zenon DEF SpanContaining, PartitionPoint
<1>2. k \in 0 .. n /\ \A i \in 1 .. n : spans[i].end <= position <=> i <= k
  BY EndsBefore
<1> HIDE DEF k
<1>3. ASSUME NEW i \in 0 .. n - 1, spans[i + 1].start <= position, position < spans[i + 1].end
      PROVE  i = k
  <2>1. i + 1 \in 1 .. n /\ ~(i + 1 <= k)
    BY <1>2, <1>3, DisjointOrder
  <2>2. ASSUME k < i PROVE FALSE
    <3>1. k + 1 \in 1 .. n /\ spans[k + 1].end <= spans[i + 1].start /\ ~(spans[k + 1].end <= position)
      BY <1>2, <2>1, <2>2, DisjointOrder
    <3> QED BY <3>1, <2>1, <1>3, DisjointOrder
  <2> QED BY <1>2, <2>1, <2>2, DisjointOrder
<1>4. ASSUME k < n PROVE k \in 0 .. n - 1 /\ position < spans[k + 1].end
  <2>1. k + 1 \in 1 .. n /\ ~(spans[k + 1].end <= position)
    BY <1>2, <1>4, DisjointOrder
  <2> QED BY <2>1, <1>2, <1>4, DisjointOrder
<1> QED BY <1>1, <1>2, <1>3, <1>4

(* The multiword token found for a position is the one that covers it, if any. *)
THEOREM MWTCoveringIsExact ==
  ASSUME NEW X, NEW mwts \in Seq(X), InDisjointOrder(mwts), NEW position \in Nat
  PROVE  MWTCovering(mwts, position)
           = {mwts[i] : i \in {j \in DOMAIN mwts : mwts[j].start <= position /\ position < mwts[j].end}}
<1> DEFINE n == Len(mwts)
           k == Bisect({i \in 0 .. n - 1 : mwts[i + 1].start <= position}, n)
           covering == {j \in DOMAIN mwts : mwts[j].start <= position /\ position < mwts[j].end}
<1>1. MWTCovering(mwts, position)
        = IF k > 0 /\ position >= mwts[k].start /\ position < mwts[k].end THEN {mwts[k]} ELSE {}
  BY Zenon DEF MWTCovering, PartitionPoint
<1>2. k \in 0 .. n /\ \A i \in 1 .. n : mwts[i].start <= position <=> i <= k
  BY StartsBy
<1> HIDE DEF k
<1>3. ASSUME NEW j \in covering
      PROVE  j = k
  <2>1. j \in 1 .. n /\ j <= k
    BY <1>2, <1>3, DisjointOrder
  <2>2. ASSUME j < k PROVE FALSE
    <3>1. k \in 1 .. n /\ mwts[j].end <= mwts[k].start /\ mwts[k].start <= position
      BY <1>2, <2>1, <2>2, DisjointOrder
    <3> QED BY <3>1, <2>1, <1>3, DisjointOrder
  <2> QED BY <1>2, <2>1, <2>2, DisjointOrder
<1>4. CASE k > 0 /\ position >= mwts[k].start /\ position < mwts[k].end
  <2>1. k \in covering
    BY <1>2, <1>4, DisjointOrder
  <2>2. covering = {k}
    BY <1>3, <2>1
  <2>3. {mwts[j] : j \in covering} = {mwts[k]}
    BY <2>2
  <2>4. MWTCovering(mwts, position) = {mwts[k]}
    BY <1>1, <1>4
  <2> QED BY <2>3, <2>4, Zenon
<1>5. CASE ~(k > 0 /\ position >= mwts[k].start /\ position < mwts[k].end)
  <2>1. k \notin covering
    BY <1>2, <1>5, DisjointOrder
  <2>2. covering = {}
    BY <1>3, <2>1
  <2>3. {mwts[j] : j \in covering} = {}
    BY <2>2
  <2>4. MWTCovering(mwts, position) = {}
    BY <1>1, <1>5
  <2> QED BY <2>3, <2>4, Zenon
<1> QED BY <1>4, <1>5

(* The multiword tokens found for a range are just those that overlap it, as     *)
(* they follow one another: those that a cut of the range goes through too.      *)
THEOREM MWTsInRangeIsExact ==
  ASSUME NEW X, NEW mwts \in Seq(X), InDisjointOrder(mwts), NEW start \in Nat, NEW end \in Nat
  PROVE  \E a \in 1 .. Len(mwts) + 1, b \in 0 .. Len(mwts) :
           /\ MWTsInRange(mwts, start, end) = SubSeq(mwts, a, b)
           /\ \A i \in DOMAIN mwts : a <= i /\ i <= b <=> mwts[i].end > start /\ mwts[i].start < end
<1> DEFINE n == Len(mwts)
           k == Bisect({i \in 0 .. n - 1 : mwts[i + 1].end <= start}, n)
           late == {i \in k + 1 .. n : mwts[i].start >= end}
           after == IF late # {} THEN Min(late) ELSE 0
           b == IF after = 0 THEN n ELSE after - 1
<1>1. MWTsInRange(mwts, start, end) = SubSeq(mwts, k + 1, b)
  BY Zenon DEF MWTsInRange, PartitionPoint, SelectInSubSeq
<1>2. k \in 0 .. n /\ \A i \in 1 .. n : mwts[i].end <= start <=> i <= k
  BY EndsBefore
<1> HIDE DEF k
<1>3. /\ n \in Nat /\ DOMAIN mwts = 1 .. n
      /\ \A i \in 1 .. n :
           /\ mwts[i].start \in Nat /\ mwts[i].end \in Nat /\ mwts[i].start <= mwts[i].end
           /\ \A j \in 1 .. n : i < j => mwts[i].end <= mwts[j].start
  BY DisjointOrder
<1>4. n = Len(mwts)
  OBVIOUS
<1> HIDE DEF n
<1>5. b \in 0 .. n /\ \A i \in k + 1 .. n : i <= b <=> mwts[i].start < end
  <2>1. CASE late = {}
    <3>1. b = n
      BY <2>1
    <3>2. \A i \in k + 1 .. n : ~(mwts[i].start >= end)
      BY <2>1
    <3> HIDE DEF late, b
    <3> QED BY <3>1, <3>2, <1>2, <1>3
  <2>2. CASE late # {}
    <3>1. Min(late) \in late /\ \A i \in late : Min(late) <= i
      <4>1. late \subseteq Nat
        BY <1>2, <1>3
      <4> HIDE DEF late
      <4> QED BY <4>1, <2>2, MinOfNumbers
    <3>2. after = Min(late) /\ Min(late) \in k + 1 .. n /\ mwts[Min(late)].start >= end
      BY <2>2, <3>1
    <3>3. \A i \in k + 1 .. n : i < Min(late) => ~(mwts[i].start >= end)
      BY <3>1, <3>2, <1>2, <1>3
    <3>4. b = Min(late) - 1
      BY <3>2, <1>2, <1>3
    <3> DEFINE m == Min(late)
    <3> HIDE DEF m, late, after, b
    <3>5. m \in k + 1 .. n /\ mwts[m].start >= end /\ b = m - 1 /\ \A i \in k + 1 .. n : i < m => ~(mwts[i].start >= end)
      BY <3>2, <3>3, <3>4 DEF m
    <3>6. \A i \in k + 1 .. n : m < i => mwts[i].start >= end
      BY <3>5, <1>2, <1>3
    <3> QED BY <3>5, <3>6, <1>2, <1>3
  <2> QED BY <2>1, <2>2
<1> HIDE DEF late, after, b
<1>6. k + 1 \in 1 .. n + 1
  BY <1>2, <1>3
<1>7. \A i \in 1 .. n : k + 1 <= i /\ i <= b <=> mwts[i].end > start /\ mwts[i].start < end
  <2> TAKE i \in 1 .. n
  <2>1. k + 1 <= i <=> mwts[i].end > start
    BY <1>2, <1>3
  <2>2. k + 1 <= i => (i <= b <=> mwts[i].start < end)
    BY <1>5, <1>2, <1>3
  <2> QED BY <2>1, <2>2
<1> QED BY <1>1, <1>3, <1>4, <1>5, <1>6, <1>7

-----------------------------------------------------------------------------
(* Empty nodes by sentence, and the sentences of a document. *)

(* Nodes in the order of their sentences, several to one perhaps. *)
InSentenceOrder(nodes) ==
  \A i \in DOMAIN nodes :
    /\ nodes[i].sentence_index \in Nat
    /\ \A j \in DOMAIN nodes : i < j => nodes[i].sentence_index <= nodes[j].sentence_index

(* A prefix of a suffix is a part. *)
LEMMA PartOfPart ==
  ASSUME NEW X, NEW s \in Seq(X), NEW a \in 1 .. Len(s) + 1, NEW m \in 0 .. Len(s) - a + 1
  PROVE  SubSeq(SubSeq(s, a, Len(s)), 1, m) = SubSeq(s, a, a + m - 1)
<1> DEFINE rest == SubSeq(s, a, Len(s))
<1>1. rest \in Seq(X) /\ Len(rest) = Len(s) - a + 1 /\ \A i \in 1 .. Len(rest) : rest[i] = s[a + i - 1]
  OBVIOUS
<1> HIDE DEF rest
<1>2. SubSeq(rest, 1, m) \in Seq(X) /\ Len(SubSeq(rest, 1, m)) = m /\ \A i \in 1 .. m : SubSeq(rest, 1, m)[i] = s[a + i - 1]
  BY <1>1
<1>3. SubSeq(s, a, a + m - 1) \in Seq(X) /\ Len(SubSeq(s, a, a + m - 1)) = m /\ \A i \in 1 .. m : SubSeq(s, a, a + m - 1)[i] = s[a + i - 1]
  OBVIOUS
<1> QED BY <1>2, <1>3, SeqEqual DEF rest

(* The nodes that are found for a sentence are those that have its number. *)
NodesFound(nodes, sentence) ==
  \E a \in 1 .. Len(nodes) + 1, b \in 0 .. Len(nodes) :
    /\ EmptyNodesIn(nodes, sentence) = SubSeq(nodes, a, b)
    /\ \A i \in DOMAIN nodes : a <= i /\ i <= b <=> nodes[i].sentence_index = sentence

(* The empty nodes found for a sentence are all those that have its number, and *)
(* no other: the second search, in what the first leaves, ends at the last one.  *)
THEOREM EmptyNodesInIsExact ==
  ASSUME NEW X, NEW nodes \in Seq(X), InSentenceOrder(nodes), NEW sentence \in Nat
  PROVE  NodesFound(nodes, sentence)
<1> DEFINE n == Len(nodes)
           earlier == {i \in 0 .. n - 1 : nodes[i + 1].sentence_index < sentence}
           start == Bisect(earlier, n)
           rest == SubSeq(nodes, start + 1, n)
           mine == {i \in 0 .. Len(rest) - 1 : rest[i + 1].sentence_index = sentence}
           m == Bisect(mine, Len(rest))
<1>1. EmptyNodesIn(nodes, sentence) = SubSeq(rest, 1, m)
  BY Zenon DEF EmptyNodesIn, PartitionPoint
<1>2. /\ n \in Nat /\ DOMAIN nodes = 1 .. n
      /\ \A i \in 1 .. n : /\ nodes[i].sentence_index \in Nat
                            /\ \A j \in 1 .. n : i < j => nodes[i].sentence_index <= nodes[j].sentence_index
  BY DEF InSentenceOrder
<1>3. start \in 0 .. n /\ \A i \in 1 .. n : nodes[i].sentence_index < sentence <=> i <= start
  <2> DEFINE holds == {i \in 1 .. n : nodes[i].sentence_index < sentence}
  <2>1. \A i \in 1 .. n, j \in 1 .. n : i < j /\ j \in holds => i \in holds
    BY <1>2
  <2>2. ASSUME NEW i \in 1 .. n PROVE i - 1 \in earlier <=> i \in holds
    <3>1. i - 1 \in 0 .. n - 1 /\ (i - 1) + 1 = i
      OBVIOUS
    <3> QED BY <3>1
  <2>3. start \in 0 .. n /\ \A i \in 1 .. n : i \in holds <=> i <= start
    <3> HIDE DEF holds, earlier, n
    <3> QED BY <1>2, <2>1, <2>2, BisectCounts
  <2> QED BY <2>3
<1> HIDE DEF start
<1>4. rest \in Seq(X) /\ Len(rest) = n - start /\ \A i \in 1 .. n - start : rest[i] = nodes[start + i]
  BY <1>3
<1> HIDE DEF rest
<1>5. m \in 0 .. n - start /\ \A i \in 1 .. n - start : rest[i].sentence_index = sentence <=> i <= m
  <2> DEFINE r == Len(rest)
             holds == {i \in 1 .. r : rest[i].sentence_index = sentence}
  <2>0. r \in Nat
    BY <1>4
  <2>1. \A i \in 1 .. r, j \in 1 .. r : i < j /\ j \in holds => i \in holds
    <3> SUFFICES ASSUME NEW i \in 1 .. r, NEW j \in 1 .. r, i < j, rest[j].sentence_index = sentence
                 PROVE  rest[i].sentence_index = sentence
      OBVIOUS
    <3>1. start + i \in 1 .. n /\ start + j \in 1 .. n /\ start + i < start + j /\ ~(start + i <= start)
      BY <1>2, <1>3, <1>4
    <3>2. rest[i] = nodes[start + i] /\ rest[j] = nodes[start + j]
      BY <1>4
    <3> HIDE DEF r, n
    <3>3. nodes[start + i].sentence_index <= sentence /\ ~(nodes[start + i].sentence_index < sentence)
      BY <1>2, <1>3, <3>1, <3>2
    <3> QED BY <1>2, <3>1, <3>2, <3>3
  <2>2. ASSUME NEW i \in 1 .. r PROVE i - 1 \in mine <=> i \in holds
    <3>1. i - 1 \in 0 .. r - 1 /\ (i - 1) + 1 = i
      BY <2>0
    <3> QED BY <3>1
  <2>3. m \in 0 .. r /\ \A i \in 1 .. r : i \in holds <=> i <= m
    <3> HIDE DEF holds, mine, r
    <3>1. m = Bisect(mine, r)
      BY DEF r
    <3> HIDE DEF m
    <3>2. Bisect(mine, r) \in 0 .. r /\ \A i \in 1 .. r : i \in holds <=> i <= Bisect(mine, r)
      BY <2>0, <2>1, <2>2, BisectCounts
    <3> QED BY <3>1, <3>2
  <2> QED BY <2>3, <1>4
<1> HIDE DEF m
<1>6. SubSeq(rest, 1, m) = SubSeq(nodes, start + 1, start + m)
  <2>1. start + 1 \in 1 .. n + 1 /\ m \in 0 .. n - (start + 1) + 1 /\ (start + 1) + m - 1 = start + m
    BY <1>2, <1>3, <1>5
  <2>2. SubSeq(SubSeq(nodes, start + 1, n), 1, m) = SubSeq(nodes, start + 1, (start + 1) + m - 1)
    BY <2>1, PartOfPart
  <2> QED BY <2>1, <2>2 DEF rest
<1> HIDE DEF n
<1>7. ASSUME NEW i \in 1 .. n
      PROVE  start + 1 <= i /\ i <= start + m <=> nodes[i].sentence_index = sentence
  <2>1. CASE i <= start
    BY <2>1, <1>2, <1>3
  <2>2. CASE ~(i <= start)
    <3>1. i - start \in 1 .. n - start /\ start + (i - start) = i
      BY <2>2, <1>2, <1>3
    <3>2. rest[i - start] = nodes[i]
      BY <3>1, <1>4
    <3> QED BY <3>1, <3>2, <2>2, <1>2, <1>3, <1>5
  <2> QED BY <2>1, <2>2
<1>8. start + 1 \in 1 .. n + 1 /\ start + m \in 0 .. n
  BY <1>2, <1>3, <1>5
<1> QED BY <1>1, <1>2, <1>6, <1>7, <1>8 DEF n, NodesFound

(* Spans in the order of their starts. *)
InStartOrder(spans) ==
  \A i \in DOMAIN spans :
    /\ spans[i].start \in Nat
    /\ \A j \in DOMAIN spans : i < j => spans[i].start <= spans[j].start

(* How many spans start before a position. *)
LEMMA StartsBeforeInOrder ==
  ASSUME NEW X, NEW spans \in Seq(X), InStartOrder(spans), NEW position \in Nat
  PROVE  LET k == Bisect({i \in 0 .. Len(spans) - 1 : spans[i + 1].start < position}, Len(spans)) IN
         /\ k \in 0 .. Len(spans)
         /\ \A i \in 0 .. Len(spans) - 1 : spans[i + 1].start < position <=> i < k
<1> DEFINE n == Len(spans)
           below == {i \in 0 .. n - 1 : spans[i + 1].start < position}
<1>1. \A i \in 0 .. n - 1, j \in 0 .. n - 1 : i < j /\ j \in below => i \in below
  <2> SUFFICES ASSUME NEW i \in 0 .. n - 1, NEW j \in 0 .. n - 1, i < j, spans[j + 1].start < position
               PROVE  spans[i + 1].start < position
    OBVIOUS
  <2>1. i + 1 \in DOMAIN spans /\ j + 1 \in DOMAIN spans /\ i + 1 < j + 1
    OBVIOUS
  <2> QED BY <2>1 DEF InStartOrder
<1>2. Bisect(below, n) \in 0 .. n /\ \A i \in 0 .. n - 1 : i \in below <=> i < Bisect(below, n)
  <2>1. n \in Nat
    OBVIOUS
  <2> HIDE DEF below, n
  <2> QED BY <1>1, <2>1, BisectSplits
<1> QED BY <1>2

(* The sentences, by number, that start in a document. *)
SentencesInside(v, d) ==
  {i \in 0 .. Len(SpansOf(v, "sentence")) - 1 :
     /\ SpansOf(v, "document")[d + 1].start <= SpansOf(v, "sentence")[i + 1].start
     /\ SpansOf(v, "sentence")[i + 1].start < SpansOf(v, "document")[d + 1].end}

(* They are an interval, whose ends the two searches find. *)
LEMMA SentencesInsideBounds ==
  ASSUME NEW v, NEW X, SpansOf(v, "sentence") \in Seq(X), InStartOrder(SpansOf(v, "sentence")),
         NEW d \in 0 .. Len(SpansOf(v, "document")) - 1,
         SpansOf(v, "document")[d + 1].start \in Nat, SpansOf(v, "document")[d + 1].end \in Nat
  PROVE  \E a \in 0 .. Len(SpansOf(v, "sentence")), b \in 0 .. Len(SpansOf(v, "sentence")) :
           /\ SentencesInside(v, d) = a .. b - 1
           /\ FirstSentenceOf(v, d) = IF a < b THEN {a} ELSE {}
           /\ LastSentenceOf(v, d) = IF a < b THEN {b - 1} ELSE {}
<1> DEFINE sents == SpansOf(v, "sentence")
           docs == SpansOf(v, "document")
           n == Len(sents)
           from == docs[d + 1].start
           to == docs[d + 1].end
           a == Bisect({i \in 0 .. n - 1 : sents[i + 1].start < from}, n)
           b == Bisect({i \in 0 .. n - 1 : sents[i + 1].start < to}, n)
<1>1. FirstSentenceOf(v, d) = IF d >= Len(docs) THEN {}
                              ELSE IF a >= n THEN {}
                              ELSE IF sents[a + 1].start >= to THEN {} ELSE {a}
  BY Zenon DEF FirstSentenceOf, PartitionPoint
<1>2. LastSentenceOf(v, d) = IF d >= Len(docs) THEN {}
                             ELSE IF b = 0 THEN {}
                             ELSE IF sents[b].start < from THEN {} ELSE {b - 1}
  BY Zenon DEF LastSentenceOf, PartitionPoint
<1>3. /\ a \in 0 .. n /\ \A i \in 0 .. n - 1 : sents[i + 1].start < from <=> i < a
      /\ b \in 0 .. n /\ \A i \in 0 .. n - 1 : sents[i + 1].start < to <=> i < b
  <2>1. a \in 0 .. n /\ \A i \in 0 .. n - 1 : sents[i + 1].start < from <=> i < a
    BY StartsBeforeInOrder
  <2>2. b \in 0 .. n /\ \A i \in 0 .. n - 1 : sents[i + 1].start < to <=> i < b
    BY StartsBeforeInOrder
  <2> QED BY <2>1, <2>2
<1>4. n \in Nat /\ from \in Nat /\ to \in Nat /\ ~(d >= Len(docs)) /\ \A i \in 0 .. n - 1 : sents[i + 1].start \in Nat
  <2>1. \A i \in 0 .. n - 1 : i + 1 \in DOMAIN sents
    OBVIOUS
  <2>2. \A i \in 0 .. n - 1 : sents[i + 1].start \in Nat
    BY <2>1 DEF InStartOrder
  <2>3. n \in Nat /\ d < Len(docs) /\ d \in Int
    OBVIOUS
  <2> QED BY <2>2, <2>3
<1>5. SentencesInside(v, d) = {i \in 0 .. n - 1 : from <= sents[i + 1].start /\ sents[i + 1].start < to}
  BY Zenon DEF SentencesInside
<1>6. n = Len(SpansOf(v, "sentence"))
  OBVIOUS
<1> HIDE DEF a, b, n, from, to, sents, docs
<1>7. SentencesInside(v, d) = a .. b - 1
  <2>1. a .. b - 1 \subseteq 0 .. n - 1
    BY <1>3, <1>4
  <2>2. ASSUME NEW i \in 0 .. n - 1
        PROVE  from <= sents[i + 1].start /\ sents[i + 1].start < to <=> i \in a .. b - 1
    <3>1. sents[i + 1].start < from <=> i < a
      BY <1>3
    <3>2. sents[i + 1].start < to <=> i < b
      BY <1>3
    <3>3. sents[i + 1].start \in Nat
      BY <1>4
    <3>4. from <= sents[i + 1].start <=> ~(sents[i + 1].start < from)
      <4> DEFINE x == sents[i + 1].start
      <4>1. x \in Nat /\ from \in Nat
        BY <3>3, <1>4
      <4> HIDE DEF x
      <4>2. from <= x <=> ~(x < from)
        BY <4>1
      <4> QED BY <4>2 DEF x
    <3>5. i \in a .. b - 1 <=> ~(i < a) /\ i < b
      BY <1>3, <1>4
    <3> QED BY Zenon, <3>1, <3>2, <3>4, <3>5
  <2>3. \A i : i \in SentencesInside(v, d) <=> i \in a .. b - 1
    BY Zenon, <2>1, <2>2, <1>5
  <2> QED BY Zenon, <2>3
<1>8. FirstSentenceOf(v, d) = IF a < b THEN {a} ELSE {}
  <2>1. CASE a >= n
    BY <2>1, <1>1, <1>3, <1>4
  <2>2. CASE a < n
    <3>1. a \in 0 .. n - 1
      BY <2>2, <1>3, <1>4
    <3>2. sents[a + 1].start >= to <=> ~(a < b)
      <4> DEFINE x == sents[a + 1].start
      <4>1. x \in Nat /\ to \in Nat
        BY <3>1, <1>4
      <4>2. x < to <=> a < b
        BY <3>1, <1>3
      <4> HIDE DEF x
      <4>3. x >= to <=> ~(x < to)
        BY <4>1
      <4> QED BY <4>2, <4>3 DEF x
    <3> QED BY <2>2, <3>1, <3>2, <1>1, <1>3, <1>4
  <2> QED BY <2>1, <2>2, <1>3, <1>4
<1>9. LastSentenceOf(v, d) = IF a < b THEN {b - 1} ELSE {}
  <2>1. CASE b = 0
    BY <2>1, <1>2, <1>3, <1>4
  <2>2. CASE b # 0
    <3>1. b - 1 \in 0 .. n - 1 /\ (b - 1) + 1 = b
      BY <2>2, <1>3, <1>4
    <3>2. sents[b].start < from <=> b - 1 < a
      BY <3>1, <1>3, <1>4
    <3> QED BY <2>2, <3>1, <3>2, <1>2, <1>3, <1>4
  <2> QED BY <2>1, <2>2
<1> QED BY <1>3, <1>6, <1>7, <1>8, <1>9

(* first_sentence, last_sentence and sentence_count of a document are the first,  *)
(* the last and the number of the sentences that start in it, and none, none and  *)
(* 0 when it has none.                                                       *)
THEOREM DocumentSentencesAreExact ==
  ASSUME NEW v, NEW X, SpansOf(v, "sentence") \in Seq(X), InStartOrder(SpansOf(v, "sentence")),
         NEW d \in 0 .. Len(SpansOf(v, "document")) - 1,
         SpansOf(v, "document")[d + 1].start \in Nat, SpansOf(v, "document")[d + 1].end \in Nat
  PROVE  /\ FirstSentenceOf(v, d) = {i \in SentencesInside(v, d) : \A j \in SentencesInside(v, d) : i <= j}
         /\ LastSentenceOf(v, d) = {i \in SentencesInside(v, d) : \A j \in SentencesInside(v, d) : j <= i}
         /\ SentenceCount(v, d) = Cardinality(SentencesInside(v, d))
<1>1. PICK a \in 0 .. Len(SpansOf(v, "sentence")), b \in 0 .. Len(SpansOf(v, "sentence")) :
           /\ SentencesInside(v, d) = a .. b - 1
           /\ FirstSentenceOf(v, d) = IF a < b THEN {a} ELSE {}
           /\ LastSentenceOf(v, d) = IF a < b THEN {b - 1} ELSE {}
  BY SentencesInsideBounds
<1>2. a \in Nat /\ b \in Nat
  BY <1>1
<1>3. FirstSentenceOf(v, d) = {i \in a .. b - 1 : \A j \in a .. b - 1 : i <= j}
  BY <1>1, <1>2
<1>4. LastSentenceOf(v, d) = {i \in a .. b - 1 : \A j \in a .. b - 1 : j <= i}
  BY <1>1, <1>2
<1>5. Cardinality(a .. b - 1) = IF a < b THEN b - a ELSE 0
  <2>1. b - 1 \in Int /\ a \in Int
    BY <1>2
  <2>2. Cardinality(a .. b - 1) = IF a > b - 1 THEN 0 ELSE (b - 1) - a + 1
    BY <2>1, FS_Interval
  <2> QED BY <1>2, <2>2
<1>6. SentenceCount(v, d) = Cardinality(a .. b - 1)
  <2>1. CASE a < b
    <3>1. FirstSentenceOf(v, d) = {a} /\ LastSentenceOf(v, d) = {b - 1}
      BY <1>1, <2>1
    <3>2. The(FirstSentenceOf(v, d)) = a /\ The(LastSentenceOf(v, d)) = b - 1
      BY <3>1 DEF The
    <3>3. FirstSentenceOf(v, d) # {} /\ LastSentenceOf(v, d) # {}
      BY <3>1
    <3>4. SentenceCount(v, d) = Larger(b - 1 - a + 1, 0)
      BY <3>2, <3>3, Zenon DEF SentenceCount
    <3> QED BY <3>4, <1>2, <1>5, <2>1 DEF Larger
  <2>2. CASE ~(a < b)
    BY <1>1, <1>5, <2>2 DEF SentenceCount
  <2> QED BY <2>1, <2>2
<1> QED BY <1>1, <1>3, <1>4, <1>6

-----------------------------------------------------------------------------
(* The elements of a set, listed. *)

(* The right side of the equation that the fold of Listed satisfies. *)
OneByOne(iter, S) ==
  [s \in SUBSET S |-> IF s = {} THEN <<>>
                      ELSE LET x == CHOOSE x \in s : TRUE IN Append(iter[s \ {x}], x)]

(* Listed asks a solution of this equation about the whole set. *)
LEMMA ListedUnfolds ==
  ASSUME NEW S
  PROVE  Listed(S) = (CHOOSE iter : iter = OneByOne(iter, S))[S]
BY Zenon DEF Listed, FoldSet, MapThenFoldSet, OneByOne

(* There is one, as the equation goes from a set to a smaller one. *)
LEMMA ListingHasFixpoint ==
  ASSUME NEW S, IsFiniteSet(S)
  PROVE  \E iter : iter = OneByOne(iter, S)
<1> DEFINE Good(n) == \E iter : \A s \in SUBSET S : Cardinality(s) <= n => iter[s] = OneByOne(iter, S)[s]
           Bad == {n \in Nat : ~Good(n)}
<1>1. Bad = {}
  <2> SUFFICES ASSUME Bad # {} PROVE FALSE
    OBVIOUS
  <2>1. PICK n \in Bad : \A m \in Bad : n <= m
    <3>1. Bad \subseteq Nat
      OBVIOUS
    <3> HIDE DEF Bad
    <3> QED BY <3>1, LeastNumber
  <2>2. \A s \in SUBSET S : Cardinality(s) \in Nat /\ (Cardinality(s) = 0 <=> s = {})
    BY FS_Subset, FS_CardinalityType, FS_EmptySet
  <2>3. CASE n = 0
    <3> DEFINE iter == [s \in SUBSET S |-> <<>>]
    <3>1. \A s \in SUBSET S : Cardinality(s) <= 0 => iter[s] = OneByOne(iter, S)[s]
      <4> SUFFICES ASSUME NEW s \in SUBSET S, Cardinality(s) <= 0 PROVE iter[s] = OneByOne(iter, S)[s]
        OBVIOUS
      <4>1. s = {}
        BY <2>2
      <4>2. OneByOne(iter, S)[s] = <<>>
        BY <4>1 DEF OneByOne
      <4> QED BY <4>1, <4>2
    <3> QED BY <3>1, <2>1, <2>3
  <2>4. CASE n # 0
    <3>1. n - 1 \in Nat /\ n \in Nat
      BY <2>4
    <3>2. PICK iter : \A s \in SUBSET S : Cardinality(s) <= n - 1 => iter[s] = OneByOne(iter, S)[s]
      <4>1. n - 1 \notin Bad
        BY <2>1, <3>1
      <4> QED BY <3>1, <4>1
    <3> DEFINE next == [s \in SUBSET S |-> IF Cardinality(s) <= n - 1 THEN iter[s] ELSE OneByOne(iter, S)[s]]
    <3>3. ASSUME NEW s \in SUBSET S, s # {}, Cardinality(s) <= n
          PROVE  next[s \ {CHOOSE x \in s : TRUE}] = iter[s \ {CHOOSE x \in s : TRUE}]
      <4> DEFINE x == CHOOSE x \in s : TRUE
      <4>1. x \in s
        BY <3>3, Zenon
      <4> HIDE DEF x
      <4>2. Cardinality(s \ {x}) = Cardinality(s) - 1
        BY <4>1, FS_Subset, FS_RemoveElement
      <4>3. s \ {x} \in SUBSET S /\ Cardinality(s \ {x}) <= n - 1
        BY <4>2, <3>1, <3>3, <2>2
      <4>4. next[s \ {x}] = iter[s \ {x}]
        BY <4>3, Zenon
      <4> QED BY <4>4 DEF x
    <3>4. ASSUME NEW s \in SUBSET S, Cardinality(s) <= n
          PROVE  next[s] = OneByOne(iter, S)[s]
      BY <3>2, <3>4, Zenon
    <3>5. ASSUME NEW s \in SUBSET S, Cardinality(s) <= n
          PROVE  OneByOne(next, S)[s] = OneByOne(iter, S)[s]
      <4> HIDE DEF next
      <4>1. CASE s = {}
        BY <4>1 DEF OneByOne
      <4>2. CASE s # {}
        <5>1. next[s \ {CHOOSE x \in s : TRUE}] = iter[s \ {CHOOSE x \in s : TRUE}]
          BY <3>3, <3>5, <4>2
        <5> QED BY <5>1, <4>2, Zenon DEF OneByOne
      <4> QED BY <4>1, <4>2
    <3>6. \A s \in SUBSET S : Cardinality(s) <= n => next[s] = OneByOne(next, S)[s]
      BY <3>4, <3>5, Zenon
    <3> HIDE DEF next
    <3>7. Good(n)
      BY <3>6, Zenon
    <3> QED BY <3>7, <2>1
  <2> QED BY <2>3, <2>4
<1>2. PICK iter : \A s \in SUBSET S : Cardinality(s) <= Cardinality(S) => iter[s] = OneByOne(iter, S)[s]
  <2>1. Cardinality(S) \in Nat
    BY FS_CardinalityType
  <2> QED BY <1>1, <2>1, Zenon
<1> DEFINE whole == [s \in SUBSET S |-> iter[s]]
<1>3. \A s \in SUBSET S : Cardinality(s) <= Cardinality(S)
  BY FS_Subset
<1>4. \A s \in SUBSET S : OneByOne(whole, S)[s] = OneByOne(iter, S)[s]
  <2> TAKE s \in SUBSET S
  <2>1. s # {} => whole[s \ {CHOOSE x \in s : TRUE}] = iter[s \ {CHOOSE x \in s : TRUE}]
    OBVIOUS
  <2> HIDE DEF whole
  <2> QED BY <2>1, Zenon DEF OneByOne
<1>5. whole = OneByOne(whole, S)
  <2>1. whole = [s \in SUBSET S |-> OneByOne(whole, S)[s]]
    BY <1>2, <1>3, <1>4, Zenon
  <2>2. [s \in SUBSET S |-> OneByOne(whole, S)[s]] = OneByOne(whole, S)
    BY Zenon DEF OneByOne
  <2> QED BY <2>1, <2>2
<1> QED BY <1>5, Zenon

(* Hence the one that Listed chooses is one. *)
LEMMA ListedEquation ==
  ASSUME NEW S, IsFiniteSet(S)
  PROVE  \E iter : iter = OneByOne(iter, S) /\ Listed(S) = iter[S]
<1> DEFINE iter == CHOOSE iter : iter = OneByOne(iter, S)
<1>1. iter = OneByOne(iter, S)
  BY ListingHasFixpoint, Zenon
<1>2. Listed(S) = iter[S]
  BY ListedUnfolds, Zenon
<1> HIDE DEF iter
<1> QED BY <1>1, <1>2

(* A sequence of every element of a set, each once. *)
Enumerates(seq, S) ==
  /\ seq \in Seq(S) /\ Len(seq) = Cardinality(S)
  /\ {seq[i] : i \in 1 .. Len(seq)} = S
  /\ \A i \in 1 .. Len(seq), j \in 1 .. Len(seq) : seq[i] = seq[j] => i = j

(* One more element. *)
LEMMA AppendEnumerates ==
  ASSUME NEW S, NEW x \in S, NEW seq, Enumerates(seq, S \ {x}), IsFiniteSet(S)
  PROVE  Enumerates(Append(seq, x), S)
<1>1. seq \in Seq(S)
  BY SeqMonotonic, Zenon DEF Enumerates
<1>2. /\ Append(seq, x) \in Seq(S) /\ Len(Append(seq, x)) = Len(seq) + 1 /\ Len(seq) \in Nat
      /\ \A i \in 1 .. Len(seq) : Append(seq, x)[i] = seq[i] /\ seq[i] \in S \ {x}
      /\ Append(seq, x)[Len(seq) + 1] = x
  <2>1. Append(seq, x) \in Seq(S) /\ Len(Append(seq, x)) = Len(seq) + 1 /\ Len(seq) \in Nat
    BY <1>1
  <2>2. \A i \in 1 .. Len(seq) : Append(seq, x)[i] = seq[i]
    BY <1>1
  <2>3. Append(seq, x)[Len(seq) + 1] = x
    BY <1>1
  <2>4. \A i \in 1 .. Len(seq) : seq[i] \in S \ {x}
    BY DEF Enumerates
  <2> QED BY <2>1, <2>2, <2>3, <2>4
<1>3. Cardinality(S) = Len(seq) + 1
  <2>1. Cardinality(S \ {x}) = Cardinality(S) - 1 /\ Cardinality(S) \in Nat
    BY FS_RemoveElement, FS_CardinalityType
  <2> QED BY <2>1 DEF Enumerates
<1> DEFINE n == Len(seq)
           t == Append(seq, x)
<1> HIDE DEF t
<1>4. {t[i] : i \in 1 .. n + 1} = S
  <2>1. ASSUME NEW y \in S PROVE \E i \in 1 .. n + 1 : t[i] = y
    <3>1. CASE y = x
      BY <1>2, <3>1 DEF t
    <3>2. CASE y # x
      <4>1. PICK i \in 1 .. n : seq[i] = y
        BY <3>2, <2>1 DEF Enumerates
      <4> QED BY <4>1, <1>2 DEF t
    <3> QED BY <3>1, <3>2
  <2>2. \A i \in 1 .. n + 1 : t[i] \in S
    BY <1>2 DEF t
  <2> QED BY <2>1, <2>2
<1>5. \A i \in 1 .. n + 1, j \in 1 .. n + 1 : t[i] = t[j] => i = j
  <2>1. \A i \in 1 .. n : t[i] = seq[i] /\ t[i] # x
    BY <1>2 DEF t
  <2>2. t[n + 1] = x
    BY <1>2 DEF t
  <2>3. \A i \in 1 .. n, j \in 1 .. n : seq[i] = seq[j] => i = j
    BY DEF Enumerates
  <2>4. \A i \in 1 .. n + 1 : i \in 1 .. n \/ i = n + 1
    BY <1>2
  <2> QED BY <2>1, <2>2, <2>3, <2>4
<1> QED BY <1>2, <1>3, <1>4, <1>5 DEF Enumerates, t

(* Listed gives every element of a finite set just once, whichever order it        *)
(* takes them in.                                                            *)
THEOREM ListedEnumerates ==
  ASSUME NEW S, IsFiniteSet(S)
  PROVE  Enumerates(Listed(S), S)
<1>1. PICK iter : iter = OneByOne(iter, S) /\ Listed(S) = iter[S]
  BY ListedEquation
<1> DEFINE Bad == {n \in Nat : \E s \in SUBSET S : Cardinality(s) = n /\ ~Enumerates(iter[s], s)}
<1>2. Bad = {}
  <2> SUFFICES ASSUME Bad # {} PROVE FALSE
    OBVIOUS
  <2>1. PICK n \in Bad : \A m \in Bad : n <= m
    <3>1. Bad \subseteq Nat
      OBVIOUS
    <3> HIDE DEF Bad
    <3> QED BY <3>1, LeastNumber
  <2>2. PICK s \in SUBSET S : Cardinality(s) = n /\ ~Enumerates(iter[s], s)
    BY <2>1
  <2>3. IsFiniteSet(s) /\ Cardinality(s) \in Nat
    BY FS_Subset, FS_CardinalityType
  <2>4. CASE s = {}
    <3>1. iter[s] = <<>>
      <4>1. OneByOne(iter, S)[s] = <<>>
        BY <2>4 DEF OneByOne
      <4> QED BY <4>1, <1>1
    <3>2. Cardinality(s) = 0
      BY <2>4, FS_EmptySet
    <3> QED BY <3>1, <3>2, <2>2, <2>4 DEF Enumerates
  <2>5. CASE s # {}
    <3> DEFINE x == CHOOSE x \in s : TRUE
    <3>1. x \in s
      BY <2>5, Zenon
    <3>2. iter[s] = Append(iter[s \ {x}], x)
      <4>1. OneByOne(iter, S)[s] = Append(iter[s \ {x}], x)
        BY <2>5, Zenon DEF OneByOne
      <4> QED BY <4>1, <1>1, Zenon
    <3> HIDE DEF x
    <3>3. Cardinality(s \ {x}) = n - 1 /\ n - 1 \in Nat /\ n - 1 < n
      <4>1. Cardinality(s \ {x}) = Cardinality(s) - 1 /\ IsFiniteSet(s \ {x})
        BY <2>3, <3>1, FS_RemoveElement
      <4>2. Cardinality(s \ {x}) \in Nat
        BY <4>1, FS_CardinalityType
      <4> QED BY <4>1, <4>2, <2>2, <2>3
    <3>4. n - 1 \notin Bad
      <4>1. n \in Nat
        BY <2>2, <2>3
      <4> HIDE DEF Bad
      <4> QED BY <4>1, <3>3, <2>1
    <3>5. Enumerates(iter[s \ {x}], s \ {x})
      <4>1. s \ {x} \in SUBSET S
        OBVIOUS
      <4> QED BY <4>1, <3>3, <3>4, Zenon
    <3>6. Enumerates(iter[s], s)
      BY <2>3, <3>1, <3>2, <3>5, AppendEnumerates
    <3> QED BY <2>2, <3>6
  <2> QED BY <2>4, <2>5
<1>3. Cardinality(S) \in Nat
  BY FS_CardinalityType
<1>4. Enumerates(iter[S], S)
  BY <1>2, <1>3, Zenon
<1> QED BY <1>1, <1>4

(* A search for an element that is there finds it. *)
LEMMA SelectInSeqFinds ==
  ASSUME NEW seq, NEW X, seq \in Seq(X), NEW x, x \in {seq[i] : i \in 1 .. Len(seq)}
  PROVE  /\ SelectInSeq(seq, LAMBDA t : t = x) \in 1 .. Len(seq)
         /\ seq[SelectInSeq(seq, LAMBDA t : t = x)] = x
<1> DEFINE I == {i \in 1 .. Len(seq) : seq[i] = x}
<1>1. SelectInSeq(seq, LAMBDA t : t = x) = IF I # {} THEN Min(I) ELSE 0
  BY Zenon DEF SelectInSeq
<1>2. I # {} /\ I \subseteq Nat
  OBVIOUS
<1>3. Min(I) \in I
  <2> HIDE DEF I
  <2> QED BY <1>2, MinOfNumbers
<1> QED BY <1>1, <1>2, <1>3

(* In a set of numbers in order, a number is at the place of its rank. *)
LEMMA RankInOrder ==
  ASSUME NEW S, S \subseteq Nat, IsFiniteSet(S), NEW p \in S
  PROVE  LET r == Cardinality({q \in S : q <= p}) IN
         /\ r \in 1 .. Cardinality(S)
         /\ InOrder(S, <)[r] = p
<1> DEFINE Below(x) == {y \in S : y < x}
           r == Cardinality({q \in S : q <= p})
<1>0. \A x \in S : x \in Nat
  OBVIOUS
<1>1. \A x \in S : IsFiniteSet(Below(x)) /\ Cardinality(Below(x)) \in Nat /\ x \notin Below(x)
  BY FS_Subset, FS_CardinalityType
<1>2. \A x \in S : Cardinality(Below(x) \cup {x}) = Cardinality(Below(x)) + 1
  BY <1>1, FS_AddElement
<1>3. r = Cardinality(Below(p)) + 1
  <2>1. \A q \in S : q <= p <=> q < p \/ q = p
    BY <1>0
  <2>2. {q \in S : q <= p} = Below(p) \cup {p}
    BY <2>1
  <2> QED BY <1>2, <2>2
<1>4. Cardinality(S) \in Nat /\ r <= Cardinality(S)
  BY FS_Subset, FS_CardinalityType
<1>5. r \in 1 .. Cardinality(S)
  BY <1>1, <1>3, <1>4
<1>6. ASSUME NEW x \in S, NEW z \in S, x < z PROVE Cardinality(Below(x)) < Cardinality(Below(z))
  <2>1. Below(x) \cup {x} \subseteq Below(z)
    <3>1. \A y \in S : y < x \/ y = x => y < z
      BY <1>0, <1>6
    <3> QED BY <3>1
  <2>2. Cardinality(Below(x) \cup {x}) <= Cardinality(Below(z))
    BY <2>1, <1>1, FS_Subset
  <2> QED BY <2>2, <1>1, <1>2
<1>7. \A x \in S : Cardinality(Below(x)) = r - 1 => x = p
  <2> TAKE x \in S
  <2>1. x \in Nat /\ p \in Nat
    OBVIOUS
  <2> HIDE DEF Below, r
  <2> QED BY <2>1, <1>1, <1>3, <1>6
<1>8. InOrder(S, <)[r] = CHOOSE x \in S : Cardinality(Below(x)) = r - 1
  BY <1>5 DEF InOrder
<1>9. Cardinality(Below(p)) = r - 1
  BY <1>1, <1>3
<1> HIDE DEF Below, r
<1>10. (CHOOSE x \in S : Cardinality(Below(x)) = r - 1) = p
  BY <1>7, <1>9
<1> QED BY <1>5, <1>8, <1>10 DEF r

-----------------------------------------------------------------------------
(* Layers of forward.bin, written and read back. *)

(* A layer of terms answers with the term a position was given, and with none     *)
(* where it was given none, whether it is read by position, as a layer with a      *)
(* term everywhere is, or by rank, and also behind the last token.                *)
THEOREM TermsReadBack ==
  ASSUME NEW X, NEW values \in Seq(X), NEW file, NEW layer \in DOMAIN file.layers,
         file.layers[layer] = DictEncoded(values),
         file.tokens \in Nat, Len(values) <= file.tokens, NEW p \in Nat
  PROVE  GetStr(file, p, layer)
           = IF p < Len(values) /\ IsTerm(values[p + 1]) THEN {values[p + 1][2]} ELSE {}
<1> DEFINE n == Len(values)
           bitmap == {q \in 0 .. n - 1 : IsTerm(values[q + 1])}
           present == InOrder(bitmap, <)
           words == {values[q + 1][2] : q \in bitmap}
           terms == Listed(words)
           Id(x) == SelectInSeq(terms, LAMBDA t : t = x)
           ids == [i \in DOMAIN present |-> Id(values[present[i] + 1][2]) - 1]
           f == file.layers[layer]
           dense == Cardinality(bitmap) = file.tokens
           rank == Cardinality({q \in bitmap : q <= p})
           index == IF dense THEN p ELSE rank - 1
<1>1. f = [encoding |-> "dict", bitmap |-> bitmap, terms |-> terms, ids |-> ids]
  BY Zenon DEF DictEncoded
<1>2. f.encoding = "dict" /\ f.bitmap = bitmap /\ f.terms = terms /\ f.ids = ids
  <2> HIDE DEF f, bitmap, terms, ids
  <2> QED BY <1>1
<1>3. GetStr(file, p, layer)
        = IF (dense /\ p >= file.tokens) \/ (~dense /\ p \notin bitmap) THEN {} ELSE {terms[ids[index + 1] + 1]}
  BY <1>2, Zenon DEF GetStr
<1>4. n \in Nat /\ bitmap \subseteq 0 .. n - 1 /\ IsFiniteSet(bitmap) /\ Cardinality(bitmap) \in Nat
  <2>1. IsFiniteSet(0 .. n - 1)
    BY FS_Interval
  <2> QED BY <2>1, FS_Subset, FS_CardinalityType
<1>5. p \in bitmap <=> p < n /\ IsTerm(values[p + 1])
  BY <1>4
<1>6. dense => bitmap = 0 .. file.tokens - 1
  <2> SUFFICES ASSUME dense PROVE bitmap = 0 .. file.tokens - 1
    OBVIOUS
  <2> DEFINE whole == 0 .. file.tokens - 1
  <2>1. IsFiniteSet(whole) /\ Cardinality(whole) = file.tokens
    <3>1. 0 \in Int /\ file.tokens - 1 \in Int
      OBVIOUS
    <3>2. IsFiniteSet(whole) /\ Cardinality(whole) = IF 0 > file.tokens - 1 THEN 0 ELSE (file.tokens - 1) - 0 + 1
      BY <3>1, FS_Interval
    <3> QED BY <3>2
  <2>2. bitmap \in SUBSET whole
    BY <1>4
  <2> HIDE DEF whole, bitmap
  <2> QED BY <2>1, <2>2, FS_Subset DEF whole
<1>7. ASSUME p \in bitmap
      PROVE  /\ rank \in 1 .. Cardinality(bitmap) /\ present[rank] = p /\ rank \in DOMAIN present
             /\ index + 1 = rank
  <2>1. bitmap \subseteq Nat
    BY <1>4
  <2>2. rank \in 1 .. Cardinality(bitmap) /\ present[rank] = p
    <3> HIDE DEF bitmap
    <3> QED BY <1>4, <1>7, <2>1, RankInOrder
  <2>3. DOMAIN present = 1 .. Cardinality(bitmap)
    BY Zenon DEF InOrder
  <2>4. dense => rank = p + 1
    <3> SUFFICES ASSUME dense PROVE rank = p + 1
      OBVIOUS
    <3>1. p < file.tokens
      BY <1>6, <1>7
    <3>2. {q \in bitmap : q <= p} = 0 .. p
      <4>1. bitmap = 0 .. file.tokens - 1
        BY <1>6
      <4> HIDE DEF bitmap
      <4> QED BY <3>1, <4>1
    <3>3. Cardinality(0 .. p) = p + 1
      BY FS_Interval
    <3> QED BY <3>2, <3>3
  <2> HIDE DEF rank, present, bitmap
  <2> QED BY <2>2, <2>3, <2>4, <1>4
<1>8. ASSUME p \in bitmap PROVE terms[ids[rank] + 1] = values[p + 1][2]
  <2>1. ids[rank] = Id(values[p + 1][2]) - 1
    <3> HIDE DEF rank, present, Id
    <3> QED BY <1>7, <1>8
  <2>2. values[p + 1][2] \in words
    BY <1>8
  <2>3. IsFiniteSet(words)
    <3> DEFINE g == [q \in bitmap |-> values[q + 1][2]]
    <3>1. g \in Surjection(bitmap, words)
      <4> HIDE DEF bitmap
      <4> QED BY DEF Surjection
    <3> HIDE DEF g, bitmap, words
    <3> QED BY <1>4, <3>1, FS_Surjection
  <2>4. Enumerates(terms, words)
    <3> HIDE DEF words
    <3> QED BY <2>3, ListedEnumerates
  <2>5. Id(values[p + 1][2]) \in 1 .. Len(terms) /\ terms[Id(values[p + 1][2])] = values[p + 1][2]
    <3> DEFINE x == values[p + 1][2]
    <3>1. terms \in Seq(words) /\ x \in {terms[i] : i \in 1 .. Len(terms)}
      BY <2>2, <2>4 DEF Enumerates
    <3> HIDE DEF x, terms, words
    <3>2. SelectInSeq(terms, LAMBDA t : t = x) \in 1 .. Len(terms) /\ terms[SelectInSeq(terms, LAMBDA t : t = x)] = x
      BY <3>1, SelectInSeqFinds
    <3> QED BY <3>2 DEF x
  <2> HIDE DEF Id, terms
  <2>6. (Id(values[p + 1][2]) - 1) + 1 = Id(values[p + 1][2])
    BY <2>5
  <2> QED BY <2>1, <2>5, <2>6
<1>9. CASE p \in bitmap
  <2>1. ~(dense /\ p >= file.tokens)
    BY <1>6, <1>9
  <2>2. terms[ids[index + 1] + 1] = values[p + 1][2]
    BY <1>7, <1>8, <1>9, Zenon
  <2> HIDE DEF terms, ids, index, dense, bitmap
  <2> QED BY <1>3, <1>5, <1>9, <2>1, <2>2
<1>10. CASE p \notin bitmap
  <2>1. dense => p >= file.tokens
    <3> HIDE DEF bitmap, dense
    <3> QED BY <1>6, <1>10
  <2> HIDE DEF terms, ids, index, dense, bitmap
  <2> QED BY <1>3, <1>5, <1>10, <2>1
<1> QED BY <1>9, <1>10

(* The number a sequence of values has at a position, as it is stored. *)
NumberAt(values, p) ==
  IF p + 1 <= Len(values) /\ IsInt(values[p + 1]) THEN {values[p + 1][2] % NumericModulus} ELSE {0}

(* A layer of numbers answers for every token with the number it was given,       *)
(* modulo the width of a number, and with 0 where it was given none.              *)
THEOREM NumbersReadBack ==
  ASSUME NEW values, NEW file, NEW layer \in DOMAIN file.layers,
         file.layers[layer] = DenseNumeric(values, file.tokens), file.tokens \in Nat, NEW p \in Nat
  PROVE  GetInt(file, p, layer) = IF p >= file.tokens THEN {} ELSE NumberAt(values, p)
<1> DEFINE numbers == [i \in 1 .. file.tokens |->
                         IF i <= Len(values) /\ IsInt(values[i]) THEN values[i][2] % NumericModulus ELSE 0]
<1>1. file.layers[layer].encoding = "numeric" /\ file.layers[layer].numbers = numbers
  BY DEF DenseNumeric
<1>2. Len(numbers) = file.tokens
  OBVIOUS
<1>3. p < file.tokens => p + 1 \in 1 .. file.tokens
  OBVIOUS
<1>4. p < file.tokens => numbers[p + 1] = IF p + 1 <= Len(values) /\ IsInt(values[p + 1]) THEN values[p + 1][2] % NumericModulus ELSE 0
  BY <1>3, Zenon
<1> HIDE DEF numbers
<1>5. GetInt(file, p, layer) = IF p >= Len(file.layers[layer].numbers) THEN {} ELSE {file.layers[layer].numbers[p + 1]}
  BY <1>1, Zenon DEF GetInt
<1>6. GetInt(file, p, layer) = IF p >= file.tokens THEN {} ELSE {numbers[p + 1]}
  BY <1>1, <1>2, <1>5, Zenon
<1>7. CASE p >= file.tokens
  BY <1>6, <1>7
<1>8. CASE p < file.tokens
  BY <1>4, <1>6, <1>8 DEF NumberAt
<1> QED BY <1>7, <1>8

-----------------------------------------------------------------------------
(* The writer of the forward index that the files of a build are streamed to. *)

(* What a sequence of values, a layer of the writer and a layer in memory say of  *)
(* a position.                                                               *)
ValueAt(values, p) == IF p < Len(values) THEN values[p + 1] ELSE Absent
StreamedAt(streaming, l, p) == IF l \in DOMAIN streaming.layers THEN ValueAt(streaming.layers[l].values, p) ELSE Absent
ForwardAt(forward, l, p) == IF l \in DOMAIN forward.layers THEN ValueAt(forward.layers[l], p) ELSE Absent

(* Layers of values of X, none longer than there are tokens. *)
StreamFits(streaming, X) ==
  /\ streaming.tokens \in Nat
  /\ \A l \in DOMAIN streaming.layers :
       streaming.layers[l] \in [numeric : BOOLEAN, values : Seq(X)] /\ Len(streaming.layers[l].values) <= streaming.tokens
ForwardFits(forward, X) ==
  /\ forward.tokens \in Nat
  /\ \A l \in DOMAIN forward.layers :
       forward.layers[l] \in Seq(X) /\ Len(forward.layers[l]) <= forward.tokens

(* Padding changes no value. *)
LEMMA PaddedValues ==
  ASSUME NEW X, Absent \in X, NEW values \in Seq(X), NEW n \in Nat
  PROVE  /\ PaddedTo(values, n) \in Seq(X)
         /\ Len(PaddedTo(values, n)) = Larger(Len(values), n)
         /\ \A p \in Nat : ValueAt(PaddedTo(values, n), p) = ValueAt(values, p)
<1> DEFINE k == Larger(n - Len(values), 0)
           pad == [i \in 1 .. k |-> Absent]
<1>1. Larger(n - Len(values), 0) \in Nat /\ Larger(Len(values), n) = Len(values) + Larger(n - Len(values), 0)
  BY DEF Larger
<1>2. k \in Nat /\ pad \in Seq(X) /\ Len(pad) = k
  <2>1. k \in Nat
    BY <1>1
  <2> HIDE DEF k
  <2> QED BY <2>1
<1>3. \A i \in 1 .. Len(pad) : pad[i] = Absent
  BY <1>2
<1>4. PaddedTo(values, n) = values \o pad
  BY DEF PaddedTo
<1> HIDE DEF pad
<1>5. /\ values \o pad \in Seq(X) /\ Len(values \o pad) = Len(values) + Len(pad)
      /\ \A i \in 1 .. Len(values) + Len(pad) :
           (values \o pad)[i] = IF i <= Len(values) THEN values[i] ELSE pad[i - Len(values)]
  BY <1>2, ConcatProperties
<1>6. ASSUME NEW p \in Nat PROVE ValueAt(values \o pad, p) = ValueAt(values, p)
  <2>1. CASE p < Len(values)
    BY <2>1, <1>2, <1>1, <1>5 DEF ValueAt
  <2>2. CASE ~(p < Len(values)) /\ p < Len(values) + Len(pad)
    <3>1. p + 1 \in 1 .. Len(values) + Len(pad) /\ ~(p + 1 <= Len(values)) /\ p + 1 - Len(values) \in 1 .. Len(pad)
      BY <2>2, <1>1, <1>2
    <3>2. (values \o pad)[p + 1] = Absent
      BY <3>1, <1>3, <1>5
    <3> QED BY <3>2, <2>2, <1>5 DEF ValueAt
  <2>3. CASE ~(p < Len(values)) /\ ~(p < Len(values) + Len(pad))
    BY <2>3, <1>5 DEF ValueAt
  <2> QED BY <2>1, <2>2, <2>3
<1> QED BY <1>1, <1>2, <1>4, <1>5, <1>6

(* Values appended behind an offset are found there, and the earlier ones where    *)
(* they were.                                                                *)
Joins(all, values, more, offset, X) ==
  /\ all \in Seq(X)
  /\ Len(all) = offset + Len(more)
  /\ \A p \in Nat : ValueAt(all, p) = IF p < offset THEN ValueAt(values, p) ELSE ValueAt(more, p - offset)

(* Values padded up to an offset, with the values of a file put behind them.       *)
LEMMA FollowedBy ==
  ASSUME NEW X, Absent \in X, NEW values \in Seq(X), NEW more \in Seq(X), NEW offset \in Nat, Len(values) <= offset
  PROVE  Joins(PaddedTo(values, offset) \o more, values, more, offset, X)
<1> DEFINE padded == PaddedTo(values, offset)
<1>1. padded \in Seq(X) /\ Len(padded) = offset /\ \A p \in Nat : ValueAt(padded, p) = ValueAt(values, p)
  BY PaddedValues DEF Larger
<1> HIDE DEF padded
<1>2. /\ padded \o more \in Seq(X) /\ Len(padded \o more) = offset + Len(more)
      /\ \A i \in 1 .. offset + Len(more) : (padded \o more)[i] = IF i <= offset THEN padded[i] ELSE more[i - offset]
  BY <1>1, ConcatProperties
<1>3. Len(more) \in Nat
  OBVIOUS
<1>4. ASSUME NEW p \in Nat
      PROVE  ValueAt(padded \o more, p) = IF p < offset THEN ValueAt(values, p) ELSE ValueAt(more, p - offset)
  <2>1. CASE p < offset
    <3>1. ValueAt(padded \o more, p) = ValueAt(padded, p)
      BY <2>1, <1>1, <1>2, <1>3 DEF ValueAt
    <3> QED BY <3>1, <2>1, <1>1
  <2>2. CASE ~(p < offset) /\ p < offset + Len(more)
    <3>1. p + 1 \in 1 .. offset + Len(more) /\ ~(p + 1 <= offset) /\ p + 1 - offset = (p - offset) + 1 /\ p - offset < Len(more)
      BY <2>2, <1>3
    <3>2. (padded \o more)[p + 1] = more[(p - offset) + 1]
      BY <3>1, <1>2
    <3> QED BY <3>1, <3>2, <2>2, <1>2 DEF ValueAt
  <2>3. CASE ~(p < offset) /\ ~(p < offset + Len(more))
    <3>1. ~(p - offset < Len(more))
      BY <2>3, <1>3
    <3> QED BY <3>1, <2>3, <1>2 DEF ValueAt
  <2> QED BY <2>1, <2>2, <2>3
<1> QED BY <1>2, <1>4 DEF Joins, padded

(* append_from: a file taken in at an offset behind everything streamed so far     *)
(* leaves every earlier value as it was and has its own values at the offset, in    *)
(* old layers, in layers it is the first to have and in layers it does not have.    *)
THEOREM AppendFromAppends ==
  ASSUME NEW X, Absent \in X, NEW streaming, StreamFits(streaming, X), NEW forward, ForwardFits(forward, X),
         forward.tokens # 0, NEW offset \in Nat, streaming.tokens <= offset
  PROVE  /\ StreamFits(AppendFrom(streaming, forward, offset), X)
         /\ AppendFrom(streaming, forward, offset).tokens = offset + forward.tokens
         /\ \A l, p : p \in Nat =>
              StreamedAt(AppendFrom(streaming, forward, offset), l, p)
                = IF p < offset THEN StreamedAt(streaming, l, p) ELSE ForwardAt(forward, l, p - offset)
<1> DEFINE appended == AppendFrom(streaming, forward, offset)
           old == DOMAIN streaming.layers
           new == DOMAIN forward.layers
<1>1. /\ DOMAIN appended.layers = old \cup new
      /\ appended.tokens = offset + forward.tokens
      /\ \A l \in new : appended.layers[l] = AppendLayer(streaming.layers, l, forward.layers[l], offset)
      /\ \A l \in old \ new : appended.layers[l] = streaming.layers[l]
  <2>1. Larger(streaming.tokens, offset + forward.tokens) = offset + forward.tokens
    BY DEF Larger, StreamFits, ForwardFits
  <2>2. appended = [layers |-> [l \in old \cup new |->
                      IF l \in new THEN AppendLayer(streaming.layers, l, forward.layers[l], offset)
                      ELSE streaming.layers[l]], tokens |-> offset + forward.tokens]
    BY <2>1, Zenon DEF AppendFrom
  <2> HIDE DEF appended
  <2> QED BY <2>2
<1> DEFINE Before(l) == IF l \in old THEN streaming.layers[l].values ELSE <<>>
<1>2. ASSUME NEW l \in new
      PROVE  /\ appended.layers[l] \in [numeric : BOOLEAN, values : {appended.layers[l].values}]
             /\ appended.layers[l].values = PaddedTo(Before(l), offset) \o forward.layers[l]
  <2>1. CASE l \in old
    <3>1. appended.layers[l] = [streaming.layers[l] EXCEPT !.values = PaddedTo(@, offset) \o forward.layers[l]]
      BY <1>1, <1>2, <2>1, Zenon DEF AppendLayer
    <3>2. streaming.layers[l] \in [numeric : BOOLEAN, values : Seq(X)]
      BY <2>1 DEF StreamFits
    <3> HIDE DEF appended
    <3>3. appended.layers[l].values = PaddedTo(streaming.layers[l].values, offset) \o forward.layers[l]
      BY <3>1, <3>2
    <3>4. appended.layers[l] \in [numeric : BOOLEAN, values : {appended.layers[l].values}]
      BY <3>1, <3>2
    <3> QED BY <3>3, <3>4, <2>1
  <2>2. CASE l \notin old
    <3>1. appended.layers[l] = [[numeric |-> IsNumericLayer(forward.layers[l]), values |-> <<>>]
                                  EXCEPT !.values = PaddedTo(@, offset) \o forward.layers[l]]
      BY <1>1, <1>2, <2>2, Zenon DEF AppendLayer
    <3> HIDE DEF appended
    <3>2. appended.layers[l].values = PaddedTo(<<>>, offset) \o forward.layers[l]
      BY <3>1
    <3>3. IsNumericLayer(forward.layers[l]) \in BOOLEAN
      BY DEF IsNumericLayer
    <3>4. appended.layers[l] \in [numeric : BOOLEAN, values : {appended.layers[l].values}]
      BY <3>1, <3>3
    <3> QED BY <3>2, <3>4, <2>2
  <2> QED BY <2>1, <2>2
<1> HIDE DEF appended
<1>3. ASSUME NEW l \in new
      PROVE  /\ Before(l) \in Seq(X) /\ Len(Before(l)) <= offset
             /\ \A p \in Nat : ValueAt(Before(l), p) = StreamedAt(streaming, l, p)
  <2>1. CASE l \in old
    BY <2>1 DEF StreamFits, StreamedAt
  <2>2. CASE l \notin old
    <3>1. \A p \in Nat : ValueAt(<<>>, p) = Absent
      BY DEF ValueAt
    <3> QED BY <3>1, <2>2 DEF StreamedAt
  <2> QED BY <2>1, <2>2
<1> HIDE DEF Before
<1>4. ASSUME NEW l \in new
      PROVE  /\ appended.layers[l] \in [numeric : BOOLEAN, values : Seq(X)]
             /\ Len(appended.layers[l].values) <= offset + forward.tokens
             /\ \A p \in Nat : ValueAt(appended.layers[l].values, p)
                                 = IF p < offset THEN StreamedAt(streaming, l, p) ELSE ForwardAt(forward, l, p - offset)
  <2> DEFINE more == forward.layers[l]
  <2>1. more \in Seq(X) /\ Len(more) <= forward.tokens /\ forward.tokens \in Nat
    BY <1>4 DEF ForwardFits
  <2>2. \A p : ForwardAt(forward, l, p) = ValueAt(more, p)
    BY <1>4 DEF ForwardAt
  <2> HIDE DEF more
  <2>3. /\ PaddedTo(Before(l), offset) \o more \in Seq(X)
        /\ Len(PaddedTo(Before(l), offset) \o more) = offset + Len(more)
        /\ \A p \in Nat : ValueAt(PaddedTo(Before(l), offset) \o more, p)
                             = IF p < offset THEN ValueAt(Before(l), p) ELSE ValueAt(more, p - offset)
    <3>1. Before(l) \in Seq(X) /\ Len(Before(l)) <= offset
      BY <1>3, <1>4
    <3> DEFINE b == Before(l)
    <3>2. b \in Seq(X) /\ Len(b) <= offset /\ more \in Seq(X)
      BY <2>1, <3>1
    <3> HIDE DEF b
    <3>3. Joins(PaddedTo(b, offset) \o more, b, more, offset, X)
      BY <3>2, FollowedBy
    <3> QED BY Zenon, <3>3 DEF Joins, b
  <2>4. appended.layers[l].values = PaddedTo(Before(l), offset) \o more
    BY <1>2, <1>4, Zenon DEF more
  <2>5. Len(PaddedTo(Before(l), offset) \o more) <= offset + forward.tokens
    <3>1. Len(more) \in Nat
      BY <2>1
    <3> QED BY <2>1, <2>3, <3>1
  <2> HIDE DEF old, new
  <2>6. \A p \in Nat : ValueAt(Before(l), p) = StreamedAt(streaming, l, p)
    BY <1>3, <1>4
  <2>7. appended.layers[l] \in [numeric : BOOLEAN, values : Seq(X)]
    <3>1. appended.layers[l] \in [numeric : BOOLEAN, values : {appended.layers[l].values}]
      BY <1>2, <1>4
    <3> QED BY <2>3, <2>4, <3>1
  <2> QED BY <2>2, <2>3, <2>4, <2>5, <2>6, <2>7
<1>5. StreamFits(appended, X)
  <2>1. ASSUME NEW l \in old \ new PROVE appended.layers[l] \in [numeric : BOOLEAN, values : Seq(X)] /\ Len(appended.layers[l].values) <= appended.tokens
    <3>1. streaming.layers[l] \in [numeric : BOOLEAN, values : Seq(X)] /\ Len(streaming.layers[l].values) <= streaming.tokens /\ streaming.tokens \in Nat /\ forward.tokens \in Nat
      BY DEF StreamFits, ForwardFits
    <3>2. Len(streaming.layers[l].values) \in Nat
      BY <3>1
    <3> QED BY <1>1, <3>1, <3>2
  <2>2. appended.tokens \in Nat
    BY <1>1 DEF ForwardFits
  <2> QED BY <1>1, <1>4, <2>1, <2>2 DEF StreamFits
<1>6. ASSUME NEW l, NEW p \in Nat
      PROVE  StreamedAt(appended, l, p) = IF p < offset THEN StreamedAt(streaming, l, p) ELSE ForwardAt(forward, l, p - offset)
  <2>1. CASE l \in new
    <3>1. StreamedAt(appended, l, p) = ValueAt(appended.layers[l].values, p)
      BY <1>1, <2>1 DEF StreamedAt
    <3> QED BY <3>1, <1>4, <2>1
  <2>2. CASE l \in old \ new
    <3>1. StreamedAt(appended, l, p) = StreamedAt(streaming, l, p)
      BY <1>1, <2>2 DEF StreamedAt
    <3>2. ForwardAt(forward, l, p - offset) = Absent
      BY <2>2 DEF ForwardAt
    <3>3. ~(p < offset) => StreamedAt(streaming, l, p) = Absent
      <4>1. Len(streaming.layers[l].values) <= streaming.tokens /\ Len(streaming.layers[l].values) \in Nat /\ streaming.tokens \in Nat
        BY <2>2 DEF StreamFits
      <4>2. ~(p < offset) => ~(p < Len(streaming.layers[l].values))
        BY <4>1
      <4> QED BY <4>2, <2>2 DEF StreamedAt, ValueAt
    <3> QED BY <3>1, <3>2, <3>3
  <2>3. CASE l \notin old \cup new
    BY <1>1, <2>3 DEF StreamedAt, ForwardAt
  <2> QED BY <2>1, <2>2, <2>3
<1> QED BY <1>1, <1>5, <1>6 DEF appended

(* finalize: forward.bin answers at every position, of any file of the build, with   *)
(* the value that was streamed for it, in layers of terms and in layers of numbers.  *)
THEOREM StreamReadBack ==
  ASSUME NEW X, Absent \in X, NEW streaming, StreamFits(streaming, X),
         NEW l \in DOMAIN streaming.layers, NEW p \in Nat
  PROVE  /\ ~streaming.layers[l].numeric =>
              GetStr(Finalize(streaming), p, l)
                = IF IsTerm(StreamedAt(streaming, l, p)) THEN {StreamedAt(streaming, l, p)[2]} ELSE {}
         /\ streaming.layers[l].numeric =>
              GetInt(Finalize(streaming), p, l)
                = IF p >= streaming.tokens THEN {}
                  ELSE IF IsInt(StreamedAt(streaming, l, p)) THEN {StreamedAt(streaming, l, p)[2] % NumericModulus}
                  ELSE {0}
<1> DEFINE values == PaddedTo(streaming.layers[l].values, streaming.tokens)
           file == Finalize(streaming)
           encoded == IF streaming.layers[l].numeric THEN DenseNumeric(values, streaming.tokens) ELSE DictEncoded(values)
<1>1. file.tokens = streaming.tokens /\ l \in DOMAIN file.layers /\ file.layers[l] = encoded
  <2> HIDE DEF encoded
  <2>1. file = [tokens |-> streaming.tokens, layers |-> [m \in DOMAIN streaming.layers |->
                  LET padded == PaddedTo(streaming.layers[m].values, streaming.tokens)
                  IN IF streaming.layers[m].numeric THEN DenseNumeric(padded, streaming.tokens)
                     ELSE DictEncoded(padded)]]
    BY Zenon DEF Finalize, ForwardFile
  <2> HIDE DEF file
  <2> QED BY <2>1 DEF encoded, values
<1>2. /\ streaming.tokens \in Nat /\ streaming.layers[l].values \in Seq(X)
      /\ Len(streaming.layers[l].values) <= streaming.tokens
  BY DEF StreamFits
<1>3. /\ values \in Seq(X) /\ Len(values) = streaming.tokens
      /\ \A q \in Nat : ValueAt(values, q) = StreamedAt(streaming, l, q)
  <2>1. values \in Seq(X) /\ Len(values) = Larger(Len(streaming.layers[l].values), streaming.tokens)
    BY <1>2, PaddedValues
  <2>2. \A q \in Nat : ValueAt(values, q) = ValueAt(streaming.layers[l].values, q)
    BY <1>2, PaddedValues
  <2>3. Len(streaming.layers[l].values) \in Nat
    BY <1>2
  <2> QED BY <2>1, <2>2, <2>3, <1>2 DEF Larger, StreamedAt
<1> HIDE DEF values, file, encoded
<1>4. ~IsTerm(Absent) /\ ~IsInt(Absent)
  BY DEF IsTerm, IsInt, Absent, Str
<1>5. ASSUME ~streaming.layers[l].numeric
      PROVE  GetStr(file, p, l) = IF IsTerm(StreamedAt(streaming, l, p)) THEN {StreamedAt(streaming, l, p)[2]} ELSE {}
  <2>1. file.layers[l] = DictEncoded(values)
    BY <1>1, <1>5 DEF encoded
  <2>2. GetStr(file, p, l) = IF p < Len(values) /\ IsTerm(values[p + 1]) THEN {values[p + 1][2]} ELSE {}
    <3>1. file.tokens \in Nat /\ Len(values) <= file.tokens /\ l \in DOMAIN file.layers /\ values \in Seq(X)
      BY <1>1, <1>2, <1>3
    <3> QED BY <2>1, <3>1, TermsReadBack
  <2>3. StreamedAt(streaming, l, p) = IF p < Len(values) THEN values[p + 1] ELSE Absent
    BY <1>3 DEF ValueAt
  <2> QED BY <2>2, <2>3, <1>4
<1>6. ASSUME streaming.layers[l].numeric
      PROVE  GetInt(file, p, l)
                = IF p >= streaming.tokens THEN {}
                  ELSE IF IsInt(StreamedAt(streaming, l, p)) THEN {StreamedAt(streaming, l, p)[2] % NumericModulus}
                  ELSE {0}
  <2>1. file.layers[l] = DenseNumeric(values, file.tokens)
    BY <1>1, <1>6 DEF encoded
  <2>2. GetInt(file, p, l) = IF p >= file.tokens THEN {} ELSE NumberAt(values, p)
    <3>1. file.tokens \in Nat /\ l \in DOMAIN file.layers /\ p \in Nat
      BY <1>1, <1>2
    <3> QED BY <2>1, <3>1, NumbersReadBack
  <2>3. p < Len(values) => p + 1 <= Len(values) /\ StreamedAt(streaming, l, p) = values[p + 1]
    BY <1>2, <1>3 DEF ValueAt
  <2>4. CASE p >= file.tokens
    BY <2>2, <2>4, <1>1
  <2>5. CASE ~(p >= file.tokens)
    <3>1. p < Len(values)
      BY <2>5, <1>1, <1>2, <1>3
    <3> QED BY <2>2, <2>3, <2>5, <3>1, <1>1 DEF NumberAt
  <2> QED BY <2>4, <2>5
<1> QED BY <1>5, <1>6 DEF file

-----------------------------------------------------------------------------
(* Folds of a build, step by step. *)

(* Counting up from 0. *)
LEMMA CountedUp ==
  ASSUME NEW n \in Nat, NEW Good, 0 \in Good, \A k \in 1 .. n : k - 1 \in Good => k \in Good
  PROVE  \A k \in 0 .. n : k \in Good
<1> DEFINE Bad == {k \in 0 .. n : k \notin Good}
<1>1. Bad = {}
  <2> SUFFICES ASSUME Bad # {} PROVE FALSE
    OBVIOUS
  <2>1. PICK m \in Bad : \A k \in Bad : m <= k
    <3>1. Bad \subseteq Nat
      OBVIOUS
    <3> HIDE DEF Bad
    <3> QED BY <3>1, LeastNumber
  <2>2. m \in 1 .. n /\ m - 1 \in 0 .. n
    BY <2>1
  <2>3. m - 1 \in Good
    BY <2>1, <2>2
  <2> QED BY <2>1, <2>2, <2>3
<1> QED BY <1>1

(* Max is what its name says of the first numbers. *)
LEMMA MaxOfSome ==
  ASSUME NEW n \in Nat, NEW T, T \subseteq 1 .. n, T # {}
  PROVE  Max(T) \in T /\ \A k \in T : Max(T) >= k
<1> DEFINE Up == {i \in Nat : n - i \in T}
<1>1. PICK t \in T : TRUE
  OBVIOUS
<1>2. Up \subseteq Nat /\ n - t \in Up
  BY <1>1
<1>3. PICK m \in Up : \A k \in Up : m <= k
  <2> HIDE DEF Up
  <2> QED BY <1>2, LeastNumber
<1>4. n - m \in T
  BY <1>3
<1>5. ASSUME NEW k \in T PROVE n - m >= k
  <2>1. n - k \in Up /\ k \in Int /\ m \in Int
    BY <1>3
  <2> QED BY <2>1, <1>3
<1>6. \E x \in T : \A y \in T : x >= y
  BY <1>4, <1>5
<1> QED BY <1>6, Zenon DEF Max

(* Hence of an interval it is the last one, and the rest is the interval before. *)
LEMMA MaxOfInterval ==
  ASSUME NEW k \in Nat, k # 0
  PROVE  Max(1 .. k) = k /\ (1 .. k) \ {k} = 1 .. k - 1
<1>1. Max(1 .. k) \in 1 .. k /\ \A i \in 1 .. k : Max(1 .. k) >= i
  <2>1. 1 .. k \subseteq 1 .. k /\ 1 .. k # {}
    OBVIOUS
  <2> QED BY <2>1, MaxOfSome
<1>2. Max(1 .. k) = k
  BY <1>1
<1> QED BY <1>2

(* One step of each of the folds of a build. *)
Step(kind, context, state, item) ==
  CASE kind = "select" -> IF item.line = context THEN Append(state, item) ELSE state
    [] kind = "block" -> IF item.line # "blank" THEN [state EXCEPT !.current = Append(@, item)]
                         ELSE IF state.current = <<>> THEN state
                         ELSE [blocks |-> Append(state.blocks, state.current), current |-> <<>>]
    [] kind = "skip" -> TryParseSentence(state, item)
    [] kind = "strict" -> ParseSentenceStrict(state, item)
    [] kind = "token" -> AddToken(state, item, context)
    [] kind = "sentence" ->
         AddSentence(state, context.name, Len(state.sentence_ids) - context.first, item, context.decompose)
    [] kind = "file" -> TakeFile(state, item)

(* The right side of the equation that a fold with such steps satisfies. *)
Folding(kind, context, base, seq, iter) ==
  [t \in SUBSET DOMAIN seq |->
     IF t = {} THEN base ELSE Step(kind, context, iter[t \ {Max(t)}], seq[Max(t)])]

(* There is a solution, as the equation goes from a set of indices to a smaller one. *)
LEMMA FoldingHasFixpoint ==
  ASSUME NEW kind, NEW context, NEW base, NEW seq, IsSequence(seq)
  PROVE  \E iter : iter = Folding(kind, context, base, seq, iter)
<1> DEFINE S == DOMAIN seq
           F(iter) == Folding(kind, context, base, seq, iter)
           Good(n) == \E iter : \A s \in SUBSET S : Cardinality(s) <= n => iter[s] = F(iter)[s]
           Bad == {n \in Nat : ~Good(n)}
<1>1. ASSUME NEW f, NEW g, NEW s \in SUBSET S, s # {} => f[s \ {Max(s)}] = g[s \ {Max(s)}]
      PROVE  F(f)[s] = F(g)[s]
  <2>1. CASE s = {}
    BY <2>1 DEF Folding
  <2>2. CASE s # {}
    BY <1>1, <2>2, Zenon DEF Folding
  <2> QED BY <2>1, <2>2
<1>2. \A s \in SUBSET S : s # {} => Max(s) \in s
  <2>1. Len(seq) \in Nat /\ S = 1 .. Len(seq)
    BY DEF IsSequence
  <2> HIDE DEF S
  <2> QED BY <2>1, MaxOfSome
<1>3. IsFiniteSet(S)
  <2>1. Len(seq) \in Nat /\ S = 1 .. Len(seq)
    BY DEF IsSequence
  <2> QED BY <2>1, FS_Interval
<1>4. F(0) = [s \in SUBSET S |-> F(0)[s]] /\ \A f : F(f) = [s \in SUBSET S |-> F(f)[s]]
  BY Zenon DEF Folding
<1>5. \A f : DOMAIN F(f) = SUBSET S
  BY DEF Folding
<1>6. \A f : F(f)[{}] = base
  BY DEF Folding
<1> HIDE DEF F, S
<1>7. Bad = {}
  <2> SUFFICES ASSUME Bad # {} PROVE FALSE
    OBVIOUS
  <2>1. PICK n \in Bad : \A m \in Bad : n <= m
    <3>1. Bad \subseteq Nat
      OBVIOUS
    <3> HIDE DEF Bad
    <3> QED BY <3>1, LeastNumber
  <2>2. \A s \in SUBSET S : Cardinality(s) \in Nat /\ (Cardinality(s) = 0 <=> s = {})
    BY <1>3, FS_Subset, FS_CardinalityType, FS_EmptySet
  <2>3. CASE n = 0
    <3> DEFINE iter == [s \in SUBSET S |-> base]
    <3>1. \A s \in SUBSET S : Cardinality(s) <= 0 => iter[s] = F(iter)[s]
      <4> SUFFICES ASSUME NEW s \in SUBSET S, Cardinality(s) <= 0 PROVE iter[s] = F(iter)[s]
        OBVIOUS
      <4>1. s = {}
        BY <2>2
      <4>2. F(iter)[s] = base
        BY <4>1, <1>6
      <4> QED BY <4>1, <4>2
    <3> QED BY <3>1, <2>1, <2>3
  <2>4. CASE n # 0
    <3>1. n - 1 \in Nat /\ n \in Nat
      BY <2>4
    <3>2. PICK iter : \A s \in SUBSET S : Cardinality(s) <= n - 1 => iter[s] = F(iter)[s]
      <4>1. n - 1 \notin Bad
        BY <2>1, <3>1
      <4> QED BY <3>1, <4>1
    <3> DEFINE next == [s \in SUBSET S |-> IF Cardinality(s) <= n - 1 THEN iter[s] ELSE F(iter)[s]]
    <3>3. ASSUME NEW s \in SUBSET S, s # {}, Cardinality(s) <= n
          PROVE  next[s \ {Max(s)}] = iter[s \ {Max(s)}]
      <4> DEFINE x == Max(s)
      <4>1. x \in s
        BY <3>3, <1>2
      <4> HIDE DEF x
      <4>2. Cardinality(s \ {x}) = Cardinality(s) - 1
        BY <4>1, <1>3, FS_Subset, FS_RemoveElement
      <4>3. s \ {x} \in SUBSET S /\ Cardinality(s \ {x}) <= n - 1
        BY <4>2, <3>1, <3>3, <2>2
      <4>4. next[s \ {x}] = iter[s \ {x}]
        BY <4>3, Zenon
      <4> QED BY <4>4 DEF x
    <3>4. ASSUME NEW s \in SUBSET S, Cardinality(s) <= n
          PROVE  next[s] = F(iter)[s]
      BY <3>2, <3>4, Zenon
    <3>5. ASSUME NEW s \in SUBSET S, Cardinality(s) <= n
          PROVE  F(next)[s] = F(iter)[s]
      <4> HIDE DEF next
      <4>1. s # {} => next[s \ {Max(s)}] = iter[s \ {Max(s)}]
        BY <3>3, <3>5
      <4> QED BY <4>1, <1>1
    <3>6. \A s \in SUBSET S : Cardinality(s) <= n => next[s] = F(next)[s]
      BY <3>4, <3>5, Zenon
    <3> HIDE DEF next
    <3>7. Good(n)
      BY <3>6, Zenon
    <3> QED BY <3>7, <2>1
  <2> QED BY <2>3, <2>4
<1>8. PICK iter : \A s \in SUBSET S : Cardinality(s) <= Cardinality(S) => iter[s] = F(iter)[s]
  <2>1. Cardinality(S) \in Nat
    BY <1>3, FS_CardinalityType
  <2> QED BY <1>7, <2>1, Zenon
<1> DEFINE whole == [s \in SUBSET S |-> iter[s]]
<1>9. \A s \in SUBSET S : Cardinality(s) <= Cardinality(S)
  BY <1>3, FS_Subset
<1>10. \A s \in SUBSET S : F(whole)[s] = F(iter)[s]
  <2> TAKE s \in SUBSET S
  <2>1. s # {} => whole[s \ {Max(s)}] = iter[s \ {Max(s)}]
    OBVIOUS
  <2> HIDE DEF whole
  <2> QED BY <2>1, <1>1
<1>11. whole = F(whole)
  <2>1. whole = [s \in SUBSET S |-> F(whole)[s]]
    BY <1>8, <1>9, <1>10, Zenon
  <2>2. [s \in SUBSET S |-> F(whole)[s]] = F(whole)
    <3> HIDE DEF whole
    <3> QED BY <1>4, Zenon
  <2> QED BY <2>1, <2>2
<1> HIDE DEF whole
<1> QED BY <1>11, Zenon DEF F

(* What the fold goes through, item by item. *)
Runs(kind, context, base, seq, result) ==
  \E run : /\ run[0] = base
           /\ \A k \in 1 .. Len(seq) : run[k] = Step(kind, context, run[k - 1], seq[k])
           /\ result = run[Len(seq)]

(* A solution goes through it on the first indices. *)
LEMMA FixpointRuns ==
  ASSUME NEW kind, NEW context, NEW base, NEW seq, IsSequence(seq),
         NEW iter, iter = Folding(kind, context, base, seq, iter)
  PROVE  Runs(kind, context, base, seq, iter[DOMAIN seq])
<1> DEFINE n == Len(seq)
           run == [k \in 0 .. n |-> iter[1 .. k]]
<1>1. n \in Nat /\ DOMAIN seq = 1 .. n
  BY DEF IsSequence
<1>2. run[0] = base
  <2>1. 1 .. 0 = {} /\ {} \in SUBSET DOMAIN seq /\ 0 \in 0 .. n
    BY <1>1
  <2>2. iter[{}] = base
    BY <2>1, Zenon DEF Folding
  <2> QED BY <2>1, <2>2
<1>3. ASSUME NEW k \in 1 .. n PROVE run[k] = Step(kind, context, run[k - 1], seq[k])
  <2>1. k \in Nat /\ k # 0 /\ k \in 0 .. n /\ k - 1 \in 0 .. n
    BY <1>1
  <2>2. Max(1 .. k) = k /\ (1 .. k) \ {k} = 1 .. k - 1
    BY <2>1, MaxOfInterval
  <2>3. 1 .. k \in SUBSET DOMAIN seq /\ 1 .. k # {}
    BY <1>1, <2>1
  <2> HIDE DEF n
  <2>4. iter[1 .. k] = Step(kind, context, iter[(1 .. k) \ {Max(1 .. k)}], seq[Max(1 .. k)])
    BY <2>3, Zenon DEF Folding
  <2>5. run[k] = iter[1 .. k] /\ run[k - 1] = iter[1 .. k - 1]
    BY <2>1
  <2> HIDE DEF run
  <2>6. iter[(1 .. k) \ {Max(1 .. k)}] = iter[1 .. k - 1] /\ seq[Max(1 .. k)] = seq[k]
    BY <2>2
  <2> QED BY <2>4, <2>5, <2>6
<1>4. iter[DOMAIN seq] = run[n]
  BY <1>1
<1> HIDE DEF run
<1> QED BY <1>2, <1>3, <1>4, Zenon DEF Runs, n

(* Each fold of a build goes through its items in order. *)
LEMMA SelectRun ==
  ASSUME NEW block, NEW kind, IsSequence(block)
  PROVE  Runs("select", kind, <<>>, block, Lines(block, kind))
<1> DEFINE Rest(iter) ==
             [t \in SUBSET DOMAIN block |->
                IF t = {} THEN <<>> ELSE (IF block[Max(t)].line = kind THEN Append(iter[t \ {Max(t)}], block[Max(t)]) ELSE iter[t \ {Max(t)}])]
           iter == CHOOSE iter : iter = Rest(iter)
<1>1. Lines(block, kind) = iter[DOMAIN block]
  BY Zenon DEF Lines, FoldLeft, MapThenFoldSet
<1>2. ASSUME NEW some PROVE Rest(some) = Folding("select", kind, <<>>, block, some)
  <2>1. ASSUME NEW state, NEW item
        PROVE  Step("select", kind, state, item) = IF item.line = kind THEN Append(state, item) ELSE state
    BY DEF Step
  <2> QED BY <2>1, Zenon DEF Folding
<1>3. iter = Rest(iter)
  <2> HIDE DEF Rest
  <2>1. \E some : some = Rest(some)
    BY <1>2, FoldingHasFixpoint
  <2> QED BY <2>1, Zenon
<1> HIDE DEF iter
<1>4. iter = Folding("select", kind, <<>>, block, iter)
  <2> HIDE DEF Rest
  <2> QED BY <1>2, <1>3
<1>5. Runs("select", kind, <<>>, block, iter[DOMAIN block])
  BY <1>4, FixpointRuns
<1> QED BY <1>1, <1>5

(* A file that is read with its bad blocks skipped. *)
LEMMA SkippingRun ==
  ASSUME NEW lines, IsSequence(BlocksOf(lines))
  PROVE  Runs("skip", 0, NewReader, BlocksOf(lines), ReadSentences(lines))
<1> DEFINE Rest(iter) ==
             [t \in SUBSET DOMAIN BlocksOf(lines) |->
                IF t = {} THEN NewReader ELSE TryParseSentence(iter[t \ {Max(t)}], BlocksOf(lines)[Max(t)])]
           iter == CHOOSE iter : iter = Rest(iter)
<1>1. ReadSentences(lines) = iter[DOMAIN BlocksOf(lines)]
  BY Zenon DEF ReadSentences, FoldLeft, MapThenFoldSet
<1>2. ASSUME NEW some PROVE Rest(some) = Folding("skip", 0, NewReader, BlocksOf(lines), some)
  <2>1. ASSUME NEW state, NEW item
        PROVE  Step("skip", 0, state, item) = TryParseSentence(state, item)
    BY DEF Step
  <2> QED BY <2>1, Zenon DEF Folding
<1>3. iter = Rest(iter)
  <2> HIDE DEF Rest
  <2>1. \E some : some = Rest(some)
    BY <1>2, FoldingHasFixpoint
  <2> QED BY <2>1, Zenon
<1> HIDE DEF iter
<1>4. iter = Folding("skip", 0, NewReader, BlocksOf(lines), iter)
  <2> HIDE DEF Rest
  <2> QED BY <1>2, <1>3
<1>5. Runs("skip", 0, NewReader, BlocksOf(lines), iter[DOMAIN BlocksOf(lines)])
  BY <1>4, FixpointRuns
<1> QED BY <1>1, <1>5

(* A file that is read strictly. *)
LEMMA StrictRun ==
  ASSUME NEW lines, IsSequence(BlocksOf(lines))
  PROVE  Runs("strict", 0, NewReader, BlocksOf(lines), ReadSentencesStrict(lines))
<1> DEFINE Rest(iter) ==
             [t \in SUBSET DOMAIN BlocksOf(lines) |->
                IF t = {} THEN NewReader ELSE ParseSentenceStrict(iter[t \ {Max(t)}], BlocksOf(lines)[Max(t)])]
           iter == CHOOSE iter : iter = Rest(iter)
<1>1. ReadSentencesStrict(lines) = iter[DOMAIN BlocksOf(lines)]
  BY Zenon DEF ReadSentencesStrict, FoldLeft, MapThenFoldSet
<1>2. ASSUME NEW some PROVE Rest(some) = Folding("strict", 0, NewReader, BlocksOf(lines), some)
  <2>1. ASSUME NEW state, NEW item
        PROVE  Step("strict", 0, state, item) = ParseSentenceStrict(state, item)
    BY DEF Step
  <2> QED BY <2>1, Zenon DEF Folding
<1>3. iter = Rest(iter)
  <2> HIDE DEF Rest
  <2>1. \E some : some = Rest(some)
    BY <1>2, FoldingHasFixpoint
  <2> QED BY <2>1, Zenon
<1> HIDE DEF iter
<1>4. iter = Folding("strict", 0, NewReader, BlocksOf(lines), iter)
  <2> HIDE DEF Rest
  <2> QED BY <1>2, <1>3
<1>5. Runs("strict", 0, NewReader, BlocksOf(lines), iter[DOMAIN BlocksOf(lines)])
  BY <1>4, FixpointRuns
<1> QED BY <1>1, <1>5

(* The fold over the tokens of a sentence in AddSentence. *)
TokensAdded(sink, tokens, decompose) == FoldLeft(LAMBDA s, t : AddToken(s, t, decompose), sink, tokens)

(* It goes through them in order. *)
LEMMA TokenRun ==
  ASSUME NEW sink, NEW tokens, NEW decompose, IsSequence(tokens)
  PROVE  Runs("token", decompose, sink, tokens, TokensAdded(sink, tokens, decompose))
<1> DEFINE Rest(iter) ==
             [t \in SUBSET DOMAIN tokens |->
                IF t = {} THEN sink ELSE AddToken(iter[t \ {Max(t)}], tokens[Max(t)], decompose)]
           iter == CHOOSE iter : iter = Rest(iter)
<1>1. TokensAdded(sink, tokens, decompose) = iter[DOMAIN tokens]
  BY Zenon DEF TokensAdded, FoldLeft, MapThenFoldSet
<1>2. ASSUME NEW some PROVE Rest(some) = Folding("token", decompose, sink, tokens, some)
  <2>1. ASSUME NEW state, NEW item
        PROVE  Step("token", decompose, state, item) = AddToken(state, item, decompose)
    BY DEF Step
  <2> QED BY <2>1, Zenon DEF Folding
<1>3. iter = Rest(iter)
  <2> HIDE DEF Rest
  <2>1. \E some : some = Rest(some)
    BY <1>2, FoldingHasFixpoint
  <2> QED BY <2>1, Zenon
<1> HIDE DEF iter
<1>4. iter = Folding("token", decompose, sink, tokens, iter)
  <2> HIDE DEF Rest
  <2> QED BY <1>2, <1>3
<1>5. Runs("token", decompose, sink, tokens, iter[DOMAIN tokens])
  BY <1>4, FixpointRuns
<1> QED BY <1>1, <1>5

(* The fold over the sentences of a document in AddDocument. *)
SentencesAdded(sink, doc_name, first, sentences, decompose) ==
  FoldLeft(LAMBDA s, x : AddSentence(s, doc_name, Len(s.sentence_ids) - first, x, decompose), sink, sentences)

(* It goes through them in order. *)
LEMMA SentenceRun ==
  ASSUME NEW sink, NEW sentences, NEW doc_name, NEW first, NEW decompose, IsSequence(sentences)
  PROVE  Runs("sentence", [name |-> doc_name, first |-> first, decompose |-> decompose], sink, sentences, SentencesAdded(sink, doc_name, first, sentences, decompose))
<1> DEFINE Rest(iter) ==
             [t \in SUBSET DOMAIN sentences |->
                IF t = {} THEN sink ELSE AddSentence(iter[t \ {Max(t)}], doc_name, Len(iter[t \ {Max(t)}].sentence_ids) - first, sentences[Max(t)], decompose)]
           iter == CHOOSE iter : iter = Rest(iter)
<1>1. SentencesAdded(sink, doc_name, first, sentences, decompose) = iter[DOMAIN sentences]
  BY Zenon DEF SentencesAdded, FoldLeft, MapThenFoldSet
<1>2. ASSUME NEW some PROVE Rest(some) = Folding("sentence", [name |-> doc_name, first |-> first, decompose |-> decompose], sink, sentences, some)
  <2>1. ASSUME NEW state, NEW item
        PROVE  Step("sentence", [name |-> doc_name, first |-> first, decompose |-> decompose], state, item) = AddSentence(state, doc_name, Len(state.sentence_ids) - first, item, decompose)
    BY DEF Step
  <2> QED BY <2>1, Zenon DEF Folding
<1>3. iter = Rest(iter)
  <2> HIDE DEF Rest
  <2>1. \E some : some = Rest(some)
    BY <1>2, FoldingHasFixpoint
  <2> QED BY <2>1, Zenon
<1> HIDE DEF iter
<1>4. iter = Folding("sentence", [name |-> doc_name, first |-> first, decompose |-> decompose], sink, sentences, iter)
  <2> HIDE DEF Rest
  <2> QED BY <1>2, <1>3
<1>5. Runs("sentence", [name |-> doc_name, first |-> first, decompose |-> decompose], sink, sentences, iter[DOMAIN sentences])
  BY <1>4, FixpointRuns
<1> QED BY <1>1, <1>5

(* The fold over the sinks of the files in BuildFromDirectory. *)
FilesTaken(build, sinks) == FoldLeft(TakeFile, build, sinks)

(* It goes through them in order. *)
LEMMA FileRun ==
  ASSUME NEW build, NEW sinks, IsSequence(sinks)
  PROVE  Runs("file", 0, build, sinks, FilesTaken(build, sinks))
<1> DEFINE Rest(iter) ==
             [t \in SUBSET DOMAIN sinks |->
                IF t = {} THEN build ELSE TakeFile(iter[t \ {Max(t)}], sinks[Max(t)])]
           iter == CHOOSE iter : iter = Rest(iter)
<1>1. FilesTaken(build, sinks) = iter[DOMAIN sinks]
  BY Zenon DEF FilesTaken, FoldLeft, MapThenFoldSet
<1>2. ASSUME NEW some PROVE Rest(some) = Folding("file", 0, build, sinks, some)
  <2>1. ASSUME NEW state, NEW item
        PROVE  Step("file", 0, state, item) = TakeFile(state, item)
    BY DEF Step
  <2> QED BY <2>1, Zenon DEF Folding
<1>3. iter = Rest(iter)
  <2> HIDE DEF Rest
  <2>1. \E some : some = Rest(some)
    BY <1>2, FoldingHasFixpoint
  <2> QED BY <2>1, Zenon
<1> HIDE DEF iter
<1>4. iter = Folding("file", 0, build, sinks, iter)
  <2> HIDE DEF Rest
  <2> QED BY <1>2, <1>3
<1>5. Runs("file", 0, build, sinks, iter[DOMAIN sinks])
  BY <1>4, FixpointRuns
<1> QED BY <1>1, <1>5

-----------------------------------------------------------------------------
(* Reading a file. *)

(* Sequences. *)
LEMMA OwnItems ==
  ASSUME NEW S, NEW s \in Seq(S)
  PROVE  IsSequence(s)
<1>1. s \in [1 .. Len(s) -> S] /\ Len(s) \in Nat /\ DOMAIN s = 1 .. Len(s)
  OBVIOUS
<1> DEFINE own == {s[i] : i \in DOMAIN s}
<1>2. s \in [1 .. Len(s) -> own]
  BY <1>1
<1> HIDE DEF own
<1>3. s \in Seq(own)
  BY <1>1, <1>2
<1> QED BY <1>3 DEF IsSequence, own

(* Its indices are the numbers up to its length. *)
LEMMA Indexed ==
  ASSUME NEW s, IsSequence(s)
  PROVE  Len(s) \in Nat /\ DOMAIN s = 1 .. Len(s)
BY DEF IsSequence

(* One more item leaves the others where they are. *)
LEMMA AppendedItem ==
  ASSUME NEW s, IsSequence(s), NEW x
  PROVE  /\ IsSequence(Append(s, x))
         /\ Len(Append(s, x)) = Len(s) + 1
         /\ \A i \in 1 .. Len(s) : Append(s, x)[i] = s[i]
         /\ Append(s, x)[Len(s) + 1] = x
<1> DEFINE S == {s[i] : i \in DOMAIN s} \cup {x}
<1>1. s \in Seq(S) /\ x \in S
  <2>1. s \in [1 .. Len(s) -> S] /\ Len(s) \in Nat
    BY Indexed DEF IsSequence
  <2> HIDE DEF S
  <2>2. s \in Seq(S)
    BY <2>1
  <2> QED BY <2>2 DEF S
<1> HIDE DEF S
<1>2. /\ Append(s, x) \in Seq(S) /\ Len(Append(s, x)) = Len(s) + 1
      /\ \A i \in 1 .. Len(s) : Append(s, x)[i] = s[i]
      /\ Append(s, x)[Len(s) + 1] = x
  BY <1>1, AppendProperties
<1>3. IsSequence(Append(s, x))
  BY <1>2, OwnItems
<1> QED BY <1>2, <1>3

(* Two sequences, one behind the other. *)
LEMMA Joined ==
  ASSUME NEW s, IsSequence(s), NEW t, IsSequence(t)
  PROVE  /\ IsSequence(s \o t) /\ Len(s \o t) = Len(s) + Len(t)
         /\ \A i \in 1 .. Len(s) : (s \o t)[i] = s[i]
         /\ \A i \in 1 .. Len(t) : (s \o t)[Len(s) + i] = t[i]
<1> DEFINE S == {s[i] : i \in DOMAIN s} \cup {t[i] : i \in DOMAIN t}
<1>1. s \in [1 .. Len(s) -> S] /\ t \in [1 .. Len(t) -> S] /\ Len(s) \in Nat /\ Len(t) \in Nat
  BY Indexed DEF IsSequence
<1> HIDE DEF S
<1>2. s \in Seq(S) /\ t \in Seq(S)
  BY <1>1
<1>3. /\ s \o t \in Seq(S) /\ Len(s \o t) = Len(s) + Len(t)
      /\ \A i \in 1 .. Len(s) + Len(t) : (s \o t)[i] = IF i <= Len(s) THEN s[i] ELSE t[i - Len(s)]
  BY <1>2, ConcatProperties
<1>4. IsSequence(s \o t)
  BY <1>3, OwnItems
<1>5. ASSUME NEW i \in 1 .. Len(s) PROVE (s \o t)[i] = s[i]
  BY <1>1, <1>3
<1>6. ASSUME NEW i \in 1 .. Len(t) PROVE (s \o t)[Len(s) + i] = t[i]
  <2>1. Len(s) + i \in 1 .. Len(s) + Len(t) /\ ~(Len(s) + i <= Len(s)) /\ (Len(s) + i) - Len(s) = i
    BY <1>1
  <2> QED BY <2>1, <1>3
<1> QED BY <1>3, <1>4, <1>5, <1>6

(* A sequence made item by item from another. *)
LEMMA OneForOne ==
  ASSUME NEW s, IsSequence(s), NEW g, g = [i \in DOMAIN s |-> g[i]]
  PROVE  IsSequence(g) /\ Len(g) = Len(s) /\ DOMAIN g = 1 .. Len(s)
<1>1. Len(s) \in Nat /\ DOMAIN s = 1 .. Len(s) /\ DOMAIN g = DOMAIN s
  BY Indexed
<1> DEFINE S == {g[i] : i \in DOMAIN g}
<1>2. g \in [1 .. Len(s) -> S]
  BY <1>1
<1> HIDE DEF S
<1>3. g \in Seq(S) /\ Len(g) = Len(s)
  BY <1>1, <1>2
<1> QED BY <1>1, <1>3 DEF IsSequence, S

(* The lines of a kind, and the blocks of a file. *)
LEMMA LinesAreSequence ==
  ASSUME NEW block, NEW kind, IsSequence(block)
  PROVE  IsSequence(Lines(block, kind))
<1> DEFINE n == Len(block)
<1>1. n \in Nat
  BY Indexed
<1>2. PICK run : /\ run[0] = <<>>
                 /\ \A k \in 1 .. n : run[k] = Step("select", kind, run[k - 1], block[k])
                 /\ Lines(block, kind) = run[n]
  BY SelectRun DEF Runs
<1> HIDE DEF n
<1> DEFINE Good == {k \in 0 .. n : IsSequence(run[k])}
<1>3. 0 \in Good
  <2>1. IsSequence(<<>>)
    BY DEF IsSequence
  <2> QED BY <2>1, <1>1, <1>2
<1>4. ASSUME NEW k \in 1 .. n, k - 1 \in Good PROVE k \in Good
  <2>1. IsSequence(run[k - 1]) /\ k \in 0 .. n
    BY <1>1, <1>4
  <2>2. run[k] = IF block[k].line = kind THEN Append(run[k - 1], block[k]) ELSE run[k - 1]
    BY <1>2 DEF Step
  <2>3. IsSequence(Append(run[k - 1], block[k]))
    BY <2>1, AppendedItem
  <2> QED BY <2>1, <2>2, <2>3
<1>5. \A k \in 0 .. n : k \in Good
  <2> HIDE DEF Good
  <2> QED BY <1>1, <1>3, <1>4, CountedUp
<1> QED BY <1>1, <1>2, <1>5

(* The fold of BlocksOf goes through the lines and a blank one behind them. *)
LEMMA BlockRun ==
  ASSUME NEW lines, IsSequence(lines)
  PROVE  \E all : /\ Runs("block", 0, [blocks |-> <<>>, current |-> <<>>], Append(lines, [line |-> "blank"]), all)
                  /\ BlocksOf(lines) = all.blocks
<1> DEFINE seq == Append(lines, [line |-> "blank"])
           base == [blocks |-> <<>>, current |-> <<>>]
           Taken(acc, l) == IF l.line # "blank" THEN [acc EXCEPT !.current = Append(@, l)]
                            ELSE IF acc.current = <<>> THEN acc
                            ELSE [blocks |-> Append(acc.blocks, acc.current), current |-> <<>>]
           Rest(iter) ==
             [t \in SUBSET DOMAIN seq |-> IF t = {} THEN base ELSE Taken(iter[t \ {Max(t)}], seq[Max(t)])]
           iter == CHOOSE iter : iter = Rest(iter)
<1>0. IsSequence(seq)
  BY AppendedItem
<1>1. BlocksOf(lines) = iter[DOMAIN seq].blocks
  BY Zenon DEF BlocksOf, FoldLeft, MapThenFoldSet
<1> HIDE DEF seq, base
<1>2. ASSUME NEW some PROVE Rest(some) = Folding("block", 0, base, seq, some)
  <2>1. ASSUME NEW state, NEW item
        PROVE  Step("block", 0, state, item) = Taken(state, item)
    BY DEF Step
  <2> QED BY <2>1, Zenon DEF Folding
<1>3. iter = Rest(iter)
  <2> HIDE DEF Rest
  <2>1. \E some : some = Rest(some)
    BY <1>0, <1>2, FoldingHasFixpoint
  <2> QED BY <2>1, Zenon
<1> HIDE DEF iter
<1>4. iter = Folding("block", 0, base, seq, iter)
  <2> HIDE DEF Rest
  <2> QED BY <1>2, <1>3
<1>5. Runs("block", 0, base, seq, iter[DOMAIN seq])
  BY <1>0, <1>4, FixpointRuns
<1> QED BY <1>1, <1>5 DEF base, seq

(* The blocks of a file are sequences of lines. *)
LEMMA BlocksAreSequences ==
  ASSUME NEW lines, IsSequence(lines)
  PROVE  /\ IsSequence(BlocksOf(lines))
         /\ \A i \in DOMAIN BlocksOf(lines) : IsSequence(BlocksOf(lines)[i])
<1> DEFINE seq == Append(lines, [line |-> "blank"])
           n == Len(seq)
           Fine(acc) == /\ DOMAIN acc = {"blocks", "current"}
                        /\ IsSequence(acc.blocks) /\ IsSequence(acc.current)
                        /\ \A i \in DOMAIN acc.blocks : IsSequence(acc.blocks[i])
<1>1. IsSequence(seq) /\ n \in Nat
  <2>1. IsSequence(seq)
    BY AppendedItem
  <2> HIDE DEF seq
  <2> QED BY <2>1, Indexed
<1>2. PICK all : /\ Runs("block", 0, [blocks |-> <<>>, current |-> <<>>], seq, all)
                 /\ BlocksOf(lines) = all.blocks
  BY BlockRun
<1> HIDE DEF seq
<1>3. PICK run : /\ run[0] = [blocks |-> <<>>, current |-> <<>>]
                 /\ \A k \in 1 .. n : run[k] = Step("block", 0, run[k - 1], seq[k])
                 /\ all = run[n]
  BY <1>2 DEF Runs
<1> HIDE DEF n
<1> DEFINE Good == {k \in 0 .. n : Fine(run[k])}
<1>4. 0 \in Good
  <2>1. IsSequence(<<>>) /\ DOMAIN <<>> = {}
    BY DEF IsSequence
  <2> QED BY <2>1, <1>1, <1>3
<1>5. ASSUME NEW k \in 1 .. n, k - 1 \in Good PROVE k \in Good
  <2> DEFINE r == run[k - 1]
             x == seq[k]
             more == Append(r.blocks, r.current)
  <2>1. Fine(r) /\ k \in 0 .. n
    BY <1>1, <1>5
  <2>2. run[k] = IF x.line # "blank" THEN [r EXCEPT !.current = Append(@, x)]
                 ELSE IF r.current = <<>> THEN r
                 ELSE [blocks |-> more, current |-> <<>>]
    BY <1>3 DEF Step
  <2> HIDE DEF r, x
  <2>3. IsSequence(Append(r.current, x)) /\ IsSequence(<<>>)
    <3>1. IsSequence(<<>>)
      BY DEF IsSequence
    <3> QED BY <2>1, <3>1, AppendedItem
  <2>4. IsSequence(more) /\ \A i \in DOMAIN more : IsSequence(more[i])
    <3>1. Len(r.blocks) \in Nat /\ DOMAIN r.blocks = 1 .. Len(r.blocks)
      BY <2>1, Indexed
    <3>2. IsSequence(more) /\ Len(more) = Len(r.blocks) + 1
      BY <2>1, AppendedItem
    <3>3. \A i \in 1 .. Len(r.blocks) : more[i] = r.blocks[i]
      BY <2>1, AppendedItem
    <3>4. more[Len(r.blocks) + 1] = r.current
      BY <2>1, AppendedItem
    <3> HIDE DEF more
    <3>5. DOMAIN more = 1 .. Len(r.blocks) + 1
      BY <3>2, Indexed
    <3>6. ASSUME NEW i \in DOMAIN more PROVE IsSequence(more[i])
      <4>1. CASE i \in 1 .. Len(r.blocks)
        BY <4>1, <3>1, <3>3, <2>1
      <4>2. CASE i = Len(r.blocks) + 1
        BY <4>2, <3>4, <2>1
      <4> QED BY <4>1, <4>2, <3>1, <3>5
    <3> QED BY <3>2, <3>6
  <2> HIDE DEF more
  <2>5. CASE x.line # "blank"
    <3>1. /\ DOMAIN run[k] = {"blocks", "current"} /\ run[k].blocks = r.blocks
          /\ run[k].current = Append(r.current, x)
      BY <2>1, <2>2, <2>5
    <3> QED BY <3>1, <2>1, <2>3
  <2>6. CASE x.line = "blank" /\ r.current = <<>>
    BY <2>1, <2>2, <2>6
  <2>7. CASE x.line = "blank" /\ r.current # <<>>
    <3>1. DOMAIN run[k] = {"blocks", "current"} /\ run[k].blocks = more /\ run[k].current = <<>>
      BY <2>2, <2>7
    <3> QED BY <3>1, <2>1, <2>3, <2>4
  <2> QED BY <2>5, <2>6, <2>7
<1>6. \A k \in 0 .. n : k \in Good
  <2> HIDE DEF Good
  <2> QED BY <1>1, <1>4, <1>5, CountedUp
<1>7. Fine(all)
  BY <1>1, <1>3, <1>6
<1> QED BY <1>2, <1>7

(* What is parsed of a sentence are sequences. *)
SentenceParts(s) == IsSequence(s.tokens) /\ IsSequence(s.mwts) /\ IsSequence(s.empty_nodes)

(* What a block is parsed to are such parts. *)
LEMMA ParsedParts ==
  ASSUME NEW block, IsSequence(block), NEW start
  PROVE  SentenceParts(ParsedSentence(block, start))
<1> DEFINE words == Lines(block, "word")
           ranges == Lines(block, "range")
           empties == Lines(block, "empty")
           tokens == [i \in DOMAIN words |-> ParsedToken(words[i])]
           mwts == [i \in DOMAIN ranges |-> ParsedMWT(ranges[i])]
           nodes == [i \in DOMAIN empties |-> ParsedEmptyNode(empties[i])]
<1>1. IsSequence(words) /\ IsSequence(ranges) /\ IsSequence(empties)
  BY LinesAreSequence
<1>2. /\ ParsedSentence(block, start).tokens = tokens
      /\ ParsedSentence(block, start).mwts = mwts
      /\ ParsedSentence(block, start).empty_nodes = nodes
  BY Zenon DEF ParsedSentence, Mapped
<1> HIDE DEF words, ranges, empties
<1>3. IsSequence(tokens)
  <2>1. tokens = [i \in DOMAIN words |-> tokens[i]]
    OBVIOUS
  <2> HIDE DEF tokens
  <2> QED BY <1>1, <2>1, OneForOne
<1>4. IsSequence(mwts)
  <2>1. mwts = [i \in DOMAIN ranges |-> mwts[i]]
    OBVIOUS
  <2> HIDE DEF mwts
  <2> QED BY <1>1, <2>1, OneForOne
<1>5. IsSequence(nodes)
  <2>1. nodes = [i \in DOMAIN empties |-> nodes[i]]
    OBVIOUS
  <2> HIDE DEF nodes
  <2> QED BY <1>1, <2>1, OneForOne
<1> HIDE DEF tokens, mwts, nodes
<1> QED BY <1>2, <1>3, <1>4, <1>5 DEF SentenceParts

(* What has been read of a file so far. *)
ReaderInv(reader) ==
  /\ DOMAIN reader = {"ok", "position", "sentences", "skipped"}
  /\ IsSequence(reader.sentences)
  /\ \A i \in DOMAIN reader.sentences : SentenceParts(reader.sentences[i])

(* Nothing has been read at first. *)
LEMMA NewReaderInv == ReaderInv(NewReader)
<1>1. IsSequence(<<>>) /\ DOMAIN <<>> = {}
  BY DEF IsSequence
<1> QED BY <1>1 DEF ReaderInv, NewReader

(* One more sentence with such parts. *)
LEMMA OneMoreSentence ==
  ASSUME NEW all, IsSequence(all), \A i \in DOMAIN all : SentenceParts(all[i]),
         NEW s, SentenceParts(s)
  PROVE  /\ IsSequence(Append(all, s))
         /\ \A i \in DOMAIN Append(all, s) : SentenceParts(Append(all, s)[i])
<1> DEFINE more == Append(all, s)
<1>1. Len(all) \in Nat /\ DOMAIN all = 1 .. Len(all)
  BY Indexed
<1>2. IsSequence(more) /\ Len(more) = Len(all) + 1
  BY AppendedItem
<1>3. \A i \in 1 .. Len(all) : more[i] = all[i]
  BY AppendedItem
<1>4. more[Len(all) + 1] = s
  BY AppendedItem
<1> HIDE DEF more
<1>5. DOMAIN more = 1 .. Len(all) + 1
  BY <1>2, Indexed
<1>6. ASSUME NEW i \in DOMAIN more PROVE SentenceParts(more[i])
  <2>1. CASE i \in 1 .. Len(all)
    BY <2>1, <1>1, <1>3
  <2>2. CASE i = Len(all) + 1
    BY <2>2, <1>4
  <2> QED BY <2>1, <2>2, <1>1, <1>5
<1> QED BY <1>2, <1>6 DEF more

(* A block adds a sentence, is skipped, or stops the reading. *)
LEMMA ReadingKeeps ==
  ASSUME NEW reader, ReaderInv(reader), NEW block, IsSequence(block)
  PROVE  ReaderInv(TryParseSentence(reader, block)) /\ ReaderInv(ParseSentenceStrict(reader, block))
<1> DEFINE s == ParsedSentence(block, reader.position)
           more == Append(reader.sentences, s)
<1>1. SentenceParts(s)
  BY ParsedParts
<1>2. /\ TryParseSentence(reader, block) =
           IF Malformed(block) THEN [reader EXCEPT !.position = @ + WordsBeforeFault(block), !.skipped = @ + 1]
           ELSE IF s.tokens = <<>> THEN [reader EXCEPT !.skipped = @ + 1]
           ELSE [reader EXCEPT !.position = s.span.end, !.sentences = more]
      /\ ParseSentenceStrict(reader, block) =
           IF ~reader.ok \/ Malformed(block) THEN [reader EXCEPT !.ok = FALSE]
           ELSE [reader EXCEPT !.position = s.span.end,
                               !.sentences = IF s.tokens = <<>> THEN @ ELSE more]
  BY Zenon DEF TryParseSentence, ParseSentenceStrict
<1> HIDE DEF s
<1>3. IsSequence(more) /\ \A i \in DOMAIN more : SentenceParts(more[i])
  BY <1>1, OneMoreSentence DEF ReaderInv
<1> HIDE DEF more
<1>4. ReaderInv(TryParseSentence(reader, block))
  BY <1>2, <1>3 DEF ReaderInv
<1>5. ReaderInv(ParseSentenceStrict(reader, block))
  BY <1>2, <1>3 DEF ReaderInv
<1> QED BY <1>4, <1>5

(* Hence all that is read of some lines are sentences with such parts. *)
LEMMA ReadingAll ==
  ASSUME NEW lines, IsSequence(lines)
  PROVE  ReaderInv(ReadSentences(lines)) /\ ReaderInv(ReadSentencesStrict(lines))
<1> DEFINE blocks == BlocksOf(lines)
           n == Len(blocks)
<1>1. IsSequence(blocks) /\ \A i \in DOMAIN blocks : IsSequence(blocks[i])
  BY BlocksAreSequences
<1>2. Runs("skip", 0, NewReader, blocks, ReadSentences(lines))
  BY <1>1, SkippingRun
<1>3. Runs("strict", 0, NewReader, blocks, ReadSentencesStrict(lines))
  BY <1>1, StrictRun
<1> HIDE DEF blocks
<1>4. n \in Nat /\ DOMAIN blocks = 1 .. n
  BY <1>1, Indexed
<1>5. ASSUME NEW kind \in {"skip", "strict"}, NEW result, Runs(kind, 0, NewReader, blocks, result)
      PROVE  ReaderInv(result)
  <2>1. PICK run : /\ run[0] = NewReader
                   /\ \A k \in 1 .. n : run[k] = Step(kind, 0, run[k - 1], blocks[k])
                   /\ result = run[n]
    BY <1>5 DEF Runs
  <2> HIDE DEF n
  <2> DEFINE Good == {k \in 0 .. n : ReaderInv(run[k])}
  <2>2. 0 \in Good
    BY <1>4, <2>1, NewReaderInv
  <2>3. ASSUME NEW k \in 1 .. n, k - 1 \in Good PROVE k \in Good
    <3>1. ReaderInv(run[k - 1]) /\ k \in 0 .. n
      BY <1>4, <2>3
    <3>2. IsSequence(blocks[k])
      BY <1>1, <1>4
    <3>3. run[k] = Step(kind, 0, run[k - 1], blocks[k])
      BY <2>1
    <3> DEFINE r == run[k - 1]
               b == blocks[k]
    <3> HIDE DEF r, b
    <3>4. ReaderInv(Step(kind, 0, r, b))
      <4>1. ReaderInv(TryParseSentence(r, b)) /\ ReaderInv(ParseSentenceStrict(r, b))
        BY <3>1, <3>2, ReadingKeeps DEF r, b
      <4> QED BY <4>1, <1>5 DEF Step
    <3> QED BY <3>1, <3>3, <3>4 DEF r, b
  <2>4. \A k \in 0 .. n : k \in Good
    <3> HIDE DEF Good
    <3> QED BY <1>4, <2>2, <2>3, CountedUp
  <2> QED BY <1>4, <2>1, <2>4
<1> QED BY <1>2, <1>3, <1>5

(* So is what is read of a file, whatever state it is in. *)
LEMMA FileRead ==
  ASSUME NEW file, IsFile(file), NEW strict \in BOOLEAN
  PROVE  ReaderInv(ReadFile(file, strict))
<1>1. CASE file.state = "unreadable"
  <2>1. ReadFile(file, strict) = [NewReader EXCEPT !.ok = FALSE]
    BY <1>1 DEF ReadFile
  <2> QED BY <2>1, NewReaderInv DEF ReaderInv
<1>2. CASE file.state = "garbled"
  <2>1. ReadFile(file, strict) = [NewReader EXCEPT !.ok = ~strict]
    BY <1>2 DEF ReadFile
  <2> QED BY <2>1, NewReaderInv DEF ReaderInv
<1>3. CASE file.state = "text"
  <2>1. ReadFile(file, strict) = IF strict THEN ReadSentencesStrict(file.lines) ELSE ReadSentences(file.lines)
    BY <1>3 DEF ReadFile
  <2>2. IsSequence(file.lines)
    BY <1>3 DEF IsFile
  <2>3. ReaderInv(ReadSentencesStrict(file.lines)) /\ ReaderInv(ReadSentences(file.lines))
    BY <2>2, ReadingAll
  <2> QED BY <2>1, <2>3
<1> QED BY <1>1, <1>2, <1>3 DEF IsFile

-----------------------------------------------------------------------------
(* What a sink holds: tiles. *)

(* The spans of a layer, none if it is not there. *)
LayerOf(spans, layer) == IF layer \in DOMAIN spans THEN spans[layer] ELSE <<>>

(* Spans tile the positions below n: each begins where the one before it ended, *)
(* none is empty, and the last ends at n.                                      *)
Tiles(spans, n) ==
  /\ IsSequence(spans)
  /\ \A i \in DOMAIN spans :
       /\ spans[i].start \in Nat /\ spans[i].end \in Nat /\ spans[i].start < spans[i].end
       /\ spans[i].start = IF i = 1 THEN 0 ELSE spans[i - 1].end
  /\ n = IF Len(spans) = 0 THEN 0 ELSE spans[Len(spans)].end

(* Empty nodes in the order of their sentences, which are numbers below n. *)
NumberedNodes(nodes, n) ==
  /\ IsSequence(nodes)
  /\ \A i \in DOMAIN nodes :
       /\ "sentence_index" \in DOMAIN nodes[i]
       /\ nodes[i].sentence_index < n
  /\ InSentenceOrder(nodes)

(* Spans behind tiles that begin where the tiles end are tiles with them. *)
LEMMA TilesFollowed ==
  ASSUME NEW a, NEW n, Tiles(a, n), NEW b, IsSequence(b),
         \A i \in DOMAIN b : /\ b[i].start \in Nat /\ b[i].end \in Nat /\ b[i].start < b[i].end
                             /\ b[i].start = IF i = 1 THEN n ELSE b[i - 1].end
  PROVE  Tiles(a \o b, IF Len(b) = 0 THEN n ELSE b[Len(b)].end)
<1> DEFINE all == a \o b
           p == Len(a)
           q == Len(b)
<1>1. p \in Nat /\ q \in Nat /\ DOMAIN a = 1 .. p /\ DOMAIN b = 1 .. q
  BY Indexed DEF Tiles
<1>2. IsSequence(all) /\ Len(all) = p + q
  BY Joined DEF Tiles
<1>3. \A i \in 1 .. p : all[i] = a[i]
  BY Joined DEF Tiles
<1>4. \A i \in 1 .. q : all[p + i] = b[i]
  BY Joined DEF Tiles
<1> HIDE DEF all
<1>5. DOMAIN all = 1 .. p + q
  BY <1>2, Indexed
<1> HIDE DEF p, q
<1>6. n = IF p = 0 THEN 0 ELSE a[p].end
  BY DEF Tiles, p
<1>7. ASSUME NEW i \in DOMAIN all
      PROVE  /\ all[i].start \in Nat /\ all[i].end \in Nat /\ all[i].start < all[i].end
             /\ all[i].start = IF i = 1 THEN 0 ELSE all[i - 1].end
  <2>1. CASE i <= p
    <3>1. i \in 1 .. p /\ all[i] = a[i] /\ (i # 1 => i - 1 \in 1 .. p)
      BY <1>1, <1>3, <1>5, <2>1
    <3>2. i # 1 => all[i - 1] = a[i - 1]
      BY <1>3, <3>1
    <3> QED BY <1>1, <3>1, <3>2 DEF Tiles
  <2>2. CASE i = p + 1
    <3>1. 1 \in 1 .. q /\ all[i] = b[1]
      BY <1>1, <1>4, <1>5, <2>2
    <3>2. b[1].start \in Nat /\ b[1].end \in Nat /\ b[1].start < b[1].end /\ b[1].start = n
      BY <1>1, <3>1
    <3>3. CASE p = 0
      BY <1>6, <2>2, <3>1, <3>2, <3>3
    <3>4. CASE p # 0
      <4>1. p \in 1 .. p /\ i # 1 /\ i - 1 = p
        BY <1>1, <2>2, <3>4
      <4>2. all[i - 1] = a[p]
        BY <1>3, <4>1
      <4> QED BY <1>6, <3>1, <3>2, <3>4, <4>1, <4>2
    <3> QED BY <3>3, <3>4
  <2>3. CASE i > p + 1
    <3> DEFINE k == i - p
    <3>1. k \in 1 .. q /\ k # 1 /\ k - 1 \in 1 .. q /\ i = p + k /\ i - 1 = p + (k - 1) /\ i # 1
      BY <1>1, <1>5, <2>3
    <3>2. all[i] = b[k] /\ all[i - 1] = b[k - 1]
      BY <1>4, <3>1
    <3> HIDE DEF k
    <3>3. b[k].start \in Nat /\ b[k].end \in Nat /\ b[k].start < b[k].end /\ b[k].start = b[k - 1].end
      BY <1>1, <3>1
    <3> QED BY <3>1, <3>2, <3>3
  <2> QED BY <1>1, <1>5, <2>1, <2>2, <2>3
<1>8. (IF q = 0 THEN n ELSE b[q].end) = IF Len(all) = 0 THEN 0 ELSE all[Len(all)].end
  <2>1. CASE q = 0
    <3>1. Len(all) = p
      BY <1>1, <1>2, <2>1
    <3>2. p # 0 => all[p] = a[p]
      BY <1>1, <1>3
    <3> QED BY <1>6, <2>1, <3>1, <3>2
  <2>2. CASE q # 0
    <3>1. q \in 1 .. q /\ Len(all) # 0
      BY <1>1, <1>2, <2>2
    <3>2. all[p + q] = b[q]
      BY <1>4, <3>1
    <3> QED BY <1>2, <2>2, <3>1, <3>2
  <2> QED BY <2>1, <2>2
<1> QED BY <1>2, <1>7, <1>8 DEF Tiles, all, q

(* Tiles of a part, shifted behind the tiles of another. *)
LEMMA TilesJoined ==
  ASSUME NEW a, NEW n, Tiles(a, n), NEW b, NEW m, Tiles(b, m)
  PROVE  Tiles(a \o [i \in DOMAIN b |-> Shifted(b[i], n)], n + m)
<1> DEFINE moved == [i \in DOMAIN b |-> Shifted(b[i], n)]
           q == Len(b)
<1>1. q \in Nat /\ DOMAIN b = 1 .. q
  BY Indexed DEF Tiles
<1>2. n \in Nat
  <2>1. Len(a) \in Nat /\ DOMAIN a = 1 .. Len(a)
    BY Indexed DEF Tiles
  <2>2. CASE Len(a) = 0
    BY <2>2 DEF Tiles
  <2>3. CASE Len(a) # 0
    <3>1. Len(a) \in DOMAIN a
      BY <2>1, <2>3
    <3> QED BY <2>3, <3>1 DEF Tiles
  <2> QED BY <2>2, <2>3
<1>3. moved = [i \in DOMAIN b |-> moved[i]]
  OBVIOUS
<1>4. ASSUME NEW i \in DOMAIN b PROVE moved[i].start = b[i].start + n /\ moved[i].end = b[i].end + n
  BY DEF Shifted
<1> HIDE DEF moved
<1>5. IsSequence(moved) /\ Len(moved) = q /\ DOMAIN moved = 1 .. q
  BY <1>3, OneForOne DEF Tiles
<1> HIDE DEF q
<1>6. ASSUME NEW i \in DOMAIN moved
      PROVE  /\ moved[i].start \in Nat /\ moved[i].end \in Nat /\ moved[i].start < moved[i].end
             /\ moved[i].start = IF i = 1 THEN n ELSE moved[i - 1].end
  <2>1. i \in DOMAIN b /\ (i # 1 => i - 1 \in DOMAIN b)
    BY <1>1, <1>5
  <2>2. /\ b[i].start \in Nat /\ b[i].end \in Nat /\ b[i].start < b[i].end
        /\ b[i].start = IF i = 1 THEN 0 ELSE b[i - 1].end
    BY <2>1 DEF Tiles
  <2>3. moved[i].start = b[i].start + n /\ moved[i].end = b[i].end + n
    BY <1>4, <2>1
  <2>4. i # 1 => moved[i - 1].end = b[i - 1].end + n
    BY <1>4, <2>1
  <2> QED BY <1>2, <2>2, <2>3, <2>4
<1>7. Tiles(a \o moved, IF q = 0 THEN n ELSE moved[q].end)
  BY <1>5, <1>6, TilesFollowed
<1>8. (IF q = 0 THEN n ELSE moved[q].end) = n + m
  <2>1. CASE q = 0
    BY <1>2, <2>1 DEF Tiles, q
  <2>2. CASE q # 0
    <3>1. q \in DOMAIN b
      BY <1>1, <2>2
    <3>2. moved[q].end = b[q].end + n /\ b[q].end \in Nat
      BY <1>4, <3>1 DEF Tiles
    <3>3. m = b[q].end
      BY <2>2 DEF Tiles, q
    <3> QED BY <1>2, <2>2, <3>2, <3>3
  <2> QED BY <2>1, <2>2
<1> QED BY <1>7, <1>8 DEF moved

(* Empty nodes of later sentences behind those of earlier ones. *)
LEMMA NodesFollowed ==
  ASSUME NEW m \in Nat, NEW n \in Nat, m <= n,
         NEW a, NumberedNodes(a, m),
         NEW b, IsSequence(b), InSentenceOrder(b),
         \A i \in DOMAIN b : /\ "sentence_index" \in DOMAIN b[i]
                             /\ b[i].sentence_index \in m .. n - 1
  PROVE  NumberedNodes(a \o b, n)
<1> DEFINE all == a \o b
           p == Len(a)
           q == Len(b)
<1>1. p \in Nat /\ q \in Nat /\ DOMAIN a = 1 .. p /\ DOMAIN b = 1 .. q
  BY Indexed DEF NumberedNodes
<1>2. IsSequence(all) /\ Len(all) = p + q
  BY Joined DEF NumberedNodes
<1>3. \A i \in 1 .. p : all[i] = a[i]
  BY Joined DEF NumberedNodes
<1>4. \A i \in 1 .. q : all[p + i] = b[i]
  BY Joined DEF NumberedNodes
<1> HIDE DEF all
<1>5. DOMAIN all = 1 .. p + q
  BY <1>2, Indexed
<1> HIDE DEF p, q
<1>6. ASSUME NEW i \in DOMAIN all
      PROVE  (i \in 1 .. p /\ all[i] = a[i]) \/ (i - p \in 1 .. q /\ all[i] = b[i - p] /\ i > p)
  <2>1. CASE i <= p
    BY <1>1, <1>3, <1>5, <2>1
  <2>2. CASE i > p
    <3>1. i - p \in 1 .. q /\ p + (i - p) = i
      BY <1>1, <1>5, <2>2
    <3>2. all[p + (i - p)] = b[i - p]
      BY <1>4, <3>1
    <3> QED BY <2>2, <3>1, <3>2
  <2> QED BY <1>1, <1>5, <2>1, <2>2
<1>7. ASSUME NEW i \in DOMAIN all
      PROVE  /\ "sentence_index" \in DOMAIN all[i]
             /\ all[i].sentence_index \in Nat /\ all[i].sentence_index < n
  BY <1>1, <1>6 DEF NumberedNodes, InSentenceOrder
<1>8. ASSUME NEW i \in DOMAIN all, NEW j \in DOMAIN all, i < j
      PROVE  all[i].sentence_index <= all[j].sentence_index
  <2>1. CASE j \in 1 .. p /\ all[j] = a[j]
    <3>1. i \in 1 .. p /\ all[i] = a[i]
      BY <1>1, <1>3, <1>5, <1>8, <2>1
    <3> QED BY <1>1, <1>8, <2>1, <3>1 DEF NumberedNodes, InSentenceOrder
  <2>2. CASE j - p \in 1 .. q /\ all[j] = b[j - p] /\ j > p
    <3>1. CASE i \in 1 .. p /\ all[i] = a[i]
      BY <1>1, <2>2, <3>1 DEF NumberedNodes, InSentenceOrder
    <3>2. CASE i - p \in 1 .. q /\ all[i] = b[i - p] /\ i > p
      <4>1. i - p < j - p
        BY <1>1, <1>5, <1>8
      <4> QED BY <1>1, <2>2, <3>2, <4>1 DEF InSentenceOrder
    <3> QED BY <1>6, <3>1, <3>2
  <2> QED BY <1>6, <2>1, <2>2
<1>9. InSentenceOrder(all)
  BY <1>7, <1>8 DEF InSentenceOrder
<1> QED BY <1>2, <1>7, <1>9 DEF NumberedNodes, all

(* The parts of a sink. *)
SinkFields ==
  {"inverted", "forward", "spans", "lexicon", "layers", "position", "document_names", "sentence_ids",
   "mwts", "spacing", "empty_nodes"}

(* The sentence spans of a sink tile its positions, each has an id, and its empty *)
(* nodes are numbered by them.                                                  *)
SentencesTile(sink) ==
  /\ DOMAIN sink = SinkFields
  /\ sink.position \in Nat
  /\ Tiles(LayerOf(sink.spans, "sentence"), sink.position)
  /\ IsSequence(sink.sentence_ids)
  /\ Len(sink.sentence_ids) = Len(LayerOf(sink.spans, "sentence"))
  /\ NumberedNodes(sink.empty_nodes, Len(sink.sentence_ids))

(* A document begins where a sentence does. *)
StartsAmong(docs, sents) == \A d \in DOMAIN docs : \E k \in DOMAIN sents : sents[k].start = docs[d].start

(* The document spans tile the positions below n, and each has a name. *)
DocumentsTile(sink, n) ==
  /\ Tiles(LayerOf(sink.spans, "document"), n)
  /\ IsSequence(sink.document_names)
  /\ Len(sink.document_names) = Len(LayerOf(sink.spans, "document"))
  /\ StartsAmong(LayerOf(sink.spans, "document"), LayerOf(sink.spans, "sentence"))

(* What a sink holds whenever a whole number of documents has been added. *)
GatheredSink(sink) == SentencesTile(sink) /\ DocumentsTile(sink, sink.position)

-----------------------------------------------------------------------------
(* A sentence, then a document, keep the tiles. *)

(* Tokens leave alone what is not about tokens. *)
Kept == {"spans", "document_names", "sentence_ids", "empty_nodes"}

(* A token is one more position. *)
LEMMA TokenKeeps ==
  ASSUME NEW sink, DOMAIN sink = SinkFields, sink.position \in Nat, NEW token, NEW decompose
  PROVE  /\ DOMAIN AddToken(sink, token, decompose) = SinkFields
         /\ AddToken(sink, token, decompose).position = sink.position + 1
         /\ \A f \in Kept : AddToken(sink, token, decompose)[f] = sink[f]
<1>1. PICK a, b, c, d, e :
        AddToken(sink, token, decompose) =
          [sink EXCEPT !.inverted = a, !.lexicon = b, !.layers = c, !.forward = d, !.spacing = e,
                       !.position = sink.position + 1]
  BY Zenon DEF AddToken
<1> QED BY <1>1 DEF SinkFields, Kept

(* Hence tokens are as many more positions. *)
LEMMA TokensKeep ==
  ASSUME NEW sink, DOMAIN sink = SinkFields, sink.position \in Nat,
         NEW tokens, IsSequence(tokens), NEW decompose
  PROVE  /\ DOMAIN TokensAdded(sink, tokens, decompose) = SinkFields
         /\ TokensAdded(sink, tokens, decompose).position = sink.position + Len(tokens)
         /\ \A f \in Kept : TokensAdded(sink, tokens, decompose)[f] = sink[f]
<1> DEFINE n == Len(tokens)
<1>1. n \in Nat
  BY Indexed
<1>2. PICK run : /\ run[0] = sink
                 /\ \A k \in 1 .. n : run[k] = Step("token", decompose, run[k - 1], tokens[k])
                 /\ TokensAdded(sink, tokens, decompose) = run[n]
  BY TokenRun DEF Runs
<1> HIDE DEF n
<1> DEFINE Fine(s, k) == /\ DOMAIN s = SinkFields
                         /\ s.position = sink.position + k
                         /\ \A f \in Kept : s[f] = sink[f]
           Good == {k \in 0 .. n : Fine(run[k], k)}
<1>3. 0 \in Good
  BY <1>1, <1>2
<1>4. ASSUME NEW k \in 1 .. n, k - 1 \in Good PROVE k \in Good
  <2> DEFINE r == run[k - 1]
             t == tokens[k]
  <2>1. Fine(r, k - 1) /\ k \in 0 .. n /\ k \in Nat
    BY <1>1, <1>4
  <2>2. run[k] = AddToken(r, t, decompose)
    BY <1>2 DEF Step
  <2> HIDE DEF r, t
  <2>3. r.position \in Nat /\ r.position + 1 = sink.position + k
    BY <2>1
  <2>4. DOMAIN AddToken(r, t, decompose) = SinkFields
    BY <2>1, <2>3, TokenKeeps
  <2>5. AddToken(r, t, decompose).position = r.position + 1
    BY <2>1, <2>3, TokenKeeps
  <2>6. \A f \in Kept : AddToken(r, t, decompose)[f] = r[f]
    BY <2>1, <2>3, TokenKeeps
  <2>7. Fine(run[k], k)
    BY <2>1, <2>2, <2>3, <2>4, <2>5, <2>6
  <2> QED BY <2>1, <2>7
<1>5. \A k \in 0 .. n : k \in Good
  <2> HIDE DEF Good
  <2> QED BY <1>1, <1>3, <1>4, CountedUp
<1>6. Fine(run[n], n)
  BY <1>1, <1>5
<1> QED BY <1>2, <1>6 DEF n

(* One more span. *)
LEMMA NothingJoined ==
  ASSUME NEW s, IsSequence(s)
  PROVE  s \o <<>> = s
<1>1. s \in [1 .. Len(s) -> {s[i] : i \in DOMAIN s}] /\ Len(s) \in Nat /\ s \in Seq({s[i] : i \in DOMAIN s})
  BY Indexed DEF IsSequence
<1> QED BY <1>1, ConcatEmptySeq

(* A span is added behind those of its layer, and the other layers stay. *)
LEMMA SpanAdded ==
  ASSUME NEW spans, NEW layer, NEW span, NEW other, other # layer, IsSequence(LayerOf(spans, other))
  PROVE  /\ LayerOf(AddSpan(spans, layer, span), layer) = LayerOf(spans, layer) \o <<span>>
         /\ LayerOf(AddSpan(spans, layer, span), other) = LayerOf(spans, other)
<1> DEFINE next == AddSpan(spans, layer, span)
           Item(l) == (IF l \in DOMAIN spans THEN spans[l] ELSE <<>>) \o (IF l = layer THEN <<span>> ELSE <<>>)
<1>1. DOMAIN next = DOMAIN spans \cup {layer} /\ \A l \in DOMAIN next : next[l] = Item(l)
  BY Zenon DEF AddSpan
<1> HIDE DEF next
<1>2. LayerOf(next, layer) = LayerOf(spans, layer) \o <<span>>
  BY <1>1 DEF LayerOf
<1>3. LayerOf(next, other) = LayerOf(spans, other)
  <2>1. LayerOf(spans, other) \o <<>> = LayerOf(spans, other)
    BY NothingJoined
  <2>2. CASE other \in DOMAIN spans
    BY <1>1, <2>1, <2>2 DEF LayerOf
  <2>3. CASE other \notin DOMAIN spans
    BY <1>1, <2>3 DEF LayerOf
  <2> QED BY <2>2, <2>3
<1> QED BY <1>2, <1>3 DEF next

(* A span from the end on is one more tile. *)
LEMMA TileAdded ==
  ASSUME NEW spans, NEW n \in Nat, Tiles(spans, n), NEW m \in Nat, n < m
  PROVE  /\ Tiles(spans \o <<[start |-> n, end |-> m]>>, m)
         /\ Len(spans \o <<[start |-> n, end |-> m]>>) = Len(spans) + 1
         /\ \A i \in DOMAIN spans : /\ i \in DOMAIN (spans \o <<[start |-> n, end |-> m]>>)
                                    /\ (spans \o <<[start |-> n, end |-> m]>>)[i] = spans[i]
         /\ (spans \o <<[start |-> n, end |-> m]>>)[Len(spans) + 1].start = n
<1> DEFINE b == <<[start |-> n, end |-> m]>>
           all == spans \o b
           p == Len(spans)
<1>1. p \in Nat /\ DOMAIN spans = 1 .. p
  BY Indexed DEF Tiles
<1>2. IsSequence(b) /\ Len(b) = 1 /\ DOMAIN b = 1 .. 1 /\ b[1] = [start |-> n, end |-> m]
  <2>1. b \in Seq({[start |-> n, end |-> m]}) /\ Len(b) = 1 /\ DOMAIN b = 1 .. 1 /\ b[1] = [start |-> n, end |-> m]
    OBVIOUS
  <2>2. IsSequence(b)
    BY <2>1, OwnItems
  <2> QED BY <2>1, <2>2
<1> HIDE DEF b
<1>3. \A i \in DOMAIN b : /\ b[i].start \in Nat /\ b[i].end \in Nat /\ b[i].start < b[i].end
                          /\ b[i].start = IF i = 1 THEN n ELSE b[i - 1].end
  BY <1>2
<1>4. Tiles(all, IF Len(b) = 0 THEN n ELSE b[Len(b)].end)
  BY <1>2, <1>3, TilesFollowed
<1>5. IsSequence(all) /\ Len(all) = p + 1
  <2>1. IsSequence(spans)
    BY DEF Tiles
  <2>2. IsSequence(all) /\ Len(all) = Len(spans) + Len(b)
    BY <1>2, <2>1, Joined
  <2> QED BY <1>2, <2>2
<1>6. \A i \in 1 .. p : all[i] = spans[i]
  BY <1>2, Joined DEF Tiles
<1>7. \A i \in 1 .. Len(b) : all[p + i] = b[i]
  BY <1>2, Joined DEF Tiles
<1> HIDE DEF all
<1>8. DOMAIN all = 1 .. p + 1
  BY <1>5, Indexed
<1> HIDE DEF p
<1>9. p + 1 \in DOMAIN all /\ all[p + 1].start = n
  BY <1>1, <1>2, <1>7, <1>8
<1>10. \A i \in DOMAIN spans : i \in DOMAIN all /\ all[i] = spans[i]
  BY <1>1, <1>6, <1>8
<1>11. (IF Len(b) = 0 THEN n ELSE b[Len(b)].end) = m
  BY <1>2
<1> QED BY <1>4, <1>5, <1>9, <1>10, <1>11 DEF all, b, p

(* What one more sentence makes of a sink. *)
Grown(sink, next) ==
  /\ SentencesTile(next)
  /\ LayerOf(next.spans, "document") = LayerOf(sink.spans, "document")
  /\ next.document_names = sink.document_names
  /\ \A i \in DOMAIN LayerOf(sink.spans, "sentence") :
       /\ i \in DOMAIN LayerOf(next.spans, "sentence")
       /\ LayerOf(next.spans, "sentence")[i] = LayerOf(sink.spans, "sentence")[i]
  /\ \/ next.position = sink.position
     \/ /\ next.position > sink.position
        /\ \E k \in DOMAIN LayerOf(next.spans, "sentence") :
             LayerOf(next.spans, "sentence")[k].start = sink.position

(* A sentence of no word adds nothing, another is one more tile with an id, its   *)
(* empty nodes have its number.                                                *)
LEMMA SentenceKeeps ==
  ASSUME NEW sink, SentencesTile(sink), IsSequence(LayerOf(sink.spans, "document")),
         NEW sentence, SentenceParts(sentence), NEW doc_name, NEW nth, NEW decompose
  PROVE  Grown(sink, AddSentence(sink, doc_name, nth, sentence, decompose))
<1> DEFINE start == sink.position
           ids == sink.sentence_ids
           next == AddSentence(sink, doc_name, nth, sentence, decompose)
           worded == TokensAdded(sink, sentence.tokens, decompose)
           nodes == [i \in DOMAIN sentence.empty_nodes |->
                       [sentence_index |-> Len(sink.sentence_ids), node_id |-> sentence.empty_nodes[i].node_id,
                        form |-> sentence.empty_nodes[i].form]]
           tile == [start |-> start, end |-> worded.position]
           old == LayerOf(sink.spans, "sentence")
           docs == LayerOf(sink.spans, "document")
           mwts == Mapped(sentence.mwts, LAMBDA w :
                       [start |-> start + w.first - 1, end |-> start + w.last, form |-> w.form,
                        no_space_after |-> w.no_space_after])
           id == IF sentence.sent_id = {} THEN <<doc_name, nth>> ELSE <<CHOOSE i \in sentence.sent_id : TRUE>>
<1>1. next = IF worded.position = start THEN [worded EXCEPT !.mwts = worded.mwts \o mwts]
             ELSE [[worded EXCEPT !.mwts = worded.mwts \o mwts]
                     EXCEPT !.empty_nodes = @ \o nodes, !.spans = AddSpan(@, "sentence", tile),
                              !.sentence_ids = Append(@, id)]
  BY Zenon DEF AddSentence, TokensAdded, Mapped
<1>2. start \in Nat /\ DOMAIN sink = SinkFields
  BY DEF SentencesTile
<1>3. DOMAIN worded = SinkFields /\ worded.position = start + Len(sentence.tokens)
  BY <1>2, TokensKeep DEF SentenceParts
<1>4. \A f \in Kept : worded[f] = sink[f]
  BY <1>2, TokensKeep DEF SentenceParts
<1>5. Len(sentence.tokens) \in Nat
  BY Indexed DEF SentenceParts
<1> HIDE DEF worded, next, mwts, id
<1>6. /\ worded.spans = sink.spans /\ worded.document_names = sink.document_names
      /\ worded.sentence_ids = ids /\ worded.empty_nodes = sink.empty_nodes
  BY <1>4 DEF Kept
<1>7. nodes = [i \in DOMAIN sentence.empty_nodes |-> nodes[i]]
  OBVIOUS
<1>8. \A i \in DOMAIN nodes : "sentence_index" \in DOMAIN nodes[i] /\ nodes[i].sentence_index = Len(ids)
  OBVIOUS
<1> HIDE DEF nodes
<1>9. CASE worded.position = start
  <2>1. /\ DOMAIN next = SinkFields /\ next.position = start /\ next.spans = sink.spans
        /\ next.document_names = sink.document_names /\ next.sentence_ids = ids
        /\ next.empty_nodes = sink.empty_nodes
    BY <1>1, <1>3, <1>6, <1>9 DEF SinkFields
  <2> QED BY <1>2, <2>1 DEF Grown, SentencesTile, next
<1>10. CASE worded.position # start
  <2>1. worded.position \in Nat /\ start < worded.position
    BY <1>2, <1>3, <1>5, <1>10
  <2>2. /\ DOMAIN next = SinkFields /\ next.position = worded.position
        /\ next.spans = AddSpan(sink.spans, "sentence", tile)
        /\ next.document_names = sink.document_names /\ next.sentence_ids = Append(ids, id)
        /\ next.empty_nodes = sink.empty_nodes \o nodes
    BY <1>1, <1>3, <1>6, <1>10 DEF SinkFields
  <2>3. Tiles(old, start) /\ IsSequence(old)
    BY DEF SentencesTile, Tiles
  <2>4. /\ LayerOf(AddSpan(sink.spans, "sentence", tile), "sentence") = LayerOf(sink.spans, "sentence") \o <<tile>>
        /\ LayerOf(AddSpan(sink.spans, "sentence", tile), "document") = LayerOf(sink.spans, "document")
    <3>1. "document" # "sentence"
      OBVIOUS
    <3> HIDE DEF tile
    <3> QED BY <3>1, SpanAdded
  <2>6. Tiles(old \o <<tile>>, worded.position) /\ Len(old \o <<tile>>) = Len(old) + 1
    BY <1>2, <2>1, <2>3, TileAdded
  <2>7. \A i \in DOMAIN old : i \in DOMAIN (old \o <<tile>>) /\ (old \o <<tile>>)[i] = old[i]
    BY <1>2, <2>1, <2>3, TileAdded
  <2>8. \E k \in DOMAIN (old \o <<tile>>) : (old \o <<tile>>)[k].start = start
    <3>1. (old \o <<tile>>)[Len(old) + 1].start = start
      BY <1>2, <2>1, <2>3, TileAdded
    <3>2. Len(old) + 1 \in DOMAIN (old \o <<tile>>)
      <4>1. IsSequence(old \o <<tile>>) /\ Len(old) \in Nat
        BY <2>3, <2>6, Indexed DEF Tiles
      <4> DEFINE all == old \o <<tile>>
      <4>2. DOMAIN all = 1 .. Len(all)
        <5> HIDE DEF all
        <5>1. IsSequence(all)
          BY <4>1 DEF all
        <5> QED BY <5>1, Indexed
      <4> QED BY <2>6, <4>1, <4>2
    <3> QED BY <3>1, <3>2
  <2>9. IsSequence(ids) /\ Len(ids) = Len(old)
    BY DEF SentencesTile
  <2>10. IsSequence(next.sentence_ids) /\ Len(next.sentence_ids) = Len(ids) + 1
    BY <2>2, <2>9, AppendedItem
  <2>11. Len(ids) \in Nat
    BY <2>9, Indexed
  <2>12. NumberedNodes(next.empty_nodes, Len(ids) + 1)
    <3>1. IsSequence(nodes)
      BY <1>7, OneForOne DEF SentenceParts
    <3>2. InSentenceOrder(nodes)
      BY <1>8, <2>11 DEF InSentenceOrder
    <3>3. \A i \in DOMAIN nodes : /\ "sentence_index" \in DOMAIN nodes[i]
                                  /\ nodes[i].sentence_index \in Len(ids) .. (Len(ids) + 1) - 1
      BY <1>8, <2>11
    <3>4. NumberedNodes(sink.empty_nodes, Len(ids))
      BY DEF SentencesTile
    <3> DEFINE m == Len(ids)
               n == Len(ids) + 1
    <3>5. m \in Nat /\ n \in Nat /\ m <= n
      BY <2>11
    <3>6. NumberedNodes(sink.empty_nodes \o nodes, n)
      <4> HIDE DEF m, n
      <4> QED BY <3>1, <3>2, <3>3, <3>4, <3>5, NodesFollowed DEF m, n
    <3> QED BY <2>2, <3>6
  <2> HIDE DEF tile, old, docs
  <2>13. SentencesTile(next)
    BY <2>1, <2>2, <2>4, <2>6, <2>9, <2>10, <2>12 DEF SentencesTile, old
  <2> QED BY <2>1, <2>2, <2>4, <2>7, <2>8, <2>13 DEF Grown, old, docs, next
<1> QED BY <1>9, <1>10

(* Growing goes on. *)
LEMMA GrownTwice ==
  ASSUME NEW a, NEW b, NEW c, Grown(a, b), Grown(b, c), a.position \in Nat
  PROVE  Grown(a, c)
<1>1. b.position \in Nat /\ c.position \in Nat
  BY DEF Grown, SentencesTile
<1>2. ASSUME NEW i \in DOMAIN LayerOf(a.spans, "sentence")
      PROVE  /\ i \in DOMAIN LayerOf(c.spans, "sentence")
             /\ LayerOf(c.spans, "sentence")[i] = LayerOf(a.spans, "sentence")[i]
  BY DEF Grown
<1>3. \/ c.position = a.position
      \/ /\ c.position > a.position
         /\ \E k \in DOMAIN LayerOf(c.spans, "sentence") :
              LayerOf(c.spans, "sentence")[k].start = a.position
  <2>1. CASE b.position = a.position
    BY <2>1 DEF Grown
  <2>2. CASE b.position # a.position
    <3>1. b.position > a.position /\ c.position > a.position
      BY <1>1, <2>2 DEF Grown
    <3>2. PICK k \in DOMAIN LayerOf(b.spans, "sentence") :
            LayerOf(b.spans, "sentence")[k].start = a.position
      BY <2>2 DEF Grown
    <3>3. k \in DOMAIN LayerOf(c.spans, "sentence") /\ LayerOf(c.spans, "sentence")[k].start = a.position
      BY <3>2 DEF Grown
    <3> QED BY <3>1, <3>3
  <2> QED BY <2>1, <2>2
<1> QED BY <1>2, <1>3 DEF Grown

(* Hence what all sentences of a document make of a sink. *)
LEMMA SentencesKeep ==
  ASSUME NEW sink, SentencesTile(sink), IsSequence(LayerOf(sink.spans, "document")),
         NEW sentences, IsSequence(sentences), \A i \in DOMAIN sentences : SentenceParts(sentences[i]),
         NEW doc_name, NEW first, NEW decompose
  PROVE  Grown(sink, SentencesAdded(sink, doc_name, first, sentences, decompose))
<1> DEFINE n == Len(sentences)
           context == [name |-> doc_name, first |-> first, decompose |-> decompose]
<1>1. n \in Nat /\ DOMAIN sentences = 1 .. n
  BY Indexed
<1>2. PICK run : /\ run[0] = sink
                 /\ \A k \in 1 .. n : run[k] = Step("sentence", context, run[k - 1], sentences[k])
                 /\ SentencesAdded(sink, doc_name, first, sentences, decompose) = run[n]
  <2>1. Runs("sentence", context, sink, sentences, SentencesAdded(sink, doc_name, first, sentences, decompose))
    BY SentenceRun
  <2> HIDE DEF context
  <2> QED BY <2>1 DEF Runs
<1> HIDE DEF n
<1> DEFINE Good == {k \in 0 .. n : Grown(sink, run[k])}
<1>3. 0 \in Good
  <2>1. Grown(sink, sink)
    BY DEF Grown
  <2> QED BY <2>1, <1>1, <1>2
<1>4. ASSUME NEW k \in 1 .. n, k - 1 \in Good PROVE k \in Good
  <2> DEFINE r == run[k - 1]
             item == sentences[k]
             nth == Len(r.sentence_ids) - first
  <2>1. Grown(sink, r) /\ k \in 0 .. n
    BY <1>1, <1>4
  <2>2. run[k] = AddSentence(r, doc_name, nth, item, decompose)
    BY <1>2 DEF Step
  <2>3. SentenceParts(item)
    BY <1>1
  <2> HIDE DEF r, item, nth
  <2>4. SentencesTile(r) /\ IsSequence(LayerOf(r.spans, "document"))
    BY <2>1 DEF Grown
  <2>5. Grown(r, AddSentence(r, doc_name, nth, item, decompose))
    BY <2>3, <2>4, SentenceKeeps
  <2>6. Grown(sink, run[k])
    BY <2>1, <2>2, <2>5, GrownTwice DEF SentencesTile
  <2> QED BY <2>1, <2>6
<1>5. \A k \in 0 .. n : k \in Good
  <2> HIDE DEF Good
  <2> QED BY <1>1, <1>3, <1>4, CountedUp
<1> QED BY <1>1, <1>2, <1>5

(* A document of no word is left out, another is one more tile with a name, that  *)
(* begins where its first sentence does.                                       *)
LEMMA DocumentKeeps ==
  ASSUME NEW sink, GatheredSink(sink),
         NEW sentences, IsSequence(sentences), \A i \in DOMAIN sentences : SentenceParts(sentences[i]),
         NEW doc_name, NEW decompose
  PROVE  GatheredSink(AddDocument(sink, doc_name, sentences, decompose))
<1> DEFINE start == sink.position
           filled == SentencesAdded(sink, doc_name, Len(sink.sentence_ids), sentences, decompose)
           next == AddDocument(sink, doc_name, sentences, decompose)
           tile == [start |-> start, end |-> filled.position]
           old == LayerOf(sink.spans, "document")
           names == sink.document_names
           before == LayerOf(sink.spans, "sentence")
           sents == LayerOf(filled.spans, "sentence")
<1>1. next = IF filled.position = start THEN filled
             ELSE [filled EXCEPT !.spans = AddSpan(@, "document", tile), !.document_names = Append(@, doc_name)]
  BY Zenon DEF AddDocument, SentencesAdded
<1>2. SentencesTile(sink) /\ DocumentsTile(sink, start) /\ start \in Nat
  BY DEF GatheredSink, SentencesTile
<1>3. Tiles(old, start) /\ IsSequence(old) /\ IsSequence(names) /\ Len(names) = Len(old)
  BY <1>2 DEF DocumentsTile, Tiles
<1>4. Grown(sink, filled)
  BY <1>2, <1>3, SentencesKeep
<1> HIDE DEF filled, next
<1>5. SentencesTile(filled) /\ LayerOf(filled.spans, "document") = old /\ filled.document_names = names
  BY <1>4 DEF Grown
<1>6. ASSUME NEW d \in DOMAIN old PROVE \E k \in DOMAIN sents : sents[k].start = old[d].start
  <2>1. PICK k \in DOMAIN before : before[k].start = old[d].start
    BY <1>2 DEF DocumentsTile, StartsAmong
  <2>2. k \in DOMAIN sents /\ sents[k] = before[k]
    BY <1>4 DEF Grown
  <2> QED BY <2>1, <2>2
<1>7. CASE filled.position = start
  <2>1. next = filled /\ StartsAmong(old, sents)
    BY <1>1, <1>6, <1>7 DEF StartsAmong
  <2> HIDE DEF old, names
  <2> QED BY <1>3, <1>5, <1>7, <2>1 DEF GatheredSink, DocumentsTile, next
<1>8. CASE filled.position # start
  <2>1. /\ filled.position \in Nat /\ start < filled.position
        /\ \E k \in DOMAIN sents : sents[k].start = start
    BY <1>2, <1>4, <1>8 DEF Grown, SentencesTile
  <2>2. /\ DOMAIN next = SinkFields /\ next.position = filled.position
        /\ next.spans = AddSpan(filled.spans, "document", tile)
        /\ next.document_names = Append(names, doc_name)
        /\ next.sentence_ids = filled.sentence_ids /\ next.empty_nodes = filled.empty_nodes
    BY <1>1, <1>5, <1>8 DEF SinkFields, SentencesTile
  <2>3. /\ LayerOf(AddSpan(filled.spans, "document", tile), "document")
             = LayerOf(filled.spans, "document") \o <<tile>>
        /\ LayerOf(AddSpan(filled.spans, "document", tile), "sentence") = LayerOf(filled.spans, "sentence")
    <3>1. "sentence" # "document" /\ IsSequence(LayerOf(filled.spans, "sentence"))
      BY <1>5 DEF SentencesTile, Tiles
    <3> HIDE DEF tile
    <3> QED BY <3>1, SpanAdded
  <2>4. LayerOf(next.spans, "document") = old \o <<tile>> /\ LayerOf(next.spans, "sentence") = sents
    BY <1>5, <2>2, <2>3
  <2>5. Tiles(old \o <<tile>>, filled.position) /\ Len(old \o <<tile>>) = Len(old) + 1
    BY <1>2, <1>3, <2>1, TileAdded
  <2>6. \A i \in DOMAIN old : i \in DOMAIN (old \o <<tile>>) /\ (old \o <<tile>>)[i] = old[i]
    BY <1>2, <1>3, <2>1, TileAdded
  <2>7. (old \o <<tile>>)[Len(old) + 1].start = start
    BY <1>2, <1>3, <2>1, TileAdded
  <2>8. IsSequence(next.document_names) /\ Len(next.document_names) = Len(names) + 1
    BY <1>3, <2>2, AppendedItem
  <2>9. SentencesTile(next)
    BY <1>5, <2>2, <2>4 DEF SentencesTile
  <2> DEFINE all == old \o <<tile>>
  <2>10. Len(old) \in Nat /\ DOMAIN old = 1 .. Len(old) /\ DOMAIN all = 1 .. Len(old) + 1
    <3>1. Len(old) \in Nat /\ DOMAIN old = 1 .. Len(old)
      BY <1>3, Indexed
    <3>2. IsSequence(all) /\ Len(all) = Len(old) + 1
      BY <2>5 DEF Tiles
    <3> HIDE DEF all
    <3>3. DOMAIN all = 1 .. Len(all)
      BY <3>2, Indexed
    <3> QED BY <3>1, <3>2, <3>3
  <2> HIDE DEF all, sents, old
  <2>11. ASSUME NEW d \in DOMAIN all PROVE \E k \in DOMAIN sents : sents[k].start = all[d].start
    <3>1. CASE d \in DOMAIN old
      <4>1. all[d] = old[d]
        BY <2>6, <3>1 DEF all
      <4> QED BY <1>6, <3>1, <4>1
    <3>2. CASE d = Len(old) + 1
      <4>1. all[d].start = start
        BY <2>7, <3>2 DEF all
      <4> QED BY <2>1, <4>1
    <3> QED BY <2>10, <3>1, <3>2
  <2>12. DocumentsTile(next, filled.position)
    <3>1. StartsAmong(all, sents)
      BY <2>11 DEF StartsAmong
    <3> QED BY <1>3, <2>4, <2>5, <2>8, <3>1 DEF DocumentsTile, all
  <2> QED BY <2>2, <2>9, <2>12 DEF GatheredSink, next
<1> QED BY <1>7, <1>8

(* A sink begins with nothing. *)
LEMMA NewSinkGathered == GatheredSink(NewSink) /\ NewSink.position = 0
<1>1. IsSequence(<<>>) /\ DOMAIN <<>> = {} /\ Len(<<>>) = 0
  BY DEF IsSequence
<1>2. DOMAIN NewSink = SinkFields /\ NewSink.spans = <<>> /\ NewSink.position = 0
      /\ NewSink.sentence_ids = <<>> /\ NewSink.document_names = <<>> /\ NewSink.empty_nodes = <<>>
  BY DEF NewSink, SinkFields
<1>3. \A l : LayerOf(<<>>, l) = <<>>
  BY <1>1 DEF LayerOf
<1>4. Tiles(<<>>, 0) /\ NumberedNodes(<<>>, 0)
  BY <1>1 DEF Tiles, NumberedNodes, InSentenceOrder
<1>5. SentencesTile(NewSink)
  BY <1>1, <1>2, <1>3, <1>4 DEF SentencesTile
<1>6. DocumentsTile(NewSink, 0)
  BY <1>1, <1>2, <1>3, <1>4 DEF DocumentsTile, StartsAmong
<1> QED BY <1>2, <1>5, <1>6 DEF GatheredSink

-----------------------------------------------------------------------------
(* Merging sinks, and a whole directory. *)

(* The spans of a layer, moved by an offset. *)
ShiftedBy(spans, offset) == [i \in DOMAIN spans |-> Shifted(spans[i], offset)]

(* Merging puts the moved spans of the one behind those of the other. *)
LEMMA LayersMerged ==
  ASSUME NEW a, NEW b, NEW offset, NEW layer, IsSequence(LayerOf(a, layer))
  PROVE  LayerOf(MergedSpans(a, b, offset), layer)
           = LayerOf(a, layer) \o ShiftedBy(LayerOf(b, layer), offset)
<1> DEFINE next == MergedSpans(a, b, offset)
           Item(l) == (IF l \in DOMAIN a THEN a[l] ELSE <<>>)
                        \o (IF l \in DOMAIN b THEN [i \in DOMAIN b[l] |-> Shifted(b[l][i], offset)] ELSE <<>>)
           moved == [i \in DOMAIN LayerOf(b, layer) |-> Shifted(LayerOf(b, layer)[i], offset)]
<1>1. DOMAIN next = DOMAIN a \cup DOMAIN b /\ \A l \in DOMAIN next : next[l] = Item(l)
  BY Zenon DEF MergedSpans
<1> HIDE DEF next
<1>2. LayerOf(a, layer) \o <<>> = LayerOf(a, layer)
  BY NothingJoined
<1>3. moved = ShiftedBy(LayerOf(b, layer), offset)
  BY Zenon DEF ShiftedBy
<1>4. SUFFICES LayerOf(next, layer) = LayerOf(a, layer) \o moved
  <2> HIDE DEF moved
  <2> QED BY <1>3 DEF next
<1>5. CASE layer \in DOMAIN b
  <2>1. moved = [i \in DOMAIN b[layer] |-> Shifted(b[layer][i], offset)]
    BY <1>5 DEF LayerOf
  <2>2. next[layer] = Item(layer) /\ layer \in DOMAIN next
    BY <1>1, <1>5
  <2> HIDE DEF moved
  <2> QED BY <1>5, <2>1, <2>2 DEF LayerOf
<1>6. CASE layer \notin DOMAIN b
  <2>1. moved = <<>>
    <3>1. LayerOf(b, layer) = <<>> /\ DOMAIN <<>> = {}
      BY <1>6 DEF LayerOf
    <3>2. DOMAIN moved = {}
      BY <3>1
    <3>3. moved \in Seq({}) /\ Len(moved) = 0
      BY <3>2
    <3> QED BY <3>3, EmptySeq
  <2>2. LayerOf(next, layer) = LayerOf(a, layer)
    BY <1>1, <1>2, <1>6 DEF LayerOf
  <2> HIDE DEF moved
  <2> QED BY <1>2, <2>1, <2>2
<1> QED BY <1>5, <1>6

(* Merging two sinks joins their tiles, their ids, their documents and their empty *)
(* nodes, each renumbered by what is in the first: what held of both holds of the  *)
(* merged one (MergeFrom, for components and for the files of a component).       *)
THEOREM MergeKeeps ==
  ASSUME NEW sink, GatheredSink(sink), NEW other, GatheredSink(other)
  PROVE  /\ GatheredSink(MergeFrom(sink, other))
         /\ MergeFrom(sink, other).position = sink.position + other.position
         /\ MergeFrom(sink, other).document_names = sink.document_names \o other.document_names
<1> DEFINE p == sink.position
           q == other.position
           s == Len(sink.sentence_ids)
           t == Len(other.sentence_ids)
           next == MergeFrom(sink, other)
           theirs == other.empty_nodes
           moved == [i \in DOMAIN theirs |-> [theirs[i] EXCEPT !.sentence_index = @ + s]]
           sents == LayerOf(sink.spans, "sentence")
           docs == LayerOf(sink.spans, "document")
           osents == LayerOf(other.spans, "sentence")
           odocs == LayerOf(other.spans, "document")
           msents == [i \in DOMAIN osents |-> Shifted(osents[i], p)]
           mdocs == [i \in DOMAIN odocs |-> Shifted(odocs[i], p)]
           allsents == sents \o msents
           alldocs == docs \o mdocs
<1>1. PICK a, b, c, w, e :
        next = [sink EXCEPT
                  !.inverted = a, !.spans = MergedSpans(@, other.spans, p), !.lexicon = b, !.layers = c,
                  !.document_names = @ \o other.document_names,
                  !.sentence_ids = @ \o other.sentence_ids,
                  !.mwts = w, !.spacing = e,
                  !.empty_nodes = @ \o moved,
                  !.position = @ + q]
  BY Zenon DEF MergeFrom, Mapped
<1>2. SentencesTile(sink) /\ SentencesTile(other)
  BY DEF GatheredSink
<1>3. DocumentsTile(sink, p) /\ DocumentsTile(other, q)
  BY DEF GatheredSink
<1>4. p \in Nat /\ q \in Nat
  BY <1>2 DEF SentencesTile
<1>5. /\ IsSequence(sink.sentence_ids) /\ IsSequence(other.sentence_ids)
      /\ IsSequence(sink.document_names) /\ IsSequence(other.document_names)
  BY <1>2, <1>3 DEF SentencesTile, DocumentsTile
<1>6. s \in Nat /\ t \in Nat
  BY <1>5, Indexed
<1>7. Tiles(sents, p) /\ Tiles(docs, p) /\ Tiles(osents, q) /\ Tiles(odocs, q)
  BY <1>2, <1>3 DEF SentencesTile, DocumentsTile
<1> HIDE DEF next
<1>8. /\ DOMAIN next = SinkFields /\ next.position = p + q
      /\ next.spans = MergedSpans(sink.spans, other.spans, p)
      /\ next.document_names = sink.document_names \o other.document_names
      /\ next.sentence_ids = sink.sentence_ids \o other.sentence_ids
      /\ next.empty_nodes = sink.empty_nodes \o moved
  <2> HIDE DEF moved
  <2> QED BY <1>1, <1>2 DEF SentencesTile, SinkFields
<1>9. LayerOf(next.spans, "sentence") = allsents
  <2>1. IsSequence(LayerOf(sink.spans, "sentence"))
    BY <1>7 DEF Tiles
  <2>2. LayerOf(MergedSpans(sink.spans, other.spans, p), "sentence")
          = LayerOf(sink.spans, "sentence") \o ShiftedBy(LayerOf(other.spans, "sentence"), p)
    BY <2>1, LayersMerged
  <2> QED BY <1>8, <2>2 DEF ShiftedBy
<1>10. LayerOf(next.spans, "document") = alldocs
  <2>1. IsSequence(LayerOf(sink.spans, "document"))
    BY <1>7 DEF Tiles
  <2>2. LayerOf(MergedSpans(sink.spans, other.spans, p), "document")
          = LayerOf(sink.spans, "document") \o ShiftedBy(LayerOf(other.spans, "document"), p)
    BY <2>1, LayersMerged
  <2> QED BY <1>8, <2>2 DEF ShiftedBy
<1> HIDE DEF sents, docs, osents, odocs
<1>11. Tiles(allsents, p + q) /\ Tiles(alldocs, p + q)
  BY <1>7, TilesJoined
<1>12. msents = [i \in DOMAIN osents |-> msents[i]] /\ mdocs = [i \in DOMAIN odocs |-> mdocs[i]]
  OBVIOUS
<1>13. /\ \A i \in DOMAIN osents : msents[i].start = osents[i].start + p
       /\ \A i \in DOMAIN odocs : mdocs[i].start = odocs[i].start + p
  BY DEF Shifted
<1> HIDE DEF msents, mdocs
<1>14. IsSequence(osents) /\ IsSequence(odocs) /\ IsSequence(sents) /\ IsSequence(docs)
  BY <1>7 DEF Tiles
<1>15. IsSequence(msents) /\ Len(msents) = Len(osents) /\ DOMAIN msents = 1 .. Len(osents)
  BY <1>12, <1>14, OneForOne
<1>16. IsSequence(mdocs) /\ Len(mdocs) = Len(odocs) /\ DOMAIN mdocs = 1 .. Len(odocs)
  BY <1>12, <1>14, OneForOne
<1>17. Len(allsents) = Len(sents) + Len(osents) /\ Len(alldocs) = Len(docs) + Len(odocs)
  <2>1. Len(allsents) = Len(sents) + Len(msents)
    BY <1>14, <1>15, Joined
  <2>2. Len(alldocs) = Len(docs) + Len(mdocs)
    BY <1>14, <1>16, Joined
  <2> QED BY <1>15, <1>16, <2>1, <2>2
<1>18. \A i \in 1 .. Len(sents) : allsents[i] = sents[i]
  BY <1>14, <1>15, Joined
<1>19. \A i \in 1 .. Len(osents) : allsents[Len(sents) + i] = msents[i]
  <2>1. \A i \in 1 .. Len(msents) : allsents[Len(sents) + i] = msents[i]
    BY <1>14, <1>15, Joined
  <2> QED BY <1>15, <2>1
<1>20. \A i \in 1 .. Len(docs) : alldocs[i] = docs[i]
  BY <1>14, <1>16, Joined
<1>21. \A i \in 1 .. Len(odocs) : alldocs[Len(docs) + i] = mdocs[i]
  <2>1. \A i \in 1 .. Len(mdocs) : alldocs[Len(docs) + i] = mdocs[i]
    BY <1>14, <1>16, Joined
  <2> QED BY <1>16, <2>1
<1>22. /\ Len(sents) \in Nat /\ DOMAIN sents = 1 .. Len(sents)
       /\ Len(docs) \in Nat /\ DOMAIN docs = 1 .. Len(docs)
       /\ Len(osents) \in Nat /\ DOMAIN osents = 1 .. Len(osents)
       /\ Len(odocs) \in Nat /\ DOMAIN odocs = 1 .. Len(odocs)
  BY <1>14, Indexed
<1> HIDE DEF allsents, alldocs
<1>23. /\ DOMAIN allsents = 1 .. Len(sents) + Len(osents)
       /\ DOMAIN alldocs = 1 .. Len(docs) + Len(odocs)
  BY <1>11, <1>17, Indexed DEF Tiles
<1>24. StartsAmong(alldocs, allsents)
  <2> SUFFICES ASSUME NEW d \in DOMAIN alldocs
               PROVE  \E k \in DOMAIN allsents : allsents[k].start = alldocs[d].start
    BY DEF StartsAmong
  <2>1. CASE d <= Len(docs)
    <3>1. d \in DOMAIN docs /\ alldocs[d] = docs[d]
      BY <1>20, <1>22, <1>23, <2>1
    <3>2. PICK k \in DOMAIN sents : sents[k].start = docs[d].start
      BY <1>3, <3>1 DEF DocumentsTile, StartsAmong, sents, docs
    <3>3. k \in DOMAIN allsents /\ allsents[k] = sents[k]
      BY <1>18, <1>22, <1>23, <3>2
    <3> QED BY <3>1, <3>2, <3>3
  <2>2. CASE d > Len(docs)
    <3> DEFINE i == d - Len(docs)
    <3>1. i \in DOMAIN odocs /\ d = Len(docs) + i
      BY <1>22, <1>23, <2>2
    <3> HIDE DEF i
    <3>2. alldocs[d] = mdocs[i]
      BY <1>21, <1>22, <3>1
    <3>3. alldocs[d].start = odocs[i].start + p
      BY <1>13, <3>1, <3>2
    <3>4. PICK k \in DOMAIN osents : osents[k].start = odocs[i].start
      BY <1>3, <3>1 DEF DocumentsTile, StartsAmong, osents, odocs
    <3>5. Len(sents) + k \in DOMAIN allsents /\ allsents[Len(sents) + k] = msents[k]
      BY <1>19, <1>22, <1>23, <3>4
    <3>6. allsents[Len(sents) + k].start = osents[k].start + p
      BY <1>13, <3>4, <3>5
    <3> QED BY <3>3, <3>4, <3>5, <3>6
  <2> QED BY <1>22, <1>23, <2>1, <2>2
<1>25. IsSequence(next.sentence_ids) /\ Len(next.sentence_ids) = s + t
  BY <1>5, <1>8, Joined
<1>26. /\ IsSequence(next.document_names)
       /\ Len(next.document_names) = Len(sink.document_names) + Len(other.document_names)
  BY <1>5, <1>8, Joined
<1>27. NumberedNodes(next.empty_nodes, s + t)
  <2>1. NumberedNodes(sink.empty_nodes, s) /\ NumberedNodes(theirs, t)
    BY <1>2 DEF SentencesTile
  <2> HIDE DEF theirs
  <2>2. moved = [i \in DOMAIN theirs |-> moved[i]]
    OBVIOUS
  <2>3. \A i \in DOMAIN theirs : /\ "sentence_index" \in DOMAIN moved[i]
                                 /\ moved[i].sentence_index = theirs[i].sentence_index + s
    BY <2>1 DEF NumberedNodes
  <2> HIDE DEF moved
  <2>4. IsSequence(moved) /\ DOMAIN moved = 1 .. Len(theirs)
    BY <2>1, <2>2, OneForOne DEF NumberedNodes
  <2>5. DOMAIN theirs = 1 .. Len(theirs)
    BY <2>1, Indexed DEF NumberedNodes
  <2> HIDE DEF s, t
  <2>6. InSentenceOrder(moved)
    BY <1>6, <2>1, <2>3, <2>4, <2>5 DEF NumberedNodes, InSentenceOrder
  <2>7. \A i \in DOMAIN moved : /\ "sentence_index" \in DOMAIN moved[i]
                                /\ moved[i].sentence_index \in s .. (s + t) - 1
    BY <1>6, <2>1, <2>3, <2>4, <2>5 DEF NumberedNodes, InSentenceOrder
  <2>8. s + t \in Nat /\ s <= s + t
    BY <1>6
  <2> DEFINE n == s + t
  <2>9. NumberedNodes(sink.empty_nodes \o moved, n)
    <3>1. n \in Nat /\ s <= n /\ \A i \in DOMAIN moved : /\ "sentence_index" \in DOMAIN moved[i]
                                                         /\ moved[i].sentence_index \in s .. n - 1
      BY <2>7, <2>8
    <3> HIDE DEF n
    <3> QED BY <1>6, <2>1, <2>4, <2>6, <3>1, NodesFollowed
  <2> QED BY <1>8, <2>9
<1>28. s = Len(sents) /\ t = Len(osents)
  BY <1>2 DEF SentencesTile, sents, osents
<1>29. Len(sink.document_names) = Len(docs) /\ Len(other.document_names) = Len(odocs)
  BY <1>3 DEF DocumentsTile, docs, odocs
<1> HIDE DEF s, t
<1>30. SentencesTile(next)
  BY <1>4, <1>8, <1>9, <1>11, <1>17, <1>25, <1>27, <1>28 DEF SentencesTile
<1>31. DocumentsTile(next, p + q)
  BY <1>9, <1>10, <1>11, <1>17, <1>24, <1>26, <1>29 DEF DocumentsTile
<1> QED BY <1>8, <1>30, <1>31 DEF GatheredSink, next

(* Each file is read and gathered into a sink of its own. *)
LEMMA FileSinkGathered ==
  ASSUME NEW file, IsFile(file), NEW strict \in BOOLEAN, NEW decompose
  PROVE  GatheredSink(FileSink(file, strict, decompose))
<1> DEFINE sentences == ReadFile(file, strict).sentences
           name == file.name
<1>1. IsSequence(sentences) /\ \A i \in DOMAIN sentences : SentenceParts(sentences[i])
  BY FileRead DEF ReaderInv
<1>2. GatheredSink(NewSink)
  BY NewSinkGathered
<1>3. FileSink(file, strict, decompose) = AddDocument(NewSink, name, sentences, decompose)
  BY DEF FileSink
<1> HIDE DEF sentences, name
<1>4. GatheredSink(AddDocument(NewSink, name, sentences, decompose))
  BY <1>1, <1>2, DocumentKeeps
<1> QED BY <1>3, <1>4

(* Sorting loses none of them and adds none. *)
LEMMA SortedNames ==
  ASSUME NEW names, Ranked(names)
  PROVE  /\ IsSequence(Sorted(names)) /\ Len(Sorted(names)) = Cardinality(names)
         /\ \A i \in DOMAIN Sorted(names) : Sorted(names)[i] \in names
<1> DEFINE Below(x) == {y \in names : Rank[y] < Rank[x]}
           n == Cardinality(names)
           place == [x \in names |-> Cardinality(Below(x))]
           all == [i \in 1 .. n |-> CHOOSE x \in names : Cardinality(Below(x)) = i - 1]
<1>1. Sorted(names) = all
  BY Zenon DEF Sorted, InOrder
<1>2. IsFiniteSet(names) /\ n \in Nat
  BY FS_CardinalityType DEF Ranked
<1>3. \A x \in names : /\ IsFiniteSet(Below(x)) /\ Cardinality(Below(x)) \in Nat /\ x \notin Below(x)
  <2> TAKE x \in names
  <2>1. Below(x) \subseteq names
    OBVIOUS
  <2>2. IsFiniteSet(Below(x)) /\ Cardinality(Below(x)) \in Nat
    <3> HIDE DEF Below
    <3> QED BY <1>2, <2>1, FS_Subset, FS_CardinalityType
  <2>3. Rank[x] \in Int
    BY DEF Ranked
  <2> QED BY <2>2, <2>3
<1>4. ASSUME NEW x \in names, NEW z \in names, Rank[x] < Rank[z]
      PROVE  Cardinality(Below(x)) < Cardinality(Below(z))
  <2>1. Cardinality(Below(x) \cup {x}) = Cardinality(Below(x)) + 1
    BY <1>3, FS_AddElement
  <2>2. Below(x) \cup {x} \subseteq Below(z)
    <3>1. \A y \in names : Rank[y] \in Int
      BY DEF Ranked
    <3> QED BY <1>4, <3>1
  <2>3. Cardinality(Below(x) \cup {x}) <= Cardinality(Below(z))
    <3> HIDE DEF Below
    <3> QED BY <2>2, <1>3, FS_Subset
  <2> QED BY <2>1, <2>3, <1>3
<1>5. \A x \in names : Cardinality(Below(x)) \in 0 .. n - 1
  <2> TAKE x \in names
  <2>1. Below(x) \subseteq names /\ x \in names \ Below(x)
    BY <1>3
  <2>2. Cardinality(Below(x) \cup {x}) = Cardinality(Below(x)) + 1
    BY <1>3, FS_AddElement
  <2>3. Cardinality(Below(x) \cup {x}) <= n
    <3> DEFINE more == Below(x) \cup {x}
    <3>1. more \subseteq names
      BY <2>1
    <3> HIDE DEF more
    <3>2. Cardinality(more) <= Cardinality(names)
      BY <1>2, <3>1, FS_Subset
    <3> QED BY <3>2 DEF more
  <2> QED BY <2>2, <2>3, <1>2, <1>3
<1>6. \A x, y \in names : place[x] = place[y] => x = y
  <2> SUFFICES ASSUME NEW x \in names, NEW y \in names, Cardinality(Below(x)) = Cardinality(Below(y)) PROVE x = y
    OBVIOUS
  <2>1. Rank[x] \in Int /\ Rank[y] \in Int /\ (Rank[x] = Rank[y] => x = y)
    BY DEF Ranked
  <2>2. Cardinality(Below(x)) \in Nat /\ Cardinality(Below(y)) \in Nat
    BY <1>3
  <2>3. ~(Rank[x] < Rank[y]) /\ ~(Rank[y] < Rank[x])
    <3> HIDE DEF Below
    <3> QED BY <1>4, <2>2
  <2> QED BY <2>1, <2>3
<1> HIDE DEF Below
<1>7. ASSUME NEW i \in 1 .. n PROVE \E x \in names : Cardinality(Below(x)) = i - 1
  <2> SUFFICES ASSUME \A x \in names : Cardinality(Below(x)) # i - 1 PROVE FALSE
    OBVIOUS
  <2> DEFINE T == (0 .. n - 1) \ {i - 1}
  <2>1. IsFiniteSet(T) /\ Cardinality(T) = n - 1
    <3> DEFINE U == 0 .. n - 1
               k == i - 1
    <3>1. n - 1 \in Nat /\ k \in U
      BY <1>2
    <3> HIDE DEF n
    <3>2. IsFiniteSet(U) /\ Cardinality(U) = (n - 1) - 0 + 1
      BY <3>1, FS_Interval
    <3> HIDE DEF U, k
    <3>3. IsFiniteSet(U \ {k}) /\ Cardinality(U \ {k}) = Cardinality(U) - 1
      BY <3>1, <3>2, FS_RemoveElement
    <3> QED BY <1>2, <3>2, <3>3 DEF U, k
  <2>2. place \in [names -> T]
    BY <1>5
  <2> HIDE DEF T, place
  <2>3. \E x, y \in names : x # y /\ place[x] = place[y]
    <3>1. Cardinality(T) < Cardinality(names)
      BY <1>2, <2>1
    <3> QED BY <1>2, <2>1, <2>2, <3>1, FS_PigeonHole
  <2> QED BY <2>3, <1>6
<1>8. \A i \in 1 .. n : all[i] \in names
  <2> TAKE i \in 1 .. n
  <2>1. all[i] = CHOOSE x \in names : Cardinality(Below(x)) = i - 1
    OBVIOUS
  <2>2. (CHOOSE x \in names : Cardinality(Below(x)) = i - 1) \in names
    BY <1>7, Zenon
  <2> QED BY <2>1, <2>2
<1>9. DOMAIN all = 1 .. n
  OBVIOUS
<1>10. all = [i \in 1 .. n |-> all[i]]
  OBVIOUS
<1> HIDE DEF all
<1>11. all \in Seq(names) /\ Len(all) = n
  <2>1. all \in [1 .. n -> names]
    BY <1>8, <1>10
  <2> QED BY <1>2, <2>1
<1>12. IsSequence(all)
  BY <1>11, OwnItems
<1> QED BY <1>1, <1>8, <1>9, <1>11, <1>12

(* The state of a build between two files. *)
BuildInv(build) == DOMAIN build = {"sink", "streaming", "offset"} /\ GatheredSink(build.sink)

(* One more file. *)
LEMMA TakeFileKeeps ==
  ASSUME NEW build, BuildInv(build), NEW sink, GatheredSink(sink)
  PROVE  BuildInv(TakeFile(build, sink))
<1> DEFINE streaming == AppendFrom(build.streaming, sink.forward, build.offset + build.sink.position)
           merged == MergeFrom(build.sink, sink)
<1>1. GatheredSink(merged)
  BY MergeKeeps DEF BuildInv
<1>2. TakeFile(build, sink) = IF sink.position = 0 THEN build
                              ELSE [build EXCEPT !.streaming = streaming, !.sink = merged]
  BY Zenon DEF TakeFile
<1> HIDE DEF streaming, merged
<1> QED BY <1>1, <1>2 DEF BuildInv

(* Whatever the files of a directory hold, blocks that are skipped, files that    *)
(* give nothing, sentences of no word, the sink they are merged into is tiled by   *)
(* its sentences and by its documents, no empty node is of a sentence it has not, *)
(* and every document begins at a sentence.                                       *)
THEOREM DirectoryGathered ==
  ASSUME NEW files, IsDirectory(files), NEW strict \in BOOLEAN, NEW decompose, NEW streaming, NEW offset,
         BuildFromDirectory(files, strict, decompose, streaming, offset).ok
  PROVE  GatheredSink(BuildFromDirectory(files, strict, decompose, streaming, offset).sink)
<1> DEFINE paths == Sorted(DOMAIN files)
           sinks == [i \in DOMAIN paths |-> FileSink(files[paths[i]], strict, decompose)]
           base == [sink |-> NewSink, streaming |-> streaming, offset |-> offset]
           merged == FilesTaken(base, sinks)
           n == Len(paths)
<1>1. BuildFromDirectory(files, strict, decompose, streaming, offset) =
        IF \E path \in DOMAIN files : ~ReadFile(files[path], strict).ok THEN [ok |-> FALSE]
        ELSE [ok |-> TRUE, sink |-> merged.sink, streaming |-> merged.streaming]
  BY Zenon DEF BuildFromDirectory, Mapped, FilesTaken
<1>2. IsSequence(paths) /\ \A i \in DOMAIN paths : paths[i] \in DOMAIN files
  BY SortedNames DEF IsDirectory
<1> HIDE DEF merged, paths
<1>3. BuildFromDirectory(files, strict, decompose, streaming, offset).sink = merged.sink
  BY <1>1
<1>4. n \in Nat /\ DOMAIN paths = 1 .. n
  BY <1>2, Indexed
<1>5. \A i \in DOMAIN paths : GatheredSink(sinks[i])
  <2> TAKE i \in DOMAIN paths
  <2> DEFINE file == files[paths[i]]
  <2>1. IsFile(file) /\ sinks[i] = FileSink(file, strict, decompose)
    BY <1>2 DEF IsDirectory
  <2> HIDE DEF file, sinks
  <2> QED BY <2>1, FileSinkGathered
<1>6. sinks = [i \in DOMAIN paths |-> sinks[i]]
  OBVIOUS
<1> HIDE DEF sinks
<1>7. IsSequence(sinks) /\ Len(sinks) = n
  BY <1>2, <1>6, OneForOne
<1>8. PICK run : /\ run[0] = base
                 /\ \A k \in 1 .. n : run[k] = Step("file", 0, run[k - 1], sinks[k])
                 /\ merged = run[n]
  BY <1>7, FileRun DEF Runs, merged
<1>9. BuildInv(base)
  BY NewSinkGathered DEF BuildInv
<1> HIDE DEF n, base
<1> DEFINE Good == {k \in 0 .. n : BuildInv(run[k])}
<1>10. 0 \in Good
  BY <1>4, <1>8, <1>9
<1>11. ASSUME NEW k \in 1 .. n, k - 1 \in Good PROVE k \in Good
  <2>1. BuildInv(run[k - 1]) /\ k \in 0 .. n /\ GatheredSink(sinks[k])
    BY <1>4, <1>5, <1>11
  <2>2. run[k] = TakeFile(run[k - 1], sinks[k])
    BY <1>8 DEF Step
  <2>3. BuildInv(TakeFile(run[k - 1], sinks[k]))
    BY <2>1, TakeFileKeeps
  <2> QED BY <2>1, <2>2, <2>3
<1>12. \A k \in 0 .. n : k \in Good
  <2> HIDE DEF Good
  <2> QED BY <1>4, <1>10, <1>11, CountedUp
<1>13. BuildInv(merged)
  BY <1>4, <1>8, <1>12
<1> QED BY <1>3, <1>13 DEF BuildInv

-----------------------------------------------------------------------------
(* What a sink holds: terms by position, and positions by term. *)

(* An inverted index lists positions below n, of indexed layers among those named. *)
Lists(inverted, names, n) ==
  \A e \in inverted : /\ e = <<e[1], e[2], e[3]>>
                      /\ e[1] \in names \ ForwardOnlyLayers
                      /\ e[3] \in 0 .. n - 1

(* The terms of a layer that it lists a position under. *)
TermsHeld(inverted, l, p) == {e[2] : e \in {x \in inverted : x[1] = l /\ x[3] = p}}

(* It says of a layer and a position what the forward index does: the value there *)
(* is one of the terms listed for it, and none is listed where there is no value.  *)
(* But for the layers named, it is the only one.                               *)
Says(inverted, l, p, v, several) ==
  LET held == TermsHeld(inverted, l, p)
  IN /\ IF held = {} THEN v = Absent ELSE \E t \in held : v = Str(t)
     /\ l \in several \/ \A t \in held : v = Str(t)

(* The layers that some token of a file has several terms of: those of keys that come *)
(* again among its features.                                                   *)
Several(said) == {a[1] : a \in {b \in said : \E c \in said : c[1] = b[1] /\ c # b}}
SeveralOf(tokens, decompose) == UNION {Several(Annotations(tokens[i], decompose)) : i \in DOMAIN tokens}
SeveralIn(file, strict, decompose) ==
  LET sentences == ReadFile(file, strict).sentences
  IN UNION {SeveralOf(sentences[i].tokens, decompose) : i \in DOMAIN sentences}

(* The terms of an inverted index. *)
TermsOf(inverted) == {<<e[1], e[2]>> : e \in inverted}

(* The parts of a sink that are about tokens. *)
Indexing == {"inverted", "forward", "lexicon", "layers", "spacing", "position"}

(* The indexes of the sink of a file say the same of every position. *)
IndexedSink(sink, several) ==
  /\ DOMAIN sink = SinkFields
  /\ sink.position \in Nat /\ sink.forward.tokens \in 0 .. sink.position
  /\ DOMAIN sink.forward = {"layers", "tokens"}
  /\ DOMAIN sink.forward.layers \subseteq sink.layers
  /\ \A l \in DOMAIN sink.forward.layers :
       IsSequence(sink.forward.layers[l]) /\ Len(sink.forward.layers[l]) <= sink.forward.tokens
  /\ Lists(sink.inverted, DOMAIN sink.forward.layers, sink.forward.tokens)
  /\ \A l \in DOMAIN sink.forward.layers \ ForwardOnlyLayers : \A p \in Nat :
       Says(sink.inverted, l, p, ForwardAt(sink.forward, l, p), several)
  /\ sink.lexicon = TermsOf(sink.inverted)
  /\ sink.spacing \subseteq 0 .. sink.position - 1

(* There are none where the features are not decomposed. *)
LEMMA ColumnsHaveOne ==
  ASSUME NEW file, NEW strict
  PROVE  SeveralIn(file, strict, FALSE) = {}
<1> DEFINE sentences == ReadFile(file, strict).sentences
<1>1. ASSUME NEW token PROVE Several(Annotations(token, FALSE)) = {}
  <2> DEFINE own == {<<l, token.layers[l]>> : l \in DOMAIN token.layers}
  <2>1. Annotations(token, FALSE) = own
    <3>1. DecomposedFeats(token, FALSE) = <<>>
      BY DEF DecomposedFeats
    <3>2. ToSet(<<>>) = {}
      <4>1. DOMAIN <<>> = {}
        OBVIOUS
      <4>2. ToSet(<<>>) = {<<>>[i] : i \in DOMAIN <<>>}
        BY Zenon DEF ToSet
      <4> QED BY <4>1, <4>2
    <3>3. Annotations(token, FALSE) = own \cup ToSet(DecomposedFeats(token, FALSE))
      BY Zenon DEF Annotations
    <3> HIDE DEF own
    <3> QED BY <3>1, <3>2, <3>3
  <2>2. ASSUME NEW b \in own, NEW c \in own, c[1] = b[1] PROVE c = b
    BY <2>2
  <2> HIDE DEF own
  <2> QED BY <2>1, <2>2 DEF Several
<1>2. \A i \in DOMAIN sentences : SeveralOf(sentences[i].tokens, FALSE) = {}
  BY <1>1 DEF SeveralOf
<1>3. SeveralIn(file, strict, FALSE) = UNION {SeveralOf(sentences[i].tokens, FALSE) : i \in DOMAIN sentences}
  BY Zenon DEF SeveralIn
<1> HIDE DEF sentences
<1>4. {SeveralOf(sentences[i].tokens, FALSE) : i \in DOMAIN sentences} \subseteq {{}}
  BY <1>2
<1>5. ASSUME NEW S, S \subseteq {{}} PROVE UNION S = {}
  BY <1>5
<1> QED BY <1>3, <1>4, <1>5

(* They do of every layer, those it does not have as well. *)
LEMMA SaysOfAll ==
  ASSUME NEW several, NEW inverted, NEW names, NEW n, Lists(inverted, names, n), NEW l, l \notin names, NEW p
  PROVE  Says(inverted, l, p, Absent, several)
BY DEF Lists, Says, TermsHeld

(* What is held in two parts, and in none. *)
LEMMA HeldInBoth ==
  ASSUME NEW a, NEW b, NEW l, NEW p
  PROVE  TermsHeld(a \cup b, l, p) = TermsHeld(a, l, p) \cup TermsHeld(b, l, p)
BY DEF TermsHeld

LEMMA NoneHeld ==
  ASSUME NEW a, NEW l, NEW p, \A e \in a : ~(e[1] = l /\ e[3] = p)
  PROVE  TermsHeld(a, l, p) = {}
BY DEF TermsHeld

LEMMA ForwardSays ==
  ASSUME NEW several, NEW sink, IndexedSink(sink, several), NEW l, l \notin ForwardOnlyLayers, NEW p \in Nat
  PROVE  Says(sink.inverted, l, p, ForwardAt(sink.forward, l, p), several)
<1>1. CASE l \in DOMAIN sink.forward.layers
  BY <1>1 DEF IndexedSink
<1>2. CASE l \notin DOMAIN sink.forward.layers
  <2>1. Lists(sink.inverted, DOMAIN sink.forward.layers, sink.forward.tokens)
    BY DEF IndexedSink
  <2>2. ForwardAt(sink.forward, l, p) = Absent
    BY <1>2 DEF ForwardAt
  <2> QED BY <1>2, <2>1, <2>2, SaysOfAll
<1> QED BY <1>1, <1>2

(* A value put behind what a layer has so far. *)
LEMMA ValuePut ==
  ASSUME NEW values, IsSequence(values), NEW p \in Nat, Len(values) <= p, NEW v
  PROVE  /\ IsSequence(Append(PaddedTo(values, p), v))
         /\ Len(Append(PaddedTo(values, p), v)) = p + 1
         /\ \A q \in Nat : ValueAt(Append(PaddedTo(values, p), v), q) = IF q = p THEN v ELSE ValueAt(values, q)
<1> DEFINE padded == PaddedTo(values, p)
           more == Append(padded, v)
           X == {values[i] : i \in DOMAIN values} \cup {Absent}
<1>1. values \in Seq(X) /\ Absent \in X
  <2>1. values \in [1 .. Len(values) -> X] /\ Len(values) \in Nat
    BY Indexed DEF IsSequence
  <2> HIDE DEF X
  <2>2. values \in Seq(X)
    BY <2>1
  <2> QED BY <2>2 DEF X
<1> HIDE DEF X
<1>2. padded \in Seq(X) /\ Len(padded) = Larger(Len(values), p)
  BY <1>1, PaddedValues
<1>3. \A q \in Nat : ValueAt(padded, q) = ValueAt(values, q)
  BY <1>1, PaddedValues
<1>4. Len(padded) = p
  <2>1. Len(values) \in Nat
    BY Indexed
  <2> QED BY <2>1, <1>2 DEF Larger
<1> HIDE DEF padded
<1>5. IsSequence(padded)
  BY <1>2, OwnItems
<1>6. /\ IsSequence(more) /\ Len(more) = p + 1 /\ more[p + 1] = v
      /\ \A i \in 1 .. p : more[i] = padded[i]
  BY <1>4, <1>5, AppendedItem
<1> HIDE DEF more
<1>7. ASSUME NEW q \in Nat PROVE ValueAt(more, q) = IF q = p THEN v ELSE ValueAt(values, q)
  <2>1. CASE q = p
    BY <1>6, <2>1 DEF ValueAt
  <2>2. CASE q < p
    <3>1. q + 1 \in 1 .. p /\ q < p + 1 /\ q # p
      BY <2>2
    <3>2. ValueAt(more, q) = more[q + 1] /\ ValueAt(padded, q) = padded[q + 1]
      BY <1>4, <1>6, <2>2, <3>1 DEF ValueAt
    <3> QED BY <1>3, <1>6, <3>1, <3>2
  <2>3. CASE q > p
    <3>1. ValueAt(more, q) = Absent /\ ValueAt(padded, q) = Absent
      BY <1>4, <1>6, <2>3 DEF ValueAt
    <3> QED BY <1>3, <2>3, <3>1
  <2> QED BY <2>1, <2>2, <2>3
<1> QED BY <1>6, <1>7 DEF more, padded

(* The token's own annotations go into the forward index at its position: a layer  *)
(* it has a value for has it there, and no other value is changed.               *)
LEMMA ForwardSet ==
  ASSUME NEW forward, NEW p \in Nat, forward.tokens \in 0 .. p, DOMAIN forward = {"layers", "tokens"},
         \A l \in DOMAIN forward.layers :
           IsSequence(forward.layers[l]) /\ Len(forward.layers[l]) <= forward.tokens,
         NEW names, NEW values, NEW next, next = SetForward(AddLayers(forward, names), p, values)
  PROVE  /\ DOMAIN next = {"layers", "tokens"} /\ DOMAIN next.layers = DOMAIN forward.layers \cup names
         /\ next.tokens = IF DOMAIN values = {} THEN forward.tokens ELSE p + 1
         /\ \A l \in DOMAIN next.layers :
              IsSequence(next.layers[l]) /\ Len(next.layers[l]) <= next.tokens
         /\ \A l \in DOMAIN next.layers : \A q \in Nat :
              ForwardAt(next, l, q) = IF q = p /\ l \in DOMAIN values THEN values[l] ELSE ForwardAt(forward, l, q)
<1> DEFINE old(l) == IF l \in DOMAIN forward.layers THEN forward.layers[l] ELSE <<>>
           added == AddLayers(forward, names)
<1>1. added = [forward EXCEPT !.layers = [l \in DOMAIN forward.layers \cup names |-> old(l)]]
  BY Zenon DEF AddLayers
<1> HIDE DEF old, added
<1>2. /\ DOMAIN added.layers = DOMAIN forward.layers \cup names /\ added.tokens = forward.tokens
      /\ \A l \in DOMAIN added.layers : added.layers[l] = old(l)
  BY <1>1
<1>3. IsSequence(<<>>) /\ Len(<<>>) = 0
  BY DEF IsSequence
<1>4. \A l \in DOMAIN added.layers :
        /\ IsSequence(old(l)) /\ Len(old(l)) <= forward.tokens /\ Len(old(l)) \in Nat
        /\ \A q \in Nat : ValueAt(old(l), q) = ForwardAt(forward, l, q)
  <2> TAKE l \in DOMAIN added.layers
  <2>1. CASE l \in DOMAIN forward.layers
    BY <2>1, Indexed DEF old, ForwardAt
  <2>2. CASE l \notin DOMAIN forward.layers
    <3>1. old(l) = <<>>
      BY <2>2 DEF old
    <3>2. \A q \in Nat : ValueAt(<<>>, q) = Absent
      BY <1>3 DEF ValueAt
    <3> QED BY <1>3, <2>2, <3>1, <3>2 DEF ForwardAt
  <2> QED BY <2>1, <2>2
<1> DEFINE new(l) == IF l \in DOMAIN values THEN Append(PaddedTo(added.layers[l], p), values[l]) ELSE added.layers[l]
<1>5. next = [layers |-> [l \in DOMAIN added.layers |-> new(l)],
              tokens |-> IF DOMAIN values = {} THEN added.tokens ELSE Larger(added.tokens, p + 1)]
  BY Zenon DEF SetForward, added
<1> HIDE DEF new, old
<1>6. /\ DOMAIN next = {"layers", "tokens"} /\ DOMAIN next.layers = DOMAIN added.layers
      /\ \A l \in DOMAIN next.layers : next.layers[l] = new(l)
      /\ next.tokens = IF DOMAIN values = {} THEN forward.tokens ELSE p + 1
  <2>1. Larger(forward.tokens, p + 1) = p + 1
    BY DEF Larger
  <2> QED BY <1>2, <1>5, <2>1
<1>7. ASSUME NEW l \in DOMAIN next.layers
      PROVE  /\ IsSequence(next.layers[l]) /\ Len(next.layers[l]) <= next.tokens
             /\ \A q \in Nat :
                  ForwardAt(next, l, q) = IF q = p /\ l \in DOMAIN values THEN values[l] ELSE ForwardAt(forward, l, q)
  <2> DEFINE before == old(l)
             after == next.layers[l]
  <2>1. /\ IsSequence(before) /\ Len(before) <= forward.tokens /\ Len(before) \in Nat
        /\ \A q \in Nat : ValueAt(before, q) = ForwardAt(forward, l, q)
    BY <1>4, <1>6
  <2>2. after = IF l \in DOMAIN values THEN Append(PaddedTo(before, p), values[l]) ELSE before
    BY <1>2, <1>6 DEF new
  <2>3. \A q \in Nat : ForwardAt(next, l, q) = ValueAt(after, q)
    BY DEF ForwardAt
  <2> HIDE DEF before, after
  <2>4. Len(before) <= p
    BY <2>1
  <2>5. CASE l \in DOMAIN values
    <3>1. IsSequence(after) /\ Len(after) = p + 1
      BY <2>1, <2>2, <2>4, <2>5, ValuePut
    <3>2. \A q \in Nat : ValueAt(after, q) = IF q = p THEN values[l] ELSE ValueAt(before, q)
      BY <2>1, <2>2, <2>4, <2>5, ValuePut
    <3>3. next.tokens = p + 1
      BY <1>6, <2>5
    <3> QED BY <2>1, <2>3, <2>5, <3>1, <3>2, <3>3 DEF after
  <2>6. CASE l \notin DOMAIN values
    <3>1. forward.tokens <= next.tokens
      BY <1>6
    <3> QED BY <1>6, <2>1, <2>2, <2>3, <2>6, <3>1 DEF after
  <2> QED BY <2>5, <2>6
<1> QED BY <1>2, <1>6, <1>7

(* The value that is made last in a layer is one of those said of the token. *)
LEMMA LastSaid ==
  ASSUME NEW token, NEW decompose, NEW said, said = Annotations(token, decompose)
  PROVE  \A a \in said : a = <<a[1], a[2]>> /\ <<a[1], LastValue(token, decompose, a[1])>> \in said
<1> DEFINE feats == DecomposedFeats(token, decompose)
           own == {<<l, token.layers[l]>> : l \in DOMAIN token.layers}
           named(l) == {i \in DOMAIN feats : feats[i][1] = l}
<1>1. feats \in Seq(STRING \X STRING)
  BY FeatPairsAssumption DEF DecomposedFeats
<1>2. said = own \cup ToSet(feats)
  BY Zenon DEF Annotations
<1>3. \A l : LastValue(token, decompose, l) = IF named(l) = {} THEN token.layers[l] ELSE feats[Max(named(l))][2]
  BY Zenon DEF LastValue
<1> HIDE DEF feats
<1>4. ToSet(feats) = {feats[i] : i \in DOMAIN feats}
  BY Zenon DEF ToSet
<1>5. \A i \in DOMAIN feats : feats[i] = <<feats[i][1], feats[i][2]>> /\ feats[i] \in said
  <2> TAKE i \in DOMAIN feats
  <2>1. feats[i] \in STRING \X STRING
    BY <1>1
  <2>2. feats[i] \in said
    BY <1>2, <1>4
  <2> QED BY <2>1, <2>2
<1> TAKE a \in said
<1> DEFINE T == named(a[1])
<1>6. a = <<a[1], a[2]>>
  <2>1. CASE a \in own
    BY <2>1
  <2>2. CASE a \in ToSet(feats)
    BY <1>4, <1>5, <2>2
  <2> QED BY <1>2, <2>1, <2>2
<1>7. CASE T = {}
  <2>1. a \notin ToSet(feats)
    BY <1>4, <1>7
  <2>2. PICK l \in DOMAIN token.layers : a = <<l, token.layers[l]>>
    BY <1>2, <2>1
  <2>3. LastValue(token, decompose, a[1]) = token.layers[l]
    BY <1>3, <1>7, <2>2
  <2> QED BY <1>6, <2>2, <2>3
<1>8. CASE T # {}
  <2>1. Len(feats) \in Nat /\ T \subseteq 1 .. Len(feats)
    BY <1>1
  <2>2. Max(T) \in T
    <3> HIDE DEF T
    <3> QED BY <1>8, <2>1, MaxOfSome
  <2> DEFINE m == Max(T)
  <2>3. m \in DOMAIN feats /\ feats[m][1] = a[1]
    BY <2>2
  <2>4. LastValue(token, decompose, a[1]) = feats[m][2]
    BY <1>3, <1>8
  <2> HIDE DEF m
  <2>5. feats[m] = <<a[1], feats[m][2]>> /\ feats[m] \in said
    BY <1>5, <2>3
  <2> QED BY <1>6, <2>4, <2>5
<1> QED BY <1>7, <1>8

(* A token is listed under every annotation it has, and has the last of each layer *)
(* in the forward index; its head and its dependencies are there only.           *)
LEMMA TokenIndexed ==
  ASSUME NEW several, NEW sink, IndexedSink(sink, several), NEW token, NEW decompose,
         Several(Annotations(token, decompose)) \subseteq several
  PROVE  IndexedSink(AddToken(sink, token, decompose), several)
<1> DEFINE said == Annotations(token, decompose)
           names == {a[1] : a \in said}
           words == {a \in said : a[1] \notin ForwardOnlyLayers}
           last(l) == LastValue(token, decompose, l)
           p == sink.position
           new == {<<a[1], a[2], p>> : a \in words}
           values == [l \in names \cup {h \in {"head"} : token.head # {}} |->
                        IF l = "head" THEN Int32(CHOOSE n \in token.head : TRUE) ELSE Str(last(l))]
           forward == sink.forward
           after == SetForward(AddLayers(forward, names), p, values)
           glued == {q \in {p} : token.space_after_no}
           next == AddToken(sink, token, decompose)
<1>1. next = [sink EXCEPT !.inverted = @ \cup new, !.lexicon = @ \cup words, !.layers = @ \cup names,
                          !.forward = after, !.spacing = @ \cup glued, !.position = p + 1]
  BY Zenon DEF AddToken
<1>2. /\ DOMAIN values = names \cup {h \in {"head"} : token.head # {}}
      /\ \A l \in names \ ForwardOnlyLayers : values[l] = Str(last(l))
      /\ \A l : l \in DOMAIN values /\ l \notin ForwardOnlyLayers => l \in names
  BY DEF ForwardOnlyLayers
<1>3. glued \subseteq {p}
  OBVIOUS
<1>4. /\ p \in Nat /\ forward.tokens \in 0 .. p /\ DOMAIN forward = {"layers", "tokens"}
      /\ \A l \in DOMAIN forward.layers : IsSequence(forward.layers[l]) /\ Len(forward.layers[l]) <= forward.tokens
  BY DEF IndexedSink
<1>5. \A a \in said : a = <<a[1], a[2]>> /\ <<a[1], last(a[1])>> \in said
  BY LastSaid
<1> HIDE DEF said, last, values, after, glued, next
<1>6. /\ DOMAIN after = {"layers", "tokens"} /\ DOMAIN after.layers = DOMAIN forward.layers \cup names
      /\ after.tokens = IF DOMAIN values = {} THEN forward.tokens ELSE p + 1
      /\ \A l \in DOMAIN after.layers : IsSequence(after.layers[l]) /\ Len(after.layers[l]) <= after.tokens
      /\ \A l \in DOMAIN after.layers : \A q \in Nat :
           ForwardAt(after, l, q) = IF q = p /\ l \in DOMAIN values THEN values[l] ELSE ForwardAt(forward, l, q)
  <2> DEFINE d == names
  <2>1. after = SetForward(AddLayers(forward, d), p, values)
    BY DEF after
  <2> HIDE DEF forward, p, d
  <2>2. /\ DOMAIN after = {"layers", "tokens"} /\ DOMAIN after.layers = DOMAIN forward.layers \cup d
        /\ after.tokens = IF DOMAIN values = {} THEN forward.tokens ELSE p + 1
        /\ \A l \in DOMAIN after.layers : IsSequence(after.layers[l]) /\ Len(after.layers[l]) <= after.tokens
        /\ \A l \in DOMAIN after.layers : \A q \in Nat :
             ForwardAt(after, l, q) = IF q = p /\ l \in DOMAIN values THEN values[l] ELSE ForwardAt(forward, l, q)
    BY <1>4, <2>1, ForwardSet
  <2> QED BY <2>2 DEF d
<1>7. /\ DOMAIN next = SinkFields /\ next.position = p + 1 /\ next.forward = after
      /\ next.inverted = sink.inverted \cup new /\ next.lexicon = sink.lexicon \cup words
      /\ next.layers = sink.layers \cup names /\ next.spacing = sink.spacing \cup glued
  BY <1>1 DEF IndexedSink, SinkFields
<1>8. after.tokens \in 0 .. p + 1 /\ forward.tokens <= after.tokens
  BY <1>4, <1>6
<1>9. DOMAIN after.layers \subseteq next.layers
  BY <1>6, <1>7 DEF IndexedSink
<1>10. Lists(next.inverted, DOMAIN after.layers, after.tokens)
  <2>1. ASSUME NEW e \in sink.inverted
        PROVE  /\ e = <<e[1], e[2], e[3]>> /\ e[1] \in DOMAIN after.layers \ ForwardOnlyLayers
               /\ e[3] \in 0 .. after.tokens - 1
    BY <1>4, <1>6, <1>8 DEF IndexedSink, Lists
  <2>2. ASSUME NEW e \in new
        PROVE  /\ e = <<e[1], e[2], e[3]>> /\ e[1] \in DOMAIN after.layers \ ForwardOnlyLayers
               /\ e[3] \in 0 .. after.tokens - 1
    <3>1. PICK a \in said : a[1] \notin ForwardOnlyLayers /\ e = <<a[1], a[2], p>>
      OBVIOUS
    <3>2. a[1] \in names
      OBVIOUS
    <3>3. after.tokens = p + 1
      BY <1>2, <1>6, <3>2
    <3>4. e = <<e[1], e[2], e[3]>> /\ e[1] = a[1] /\ e[3] = p
      BY <3>1
    <3> QED BY <1>4, <1>6, <3>1, <3>2, <3>3, <3>4
  <2> QED BY <1>7, <2>1, <2>2 DEF Lists
<1>11. ASSUME NEW l \in DOMAIN after.layers \ ForwardOnlyLayers, NEW q \in Nat
       PROVE  Says(next.inverted, l, q, ForwardAt(after, l, q), several)
  <2> DEFINE v == ForwardAt(forward, l, q)
             w == ForwardAt(after, l, q)
  <2>1. Says(sink.inverted, l, q, v, several)
    BY ForwardSays
  <2>2. w = IF q = p /\ l \in DOMAIN values THEN values[l] ELSE v
    BY <1>6
  <2>3. v = Absent \/ q < p
    <3>1. CASE l \in DOMAIN forward.layers
      <4>1. Len(forward.layers[l]) \in Nat /\ Len(forward.layers[l]) <= forward.tokens
        BY <1>4, <3>1, Indexed
      <4> QED BY <1>4, <3>1, <4>1 DEF ForwardAt, ValueAt
    <3>2. CASE l \notin DOMAIN forward.layers
      BY <3>2 DEF ForwardAt
    <3> QED BY <3>1, <3>2
  <2> HIDE DEF v, w
  <2>4. TermsHeld(next.inverted, l, q) = TermsHeld(sink.inverted, l, q) \cup TermsHeld(new, l, q)
    <3> HIDE DEF new
    <3> QED BY <1>7, HeldInBoth
  <2>5. CASE q = p /\ l \in names
    <3>1. \A e \in sink.inverted : ~(e[1] = l /\ e[3] = q)
      BY <1>4, <2>5 DEF IndexedSink, Lists
    <3> DEFINE held == TermsHeld(new, l, q)
    <3>2. TermsHeld(next.inverted, l, q) = held
      BY <2>4, <3>1, NoneHeld
    <3>3. w = Str(last(l))
      BY <1>2, <2>2, <2>5
    <3>4. PICK a \in said : a[1] = l
      BY <2>5
    <3>5. <<l, last(l)>> \in said
      BY <1>5, <3>4
    <3>6. last(l) \in held
      <4> DEFINE e == <<l, last(l), p>>
      <4>1. e \in new /\ e[1] = l /\ e[3] = q /\ e[2] = last(l)
        BY <2>5, <3>5
      <4> HIDE DEF e, new
      <4> QED BY <4>1 DEF TermsHeld
    <3>7. ASSUME NEW t \in held, l \notin several PROVE t = last(l)
      <4>1. PICK e \in new : e[1] = l /\ t = e[2]
        BY DEF TermsHeld
      <4>2. PICK b \in words : e = <<b[1], b[2], p>>
        BY <4>1
      <4>3. b \in said /\ b = <<l, t>>
        BY <1>5, <4>1, <4>2
      <4>4. \A c \in said : c[1] = b[1] => c = b
        BY <3>7, <4>3 DEF Several, said
      <4>5. <<l, last(l)>> = b
        BY <3>5, <4>3, <4>4
      <4> QED BY <4>3, <4>5
    <3> HIDE DEF held, w
    <3>8. Says(next.inverted, l, q, w, several)
      BY <3>2, <3>3, <3>6, <3>7 DEF Says
    <3> QED BY <3>8 DEF w
  <2>6. CASE ~(q = p /\ l \in names)
    <3>1. w = v
      BY <1>2, <2>2, <2>6
    <3>2. \A e \in new : ~(e[1] = l /\ e[3] = q)
      BY <2>6
    <3>3. TermsHeld(next.inverted, l, q) = TermsHeld(sink.inverted, l, q)
      <4> HIDE DEF new
      <4> QED BY <2>4, <3>2, NoneHeld
    <3>4. Says(next.inverted, l, q, w, several)
      BY <2>1, <3>1, <3>3 DEF Says
    <3> QED BY <3>4 DEF w
  <2> QED BY <2>5, <2>6
<1>12. next.lexicon = TermsOf(next.inverted)
  <2>1. sink.lexicon = TermsOf(sink.inverted)
    BY DEF IndexedSink
  <2>2. words = TermsOf(new)
    <3>1. \A a : <<a[1], a[2], p>>[1] = a[1] /\ <<a[1], a[2], p>>[2] = a[2]
      OBVIOUS
    <3>2. ASSUME NEW a \in words PROVE a \in TermsOf(new)
      <4>1. a = <<a[1], a[2]>>
        BY <1>5
      <4>2. <<a[1], a[2]>> \in TermsOf(new)
        BY <3>1 DEF TermsOf
      <4> QED BY <4>1, <4>2
    <3>3. ASSUME NEW e \in new PROVE <<e[1], e[2]>> \in words
      <4>1. PICK a \in words : e = <<a[1], a[2], p>>
        OBVIOUS
      <4>2. a = <<a[1], a[2]>>
        BY <1>5
      <4> QED BY <3>1, <4>1, <4>2
    <3> HIDE DEF words, new
    <3> QED BY <3>2, <3>3 DEF TermsOf
  <2> QED BY <1>7, <2>1, <2>2 DEF TermsOf
<1>13. next.spacing \subseteq 0 .. (p + 1) - 1
  BY <1>3, <1>4, <1>7 DEF IndexedSink
<1>14. next.position \in Nat /\ next.forward.tokens \in 0 .. next.position /\ next.spacing \subseteq 0 .. next.position - 1
  BY <1>4, <1>7, <1>8, <1>13
<1>15. \A l \in DOMAIN next.forward.layers \ ForwardOnlyLayers : \A q \in Nat :
         Says(next.inverted, l, q, ForwardAt(next.forward, l, q), several)
  BY <1>7, <1>11
<1>16. Lists(next.inverted, DOMAIN next.forward.layers, next.forward.tokens)
  BY <1>7, <1>10
<1> QED BY <1>6, <1>7, <1>9, <1>12, <1>14, <1>15, <1>16 DEF IndexedSink, next

(* Hence all tokens of a sentence are. *)
LEMMA TokensIndexed ==
  ASSUME NEW several, NEW sink, IndexedSink(sink, several), NEW tokens, IsSequence(tokens), NEW decompose,
         SeveralOf(tokens, decompose) \subseteq several
  PROVE  IndexedSink(TokensAdded(sink, tokens, decompose), several)
<1> DEFINE n == Len(tokens)
<1>1. n \in Nat
  BY Indexed
<1>2. PICK run : /\ run[0] = sink
                 /\ \A k \in 1 .. n : run[k] = Step("token", decompose, run[k - 1], tokens[k])
                 /\ TokensAdded(sink, tokens, decompose) = run[n]
  <2>1. Runs("token", decompose, sink, tokens, TokensAdded(sink, tokens, decompose))
    BY TokenRun
  <2> QED BY <2>1 DEF Runs
<1> HIDE DEF n
<1> DEFINE Good == {k \in 0 .. n : IndexedSink(run[k], several)}
<1>3. 0 \in Good
  BY <1>1, <1>2
<1>4. ASSUME NEW k \in 1 .. n, k - 1 \in Good PROVE k \in Good
  <2> DEFINE r == run[k - 1]
             t == tokens[k]
  <2>1. IndexedSink(r, several) /\ k \in 0 .. n
    BY <1>1, <1>4
  <2>2. run[k] = AddToken(r, t, decompose)
    BY <1>2 DEF Step
  <2>3. Several(Annotations(t, decompose)) \subseteq several
    <3>1. k \in DOMAIN tokens
      BY <1>1, Indexed DEF n
    <3> QED BY <3>1 DEF SeveralOf
  <2> HIDE DEF r, t
  <2>4. IndexedSink(run[k], several)
    BY <2>1, <2>2, <2>3, TokenIndexed
  <2> QED BY <2>1, <2>4
<1>5. \A k \in 0 .. n : k \in Good
  <2> HIDE DEF Good
  <2> QED BY <1>1, <1>3, <1>4, CountedUp
<1> QED BY <1>1, <1>2, <1>5

(* What is not about tokens has no part in it. *)
LEMMA SameIndexes ==
  ASSUME NEW several, NEW sink, IndexedSink(sink, several), NEW next, DOMAIN next = SinkFields, \A f \in Indexing : next[f] = sink[f]
  PROVE  IndexedSink(next, several)
<1>1. /\ next.inverted = sink.inverted /\ next.forward = sink.forward /\ next.lexicon = sink.lexicon
      /\ next.layers = sink.layers /\ next.spacing = sink.spacing /\ next.position = sink.position
  BY DEF Indexing
<1> QED BY <1>1 DEF IndexedSink

(* Nor have the span, the id, the multiword tokens and the empty nodes of a sentence. *)
LEMMA SentenceIndexed ==
  ASSUME NEW several, NEW sink, IndexedSink(sink, several), NEW sentence, SentenceParts(sentence),
         NEW doc_name, NEW nth, NEW decompose, SeveralOf(sentence.tokens, decompose) \subseteq several
  PROVE  IndexedSink(AddSentence(sink, doc_name, nth, sentence, decompose), several)
<1> DEFINE start == sink.position
           worded == TokensAdded(sink, sentence.tokens, decompose)
           next == AddSentence(sink, doc_name, nth, sentence, decompose)
           mwts == Mapped(sentence.mwts, LAMBDA w :
                       [start |-> start + w.first - 1, end |-> start + w.last, form |-> w.form,
                        no_space_after |-> w.no_space_after])
           nodes == Mapped(sentence.empty_nodes, LAMBDA e :
                       [sentence_index |-> Len(sink.sentence_ids), node_id |-> e.node_id, form |-> e.form])
           tile == [start |-> start, end |-> worded.position]
           id == IF sentence.sent_id = {} THEN <<doc_name, nth>> ELSE <<CHOOSE i \in sentence.sent_id : TRUE>>
<1>1. next = IF worded.position = start THEN [worded EXCEPT !.mwts = worded.mwts \o mwts]
             ELSE [[worded EXCEPT !.mwts = worded.mwts \o mwts]
                     EXCEPT !.empty_nodes = @ \o nodes, !.spans = AddSpan(@, "sentence", tile),
                              !.sentence_ids = Append(@, id)]
  BY Zenon DEF AddSentence, TokensAdded
<1>2. IndexedSink(worded, several)
  BY TokensIndexed DEF SentenceParts
<1> HIDE DEF worded, next, mwts, nodes, tile, id
<1>3. DOMAIN next = SinkFields /\ \A f \in Indexing : next[f] = worded[f]
  BY <1>1, <1>2 DEF IndexedSink, SinkFields, Indexing
<1>4. IndexedSink(next, several)
  BY <1>2, <1>3, SameIndexes
<1> QED BY <1>4 DEF next

(* All sentences of a document, and the document. *)
LEMMA DocumentIndexed ==
  ASSUME NEW several, NEW sink, IndexedSink(sink, several),
         NEW sentences, IsSequence(sentences), \A i \in DOMAIN sentences : SentenceParts(sentences[i]),
         NEW doc_name, NEW decompose,
         \A i \in DOMAIN sentences : SeveralOf(sentences[i].tokens, decompose) \subseteq several
  PROVE  IndexedSink(AddDocument(sink, doc_name, sentences, decompose), several)
<1> DEFINE n == Len(sentences)
           first == Len(sink.sentence_ids)
           context == [name |-> doc_name, first |-> first, decompose |-> decompose]
           filled == SentencesAdded(sink, doc_name, first, sentences, decompose)
           next == AddDocument(sink, doc_name, sentences, decompose)
<1>1. n \in Nat /\ DOMAIN sentences = 1 .. n
  BY Indexed
<1>2. PICK run : /\ run[0] = sink
                 /\ \A k \in 1 .. n : run[k] = Step("sentence", context, run[k - 1], sentences[k])
                 /\ filled = run[n]
  <2>1. Runs("sentence", context, sink, sentences, filled)
    BY SentenceRun
  <2> HIDE DEF context, filled
  <2> QED BY <2>1 DEF Runs
<1> HIDE DEF n
<1> DEFINE Good == {k \in 0 .. n : IndexedSink(run[k], several)}
<1>3. 0 \in Good
  BY <1>1, <1>2
<1>4. ASSUME NEW k \in 1 .. n, k - 1 \in Good PROVE k \in Good
  <2> DEFINE r == run[k - 1]
             item == sentences[k]
             nth == Len(r.sentence_ids) - first
  <2>1. IndexedSink(r, several) /\ k \in 0 .. n
    BY <1>1, <1>4
  <2>2. run[k] = AddSentence(r, doc_name, nth, item, decompose)
    BY <1>2 DEF Step
  <2>3. SentenceParts(item) /\ SeveralOf(item.tokens, decompose) \subseteq several
    BY <1>1
  <2> HIDE DEF r, item, nth
  <2>4. IndexedSink(run[k], several)
    BY <2>1, <2>2, <2>3, SentenceIndexed
  <2> QED BY <2>1, <2>4
<1>5. \A k \in 0 .. n : k \in Good
  <2> HIDE DEF Good
  <2> QED BY <1>1, <1>3, <1>4, CountedUp
<1>6. IndexedSink(filled, several)
  BY <1>1, <1>2, <1>5
<1>7. PICK spans, docs : next = IF filled.position = sink.position THEN filled
                                ELSE [filled EXCEPT !.spans = spans, !.document_names = docs]
  BY Zenon DEF AddDocument, SentencesAdded
<1> HIDE DEF filled, next
<1>8. DOMAIN next = SinkFields /\ \A f \in Indexing : next[f] = filled[f]
  BY <1>6, <1>7 DEF IndexedSink, SinkFields, Indexing
<1>9. IndexedSink(next, several)
  BY <1>6, <1>8, SameIndexes
<1> QED BY <1>9 DEF next

(* There is nothing in the indexes of a sink at first, and those of a file agree. *)
LEMMA NewSinkIndexed ==
  ASSUME NEW several
  PROVE  IndexedSink(NewSink, several)
<1>1. IsSequence(<<>>) /\ Len(<<>>) = 0
  BY DEF IsSequence
<1>2. /\ DOMAIN NewSink = SinkFields /\ NewSink.position = 0 /\ NewSink.inverted = {} /\ NewSink.lexicon = {}
      /\ NewSink.layers = BaseLayers /\ NewSink.spacing = {}
      /\ NewSink.forward = [layers |-> [l \in BaseLayers |-> <<>>], tokens |-> 0]
  BY DEF NewSink, SinkFields, InMemoryForward
<1>3. \A l, p : p \in Nat => ForwardAt(NewSink.forward, l, p) = Absent
  BY <1>1, <1>2 DEF ForwardAt, ValueAt
<1>4. Lists({}, BaseLayers, 0) /\ TermsOf({}) = {} /\ \A l, p : Says({}, l, p, Absent, several)
  BY DEF Lists, TermsOf, Says, TermsHeld
<1> QED BY <1>1, <1>2, <1>3, <1>4 DEF IndexedSink

LEMMA FileSinkIndexed ==
  ASSUME NEW several, NEW file, IsFile(file), NEW strict \in BOOLEAN, NEW decompose,
         SeveralIn(file, strict, decompose) \subseteq several
  PROVE  IndexedSink(FileSink(file, strict, decompose), several)
<1> DEFINE sentences == ReadFile(file, strict).sentences
           name == file.name
<1>1. IsSequence(sentences) /\ \A i \in DOMAIN sentences : SentenceParts(sentences[i])
  BY FileRead DEF ReaderInv
<1>2. FileSink(file, strict, decompose) = AddDocument(NewSink, name, sentences, decompose)
  BY DEF FileSink
<1>3. \A i \in DOMAIN sentences : SeveralOf(sentences[i].tokens, decompose) \subseteq several
  BY DEF SeveralIn
<1> HIDE DEF sentences, name
<1>4. IndexedSink(AddDocument(NewSink, name, sentences, decompose), several)
  BY <1>1, <1>3, NewSinkIndexed, DocumentIndexed
<1> QED BY <1>2, <1>4

(* The sink of a build says the same of every position as what has been streamed;  *)
(* no indexed layer was taken for one of numbers.                               *)
Matched(sink, streaming, several) ==
  /\ sink.position \in Nat /\ streaming.tokens \in 0 .. sink.position
  /\ DOMAIN streaming.layers \subseteq sink.layers
  /\ \A l \in DOMAIN streaming.layers :
       /\ streaming.layers[l] = [numeric |-> streaming.layers[l].numeric, values |-> streaming.layers[l].values]
       /\ streaming.layers[l].numeric \in BOOLEAN
       /\ l \notin ForwardOnlyLayers => ~streaming.layers[l].numeric
       /\ IsSequence(streaming.layers[l].values) /\ Len(streaming.layers[l].values) <= streaming.tokens
  /\ Lists(sink.inverted, DOMAIN streaming.layers, streaming.tokens)
  /\ \A l \in DOMAIN streaming.layers \ ForwardOnlyLayers : \A p \in Nat :
       Says(sink.inverted, l, p, StreamedAt(streaming, l, p), several)
  /\ sink.lexicon = TermsOf(sink.inverted)
  /\ sink.spacing \subseteq 0 .. sink.position - 1

LEMMA StreamSays ==
  ASSUME NEW several, NEW sink, NEW streaming, Matched(sink, streaming, several), NEW l, l \notin ForwardOnlyLayers, NEW p \in Nat
  PROVE  Says(sink.inverted, l, p, StreamedAt(streaming, l, p), several)
<1>1. CASE l \in DOMAIN streaming.layers
  BY <1>1 DEF Matched
<1>2. CASE l \notin DOMAIN streaming.layers
  <2>1. Lists(sink.inverted, DOMAIN streaming.layers, streaming.tokens)
    BY DEF Matched
  <2>2. StreamedAt(streaming, l, p) = Absent
    BY <1>2 DEF StreamedAt
  <2> QED BY <1>2, <2>1, <2>2, SaysOfAll
<1> QED BY <1>1, <1>2

(* There is a set of all values in them. *)
LEMMA SomeValues ==
  ASSUME NEW several, NEW sink, NEW streaming, Matched(sink, streaming, several), NEW other, IndexedSink(other, several)
  PROVE  \E X : Absent \in X /\ StreamFits(streaming, X) /\ ForwardFits(other.forward, X)
<1> DEFINE In(s) == {s[i] : i \in DOMAIN s}
           streamed == UNION {In(streaming.layers[l].values) : l \in DOMAIN streaming.layers}
           held == UNION {In(other.forward.layers[l]) : l \in DOMAIN other.forward.layers}
           X == {Absent} \cup streamed \cup held
<1>1. ASSUME NEW s, IsSequence(s), In(s) \subseteq X PROVE s \in Seq(X)
  <2>1. s \in [1 .. Len(s) -> In(s)] /\ Len(s) \in Nat
    BY <1>1, Indexed DEF IsSequence
  <2> HIDE DEF In, X
  <2>2. s \in [1 .. Len(s) -> X]
    BY <1>1, <2>1
  <2> QED BY <2>1, <2>2
<1>2. StreamFits(streaming, X)
  <2>1. ASSUME NEW l \in DOMAIN streaming.layers PROVE streaming.layers[l].values \in Seq(X)
    <3> DEFINE s == streaming.layers[l].values
    <3>1. IsSequence(s)
      BY DEF Matched
    <3>2. In(s) \subseteq X
      OBVIOUS
    <3> HIDE DEF X, In, s
    <3>3. s \in Seq(X)
      BY <1>1, <3>1, <3>2
    <3> QED BY <3>3 DEF s
  <2> HIDE DEF X
  <2>2. ASSUME NEW l \in DOMAIN streaming.layers PROVE streaming.layers[l] \in [numeric : BOOLEAN, values : Seq(X)]
    <3> DEFINE numeric == streaming.layers[l].numeric
               values == streaming.layers[l].values
    <3>1. numeric \in BOOLEAN /\ streaming.layers[l] = [numeric |-> numeric, values |-> values]
      BY DEF Matched
    <3>2. values \in Seq(X)
      BY <2>1
    <3> HIDE DEF numeric, values
    <3> QED BY <3>1, <3>2
  <2>3. streaming.tokens \in Nat /\ \A l \in DOMAIN streaming.layers : Len(streaming.layers[l].values) <= streaming.tokens
    <3>1. streaming.tokens \in 0 .. sink.position /\ sink.position \in Nat
      BY Zenon DEF Matched
    <3>2. \A l \in DOMAIN streaming.layers : Len(streaming.layers[l].values) <= streaming.tokens
      BY Zenon DEF Matched
    <3> QED BY <3>1, <3>2
  <2> QED BY <2>2, <2>3 DEF StreamFits
<1>3. ForwardFits(other.forward, X)
  <2>1. ASSUME NEW l \in DOMAIN other.forward.layers PROVE other.forward.layers[l] \in Seq(X)
    <3> DEFINE s == other.forward.layers[l]
    <3>1. IsSequence(s)
      BY DEF IndexedSink
    <3>2. In(s) \subseteq X
      OBVIOUS
    <3> HIDE DEF X, In, s
    <3>3. s \in Seq(X)
      BY <1>1, <3>1, <3>2
    <3> QED BY <3>3 DEF s
  <2> HIDE DEF X
  <2> QED BY <2>1 DEF ForwardFits, IndexedSink
<1>4. Absent \in X
  OBVIOUS
<1> HIDE DEF X
<1> QED BY <1>2, <1>3, <1>4

(* What merging does to the parts that are about tokens. *)
LEMMA MergedParts ==
  ASSUME NEW sink, DOMAIN sink = SinkFields, NEW other
  PROVE  /\ DOMAIN MergeFrom(sink, other) = SinkFields
         /\ MergeFrom(sink, other).inverted = MergedInverted(sink.inverted, other.inverted, sink.position)
         /\ MergeFrom(sink, other).lexicon = sink.lexicon \cup other.lexicon
         /\ MergeFrom(sink, other).layers = sink.layers \cup other.layers
         /\ MergeFrom(sink, other).spacing = sink.spacing \cup {p + sink.position : p \in other.spacing}
         /\ MergeFrom(sink, other).position = sink.position + other.position
<1> DEFINE offset == sink.position
           mwts == Mapped(other.mwts, LAMBDA w : [w EXCEPT !.start = @ + offset, !.end = @ + offset])
           nodes == Mapped(other.empty_nodes, LAMBDA e : [e EXCEPT !.sentence_index = @ + Len(sink.sentence_ids)])
<1>1. MergeFrom(sink, other) =
        [sink EXCEPT
           !.inverted = MergedInverted(@, other.inverted, offset),
           !.spans = MergedSpans(@, other.spans, offset),
           !.lexicon = @ \cup other.lexicon,
           !.layers = @ \cup other.layers,
           !.document_names = @ \o other.document_names,
           !.sentence_ids = @ \o other.sentence_ids,
           !.mwts = @ \o mwts,
           !.spacing = @ \cup {p + offset : p \in other.spacing},
           !.empty_nodes = @ \o nodes,
           !.position = @ + other.position]
  BY Zenon DEF MergeFrom
<1> HIDE DEF mwts, nodes
<1> QED BY <1>1 DEF SinkFields

(* What Matched is about. *)
LEMMA SameMatch ==
  ASSUME NEW several, NEW sink, NEW streaming, Matched(sink, streaming, several), NEW next,
         \A f \in Indexing \ {"forward"} : next[f] = sink[f]
  PROVE  Matched(next, streaming, several)
<1>1. /\ next.inverted = sink.inverted /\ next.lexicon = sink.lexicon
      /\ next.layers = sink.layers /\ next.spacing = sink.spacing /\ next.position = sink.position
  BY DEF Indexing
<1> QED BY <1>1 DEF Matched

(* The layers of the writer, after a file that has a value. *)
LEMMA LayersAppended ==
  ASSUME NEW streaming, NEW forward, forward.tokens # 0, NEW offset,
         NEW after, after = AppendFrom(streaming, forward, offset)
  PROVE  /\ DOMAIN after.layers = DOMAIN streaming.layers \cup DOMAIN forward.layers
         /\ \A l \in DOMAIN forward.layers :
              after.layers[l] = AppendLayer(streaming.layers, l, forward.layers[l], offset)
         /\ \A l \in DOMAIN streaming.layers \ DOMAIN forward.layers : after.layers[l] = streaming.layers[l]
<1> DEFINE Layer(l) == IF l \in DOMAIN forward.layers
                       THEN AppendLayer(streaming.layers, l, forward.layers[l], offset)
                       ELSE streaming.layers[l]
           layers == [l \in DOMAIN streaming.layers \cup DOMAIN forward.layers |-> Layer(l)]
<1>1. AppendFrom(streaming, forward, offset)
        = [layers |-> layers, tokens |-> Larger(streaming.tokens, offset + forward.tokens)]
  BY Zenon DEF AppendFrom
<1> HIDE DEF Layer
<1>2. /\ DOMAIN layers = DOMAIN streaming.layers \cup DOMAIN forward.layers
      /\ \A l \in DOMAIN layers : layers[l] = Layer(l)
  OBVIOUS
<1>3. after.layers = layers
  <2> HIDE DEF layers
  <2> QED BY <1>1
<1> HIDE DEF layers
<1> QED BY <1>2, <1>3 DEF Layer

(* A file that has values is merged into the sink and streamed at the position the  *)
(* sink is at: each goes on saying the same of every position as the other, of the *)
(* positions of the file and of those before it.  Of the layers that tokens have    *)
(* several terms of, what is streamed goes on being one of those listed.          *)
THEOREM MergeMatches ==
  ASSUME NEW several, NEW sink, DOMAIN sink = SinkFields, NEW streaming, Matched(sink, streaming, several), NEW other, IndexedSink(other, several)
  PROVE  Matched(MergeFrom(sink, other), AppendFrom(streaming, other.forward, sink.position), several)
<1> DEFINE offset == sink.position
           forward == other.forward
           next == MergeFrom(sink, other)
           after == AppendFrom(streaming, forward, offset)
           moved == {<<e[1], e[2], e[3] + offset>> : e \in other.inverted}
           glued == {p + offset : p \in other.spacing}
<1>1. /\ next.inverted = sink.inverted \cup moved /\ next.lexicon = sink.lexicon \cup other.lexicon
      /\ next.layers = sink.layers \cup other.layers /\ next.spacing = sink.spacing \cup glued
      /\ next.position = offset + other.position
  BY MergedParts DEF MergedInverted
<1>2. offset \in Nat /\ streaming.tokens \in 0 .. offset /\ other.position \in Nat /\ forward.tokens \in 0 .. other.position
  BY DEF Matched, IndexedSink
<1>3. next.position \in Nat
  BY <1>1, <1>2
<1>4. next.lexicon = TermsOf(next.inverted)
  <2>1. sink.lexicon = TermsOf(sink.inverted) /\ other.lexicon = TermsOf(other.inverted)
    BY DEF Matched, IndexedSink
  <2>2. TermsOf(moved) = TermsOf(other.inverted)
    <3>1. \A e : <<e[1], e[2], e[3] + offset>>[1] = e[1] /\ <<e[1], e[2], e[3] + offset>>[2] = e[2]
      OBVIOUS
    <3>2. ASSUME NEW e \in moved PROVE <<e[1], e[2]>> \in TermsOf(other.inverted)
      <4>1. PICK x \in other.inverted : e = <<x[1], x[2], x[3] + offset>>
        OBVIOUS
      <4> QED BY <3>1, <4>1 DEF TermsOf
    <3>3. ASSUME NEW e \in other.inverted PROVE <<e[1], e[2]>> \in TermsOf(moved)
      BY <3>1 DEF TermsOf
    <3> QED BY <3>2, <3>3 DEF TermsOf
  <2>3. TermsOf(sink.inverted \cup moved) = TermsOf(sink.inverted) \cup TermsOf(moved)
    BY DEF TermsOf
  <2> QED BY <1>1, <2>1, <2>2, <2>3
<1>5. next.spacing \subseteq 0 .. next.position - 1
  <2>1. sink.spacing \subseteq 0 .. offset - 1 /\ other.spacing \subseteq 0 .. other.position - 1
    BY DEF Matched, IndexedSink
  <2>2. sink.spacing \subseteq 0 .. (offset + other.position) - 1
    BY <1>2, <2>1
  <2>3. glued \subseteq 0 .. (offset + other.position) - 1
    BY <1>2, <2>1
  <2> QED BY <1>1, <2>2, <2>3
<1>6. CASE forward.tokens = 0
  <2>1. other.inverted = {}
    <3>1. Lists(other.inverted, DOMAIN forward.layers, forward.tokens)
      BY DEF IndexedSink
    <3> QED BY <1>6, <3>1 DEF Lists
  <2>2. moved = {} /\ after = streaming
    BY <1>6, <2>1 DEF AppendFrom
  <2>3. next.inverted = sink.inverted
    BY <1>1, <2>2
  <2>4. streaming.tokens \in 0 .. next.position
    BY <1>1, <1>2
  <2>5. DOMAIN streaming.layers \subseteq next.layers
    BY <1>1 DEF Matched
  <2> HIDE DEF next, after, moved, glued
  <2> QED BY <1>3, <1>4, <1>5, <2>2, <2>3, <2>4, <2>5 DEF Matched, next, after
<1>7. CASE forward.tokens # 0
  <2>1. PICK X : Absent \in X /\ StreamFits(streaming, X) /\ ForwardFits(forward, X)
    BY SomeValues
  <2>2. StreamFits(after, X) /\ after.tokens = offset + forward.tokens
    BY <1>2, <1>7, <2>1, AppendFromAppends
  <2>3. \A l, p : p \in Nat =>
          StreamedAt(after, l, p) = IF p < offset THEN StreamedAt(streaming, l, p) ELSE ForwardAt(forward, l, p - offset)
    BY <1>2, <1>7, <2>1, AppendFromAppends
  <2>4. /\ DOMAIN after.layers = DOMAIN streaming.layers \cup DOMAIN forward.layers
        /\ \A l \in DOMAIN forward.layers :
             after.layers[l] = AppendLayer(streaming.layers, l, forward.layers[l], offset)
        /\ \A l \in DOMAIN streaming.layers \ DOMAIN forward.layers : after.layers[l] = streaming.layers[l]
    <3>1. after = AppendFrom(streaming, forward, offset)
      OBVIOUS
    <3>2. forward.tokens # 0
      BY <1>7
    <3> HIDE DEF after, forward, offset
    <3> QED BY <3>1, <3>2, LayersAppended
  <2>5. Lists(sink.inverted, DOMAIN streaming.layers, streaming.tokens) /\ Lists(other.inverted, DOMAIN forward.layers, forward.tokens)
    BY DEF Matched, IndexedSink
  <2> HIDE DEF next, after, forward, glued
  <2>6. after.tokens \in 0 .. next.position
    BY <1>1, <1>2, <2>2
  <2>7. DOMAIN after.layers \subseteq next.layers
    BY <1>1, <2>4 DEF Matched, IndexedSink, forward
  <2>8. ASSUME NEW l \in DOMAIN after.layers, l \notin ForwardOnlyLayers PROVE ~after.layers[l].numeric
    <3>1. CASE l \in DOMAIN forward.layers
      <4> DEFINE values == forward.layers[l]
                 old == IF l \in DOMAIN streaming.layers THEN streaming.layers[l]
                        ELSE [numeric |-> IsNumericLayer(values), values |-> <<>>]
      <4>1. after.layers[l] = [old EXCEPT !.values = PaddedTo(@, offset) \o values]
        BY <2>4, <3>1, Zenon DEF AppendLayer
      <4>2. ~IsNumericLayer(values)
        <5>1. IsSequence(values)
          BY <3>1 DEF IndexedSink, forward
        <5>2. ASSUME NEW i \in DOMAIN values PROVE ~IsInt(values[i])
          <6> DEFINE p == i - 1
                     v == ForwardAt(forward, l, p)
          <6>1. p \in Nat /\ p < Len(values) /\ p + 1 = i
            BY <5>1, Indexed
          <6>2. v = values[i]
            BY <3>1, <6>1 DEF ForwardAt, ValueAt
          <6>3. Says(other.inverted, l, p, v, several)
            BY <2>8, <6>1, ForwardSays DEF forward
          <6> HIDE DEF v, p
          <6>4. v = Absent \/ \E x : v = Str(x)
            BY <6>3 DEF Says
          <6>5. ~IsInt(v)
            <7>1. PICK x : v = Str(x)
              BY <6>4 DEF Absent
            <7>2. v[1] = "s"
              BY <7>1 DEF Str
            <7> QED BY <7>2 DEF IsInt
          <6> QED BY <6>2, <6>5
        <5> QED BY <5>2 DEF IsNumericLayer
      <4> HIDE DEF values
      <4>3. ~old.numeric /\ "numeric" \in DOMAIN old
        <5>1. CASE l \in DOMAIN streaming.layers
          <6> DEFINE layer == streaming.layers[l]
          <6>1. layer = [numeric |-> layer.numeric, values |-> layer.values] /\ ~layer.numeric
            BY <2>8, <5>1 DEF Matched
          <6>2. old = layer
            BY <5>1
          <6> HIDE DEF layer, old
          <6> QED BY <6>1, <6>2
        <5>2. CASE l \notin DOMAIN streaming.layers
          BY <4>2, <5>2
        <5> QED BY <5>1, <5>2
      <4> HIDE DEF old
      <4> QED BY <4>1, <4>3
    <3>2. CASE l \notin DOMAIN forward.layers
      BY <2>4, <2>8, <3>2 DEF Matched
    <3> QED BY <3>1, <3>2
  <2>9. ASSUME NEW l \in DOMAIN after.layers
        PROVE  /\ after.layers[l] = [numeric |-> after.layers[l].numeric, values |-> after.layers[l].values]
               /\ after.layers[l].numeric \in BOOLEAN
               /\ l \notin ForwardOnlyLayers => ~after.layers[l].numeric
               /\ IsSequence(after.layers[l].values) /\ Len(after.layers[l].values) <= after.tokens
    <3> DEFINE layer == after.layers[l]
    <3>1. layer \in [numeric : BOOLEAN, values : Seq(X)] /\ Len(layer.values) <= after.tokens
      BY <2>2 DEF StreamFits
    <3>2. l \notin ForwardOnlyLayers => ~layer.numeric
      BY <2>8
    <3> HIDE DEF layer
    <3>3. /\ layer = [numeric |-> layer.numeric, values |-> layer.values] /\ layer.numeric \in BOOLEAN
          /\ layer.values \in Seq(X)
      BY <3>1
    <3>4. IsSequence(layer.values)
      BY <3>3, OwnItems
    <3> QED BY <3>1, <3>2, <3>3, <3>4 DEF layer
  <2>10. Lists(next.inverted, DOMAIN after.layers, after.tokens)
    <3>1. ASSUME NEW e \in sink.inverted
          PROVE  /\ e = <<e[1], e[2], e[3]>> /\ e[1] \in DOMAIN after.layers \ ForwardOnlyLayers
                 /\ e[3] \in 0 .. after.tokens - 1
      <4>1. e = <<e[1], e[2], e[3]>> /\ e[1] \in DOMAIN streaming.layers \ ForwardOnlyLayers /\ e[3] \in 0 .. streaming.tokens - 1
        BY <2>5 DEF Lists
      <4> QED BY <1>2, <2>2, <2>4, <4>1
    <3>2. ASSUME NEW e \in moved
          PROVE  /\ e = <<e[1], e[2], e[3]>> /\ e[1] \in DOMAIN after.layers \ ForwardOnlyLayers
                 /\ e[3] \in 0 .. after.tokens - 1
      <4>1. PICK x \in other.inverted : e = <<x[1], x[2], x[3] + offset>>
        OBVIOUS
      <4>2. x[1] \in DOMAIN forward.layers \ ForwardOnlyLayers /\ x[3] \in 0 .. forward.tokens - 1
        BY <2>5 DEF Lists
      <4>3. e[1] = x[1] /\ e[3] = x[3] + offset /\ e = <<e[1], e[2], e[3]>>
        BY <4>1
      <4>4. x[3] + offset \in 0 .. after.tokens - 1
        BY <1>2, <2>2, <4>2
      <4> QED BY <2>4, <4>2, <4>3, <4>4
    <3> HIDE DEF moved
    <3> QED BY <1>1, <3>1, <3>2 DEF Lists
  <2>11. ASSUME NEW l \in DOMAIN after.layers \ ForwardOnlyLayers, NEW p \in Nat
         PROVE  Says(next.inverted, l, p, StreamedAt(after, l, p), several)
    <3> DEFINE v == StreamedAt(after, l, p)
    <3>1. CASE p < offset
      <4>1. v = StreamedAt(streaming, l, p)
        BY <2>3, <3>1
      <4> HIDE DEF v
      <4>2. Says(sink.inverted, l, p, v, several)
        BY <4>1, StreamSays
      <4>3. \A e \in moved : e[3] # p
        <5> TAKE e \in moved
        <5>1. PICK x \in other.inverted : e = <<x[1], x[2], x[3] + offset>>
          OBVIOUS
        <5>2. x[3] \in 0 .. forward.tokens - 1
          BY <2>5 DEF Lists
        <5>3. e[3] = x[3] + offset
          BY <5>1
        <5> QED BY <1>2, <3>1, <5>2, <5>3
      <4> HIDE DEF moved
      <4>4. TermsHeld(next.inverted, l, p) = TermsHeld(sink.inverted, l, p)
        <5>1. next.inverted = sink.inverted \cup moved
          BY <1>1
        <5>2. TermsHeld(moved, l, p) = {}
          BY <4>3, NoneHeld
        <5>3. TermsHeld(sink.inverted \cup moved, l, p) = TermsHeld(sink.inverted, l, p) \cup TermsHeld(moved, l, p)
          BY HeldInBoth
        <5> QED BY <5>1, <5>2, <5>3
      <4>5. Says(next.inverted, l, p, v, several)
        BY <4>2, <4>4 DEF Says
      <4> QED BY <4>5 DEF v
    <3>2. CASE ~(p < offset)
      <4> DEFINE q == p - offset
      <4>1. q \in Nat /\ q + offset = p
        BY <1>2, <3>2
      <4>2. v = ForwardAt(forward, l, q)
        BY <2>3, <3>2
      <4> HIDE DEF v, q
      <4>3. Says(other.inverted, l, q, v, several)
        BY <4>1, <4>2, ForwardSays DEF forward
      <4>4. \A e \in sink.inverted : e[3] # p
        <5> TAKE e \in sink.inverted
        <5>1. e[3] \in 0 .. streaming.tokens - 1
          BY <2>5 DEF Lists
        <5> QED BY <1>2, <3>2, <5>1
      <4>5. ASSUME NEW t \in TermsHeld(moved, l, p) PROVE t \in TermsHeld(other.inverted, l, q)
        <5>1. PICK e \in moved : e[1] = l /\ e[3] = p /\ t = e[2]
          BY DEF TermsHeld
        <5>2. PICK x \in other.inverted : e = <<x[1], x[2], x[3] + offset>>
          BY <5>1
        <5>3. x[3] \in 0 .. forward.tokens - 1
          BY <2>5 DEF Lists
        <5>4. x[1] = l /\ x[2] = t /\ x[3] + offset = p
          BY <5>1, <5>2
        <5>5. x[3] = q
          BY <1>2, <4>1, <5>3, <5>4
        <5> QED BY <5>4, <5>5 DEF TermsHeld
      <4>6. ASSUME NEW t \in TermsHeld(other.inverted, l, q) PROVE t \in TermsHeld(moved, l, p)
        <5>1. PICK x \in other.inverted : x[1] = l /\ x[3] = q /\ t = x[2]
          BY DEF TermsHeld
        <5> DEFINE e == <<x[1], x[2], x[3] + offset>>
        <5>2. e \in moved /\ e[1] = l /\ e[2] = t /\ e[3] = p
          BY <4>1, <5>1
        <5> HIDE DEF e, moved
        <5> QED BY <5>2 DEF TermsHeld
      <4> HIDE DEF moved
      <4>7. TermsHeld(next.inverted, l, p) = TermsHeld(other.inverted, l, q)
        <5>1. TermsHeld(moved, l, p) = TermsHeld(other.inverted, l, q)
          BY <4>5, <4>6
        <5>2. next.inverted = sink.inverted \cup moved
          BY <1>1
        <5>3. TermsHeld(sink.inverted, l, p) = {}
          BY <4>4, NoneHeld
        <5>4. TermsHeld(sink.inverted \cup moved, l, p) = TermsHeld(sink.inverted, l, p) \cup TermsHeld(moved, l, p)
          BY HeldInBoth
        <5> QED BY <5>1, <5>2, <5>3, <5>4
      <4>8. Says(next.inverted, l, p, v, several)
        BY <4>3, <4>7 DEF Says
      <4> QED BY <4>8 DEF v
    <3> QED BY <3>1, <3>2
  <2> HIDE DEF moved
  <2>12. Matched(next, after, several)
    BY <1>3, <1>4, <1>5, <2>6, <2>7, <2>9, <2>10, <2>11 DEF Matched
  <2> QED BY <2>12 DEF next, after, forward
<1> QED BY <1>2, <1>6, <1>7

(* Merging a file into a component and that into a corpus comes to the same as      *)
(* merging the component first and the file behind it.                          *)
LEMMA MergedTwice ==
  ASSUME NEW several, NEW a, DOMAIN a = SinkFields, a.position \in Nat,
         NEW b, DOMAIN b = SinkFields, b.position \in Nat, NEW c, IndexedSink(c, several)
  PROVE  \A f \in Indexing \ {"forward"} : MergeFrom(a, MergeFrom(b, c))[f] = MergeFrom(MergeFrom(a, b), c)[f]
<1> DEFINE p == a.position
           q == b.position
           bc == MergeFrom(b, c)
           ab == MergeFrom(a, b)
           left == MergeFrom(a, bc)
           right == MergeFrom(ab, c)
           By(S, n) == {<<e[1], e[2], e[3] + n>> : e \in S}
           Up(S, n) == {i + n : i \in S}
<1>1. /\ DOMAIN bc = SinkFields /\ bc.inverted = b.inverted \cup By(c.inverted, q)
      /\ bc.lexicon = b.lexicon \cup c.lexicon /\ bc.layers = b.layers \cup c.layers
      /\ bc.spacing = b.spacing \cup Up(c.spacing, q) /\ bc.position = q + c.position
  BY MergedParts DEF MergedInverted
<1>2. /\ DOMAIN ab = SinkFields /\ ab.inverted = a.inverted \cup By(b.inverted, p)
      /\ ab.lexicon = a.lexicon \cup b.lexicon /\ ab.layers = a.layers \cup b.layers
      /\ ab.spacing = a.spacing \cup Up(b.spacing, p) /\ ab.position = p + q
  BY MergedParts DEF MergedInverted
<1>3. c.position \in Nat /\ c.spacing \subseteq Nat /\ \A e \in c.inverted : e[3] \in Nat
  <2>1. c.position \in Nat /\ c.spacing \subseteq 0 .. c.position - 1
    BY DEF IndexedSink
  <2>2. Lists(c.inverted, DOMAIN c.forward.layers, c.forward.tokens)
    BY DEF IndexedSink
  <2>3. \A e \in c.inverted : e[3] \in Nat
    BY <2>2 DEF Lists
  <2> QED BY <2>1, <2>3
<1> HIDE DEF ab, bc
<1>4. /\ left.inverted = a.inverted \cup By(bc.inverted, p)
      /\ left.lexicon = a.lexicon \cup bc.lexicon /\ left.layers = a.layers \cup bc.layers
      /\ left.spacing = a.spacing \cup Up(bc.spacing, p) /\ left.position = p + bc.position
  BY MergedParts DEF MergedInverted
<1>5. /\ right.inverted = ab.inverted \cup By(c.inverted, ab.position)
      /\ right.lexicon = ab.lexicon \cup c.lexicon /\ right.layers = ab.layers \cup c.layers
      /\ right.spacing = ab.spacing \cup Up(c.spacing, ab.position) /\ right.position = ab.position + c.position
  BY <1>2, MergedParts DEF MergedInverted
<1> HIDE DEF left, right
<1>6. By(bc.inverted, p) = By(b.inverted, p) \cup By(c.inverted, ab.position)
  <2>1. ASSUME NEW e \in c.inverted
        PROVE  <<e[1], e[2], e[3] + q>>[1] = e[1] /\ <<e[1], e[2], e[3] + q>>[2] = e[2]
               /\ <<e[1], e[2], e[3] + q>>[3] + p = e[3] + (p + q)
    BY <1>3
  <2>2. By(By(c.inverted, q), p) = By(c.inverted, p + q)
    <3>1. ASSUME NEW x \in By(By(c.inverted, q), p) PROVE x \in By(c.inverted, p + q)
      <4>1. PICK y \in By(c.inverted, q) : x = <<y[1], y[2], y[3] + p>>
        OBVIOUS
      <4>2. PICK e \in c.inverted : y = <<e[1], e[2], e[3] + q>>
        OBVIOUS
      <4>3. x = <<e[1], e[2], e[3] + (p + q)>>
        BY <2>1, <4>1, <4>2
      <4> QED BY <4>3
    <3>2. ASSUME NEW x \in By(c.inverted, p + q) PROVE x \in By(By(c.inverted, q), p)
      <4>1. PICK e \in c.inverted : x = <<e[1], e[2], e[3] + (p + q)>>
        OBVIOUS
      <4> DEFINE y == <<e[1], e[2], e[3] + q>>
      <4>2. y \in By(c.inverted, q) /\ x = <<y[1], y[2], y[3] + p>>
        BY <2>1, <4>1
      <4> HIDE DEF y
      <4> QED BY <4>2
    <3> QED BY <3>1, <3>2
  <2>3. By(b.inverted \cup By(c.inverted, q), p) = By(b.inverted, p) \cup By(By(c.inverted, q), p)
    <3> DEFINE T == By(c.inverted, q)
    <3> HIDE DEF T
    <3>1. By(b.inverted \cup T, p) = By(b.inverted, p) \cup By(T, p)
      OBVIOUS
    <3> QED BY <3>1 DEF T
  <2> HIDE DEF By
  <2> QED BY <1>1, <1>2, <2>2, <2>3
<1>7. Up(bc.spacing, p) = Up(b.spacing, p) \cup Up(c.spacing, ab.position)
  <2>1. Up(Up(c.spacing, q), p) = Up(c.spacing, p + q)
    <3>1. \A i \in c.spacing : (i + q) + p = i + (p + q)
      BY <1>3
    <3>2. ASSUME NEW x \in Up(Up(c.spacing, q), p) PROVE x \in Up(c.spacing, p + q)
      <4>1. PICK y \in Up(c.spacing, q) : x = y + p
        OBVIOUS
      <4>2. PICK i \in c.spacing : y = i + q
        OBVIOUS
      <4>3. x = i + (p + q)
        BY <3>1, <4>1, <4>2
      <4> QED BY <4>3
    <3>3. ASSUME NEW x \in Up(c.spacing, p + q) PROVE x \in Up(Up(c.spacing, q), p)
      <4>1. PICK i \in c.spacing : x = i + (p + q)
        OBVIOUS
      <4>2. i + q \in Up(c.spacing, q) /\ x = (i + q) + p
        BY <3>1, <4>1
      <4> QED BY <4>2
    <3> QED BY <3>2, <3>3
  <2>2. Up(b.spacing \cup Up(c.spacing, q), p) = Up(b.spacing, p) \cup Up(Up(c.spacing, q), p)
    <3> DEFINE T == Up(c.spacing, q)
    <3> HIDE DEF T
    <3>1. Up(b.spacing \cup T, p) = Up(b.spacing, p) \cup Up(T, p)
      OBVIOUS
    <3> QED BY <3>1 DEF T
  <2> HIDE DEF Up
  <2> QED BY <1>1, <1>2, <2>1, <2>2
<1>8. left.position = right.position
  BY <1>1, <1>2, <1>3, <1>4, <1>5
<1> HIDE DEF By, Up
<1>9. /\ left.inverted = right.inverted /\ left.lexicon = right.lexicon /\ left.layers = right.layers
      /\ left.spacing = right.spacing
  BY <1>1, <1>2, <1>4, <1>5, <1>6, <1>7
<1> QED BY <1>8, <1>9 DEF Indexing, left, right, ab, bc

(* The state of a build between two files, of which whole was gathered before. *)
BuildMatched(whole, build, several) ==
  /\ DOMAIN build = {"sink", "streaming", "offset"} /\ build.offset = whole.position
  /\ DOMAIN build.sink = SinkFields /\ build.sink.position \in Nat
  /\ Matched(MergeFrom(whole, build.sink), build.streaming, several)

(* A sink that nothing is in. *)
LEMMA NothingMerged ==
  ASSUME NEW several, NEW sink, DOMAIN sink = SinkFields, NEW streaming, Matched(sink, streaming, several)
  PROVE  Matched(MergeFrom(sink, NewSink), streaming, several)
<1> DEFINE next == MergeFrom(sink, NewSink)
<1>1. /\ NewSink.inverted = {} /\ NewSink.lexicon = {} /\ NewSink.layers = BaseLayers
      /\ NewSink.spacing = {} /\ NewSink.position = 0
  BY DEF NewSink
<1>2. /\ next.inverted = MergedInverted(sink.inverted, NewSink.inverted, sink.position)
      /\ next.lexicon = sink.lexicon \cup NewSink.lexicon /\ next.layers = sink.layers \cup NewSink.layers
      /\ next.spacing = sink.spacing \cup {p + sink.position : p \in NewSink.spacing}
      /\ next.position = sink.position + NewSink.position
  BY MergedParts
<1> HIDE DEF next
<1>3. sink.position \in Nat
  BY DEF Matched
<1>4. /\ next.inverted = sink.inverted /\ next.lexicon = sink.lexicon /\ next.spacing = sink.spacing
      /\ next.position = sink.position /\ sink.layers \subseteq next.layers
  BY <1>1, <1>2, <1>3 DEF MergedInverted
<1>5. DOMAIN streaming.layers \subseteq next.layers
  BY <1>4 DEF Matched
<1>6. Matched(next, streaming, several)
  BY <1>4, <1>5 DEF Matched
<1> QED BY <1>6 DEF next

(* One more file. *)
LEMMA TakeFileMatches ==
  ASSUME NEW several, NEW whole, DOMAIN whole = SinkFields, whole.position \in Nat,
         NEW build, BuildMatched(whole, build, several), NEW sink, IndexedSink(sink, several)
  PROVE  BuildMatched(whole, TakeFile(build, sink), several)
<1> DEFINE before == MergeFrom(whole, build.sink)
           merged == MergeFrom(build.sink, sink)
           streaming == AppendFrom(build.streaming, sink.forward, build.offset + build.sink.position)
           next == TakeFile(build, sink)
<1>1. next = IF sink.position = 0 THEN build ELSE [build EXCEPT !.streaming = streaming, !.sink = merged]
  BY Zenon DEF TakeFile
<1>2. CASE sink.position = 0
  BY <1>1, <1>2
<1>3. CASE sink.position # 0
  <2>1. DOMAIN before = SinkFields /\ before.position = build.offset + build.sink.position
    BY MergedParts DEF BuildMatched
  <2>2. DOMAIN merged = SinkFields /\ merged.position = build.sink.position + sink.position
    BY MergedParts DEF BuildMatched
  <2>3. merged.position \in Nat
    BY <2>2 DEF BuildMatched, IndexedSink
  <2>4. Matched(before, build.streaming, several)
    BY DEF BuildMatched
  <2>5. \A f \in Indexing \ {"forward"} : MergeFrom(whole, merged)[f] = MergeFrom(before, sink)[f]
    BY MergedTwice DEF BuildMatched
  <2> HIDE DEF before, merged, next
  <2>6. Matched(MergeFrom(before, sink), streaming, several)
    BY <2>1, <2>4, MergeMatches
  <2> HIDE DEF streaming
  <2>7. Matched(MergeFrom(whole, merged), streaming, several)
    BY <2>5, <2>6, SameMatch
  <2>8. /\ DOMAIN next = {"sink", "streaming", "offset"} /\ next.offset = build.offset
        /\ next.sink = merged /\ next.streaming = streaming
    BY <1>1, <1>3 DEF BuildMatched
  <2> QED BY <2>2, <2>3, <2>7, <2>8 DEF BuildMatched, next
<1> QED BY <1>2, <1>3

(* A directory is built and merged into what there is: whatever its files hold,     *)
(* the inverted index, the lexicon and the layers of the merged sink are those of   *)
(* what has been streamed to the forward index by then.  They list one term for     *)
(* each value, but in the layers that a token of the files has several terms of, as *)
(* where a key comes again among its features: there one of those listed.         *)
THEOREM DirectoryMatched ==
  ASSUME NEW several, NEW files, IsDirectory(files), NEW strict \in BOOLEAN, NEW decompose,
         NEW whole, DOMAIN whole = SinkFields, NEW streaming, Matched(whole, streaming, several),
         \A path \in DOMAIN files : SeveralIn(files[path], strict, decompose) \subseteq several,
         NEW b, b = BuildFromDirectory(files, strict, decompose, streaming, whole.position), b.ok
  PROVE  Matched(MergeFrom(whole, b.sink), b.streaming, several)
<1> DEFINE paths == Sorted(DOMAIN files)
           sinks == [i \in DOMAIN paths |-> FileSink(files[paths[i]], strict, decompose)]
           base == [sink |-> NewSink, streaming |-> streaming, offset |-> whole.position]
           merged == FilesTaken(base, sinks)
           n == Len(paths)
<1>1. b = IF \E path \in DOMAIN files : ~ReadFile(files[path], strict).ok THEN [ok |-> FALSE]
          ELSE [ok |-> TRUE, sink |-> merged.sink, streaming |-> merged.streaming]
  BY Zenon DEF BuildFromDirectory, Mapped, FilesTaken
<1>2. IsSequence(paths) /\ \A i \in DOMAIN paths : paths[i] \in DOMAIN files
  BY SortedNames DEF IsDirectory
<1>3. whole.position \in Nat
  BY DEF Matched
<1> HIDE DEF merged, paths
<1>4. b.sink = merged.sink /\ b.streaming = merged.streaming
  BY <1>1
<1>5. n \in Nat /\ DOMAIN paths = 1 .. n
  BY <1>2, Indexed
<1>6. \A i \in DOMAIN paths : IndexedSink(sinks[i], several)
  <2> TAKE i \in DOMAIN paths
  <2> DEFINE file == files[paths[i]]
  <2>1. /\ IsFile(file) /\ sinks[i] = FileSink(file, strict, decompose)
        /\ SeveralIn(file, strict, decompose) \subseteq several
    BY <1>2 DEF IsDirectory
  <2> HIDE DEF file, sinks
  <2> QED BY <2>1, FileSinkIndexed
<1>7. sinks = [i \in DOMAIN paths |-> sinks[i]]
  OBVIOUS
<1> HIDE DEF sinks
<1>8. IsSequence(sinks) /\ Len(sinks) = n
  BY <1>2, <1>7, OneForOne
<1>9. PICK run : /\ run[0] = base
                 /\ \A k \in 1 .. n : run[k] = Step("file", 0, run[k - 1], sinks[k])
                 /\ merged = run[n]
  BY <1>8, FileRun DEF Runs, merged
<1>10. BuildMatched(whole, base, several)
  <2>1. DOMAIN NewSink = SinkFields /\ NewSink.position = 0
    BY DEF NewSink, SinkFields
  <2>2. Matched(MergeFrom(whole, NewSink), streaming, several)
    BY NothingMerged
  <2> QED BY <2>1, <2>2 DEF BuildMatched
<1> HIDE DEF n, base
<1> DEFINE Good == {k \in 0 .. n : BuildMatched(whole, run[k], several)}
<1>11. 0 \in Good
  BY <1>5, <1>9, <1>10
<1>12. ASSUME NEW k \in 1 .. n, k - 1 \in Good PROVE k \in Good
  <2>1. BuildMatched(whole, run[k - 1], several) /\ k \in 0 .. n /\ IndexedSink(sinks[k], several)
    BY <1>5, <1>6, <1>12
  <2>2. run[k] = TakeFile(run[k - 1], sinks[k])
    BY <1>9 DEF Step
  <2>3. BuildMatched(whole, TakeFile(run[k - 1], sinks[k]), several)
    BY <1>3, <2>1, TakeFileMatches
  <2> QED BY <2>1, <2>2, <2>3
<1>13. \A k \in 0 .. n : k \in Good
  <2> HIDE DEF Good
  <2> QED BY <1>5, <1>11, <1>12, CountedUp
<1>14. BuildMatched(whole, merged, several)
  BY <1>5, <1>9, <1>13
<1> QED BY <1>4, <1>14 DEF BuildMatched

(* Nothing is streamed at first, and nothing is in the sink. *)
LEMMA NewBuildMatched ==
  ASSUME NEW several
  PROVE  DOMAIN NewSink = SinkFields /\ Matched(NewSink, NewStreaming, several)
<1>1. /\ DOMAIN NewSink = SinkFields /\ NewSink.inverted = {} /\ NewSink.lexicon = {} /\ NewSink.position = 0
      /\ NewSink.spacing = {} /\ NewStreaming.layers = <<>> /\ NewStreaming.tokens = 0
  BY DEF NewSink, NewStreaming, SinkFields
<1>2. DOMAIN <<>> = {} /\ Lists({}, {}, 0) /\ TermsOf({}) = {}
  BY DEF Lists, TermsOf
<1> QED BY <1>1, <1>2 DEF Matched

(* What is read back of a position is one of the terms that list it, the empty one  *)
(* apart, and is nothing where none does.                                       *)
ReadsOne(held, read) == IF held = {} THEN read = {} ELSE \E t \in held : read = {t} \ {""}

(* The two files say the same: the inverted index lists positions the forward index *)
(* has, under layers it has, and of every one of its layers, but for those that are *)
(* kept out of the inverted index, it reads back at any position the term that      *)
(* lists the position, or none if none does.  Where several may list it, one.       *)
SameTerms(inverted, file, several) ==
  /\ Lists(inverted, DOMAIN file.layers, file.tokens)
  /\ \A l \in DOMAIN file.layers \ ForwardOnlyLayers : \A p \in Nat :
       LET held == TermsHeld(inverted, l, p)
           read == GetStr(file, p, l)
       IN ReadsOne(held, read) /\ (l \in several \/ read = held \ {""})

(* What Says says of a term that is read back. *)
LEMMA OneTermHeld ==
  ASSUME NEW several, NEW inverted, NEW l, NEW p, NEW v, Says(inverted, l, p, v, several),
         NEW read, read = IF IsTerm(v) THEN {v[2]} ELSE {}
  PROVE  LET held == TermsHeld(inverted, l, p)
         IN ReadsOne(held, read) /\ (l \in several \/ read = held \ {""})
<1> DEFINE held == TermsHeld(inverted, l, p)
<1>1. \A t : Str(t)[1] = "s" /\ Str(t)[2] = t
  BY DEF Str
<1>2. /\ IF held = {} THEN v = Absent ELSE \E t \in held : v = Str(t)
      /\ l \in several \/ \A t \in held : v = Str(t)
  BY Zenon DEF Says
<1> HIDE DEF held
<1>3. \A t : v = Str(t) => read = {t} \ {""}
  <2> TAKE t
  <2> HAVE v = Str(t)
  <2>1. v[1] = "s" /\ v[2] = t /\ (v = Absent <=> t = "")
    BY <1>1 DEF Absent
  <2> QED BY <2>1 DEF IsTerm
<1>4. CASE held = {}
  <2>1. read = {}
    BY <1>2, <1>3, <1>4 DEF Absent
  <2> QED BY <1>4, <2>1 DEF ReadsOne, held
<1>5. CASE held # {}
  <2>1. PICK t \in held : v = Str(t)
    BY <1>2, <1>5
  <2>2. read = {t} \ {""}
    BY <1>3, <2>1
  <2>3. ASSUME NEW s \in held, v = Str(s) PROVE s = t
    <3>1. v[2] = s /\ v[2] = t
      BY <1>1, <2>1, <2>3
    <3> QED BY <3>1
  <2>4. l \in several \/ held = {t}
    BY <1>2, <2>1, <2>3
  <2> QED BY <1>5, <2>1, <2>2, <2>4 DEF ReadsOne, held
<1> QED BY <1>4, <1>5

(* The inverted index and the forward index that a build writes say the same, of    *)
(* every layer and every position, whatever the files that were merged: what is     *)
(* found by a term is what is read at the position, and the other way round.  In a   *)
(* layer that tokens have several terms of, what is read is one of those.          *)
THEOREM WrittenIndexesAgree ==
  ASSUME NEW several, NEW sink, NEW streaming, Matched(sink, streaming, several)
  PROVE  /\ SameTerms(sink.inverted, Finalize(streaming), several)
         /\ Finalize(streaming).tokens \in 0 .. sink.position
         /\ DOMAIN Finalize(streaming).layers \subseteq sink.layers
<1> DEFINE file == Finalize(streaming)
           Layer(l) == LET values == PaddedTo(streaming.layers[l].values, streaming.tokens)
                       IN IF streaming.layers[l].numeric THEN DenseNumeric(values, streaming.tokens)
                          ELSE DictEncoded(values)
<1>1. file = [tokens |-> streaming.tokens, layers |-> [l \in DOMAIN streaming.layers |-> Layer(l)]]
  BY Zenon DEF Finalize, ForwardFile
<1> HIDE DEF Layer, file
<1>2. file.tokens = streaming.tokens /\ DOMAIN file.layers = DOMAIN streaming.layers
  BY <1>1
<1>3. ASSUME NEW l \in DOMAIN streaming.layers, l \notin ForwardOnlyLayers, NEW p \in Nat
      PROVE  LET held == TermsHeld(sink.inverted, l, p)
                 read == GetStr(file, p, l)
             IN ReadsOne(held, read) /\ (l \in several \/ read = held \ {""})
  <2> DEFINE v == StreamedAt(streaming, l, p)
  <2>1. PICK X : Absent \in X /\ StreamFits(streaming, X)
    BY NewSinkIndexed, SomeValues
  <2>2. ~streaming.layers[l].numeric
    BY <1>3, Zenon DEF Matched
  <2>3. GetStr(file, p, l) = IF IsTerm(v) THEN {v[2]} ELSE {}
    BY <2>1, <2>2, StreamReadBack DEF file
  <2>4. Says(sink.inverted, l, p, v, several)
    BY <1>3, StreamSays
  <2> HIDE DEF v
  <2> QED BY <2>3, <2>4, OneTermHeld
<1>4. /\ Lists(sink.inverted, DOMAIN streaming.layers, streaming.tokens)
      /\ streaming.tokens \in 0 .. sink.position /\ DOMAIN streaming.layers \subseteq sink.layers
  BY Zenon DEF Matched
<1> QED BY <1>2, <1>3, <1>4 DEF SameTerms, file

-----------------------------------------------------------------------------
(* Lookups in tiles. *)

(* Tiles in order: what the lookups need of spans. *)
LEMMA TilesOrder ==
  ASSUME NEW spans, NEW n, Tiles(spans, n)
  PROVE  /\ Len(spans) \in Nat /\ DOMAIN spans = 1 .. Len(spans) /\ n \in Nat
         /\ \A i \in 1 .. Len(spans) :
              /\ spans[i].start \in Nat /\ spans[i].end \in Nat /\ spans[i].start < spans[i].end
              /\ spans[i].end <= n
              /\ \A j \in 1 .. Len(spans) : i < j => spans[i].end <= spans[j].start
<1> DEFINE q == Len(spans)
<1>1. q \in Nat /\ DOMAIN spans = 1 .. q
  BY Indexed DEF Tiles
<1> HIDE DEF q
<1>2. \A i \in 1 .. q : /\ spans[i].start \in Nat /\ spans[i].end \in Nat /\ spans[i].start < spans[i].end
                        /\ spans[i].start = IF i = 1 THEN 0 ELSE spans[i - 1].end
  BY <1>1 DEF Tiles
<1> DEFINE Good == {k \in 0 .. q : \A i \in 1 .. q : i < k => spans[i].end <= spans[k].start}
<1>3. 0 \in Good
  BY <1>1
<1>4. ASSUME NEW k \in 1 .. q, k - 1 \in Good PROVE k \in Good
  <2>1. ASSUME NEW i \in 1 .. q, i < k PROVE spans[i].end <= spans[k].start
    <3>1. k \in Nat /\ i \in Nat /\ k # 1 /\ k - 1 \in 1 .. q
      BY <1>1, <1>4, <2>1
    <3>2. spans[k].start = spans[k - 1].end /\ spans[k - 1].start < spans[k - 1].end
      BY <1>2, <3>1
    <3>3. CASE i = k - 1
      BY <1>2, <3>1, <3>2, <3>3
    <3>4. CASE i < k - 1
      <4>1. spans[i].end <= spans[k - 1].start
        BY <1>4, <2>1, <3>4
      <4>2. spans[i].end \in Nat /\ spans[k - 1].start \in Nat /\ spans[k - 1].end \in Nat
        BY <1>2, <2>1, <3>1
      <4> QED BY <3>2, <4>1, <4>2
    <3> QED BY <2>1, <3>1, <3>3, <3>4
  <2> QED BY <1>1, <2>1
<1>5. \A k \in 0 .. q : k \in Good
  <2> HIDE DEF Good
  <2> QED BY <1>1, <1>3, <1>4, CountedUp
<1>6. \A i \in 1 .. q : \A j \in 1 .. q : i < j => spans[i].end <= spans[j].start
  BY <1>1, <1>5
<1>7. n \in Nat /\ \A i \in 1 .. q : spans[i].end <= n
  <2>1. n = IF q = 0 THEN 0 ELSE spans[q].end
    BY DEF Tiles, q
  <2>2. CASE q = 0
    BY <2>1, <2>2
  <2>3. CASE q # 0
    <3>1. q \in 1 .. q /\ spans[q].start \in Nat /\ spans[q].end \in Nat /\ spans[q].start < spans[q].end
      BY <1>1, <1>2, <2>3
    <3>2. ASSUME NEW i \in 1 .. q PROVE spans[i].end <= n
      <4>1. CASE i = q
        BY <2>1, <2>3, <3>1, <4>1
      <4>2. CASE i < q
        <5>1. spans[i].end <= spans[q].start /\ spans[i].end \in Nat
          BY <1>2, <1>6, <3>1, <4>2
        <5> QED BY <2>1, <2>3, <3>1, <5>1
      <4> QED BY <1>1, <4>1, <4>2
    <3> QED BY <2>1, <2>3, <3>1, <3>2
  <2> QED BY <2>2, <2>3
<1> QED BY <1>1, <1>2, <1>6, <1>7 DEF q

(* Hence tiles are in the orders the searches need. *)
LEMMA TilesInOrder ==
  ASSUME NEW spans, NEW n, Tiles(spans, n)
  PROVE  InDisjointOrder(spans) /\ InStartOrder(spans)
<1> DEFINE q == Len(spans)
<1>1. q \in Nat /\ DOMAIN spans = 1 .. q
  BY TilesOrder
<1>2. \A i \in 1 .. q :
        /\ spans[i].start \in Nat /\ spans[i].end \in Nat /\ spans[i].start < spans[i].end
        /\ \A j \in 1 .. q : i < j => spans[i].end <= spans[j].start
  BY TilesOrder
<1> HIDE DEF q
<1>3. InDisjointOrder(spans)
  BY <1>1, <1>2 DEF InDisjointOrder
<1>4. InStartOrder(spans)
  BY <1>1, <1>2 DEF InStartOrder
<1> QED BY <1>3, <1>4

(* Sorting leaves tiles where they are. *)
LEMMA SortedTiles ==
  ASSUME NEW spans, NEW n, Tiles(spans, n)
  PROVE  SortedSpans(spans) = spans
<1> DEFINE q == Len(spans)
           S == 1 .. q
           Before(i, j) == spans[i].start < spans[j].start \/ (spans[i].start = spans[j].start /\ i < j)
           order == [i \in 1 .. Cardinality(S) |-> CHOOSE x \in S : Cardinality({y \in S : Before(y, x)}) = i - 1]
<1>1. q \in Nat /\ DOMAIN spans = S
  BY TilesOrder
<1>2. \A i \in S :
        /\ spans[i].start \in Nat /\ spans[i].end \in Nat /\ spans[i].start < spans[i].end
        /\ \A j \in S : i < j => spans[i].end <= spans[j].start
  BY TilesOrder
<1>3. SortedSpans(spans) = [k \in DOMAIN order |-> spans[order[k]]]
  <2>1. SortedSpans(spans) =
          [k \in DOMAIN [i \in 1 .. Cardinality(DOMAIN spans) |->
                           CHOOSE x \in DOMAIN spans : Cardinality({y \in DOMAIN spans : Before(y, x)}) = i - 1] |->
             spans[[i \in 1 .. Cardinality(DOMAIN spans) |->
                      CHOOSE x \in DOMAIN spans : Cardinality({y \in DOMAIN spans : Before(y, x)}) = i - 1][k]]]
    BY Zenon DEF SortedSpans, InOrder
  <2> HIDE DEF S
  <2> QED BY <1>1, <2>1
<1> HIDE DEF q
<1>4. Cardinality(S) = q
  BY <1>1, FS_Interval
<1>5. ASSUME NEW x \in S PROVE Cardinality({y \in S : Before(y, x)}) = x - 1
  <2>1. ASSUME NEW y \in S PROVE Before(y, x) <=> y \in 1 .. x - 1
    <3>1. x \in Nat /\ y \in Nat
      BY <1>1
    <3>2. CASE y < x
      <4>1. spans[y].end <= spans[x].start /\ spans[y].start < spans[y].end
        BY <1>2, <3>2
      <4>2. spans[y].start \in Nat /\ spans[y].end \in Nat /\ spans[x].start \in Nat
        BY <1>2
      <4> QED BY <1>1, <3>1, <3>2, <4>1, <4>2
    <3>3. CASE y = x
      <4>1. spans[x].start \in Nat
        BY <1>2
      <4> QED BY <3>1, <3>3, <4>1
    <3>4. CASE x < y
      <4>1. spans[x].end <= spans[y].start /\ spans[x].start < spans[x].end
        BY <1>2, <3>4
      <4>2. spans[y].start \in Nat /\ spans[x].end \in Nat /\ spans[x].start \in Nat
        BY <1>2
      <4> QED BY <1>1, <3>1, <3>4, <4>1, <4>2
    <3> QED BY <3>1, <3>2, <3>3, <3>4
  <2>2. {y \in S : Before(y, x)} = 1 .. x - 1
    <3>1. \A y \in 1 .. x - 1 : y \in S
      BY <1>1
    <3> HIDE DEF Before, S
    <3> QED BY <2>1, <3>1
  <2>3. x \in Nat /\ x >= 1 /\ x - 1 \in Nat
    BY <1>1
  <2>4. Cardinality(1 .. x - 1) = x - 1
    BY <2>3, FS_Interval
  <2> QED BY <2>2, <2>4
<1>6. ASSUME NEW i \in S PROVE order[i] = i
  <2>1. order[i] = CHOOSE x \in S : Cardinality({y \in S : Before(y, x)}) = i - 1
    BY <1>4
  <2> HIDE DEF Before
  <2>2. \A x \in S : Cardinality({y \in S : Before(y, x)}) = i - 1 <=> x = i
    BY <1>1, <1>5
  <2> DEFINE P(x) == Cardinality({y \in S : Before(y, x)}) = i - 1
  <2>3. order[i] = CHOOSE x \in S : P(x)
    BY <2>1
  <2>4. \A x \in S : P(x) <=> x = i
    BY <2>2
  <2> HIDE DEF P, S
  <2>5. (CHOOSE x \in S : P(x)) = i
    BY <2>4
  <2> QED BY <2>3, <2>5
<1>7. DOMAIN order = S
  BY <1>4
<1>8. spans = [k \in S |-> spans[k]]
  <2>1. spans \in [1 .. Len(spans) -> {spans[i] : i \in DOMAIN spans}]
    BY DEF Tiles, IsSequence
  <2> QED BY <2>1 DEF q
<1> HIDE DEF order, S
<1>9. [k \in DOMAIN order |-> spans[order[k]]] = [k \in S |-> spans[k]]
  BY <1>6, <1>7
<1> QED BY <1>3, <1>8, <1>9

(* Hence the spans that are written are those that were gathered. *)
LEMMA FinalizedTiles ==
  ASSUME NEW spans, NEW layer, NEW n, Tiles(LayerOf(spans, layer), n)
  PROVE  LayerOf(FinalizedSpans(spans), layer) = LayerOf(spans, layer)
<1>1. DOMAIN FinalizedSpans(spans) = DOMAIN spans
  BY DEF FinalizedSpans
<1>2. \A l \in DOMAIN spans : FinalizedSpans(spans)[l] = SortedSpans(spans[l])
  BY DEF FinalizedSpans
<1>3. CASE layer \in DOMAIN spans
  <2>1. Tiles(spans[layer], n)
    BY <1>3 DEF LayerOf
  <2>2. SortedSpans(spans[layer]) = spans[layer]
    BY <2>1, SortedTiles
  <2> QED BY <1>1, <1>2, <1>3, <2>2 DEF LayerOf
<1>4. CASE layer \notin DOMAIN spans
  BY <1>1, <1>4 DEF LayerOf
<1> QED BY <1>3, <1>4

(* Every position below n is in one tile, which the lookup finds; it finds none   *)
(* for a position from n on.                                                    *)
THEOREM EveryPositionInOneSpan ==
  ASSUME NEW spans, NEW n, Tiles(spans, n), NEW p \in Nat
  PROVE  /\ p >= n => SpanContaining(spans, p) = {}
         /\ p < n => \E i \in 0 .. Len(spans) - 1 :
                       /\ SpanContaining(spans, p) = {i}
                       /\ spans[i + 1].start <= p /\ p < spans[i + 1].end
<1> DEFINE q == Len(spans)
<1>1. q \in Nat /\ DOMAIN spans = 1 .. q /\ n \in Nat
  BY TilesOrder
<1>2. \A i \in 1 .. q :
        /\ spans[i].start \in Nat /\ spans[i].end \in Nat /\ spans[i].start < spans[i].end
        /\ spans[i].end <= n
        /\ \A j \in 1 .. q : i < j => spans[i].end <= spans[j].start
  BY TilesOrder
<1>3. SpanContaining(spans, p) = {i \in 0 .. q - 1 : spans[i + 1].start <= p /\ p < spans[i + 1].end}
  <2>1. InDisjointOrder(spans) /\ spans \in Seq({spans[i] : i \in DOMAIN spans})
    BY TilesInOrder DEF Tiles, IsSequence
  <2> QED BY <2>1, SpanContainingIsExact
<1> DEFINE holds == {i \in 0 .. q - 1 : spans[i + 1].start <= p /\ p < spans[i + 1].end}
<1> HIDE DEF q
<1>4. ASSUME p >= n PROVE holds = {}
  <2>1. \A i \in 0 .. q - 1 : spans[i + 1].end <= n /\ spans[i + 1].end \in Nat
    BY <1>1, <1>2
  <2> QED BY <1>1, <1>4, <2>1
<1>5. ASSUME p < n PROVE \E i \in holds : TRUE
  <2> DEFINE End(k) == IF k = 0 THEN 0 ELSE spans[k].end
             Good == {k \in 0 .. q : p < End(k) => \E i \in holds : TRUE}
  <2>1. 0 \in Good
    BY <1>1
  <2>2. ASSUME NEW k \in 1 .. q, k - 1 \in Good PROVE k \in Good
    <3>1. k \in 0 .. q /\ k # 0
      BY <1>1
    <3>2. ASSUME p < spans[k].end PROVE \E i \in holds : TRUE
      <4>1. CASE spans[k].start <= p
        <5>1. k - 1 \in holds
          BY <1>1, <3>2, <4>1
        <5> QED BY <5>1
      <4>2. CASE p < spans[k].start
        <5>1. spans[k].start = End(k - 1)
          <6>1. spans[k].start = IF k = 1 THEN 0 ELSE spans[k - 1].end
            BY <1>1 DEF Tiles
          <6> QED BY <6>1
        <5> QED BY <2>2, <4>2, <5>1
      <4>3. spans[k].start \in Nat
        BY <1>2
      <4> QED BY <4>1, <4>2, <4>3
    <3> HIDE DEF holds
    <3> QED BY <3>1, <3>2
  <2>3. \A k \in 0 .. q : k \in Good
    <3> HIDE DEF Good
    <3> QED BY <1>1, <2>1, <2>2, CountedUp
  <2>4. n = End(q)
    BY DEF Tiles, q
  <2> HIDE DEF holds
  <2> QED BY <1>1, <1>5, <2>3, <2>4
<1>6. ASSUME NEW i \in holds, NEW j \in holds PROVE i = j
  <2>1. i \in Int /\ j \in Int /\ i + 1 \in 1 .. q /\ j + 1 \in 1 .. q
    BY <1>1
  <2>2. ASSUME NEW x \in holds, NEW y \in holds, x < y PROVE FALSE
    <3>1. x + 1 \in 1 .. q /\ y + 1 \in 1 .. q /\ x + 1 < y + 1
      BY <1>1, <2>2
    <3>2. spans[x + 1].end <= spans[y + 1].start
      BY <1>2, <3>1
    <3>3. p < spans[x + 1].end /\ spans[y + 1].start <= p
      OBVIOUS
    <3>4. spans[x + 1].end \in Nat /\ spans[y + 1].start \in Nat
      BY <1>2, <3>1
    <3> QED BY <3>2, <3>3, <3>4
  <2> HIDE DEF holds
  <2>3. ~(i < j) /\ ~(j < i)
    BY <2>2
  <2> QED BY <2>1, <2>3
<1>7. ASSUME p < n
      PROVE  \E i \in 0 .. q - 1 : holds = {i} /\ spans[i + 1].start <= p /\ p < spans[i + 1].end
  <2>1. PICK i \in holds : TRUE
    BY <1>5, <1>7
  <2>2. holds = {i}
    <3> HIDE DEF holds
    <3> QED BY <1>6, <2>1
  <2> QED BY <2>1, <2>2
<1> QED BY <1>3, <1>4, <1>7 DEF q

(* A document has sentences, the first of them begins where the document does and  *)
(* the last ends where it does: first_sentence, last_sentence and sentence_count   *)
(* cut the sentences of a corpus at its documents.                               *)
THEOREM DocumentsCutTheSentences ==
  ASSUME NEW v, NEW n, Tiles(SpansOf(v, "sentence"), n), Tiles(SpansOf(v, "document"), n),
         StartsAmong(SpansOf(v, "document"), SpansOf(v, "sentence")),
         NEW d \in 0 .. Len(SpansOf(v, "document")) - 1
  PROVE  \E a \in 0 .. Len(SpansOf(v, "sentence")) - 1, b \in 0 .. Len(SpansOf(v, "sentence")) - 1 :
           /\ a <= b /\ SentencesInside(v, d) = a .. b
           /\ FirstSentenceOf(v, d) = {a} /\ LastSentenceOf(v, d) = {b} /\ SentenceCount(v, d) = b - a + 1
           /\ SpansOf(v, "sentence")[a + 1].start = SpansOf(v, "document")[d + 1].start
           /\ SpansOf(v, "sentence")[b + 1].end = SpansOf(v, "document")[d + 1].end
<1> DEFINE sents == SpansOf(v, "sentence")
           docs == SpansOf(v, "document")
           q == Len(sents)
           m == Len(docs)
           from == docs[d + 1].start
           to == docs[d + 1].end
<1>1. /\ q \in Nat /\ DOMAIN sents = 1 .. q /\ n \in Nat
      /\ \A i \in 1 .. q :
           /\ sents[i].start \in Nat /\ sents[i].end \in Nat /\ sents[i].start < sents[i].end
           /\ sents[i].end <= n
           /\ \A j \in 1 .. q : i < j => sents[i].end <= sents[j].start
  BY TilesOrder
<1>2. /\ m \in Nat /\ DOMAIN docs = 1 .. m
      /\ \A i \in 1 .. m :
           /\ docs[i].start \in Nat /\ docs[i].end \in Nat /\ docs[i].start < docs[i].end
           /\ docs[i].end <= n
           /\ \A j \in 1 .. m : i < j => docs[i].end <= docs[j].start
  BY TilesOrder
<1>3. /\ \A i \in 1 .. q : sents[i].start = IF i = 1 THEN 0 ELSE sents[i - 1].end
      /\ \A i \in 1 .. m : docs[i].start = IF i = 1 THEN 0 ELSE docs[i - 1].end
      /\ n = IF q = 0 THEN 0 ELSE sents[q].end
      /\ n = IF m = 0 THEN 0 ELSE docs[m].end
  BY <1>1, <1>2 DEF Tiles
<1>4. d + 1 \in 1 .. m /\ d \in Nat
  BY <1>2
<1>5. from \in Nat /\ to \in Nat /\ from < to /\ to <= n
  BY <1>2, <1>4
<1>6. PICK a \in 0 .. q, c \in 0 .. q :
           /\ SentencesInside(v, d) = a .. c - 1
           /\ FirstSentenceOf(v, d) = IF a < c THEN {a} ELSE {}
           /\ LastSentenceOf(v, d) = IF a < c THEN {c - 1} ELSE {}
  <2>1. InStartOrder(sents)
    BY TilesInOrder
  <2>2. sents \in Seq({sents[i] : i \in DOMAIN sents})
    BY DEF Tiles, IsSequence
  <2> QED BY <1>5, <2>1, <2>2, SentencesInsideBounds
<1>7. SentencesInside(v, d) = {i \in 0 .. q - 1 : from <= sents[i + 1].start /\ sents[i + 1].start < to}
  BY Zenon DEF SentencesInside
<1>8. \A i \in 1 .. m : \E k \in 1 .. q : sents[k].start = docs[i].start
  BY <1>1, <1>2 DEF StartsAmong
<1> HIDE DEF sents, docs, q, m
<1>9. ASSUME NEW i \in 0 .. q - 1
      PROVE  from <= sents[i + 1].start /\ sents[i + 1].start < to <=> i \in a .. c - 1
  BY <1>6, <1>7, <1>9
<1>10. PICK k \in 1 .. q : sents[k].start = from
  BY <1>4, <1>8
<1>11. k - 1 \in a .. c - 1
  <2>1. k - 1 \in 0 .. q - 1 /\ (k - 1) + 1 = k
    BY <1>1
  <2>2. from <= sents[(k - 1) + 1].start /\ sents[(k - 1) + 1].start < to
    BY <1>5, <1>10, <2>1
  <2> QED BY <1>9, <2>1, <2>2
<1>12. /\ a < c /\ a \in Nat /\ c \in Nat /\ a \in 0 .. q - 1 /\ c - 1 \in 0 .. q - 1 /\ c \in 1 .. q
       /\ a + 1 \in 1 .. q /\ a + 1 < c + 1 /\ ~(c \in a .. c - 1)
  <2>1. a < c /\ a \in Nat /\ c \in Nat /\ q \in Nat /\ c <= q
    BY <1>1, <1>6, <1>11
  <2> QED BY <2>1
<1>13. sents[a + 1].start = from
  <2>1. from <= sents[a + 1].start /\ a + 1 \in 1 .. q
    BY <1>1, <1>9, <1>12
  <2>2. CASE a + 1 = k
    BY <1>10, <2>2
  <2>3. CASE a + 1 < k
    <3>1. sents[a + 1].end <= sents[k].start /\ sents[a + 1].start < sents[a + 1].end
      BY <1>1, <2>1, <2>3
    <3>2. sents[a + 1].start \in Nat /\ sents[a + 1].end \in Nat /\ sents[k].start \in Nat
      BY <1>1, <2>1
    <3> QED BY <1>10, <2>1, <3>1, <3>2
  <2> QED BY <1>1, <1>11, <1>12, <2>2, <2>3
<1>14. sents[c].start < to /\ sents[c].end \in Nat /\ sents[c].start \in Nat
  <2>1. (c - 1) + 1 = c /\ c - 1 \in a .. c - 1
    BY <1>12
  <2>2. sents[(c - 1) + 1].start < to
    BY <1>9, <1>12, <2>1
  <2>3. sents[c].end \in Nat /\ sents[c].start \in Nat
    BY <1>1, <1>12
  <2> QED BY <2>1, <2>2, <2>3
<1>15. ASSUME d + 1 = m PROVE sents[c].end = to
  <2>1. to = n
    BY <1>2, <1>3, <1>4, <1>15
  <2>2. CASE c = q
    BY <1>1, <1>3, <1>12, <2>1, <2>2
  <2>3. CASE c # q
    <3>1. c + 1 \in 1 .. q /\ c \in 0 .. q - 1
      BY <1>1, <1>12, <2>3
    <3>2. sents[c + 1].start < sents[c + 1].end /\ sents[c + 1].end <= n
          /\ sents[c + 1].start \in Nat /\ sents[c + 1].end \in Nat
      BY <1>1, <3>1
    <3>3. sents[a + 1].end <= sents[c + 1].start /\ sents[a + 1].start < sents[a + 1].end
          /\ sents[a + 1].start \in Nat /\ sents[a + 1].end \in Nat
      BY <1>1, <1>12, <3>1
    <3>4. from <= sents[c + 1].start /\ sents[c + 1].start < to
      <4> DEFINE x == sents[a + 1].start
                 y == sents[a + 1].end
                 z == sents[c + 1].start
                 w == sents[c + 1].end
      <4>1. /\ x \in Nat /\ y \in Nat /\ z \in Nat /\ w \in Nat
            /\ x < y /\ y <= z /\ z < w /\ w <= n
        BY Zenon, <3>2, <3>3
      <4>2. from = x /\ to = n /\ n \in Nat
        BY <1>1, <1>13, <2>1
      <4> HIDE DEF x, y, z, w, from, to
      <4>3. from <= z /\ z < to
        BY <4>1, <4>2
      <4> QED BY <4>3 DEF z
    <3>5. c \in a .. c - 1
      BY Zenon, <1>9, <3>1, <3>4
    <3> QED BY Zenon, <1>12, <3>5
  <2> QED BY <2>2, <2>3
<1>16. ASSUME d + 1 # m PROVE sents[c].end = to
  <2>1. d + 2 \in 1 .. m /\ d + 2 # 1 /\ (d + 2) - 1 = d + 1
    BY <1>2, <1>4, <1>16
  <2>2. docs[d + 2].start = to
    BY <1>3, <2>1
  <2>3. PICK l \in 1 .. q : sents[l].start = to
    BY <1>8, <2>1, <2>2
  <2>4. l > c
    <3> SUFFICES ASSUME l <= c PROVE FALSE
      BY <1>1, <1>12
    <3>1. CASE l = c
      BY <1>5, <1>14, <2>3, <3>1
    <3>2. CASE l < c
      <4>1. sents[l].end <= sents[c].start /\ sents[l].start < sents[l].end /\ sents[l].end \in Nat
        BY <1>1, <1>12, <3>2
      <4> QED BY <1>5, <1>14, <2>3, <4>1
    <3> QED BY <1>1, <1>12, <3>1, <3>2
  <2>5. c + 1 \in 1 .. q /\ c \in 0 .. q - 1 /\ c + 1 # 1 /\ (c + 1) - 1 = c
    BY <1>1, <1>12, <2>4
  <2>6. sents[c + 1].start = sents[c].end
    BY <1>3, <2>5
  <2>7. sents[c + 1].start <= to
    <3>1. CASE l = c + 1
      BY <1>5, <2>3, <3>1
    <3>2. CASE l > c + 1
      <4>1. sents[c + 1].end <= sents[l].start /\ sents[c + 1].start < sents[c + 1].end
            /\ sents[c + 1].start \in Nat /\ sents[c + 1].end \in Nat
        BY <1>1, <2>5, <3>2
      <4> QED BY <1>5, <2>3, <4>1
    <3> QED BY <1>1, <1>12, <2>4, <3>1, <3>2
  <2>8. ~(sents[c + 1].start < to)
    <3> SUFFICES ASSUME sents[c + 1].start < to PROVE FALSE
      OBVIOUS
    <3>1. sents[a + 1].end <= sents[c + 1].start /\ sents[a + 1].start < sents[a + 1].end
          /\ sents[a + 1].start \in Nat /\ sents[a + 1].end \in Nat /\ sents[c + 1].start \in Nat
      BY <1>1, <1>12, <2>5
    <3>2. from <= sents[c + 1].start
      <4> DEFINE x == sents[a + 1].start
                 y == sents[a + 1].end
                 z == sents[c + 1].start
      <4>1. x \in Nat /\ y \in Nat /\ z \in Nat /\ x < y /\ y <= z
        BY Zenon, <3>1
      <4>2. from = x
        BY Zenon, <1>13
      <4> HIDE DEF x, y, z, from
      <4>3. from <= z
        BY <4>1, <4>2
      <4> QED BY <4>3 DEF z
    <3>3. c \in a .. c - 1
      BY Zenon, <1>9, <2>5, <3>2
    <3> QED BY Zenon, <1>12, <3>3
  <2>9. sents[c].end = to
    BY <1>5, <1>14, <2>6, <2>7, <2>8
  <2> QED BY <2>9
<1>17. sents[c].end = to
  BY <1>15, <1>16
<1>18. FirstSentenceOf(v, d) = {a} /\ LastSentenceOf(v, d) = {c - 1}
  BY <1>6, <1>12
<1>19. SentenceCount(v, d) = (c - 1) - a + 1
  <2>1. The({a}) = a /\ The({c - 1}) = c - 1 /\ {a} # {} /\ {c - 1} # {}
    BY DEF The
  <2>2. SentenceCount(v, d) = Larger((c - 1) - a + 1, 0)
    BY <1>18, <2>1 DEF SentenceCount
  <2> QED BY <1>12, <2>2 DEF Larger
<1>20. (c - 1) + 1 = c /\ a <= c - 1
  BY <1>12
<1>21. q = Len(SpansOf(v, "sentence")) /\ sents = SpansOf(v, "sentence") /\ to = SpansOf(v, "document")[d + 1].end
       /\ from = SpansOf(v, "document")[d + 1].start
  BY DEF q, sents, docs
<1> HIDE DEF from, to
<1> QED BY <1>6, <1>12, <1>13, <1>17, <1>18, <1>19, <1>20, <1>21
=============================================================================

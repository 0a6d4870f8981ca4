------------------------ MODULE PageSelectionProofs ------------------------
(***************************************************************************)
(* Proofs about PageSelection, for every number of selections, every limit  *)
(* and documents of every length.                                          *)
(***************************************************************************)
EXTENDS PageSelection, FiniteSetTheorems, FunctionTheorems, WellFoundedInduction, TLAPS

Items(s) == {s[i] : i \in DOMAIN s}

\* The pages of some ranges.
Covered(R) == {p \in Nat : \E r \in R : r[1] <= p /\ p <= r[2]}

\* Ranges in order, none touching the next.
AreApart(s) == /\ \A i \in DOMAIN s : s[i][1] <= s[i][2]
               /\ \A i, j \in DOMAIN s : i < j => s[i][2] + 1 < s[j][1]

-----------------------------------------------------------------------------
(* Sequences of pages *)

\* An increasing sequence has as many members as it is long.
LEMMA IncreasingCount ==
  ASSUME NEW s \in Seq(Nat), Increasing(s)
  PROVE  IsFiniteSet(Items(s)) /\ Cardinality(Items(s)) = Len(s)
<1> DEFINE n == Len(s)
<1>1. n \in Nat /\ DOMAIN s = 1..n /\ \A i \in 1..n : s[i] \in Nat
  OBVIOUS
<1>2. s \in Bijection(1..n, Items(s))
  <2>1. s \in [1..n -> Items(s)]
    BY DEF Items
  <2>2. ASSUME NEW i \in 1..n, NEW j \in 1..n, s[i] = s[j] PROVE i = j
    <3>1. ~(i < j) /\ ~(j < i)
      BY <1>1, <2>2 DEF Increasing
    <3> QED BY <3>1, <1>1
  <2>3. \A t \in Items(s) : \E i \in 1..n : s[i] = t
    BY <1>1 DEF Items
  <2> HIDE DEF n
  <2> QED BY <2>1, <2>2, <2>3 DEF Bijection, Injection, Surjection, IsInjective
<1>3. IsFiniteSet(1..n) /\ Cardinality(1..n) = n
  BY <1>1, FS_Interval
<1>4. ExistsBijection(1..n, Items(s))
  BY <1>2 DEF ExistsBijection
<1> HIDE DEF n
<1>5. IsFiniteSet(Items(s)) /\ Cardinality(Items(s)) = n
  BY <1>3, <1>4, FS_Bijection
<1> QED BY <1>5 DEF n

\* Pages are added behind those that come before them.
LEMMA ListedOn ==
  ASSUME NEW s \in Seq(Nat), Increasing(s), NEW a \in Nat, NEW b \in Nat, a <= b + 1,
         \A i \in DOMAIN s : s[i] < a
  PROVE  LET t == s \o Interval(a, b) IN
         /\ t \in Seq(Nat) /\ Increasing(t)
         /\ Len(t) = Len(s) + (b - a + 1)
         /\ Items(t) = Items(s) \cup a..b
<1> DEFINE m == Len(s)
           k == b - a + 1
           t == s \o Interval(a, b)
<1>1. m \in Nat /\ DOMAIN s = 1..m /\ k \in Nat /\ \A i \in 1..m : s[i] \in Nat
  OBVIOUS
<1>2. Interval(a, b) \in Seq(Nat) /\ Len(Interval(a, b)) = k
  <2>1. Interval(a, b) = [i \in 1..k |-> a + i - 1]
    BY DEF Interval
  <2>2. \A i \in 1..k : a + i - 1 \in Nat
    BY <1>1
  <2> HIDE DEF k
  <2> QED BY <1>1, <2>1, <2>2
<1>3. \A i \in 1..k : Interval(a, b)[i] = a + i - 1
  BY DEF Interval
<1>4. t \in Seq(Nat) /\ Len(t) = m + k
  BY <1>2
<1>5. /\ DOMAIN t = 1..(m + k)
      /\ \A i \in 1..m : t[i] = s[i]
      /\ \A i \in (m + 1)..(m + k) : t[i] = a + (i - m) - 1
  <2>1. DOMAIN t = 1..(m + k)
    BY <1>4, <1>1
  <2>2. \A i \in 1..(m + k) : t[i] = IF i <= m THEN s[i] ELSE Interval(a, b)[i - m]
    BY <1>2
  <2>3. \A i \in (m + 1)..(m + k) : i - m \in 1..k /\ ~(i <= m) /\ i \in 1..(m + k)
    BY <1>1
  <2> HIDE DEF m, k, t
  <2>4. \A i \in 1..m : i <= m /\ i \in 1..(m + k)
    BY <1>1
  <2> QED BY <2>1, <2>2, <2>3, <2>4, <1>3
<1> HIDE DEF t, m, k
<1>6. Increasing(t)
  <2>1. ASSUME NEW i \in 1..(m + k), NEW j \in 1..(m + k), i < j PROVE t[i] < t[j]
    <3>1. CASE j <= m
      BY <1>1, <1>5, <2>1, <3>1 DEF Increasing
    <3>2. CASE i <= m /\ m < j
      <4>0. i \in 1..m
        BY <1>1, <3>2
      <4>1. t[i] < a /\ t[i] \in Nat
        BY <4>0, <1>1, <1>5
      <4>2. j \in (m + 1)..(m + k)
        BY <1>1, <3>2
      <4> QED BY <4>1, <4>2, <1>1, <1>5
    <3>3. CASE m < i
      BY <1>1, <1>5, <2>1, <3>3
    <3> QED BY <3>1, <3>2, <3>3, <1>1
  <2> QED BY <2>1, <1>5 DEF Increasing
<1>7. Items(t) = Items(s) \cup a..b
  <2>1. ASSUME NEW p \in Items(t) PROVE p \in Items(s) \cup a..b
    <3>1. PICK i \in 1..(m + k) : p = t[i]
      BY <1>5 DEF Items
    <3>2. CASE i <= m
      BY <3>1, <3>2, <1>1, <1>5 DEF Items
    <3>3. CASE m < i
      <4>1. p = a + (i - m) - 1 /\ i - m >= 1 /\ i - m <= k
        BY <3>1, <3>3, <1>1, <1>5
      <4>2. p \in a..b
        BY <4>1, <1>1 DEF k
      <4> QED BY <4>2
    <3> QED BY <3>2, <3>3, <1>1
  <2>2. ASSUME NEW p \in Items(s) PROVE p \in Items(t)
    <3>1. PICK i \in 1..m : p = s[i]
      BY <1>1 DEF Items
    <3>2. i \in 1..(m + k) /\ t[i] = p
      BY <3>1, <1>1, <1>5
    <3> QED BY <3>2, <1>5 DEF Items
  <2>3. ASSUME NEW p \in a..b PROVE p \in Items(t)
    <3>1. (m + (p - a + 1)) \in (m + 1)..(m + k) /\ p \in Int
      BY <1>1 DEF k
    <3>2. t[m + (p - a + 1)] = p
      BY <3>1, <1>1, <1>5
    <3>3. (m + (p - a + 1)) \in DOMAIN t
      BY <3>1, <1>1, <1>5
    <3> QED BY <3>2, <3>3 DEF Items
  <2> QED BY <2>1, <2>2, <2>3
<1> QED BY <1>4, <1>6, <1>7 DEF t, m, k

\* What is sorted holds the set, and nothing else.
LEMMA SortedHolds ==
  ASSUME NEW S, S \subseteq Nat, IsFiniteSet(S), NEW s \in Sorted(S)
  PROVE  Increasing(s) /\ Items(s) = S
<1> DEFINE n == Cardinality(S)
<1>1. n \in Nat /\ s \in [1..n -> S] /\ Increasing(s)
  BY FS_CardinalityType DEF Sorted
<1> HIDE DEF n
<1>2. s \in Seq(Nat) /\ Len(s) = n
  <2>1. s \in [1..n -> Nat]
    BY <1>1
  <2> QED BY <2>1, <1>1
<1>3. IsFiniteSet(Items(s)) /\ Cardinality(Items(s)) = n
  BY <1>1, <1>2, IncreasingCount
<1>4. Items(s) \in SUBSET S
  BY <1>1 DEF Items
<1>5. Items(s) = S
  BY <1>3, <1>4, FS_Subset DEF n
<1> QED BY <1>1, <1>5

-----------------------------------------------------------------------------
(* The bounded selection *)

\* Of naturals there is a least one.
LEMMA LeastExists ==
  ASSUME NEW S, S \subseteq Nat, S # {}
  PROVE  \E x \in S : \A y \in S : x <= y
<1> DEFINE R == {ss \in Nat \X Nat : ss[1] < ss[2]}
<1>1. IsWellFoundedOn(R, Nat)
  BY NatLessThanWellFounded DEF OpToRel
<1>2. \A x, y \in Nat : y < x => <<y, x>> \in R
  OBVIOUS
<1> HIDE DEF R
<1>3. PICK x \in S : \A y \in S : ~ (<<y, x>> \in R)
  BY <1>1, WFMin
<1>4. ASSUME NEW y \in S PROVE x <= y
  <2>1. x \in Nat /\ y \in Nat
    OBVIOUS
  <2>2. ~ (y < x)
    BY <2>1, <1>2, <1>3
  <2> QED BY <2>1, <2>2
<1> QED BY <1>4

\* A selection that was accepted.
Accepted == pages \in Seq(Selection) /\ Broken = "none"

LEMMA RangesAre ==
  ASSUME Accepted, BoundsAssumption
  PROVE  \A s \in Ranges : /\ s.start \in Nat \ {0} /\ s.end \in 0..MaxNumber
                           /\ s.end # 0 => s.start <= s.end
<1>1. CASE pages = <<>>
  BY <1>1 DEF Ranges, BoundsAssumption
<1>2. CASE pages # <<>>
  <2>1. Malformed \notin Selections
    BY DEF Accepted, Broken
  <2>2. \A s \in Selections : ~(s.end \in 1..(s.start - 1))
    BY DEF Accepted, Broken
  <2>3. Selections \subseteq Selection
    BY DEF Accepted, Selections
  <2>4. \A s \in Selections : s.start \in 1..MaxNumber /\ s.end \in 0..MaxNumber
    BY <2>1, <2>3 DEF Selection
  <2>5. Ranges = Selections
    BY <1>2 DEF Ranges
  <2> QED BY <2>2, <2>4, <2>5 DEF BoundsAssumption
<1> QED BY <1>1, <1>2

LEMMA OpenStartIs ==
  ASSUME Accepted, BoundsAssumption
  PROVE  /\ IsOpen => /\ OpenStart \in Nat \ {0}
                      /\ \E s \in Ranges : s.end = 0 /\ s.start = OpenStart
                      /\ \A s \in Ranges : s.end = 0 => OpenStart <= s.start
         /\ ~IsOpen => \A s \in Ranges : s.end # 0
<1>1. OpenStarts \subseteq Nat \ {0}
  BY RangesAre DEF OpenStarts
<1>2. ASSUME IsOpen
      PROVE  OpenStart \in OpenStarts /\ \A q \in OpenStarts : OpenStart <= q
  <2>1. \E p \in OpenStarts : \A q \in OpenStarts : p <= q
    BY <1>1, <1>2, LeastExists DEF IsOpen
  <2> QED BY <2>1 DEF OpenStart
<1> QED BY <1>1, <1>2 DEF IsOpen, OpenStarts

\* The closed ranges lie before the open one, and with it hold what was chosen.
LEMMA ClosedRangesAre ==
  ASSUME Accepted, BoundsAssumption
  PROVE  /\ ClosedRanges \subseteq (1..MaxNumber) \X (1..MaxNumber)
         /\ \A r \in ClosedRanges : r[1] <= r[2] /\ (IsOpen => r[2] < OpenStart)
         /\ \A n \in Nat : \A p \in 1..n :
              p \in Chosen(n) <=> (p \in Covered(ClosedRanges) \/ (IsOpen /\ OpenStart <= p))
<1>1. MaxNumber \in Nat
  BY DEF BoundsAssumption
<1>2. ASSUME NEW n \in Nat, NEW p \in 1..n
      PROVE  p \in Chosen(n) <=> \E s \in Ranges : s.start <= p /\ (p <= s.end \/ s.end = 0)
  <2>1. CASE pages = <<>>
    BY <2>1 DEF Chosen, Ranges
  <2>2. CASE pages # <<>>
    BY <2>2 DEF Chosen, Ranges, Selections
  <2> QED BY <2>1, <2>2
<1>3. CASE ~IsOpen
  <2>1. \A s \in Ranges : s.end # 0 /\ s.start \in 1..MaxNumber /\ s.end \in 1..MaxNumber /\ s.start <= s.end
    BY <1>1, <1>3, OpenStartIs, RangesAre
  <2>2. ClosedRanges = {<<s.start, s.end>> : s \in Ranges}
    BY <1>3 DEF ClosedRanges
  <2>3. \A p \in Nat : p \in Covered(ClosedRanges) <=> \E s \in Ranges : s.start <= p /\ p <= s.end
    <3>1. ASSUME NEW p \in Nat, NEW s \in Ranges, s.start <= p, p <= s.end
          PROVE  p \in Covered(ClosedRanges)
      <4> DEFINE r == <<s.start, s.end>>
      <4>1. r \in ClosedRanges /\ r[1] <= p /\ p <= r[2]
        BY <2>2, <3>1
      <4> QED BY <4>1 DEF Covered
    <3>2. ASSUME NEW p \in Covered(ClosedRanges)
          PROVE  \E s \in Ranges : s.start <= p /\ p <= s.end
      <4>1. PICK r \in ClosedRanges : r[1] <= p /\ p <= r[2]
        BY DEF Covered
      <4>2. PICK s \in Ranges : r = <<s.start, s.end>>
        BY <2>2
      <4> QED BY <4>1, <4>2
    <3> QED BY <3>1, <3>2
  <2>4. \A r \in ClosedRanges : r \in (1..MaxNumber) \X (1..MaxNumber) /\ r[1] <= r[2]
    BY <2>1, <2>2
  <2>5. ASSUME NEW n \in Nat, NEW p \in 1..n
        PROVE  p \in Chosen(n) <=> p \in Covered(ClosedRanges)
    BY <1>2, <2>1, <2>3
  <2> QED BY <1>3, <2>4, <2>5
<1>4. CASE IsOpen
  <2> DEFINE C == {t \in Ranges : t.end # 0 /\ t.start < OpenStart}
             cut(s) == IF s.end < OpenStart THEN s.end ELSE OpenStart - 1
  <2>1. OpenStart \in Nat \ {0}
    BY <1>4, OpenStartIs
  <2>2. ClosedRanges = {<<s.start, cut(s)>> : s \in C}
    BY <1>4 DEF ClosedRanges
  <2>3. \A s \in C : /\ s.start \in 1..MaxNumber /\ cut(s) \in 1..MaxNumber
                     /\ s.start <= cut(s) /\ cut(s) < OpenStart
    BY <1>1, <2>1, RangesAre
  <2>4. \A s \in C : \A p \in Nat : p <= cut(s) <=> (p <= s.end /\ p < OpenStart)
    BY <1>1, <2>1, RangesAre
  <2> HIDE DEF cut
  <2>5. \A r \in ClosedRanges : /\ r \in (1..MaxNumber) \X (1..MaxNumber)
                                /\ r[1] <= r[2] /\ r[2] < OpenStart
    BY <2>2, <2>3
  <2>6. \A p \in Nat : p \in Covered(ClosedRanges) <=> \E s \in C : s.start <= p /\ p <= cut(s)
    <3>1. ASSUME NEW p \in Nat, NEW s \in C, s.start <= p, p <= cut(s)
          PROVE  p \in Covered(ClosedRanges)
      <4> DEFINE r == <<s.start, cut(s)>>
      <4>1. r \in ClosedRanges /\ r[1] <= p /\ p <= r[2]
        BY <2>2, <3>1
      <4> QED BY <4>1 DEF Covered
    <3>2. ASSUME NEW p \in Covered(ClosedRanges)
          PROVE  \E s \in C : s.start <= p /\ p <= cut(s)
      <4>1. PICK r \in ClosedRanges : r[1] <= p /\ p <= r[2]
        BY DEF Covered
      <4>2. PICK s \in C : r = <<s.start, cut(s)>>
        BY <2>2
      <4> QED BY <4>1, <4>2
    <3> QED BY <3>1, <3>2
  <2>7. ASSUME NEW n \in Nat, NEW p \in 1..n, p \in Chosen(n)
        PROVE  p \in Covered(ClosedRanges) \/ OpenStart <= p
    <3>1. PICK s \in Ranges : s.start <= p /\ (p <= s.end \/ s.end = 0)
      BY <1>2, <2>7
    <3>2. CASE s.end = 0
      BY <3>1, <3>2, <2>1, <1>4, OpenStartIs, RangesAre
    <3>3. CASE s.end # 0 /\ p < OpenStart
      <4>1. s.start \in Nat /\ p \in Nat
        BY RangesAre
      <4>2. s \in C
        BY <4>1, <3>1, <3>3, <2>1
      <4> QED BY <2>4, <2>6, <3>1, <3>3, <4>1, <4>2
    <3> QED BY <2>1, <3>2, <3>3
  <2>8. ASSUME NEW n \in Nat, NEW p \in 1..n, p \in Covered(ClosedRanges)
        PROVE  p \in Chosen(n)
    BY <1>2, <2>4, <2>6, <2>8
  <2>9. ASSUME NEW n \in Nat, NEW p \in 1..n, OpenStart <= p
        PROVE  p \in Chosen(n)
    BY <1>2, <1>4, <2>9, OpenStartIs
  <2> QED BY <1>4, <2>5, <2>7, <2>8, <2>9
<1> QED BY <1>3, <1>4

Page      == 1..MaxNumber
PageRange == Page \X Page

\* One member of a sequence is replaced.
LEMMA Replaced ==
  ASSUME NEW S, NEW s \in Seq(S), NEW n \in 1..Len(s), NEW l \in S
  PROVE  LET m == [s EXCEPT ![n] = l] IN
         /\ m \in Seq(S) /\ DOMAIN m = 1..Len(s)
         /\ \A i \in 1..Len(s) : i # n => m[i] = s[i]
         /\ m[n] = l
OBVIOUS

\* One more range is merged, whether it touches the last one or not.
LEMMA MergeOne ==
  ASSUME merged \in Seq(PageRange), AreApart(merged), MaxNumber \in Nat,
         NEW r \in PageRange, r[1] <= r[2],
         \A i \in DOMAIN merged : merged[i][1] <= r[1],
         NEW m, m = IF Apart(r) THEN Append(merged, r)
                    ELSE [merged EXCEPT ![Len(merged)] =
                            <<@[1], IF r[2] > @[2] THEN r[2] ELSE @[2]>>]
  PROVE  /\ m \in Seq(PageRange)
         /\ AreApart(m)
         /\ \A i \in DOMAIN m : m[i][1] <= r[1]
         /\ Covered(Items(m)) = Covered(Items(merged)) \cup Covered({r})
<1> DEFINE n == Len(merged)
<1>1. n \in Nat /\ DOMAIN merged = 1..n /\ r[1] \in Nat /\ r[2] \in Nat
  BY DEF PageRange, Page
<1>2. \A i \in 1..n : merged[i] \in PageRange /\ merged[i][1] \in Nat /\ merged[i][2] \in Nat
  BY DEF PageRange, Page
<1>3. Last(merged) = merged[n]
  BY DEF Last
<1>4. CASE Apart(r)
  <2>1. m = Append(merged, r)
    BY <1>4
  <2>2. /\ m \in Seq(PageRange) /\ DOMAIN m = 1..(n + 1)
        /\ \A i \in 1..n : m[i] = merged[i]
        /\ m[n + 1] = r
    BY <2>1
  <2> HIDE DEF n
  <2>3. \A i \in 1..n : merged[i][2] + 1 < r[1]
    <3>1. CASE merged = <<>>
      BY <3>1, <1>1 DEF n
    <3>2. CASE merged # <<>>
      <4>1. n \in 1..n /\ merged[n][2] + 1 < r[1]
        <5>1. r[1] > merged[n][2] + 1
          BY <1>3, <1>4, <3>2 DEF Apart
        <5>2. n \in 1..n
          BY <1>1, <3>2 DEF n
        <5> QED BY <1>1, <1>2, <5>1, <5>2
      <4>2. \A i \in 1..n : i < n => merged[i][2] + 1 < merged[n][1]
        BY <1>1, <4>1 DEF AreApart
      <4>3. merged[n][1] <= merged[n][2]
        BY <1>1, <4>1 DEF AreApart
      <4> QED BY <1>1, <1>2, <4>1, <4>2, <4>3
    <3> QED BY <3>1, <3>2
  <2>4. AreApart(m)
    <3>1. \A i \in 1..(n + 1) : i \in 1..n \/ i = n + 1
      BY <1>1
    <3>2. \A i \in 1..(n + 1) : m[i][1] <= m[i][2]
      BY <1>1, <2>2, <3>1 DEF AreApart
    <3>3. ASSUME NEW i \in 1..(n + 1), NEW j \in 1..(n + 1), i < j
          PROVE  m[i][2] + 1 < m[j][1]
      <4>1. i \in 1..n
        BY <1>1, <3>3
      <4>2. CASE j = n + 1
        BY <2>2, <2>3, <4>1, <4>2
      <4>3. CASE j \in 1..n
        BY <1>1, <2>2, <3>3, <4>1, <4>3 DEF AreApart
      <4> QED BY <3>1, <4>2, <4>3
    <3>4. DOMAIN m = 1..(n + 1)
      BY <2>2
    <3> QED BY <3>2, <3>3, <3>4 DEF AreApart
  <2>5. \A i \in DOMAIN m : m[i][1] <= r[1]
    <3>1. \A i \in 1..(n + 1) : i \in 1..n \/ i = n + 1
      BY <1>1
    <3> QED BY <1>1, <2>2, <3>1
  <2>6. Items(m) = Items(merged) \cup {r}
    <3>1. \A i \in 1..(n + 1) : i \in 1..n \/ i = n + 1
      BY <1>1
    <3>2. 1..n \subseteq 1..(n + 1) /\ n + 1 \in 1..(n + 1)
      BY <1>1
    <3> QED BY <1>1, <2>2, <3>1, <3>2 DEF Items
  <2>7. Covered(Items(m)) = Covered(Items(merged)) \cup Covered({r})
    BY <2>6 DEF Covered
  <2> QED BY <2>2, <2>4, <2>5, <2>7
<1>5. CASE ~Apart(r)
  <2> DEFINE e == IF r[2] > merged[n][2] THEN r[2] ELSE merged[n][2]
             l == <<merged[n][1], e>>
  <2>1. n \in 1..n /\ r[1] <= merged[n][2] + 1
    <3>1. merged # <<>> /\ ~(r[1] > merged[n][2] + 1)
      BY <1>3, <1>5 DEF Apart
    <3>2. n \in 1..n
      BY <1>1, <3>1
    <3> QED BY <1>1, <1>2, <3>1, <3>2
  <2>2. e \in Nat /\ l \in PageRange /\ merged[n][2] <= e /\ r[2] <= e
    BY <1>1, <1>2, <2>1 DEF PageRange, Page
  <2>3. m = [merged EXCEPT ![n] = l]
    BY <1>5
  <2>e. e = r[2] \/ e = merged[n][2]
    OBVIOUS
  <2>l. l[1] = merged[n][1] /\ l[2] = e
    OBVIOUS
  <2> HIDE DEF e, l
  <2>4. /\ m \in Seq(PageRange) /\ DOMAIN m = 1..n
        /\ \A i \in 1..n : i # n => m[i] = merged[i]
        /\ m[n] = l
    <3>1. merged \in Seq(PageRange) /\ n \in 1..Len(merged) /\ l \in PageRange
      BY <2>1, <2>2
    <3>2. n = Len(merged)
      OBVIOUS
    <3> HIDE DEF n
    <3>3. LET w == [merged EXCEPT ![n] = l] IN
          /\ w \in Seq(PageRange) /\ DOMAIN w = 1..Len(merged)
          /\ \A i \in 1..Len(merged) : i # n => w[i] = merged[i]
          /\ w[n] = l
      BY <3>1, Replaced
    <3> QED BY <3>2, <3>3, <2>3
  <2> HIDE DEF n
  <2>5. merged[n][1] <= merged[n][2] /\ merged[n][1] <= r[1]
    BY <1>1, <2>1 DEF AreApart
  <2>6. AreApart(m)
    <3>1. \A i \in 1..n : m[i][1] <= m[i][2]
      BY <1>1, <1>2, <2>1, <2>2, <2>l, <2>4, <2>5 DEF AreApart
    <3>2. ASSUME NEW i \in 1..n, NEW j \in 1..n, i < j
          PROVE  m[i][2] + 1 < m[j][1]
      <4>1. i # n /\ merged[i][2] + 1 < merged[j][1]
        BY <1>1, <3>2 DEF AreApart
      <4>2. m[j][1] = merged[j][1]
        BY <2>4, <2>l
      <4> QED BY <2>4, <4>1, <4>2
    <3> QED BY <2>4, <3>1, <3>2 DEF AreApart
  <2>7. \A i \in DOMAIN m : m[i][1] <= r[1]
    BY <1>1, <2>4, <2>5, <2>l
  <2>8. Covered(Items(m)) = Covered(Items(merged)) \cup Covered({r})
    <3>1. ASSUME NEW p \in Covered(Items(m))
          PROVE  p \in Covered(Items(merged)) \cup Covered({r})
      <4>1. PICK i \in 1..n : m[i][1] <= p /\ p <= m[i][2] /\ p \in Nat
        BY <2>4 DEF Covered, Items
      <4>2. CASE i # n
        <5>1. merged[i] \in Items(merged) /\ merged[i][1] <= p /\ p <= merged[i][2]
          BY <1>1, <2>4, <4>1, <4>2 DEF Items
        <5> QED BY <4>1, <5>1 DEF Covered
      <4>3. CASE i = n
        <5>1. merged[n][1] <= p /\ p <= e
          BY <2>4, <2>l, <4>1, <4>3
        <5>2. merged[n] \in Items(merged)
          BY <1>1, <2>1 DEF Items
        <5>3. CASE p <= merged[n][2]
          BY <4>1, <5>1, <5>2, <5>3 DEF Covered
        <5>4. CASE ~(p <= merged[n][2])
          <6>1. r[1] <= p /\ p <= r[2]
            BY <1>1, <1>2, <2>1, <2>2, <2>e, <4>1, <5>1, <5>4
          <6> QED BY <4>1, <6>1 DEF Covered
        <5> QED BY <5>3, <5>4
      <4> QED BY <4>2, <4>3
    <3>2. ASSUME NEW p \in Covered(Items(merged)) PROVE p \in Covered(Items(m))
      <4>1. PICK i \in 1..n : merged[i][1] <= p /\ p <= merged[i][2] /\ p \in Nat
        BY <1>1 DEF Covered, Items
      <4>2. m[i][1] <= p /\ p <= m[i][2]
        BY <1>1, <1>2, <2>2, <2>4, <2>l, <4>1
      <4>3. m[i] \in Items(m)
        BY <2>4 DEF Items
      <4> QED BY <4>1, <4>2, <4>3 DEF Covered
    <3>3. ASSUME NEW p \in Covered({r}) PROVE p \in Covered(Items(m))
      <4>1. p \in Nat /\ r[1] <= p /\ p <= r[2]
        BY DEF Covered
      <4>2. m[n][1] <= p /\ p <= m[n][2]
        BY <1>1, <1>2, <2>1, <2>2, <2>4, <2>5, <2>l, <4>1
      <4>3. m[n] \in Items(m)
        BY <2>1, <2>4 DEF Items
      <4> QED BY <4>1, <4>2, <4>3 DEF Covered
    <3> QED BY <3>1, <3>2, <3>3
  <2> QED BY <2>4, <2>6, <2>7, <2>8
<1> QED BY <1>4, <1>5

-----------------------------------------------------------------------------
(* The invariant *)

Compiled == at = "collect" \/ answer \in {"archive", "pages_do_not_exist", "too_many_output_files"}

\* Whatever got past the parser breaks no rule.
ParsedInv == at # "parse" /\ answer \notin Rule => Broken = "none"

\* What there is before a step that makes it.
BlankInv == /\ at \in {"parse", "bound"} => todo = {} /\ merged = <<>> /\ listed = <<>>
            /\ at # "compile" /\ ~Compiled => asked = <<>>

\* The ranges that were merged are apart and before those that were not; the pages
\* listed are before both; and none was lost on the way.
MergeInv ==
  at = "merge" =>
    /\ \A r \in todo : r[1] <= r[2] /\ \A i \in DOMAIN merged : merged[i][1] <= r[1]
    /\ todo # {} => listed = <<>>
    /\ AreApart(merged)
    /\ Increasing(listed)
    /\ \A i \in DOMAIN listed : \A j \in DOMAIN merged : listed[i] < merged[j][1]
    /\ Covered(ClosedRanges) = Covered(todo) \cup Covered(Items(merged)) \cup Items(listed)

\* Typst is asked for the closed pages, and from an open start for as many more as
\* make one too many.
AskInv ==
  at = "compile" \/ Compiled =>
    /\ Increasing(asked)
    /\ ~IsOpen => Items(asked) = Covered(ClosedRanges) /\ Len(asked) <= Limit
    /\ IsOpen => /\ Len(asked) = Limit + 1
                 /\ \E e \in Nat : /\ OpenStart <= e
                                   /\ Items(asked) = Covered(ClosedRanges) \cup OpenStart..e

OutputInv == Compiled => document \in 1..MaxDocument /\ outputs = Items(asked) \cap 1..document

AnswerInv ==
  /\ answer = "archive" => archive \in Sorted(outputs) /\ ~TooMany
  /\ answer = "too_many_output_files" => TooMany
  /\ answer = "pages_do_not_exist" => outputs = {}
  /\ answer = "page_selection_too_large" =>
       IsFiniteSet(Covered(ClosedRanges)) /\ Cardinality(Covered(ClosedRanges)) > Limit

IInv == TypeOK /\ ParsedInv /\ BlankInv /\ MergeInv /\ AskInv /\ OutputInv /\ AnswerInv

LEMMA SamePages ==
  ASSUME UNCHANGED pages
  PROVE  /\ ClosedRanges' = ClosedRanges /\ IsOpen' = IsOpen
         /\ OpenStart' = OpenStart /\ Broken' = Broken
BY DEF ClosedRanges, IsOpen, OpenStart, OpenStarts, Ranges, Selections, Broken

LEMMA InitOK ==
  ASSUME Init, BoundsAssumption
  PROVE  IInv
<1>1. TypeOK
  <2>1. pages \in UNION {[1..n -> Selection] : n \in 0..(MaxSelections + 1)}
    BY DEF Init, BoundedSeq, SeqOf
  <2>2. pages \in Seq(Selection)
    BY <2>1, SelectionsAssumption DEF SelectionsAssumption
  <2> QED BY <2>2 DEF Init, TypeOK, BoundsAssumption
<1> QED BY <1>1 DEF Init, IInv, ParsedInv, BlankInv, MergeInv, AskInv, OutputInv, AnswerInv,
                    Compiled, Rule

LEMMA ParseOK ==
  ASSUME IInv, Parse
  PROVE  IInv'
<1>1. Broken \in Rule \cup {"none"}
  BY DEF Broken, Rule
<1>2. UNCHANGED pages
  BY DEF Parse
<1>3. Broken' = Broken
  BY <1>2, SamePages
<1>4. TypeOK'
  BY <1>1 DEF IInv, TypeOK, Parse, Answered, Refusal
<1>5. ParsedInv'
  BY <1>1, <1>3 DEF Parse, Answered, ParsedInv, IInv, TypeOK
<1>6. /\ (at' = "bound" /\ answer' = "none") \/ (at' = "answered" /\ answer' \in Rule)
      /\ at = "parse" /\ answer = "none"
  BY <1>1 DEF Parse, Answered, IInv, TypeOK
<1>7. BlankInv'
  BY <1>6 DEF Parse, BlankInv, IInv, Compiled, Rule
<1>8. MergeInv' /\ AskInv' /\ OutputInv' /\ AnswerInv'
  BY <1>6 DEF MergeInv, AskInv, OutputInv, AnswerInv, Compiled, Rule
<1> QED BY <1>4, <1>5, <1>7, <1>8 DEF IInv

LEMMA BoundOK ==
  ASSUME IInv, Bound, BoundsAssumption
  PROVE  IInv'
<1>1. /\ at = "bound" /\ answer = "none" /\ at' = "merge" /\ answer' = "none"
      /\ todo' = ClosedRanges /\ merged' = <<>> /\ listed' = <<>> /\ asked' = <<>>
  BY DEF IInv, TypeOK, BlankInv, Bound, Compiled
<1>2. Accepted
  BY <1>1 DEF IInv, TypeOK, ParsedInv, Accepted, Rule
<1>3. UNCHANGED pages
  BY DEF Bound
<1>4. ClosedRanges' = ClosedRanges /\ Broken' = Broken
  BY <1>3, SamePages
<1>5. TypeOK'
  <2>1. todo' \subseteq (1..MaxNumber) \X (1..MaxNumber)
    BY <1>1, <1>2, ClosedRangesAre
  <2> QED BY <1>1, <2>1 DEF IInv, TypeOK, Bound
<1>6. MergeInv'
  <2>1. \A r \in todo' : r[1] <= r[2]
    BY <1>1, <1>2, ClosedRangesAre
  <2>2. Items(merged') = {} /\ Items(listed') = {}
    BY <1>1 DEF Items
  <2>3. Covered({}) = {}
    BY DEF Covered
  <2>4. Covered(ClosedRanges)' = Covered(todo') \cup Covered(Items(merged')) \cup Items(listed')
    <3>1. Covered(ClosedRanges)' = Covered(ClosedRanges)
      BY <1>4 DEF Covered
    <3> QED BY <1>1, <2>2, <2>3, <3>1
  <2>5. DOMAIN merged' = {} /\ DOMAIN listed' = {}
    BY <1>1
  <2>6. AreApart(merged)' /\ Increasing(listed)'
    BY <2>5 DEF AreApart, Increasing
  <2> QED BY <1>1, <2>1, <2>4, <2>5, <2>6 DEF MergeInv
<1>7. ParsedInv'
  BY <1>1, <1>2, <1>4 DEF ParsedInv, Accepted
<1>8. BlankInv' /\ AskInv' /\ OutputInv' /\ AnswerInv'
  BY <1>1 DEF BlankInv, AskInv, OutputInv, AnswerInv, Compiled
<1> QED BY <1>5, <1>6, <1>7, <1>8 DEF IInv

LEMMA MergeOK ==
  ASSUME IInv, Merge, BoundsAssumption
  PROVE  IInv'
<1>1. PICK r \in todo :
        /\ \A s \in todo : Before(r, s)
        /\ merged' = IF Apart(r) THEN Append(merged, r)
                     ELSE [merged EXCEPT ![Len(merged)] =
                             <<@[1], IF r[2] > @[2] THEN r[2] ELSE @[2]>>]
        /\ todo' = todo \ {r}
  BY DEF Merge
<1>2. /\ at = "merge" /\ at' = "merge" /\ answer = "none" /\ answer' = "none"
      /\ UNCHANGED pages /\ UNCHANGED listed /\ UNCHANGED asked
  BY DEF Merge, IInv, TypeOK
<1>3. ClosedRanges' = ClosedRanges /\ Broken' = Broken
  BY <1>2, SamePages
<1>4. MaxNumber \in Nat /\ merged \in Seq(PageRange) /\ todo \subseteq PageRange /\ r \in PageRange
  BY DEF BoundsAssumption, IInv, TypeOK, PageRange, Page
<1>5. /\ \A q \in todo : q[1] <= q[2] /\ \A i \in DOMAIN merged : merged[i][1] <= q[1]
      /\ listed = <<>> /\ AreApart(merged) /\ Increasing(listed)
      /\ Covered(ClosedRanges) = Covered(todo) \cup Covered(Items(merged)) \cup Items(listed)
  BY <1>2 DEF IInv, MergeInv
<1>6. /\ merged' \in Seq(PageRange) /\ AreApart(merged')
      /\ \A i \in DOMAIN merged' : merged'[i][1] <= r[1]
      /\ Covered(Items(merged')) = Covered(Items(merged)) \cup Covered({r})
  <2> DEFINE m == merged'
  <2>1. m = IF Apart(r) THEN Append(merged, r)
            ELSE [merged EXCEPT ![Len(merged)] =
                    <<@[1], IF r[2] > @[2] THEN r[2] ELSE @[2]>>]
    BY <1>1
  <2>2. r[1] <= r[2] /\ \A i \in DOMAIN merged : merged[i][1] <= r[1]
    BY <1>5
  <2> HIDE DEF m
  <2>3. /\ m \in Seq(PageRange) /\ AreApart(m)
        /\ \A i \in DOMAIN m : m[i][1] <= r[1]
        /\ Covered(Items(m)) = Covered(Items(merged)) \cup Covered({r})
    BY <1>4, <1>5, <2>1, <2>2, MergeOne
  <2> QED BY <2>3 DEF m
<1>7. TypeOK'
  <2>1. merged' \in Seq((1..MaxNumber) \X (1..MaxNumber))
    BY <1>6 DEF PageRange, Page
  <2>2. todo' \subseteq (1..MaxNumber) \X (1..MaxNumber)
    BY <1>1, <1>4 DEF PageRange, Page
  <2> QED BY <2>1, <2>2, <1>2 DEF IInv, TypeOK, Merge
<1>8. MergeInv'
  <2>1. \A q \in todo' : q[1] <= q[2] /\ \A i \in DOMAIN merged' : merged'[i][1] <= q[1]
    <3>1. ASSUME NEW q \in todo', NEW i \in DOMAIN merged'
          PROVE  merged'[i][1] <= q[1]
      <4>1. q \in todo /\ q \in PageRange
        BY <1>1, <1>4
      <4>2. r[1] <= q[1]
        <5>1. Before(r, q)
          BY <1>1, <4>1
        <5>2. r[1] \in Nat /\ q[1] \in Nat
          BY <1>4, <4>1 DEF PageRange, Page
        <5> QED BY <5>1, <5>2 DEF Before
      <4>3. merged'[i] \in PageRange /\ merged'[i][1] <= r[1]
        BY <1>6
      <4>4. merged'[i][1] \in Nat /\ r[1] \in Nat /\ q[1] \in Nat
        BY <1>4, <4>1, <4>3 DEF PageRange, Page
      <4> QED BY <4>2, <4>3, <4>4
    <3> QED BY <1>1, <1>5, <3>1
  <2>2. Covered(todo) = Covered(todo') \cup Covered({r})
    <3>1. todo = todo' \cup {r}
      BY <1>1
    <3> QED BY <3>1 DEF Covered
  <2>3. Covered(ClosedRanges)' = Covered(todo') \cup Covered(Items(merged')) \cup Items(listed')
    <3>1. Covered(ClosedRanges)' = Covered(ClosedRanges) /\ Items(listed') = Items(listed)
      BY <1>2, <1>3 DEF Covered, Items
    <3> QED BY <1>5, <1>6, <2>2, <3>1
  <2>4. listed' = <<>> /\ DOMAIN listed' = {}
    BY <1>2, <1>5
  <2>5. AreApart(merged)' /\ Increasing(listed)'
    BY <1>6, <2>4 DEF AreApart, Increasing
  <2> QED BY <2>1, <2>3, <2>4, <2>5 DEF MergeInv
<1>9. ParsedInv'
  BY <1>2, <1>3 DEF IInv, ParsedInv, Rule
<1>10. BlankInv' /\ AskInv' /\ OutputInv' /\ AnswerInv'
  BY <1>2 DEF IInv, BlankInv, AskInv, OutputInv, AnswerInv, Compiled
<1> QED BY <1>7, <1>8, <1>9, <1>10 DEF IInv

\* The first of the ranges is taken off.
LEMMA HeadAndTail ==
  ASSUME NEW S, NEW s \in Seq(S), s # <<>>
  PROVE  /\ Head(s) \in S /\ Tail(s) \in Seq(S)
         /\ Head(s) = s[1] /\ 1 \in DOMAIN s
         /\ \A i \in DOMAIN Tail(s) : i + 1 \in DOMAIN s /\ Tail(s)[i] = s[i + 1]
         /\ Items(s) = Items(Tail(s)) \cup {Head(s)}
<1> DEFINE n == Len(s)
<1>1. n \in Nat \ {0} /\ DOMAIN s = 1..n /\ Head(s) = s[1] /\ 1 \in 1..n
  OBVIOUS
<1>2. Head(s) \in S /\ Tail(s) \in Seq(S)
  OBVIOUS
<1>3. DOMAIN Tail(s) = 1..(n - 1) /\ \A i \in 1..(n - 1) : Tail(s)[i] = s[i + 1]
  OBVIOUS
<1> HIDE DEF n
<1>4. \A i \in 1..(n - 1) : i + 1 \in 1..n
  BY <1>1
<1>5. \A i \in 1..n : i = 1 \/ (i - 1 \in 1..(n - 1) /\ (i - 1) + 1 = i)
  BY <1>1
<1>6. Items(s) = Items(Tail(s)) \cup {Head(s)}
  <2>1. ASSUME NEW x \in Items(s) PROVE x \in Items(Tail(s)) \cup {Head(s)}
    <3>1. PICK i \in 1..n : x = s[i]
      BY <1>1 DEF Items
    <3>2. CASE i = 1
      BY <1>1, <3>1, <3>2
    <3>3. CASE i # 1
      <4>1. i - 1 \in DOMAIN Tail(s) /\ Tail(s)[i - 1] = x
        BY <1>3, <1>5, <3>1, <3>3
      <4> QED BY <4>1 DEF Items
    <3> QED BY <3>2, <3>3
  <2>2. ASSUME NEW x \in Items(Tail(s)) \cup {Head(s)} PROVE x \in Items(s)
    BY <1>1, <1>3, <1>4 DEF Items
  <2> QED BY <2>1, <2>2
<1> QED BY <1>1, <1>2, <1>3, <1>4, <1>6

\* A sequence is one of the set its members are in.
LEMMA SeqOfItems ==
  ASSUME NEW S, NEW T, NEW s \in Seq(T), Items(s) \subseteq S
  PROVE  s \in Seq(S)
<1>1. \A i \in DOMAIN s : s[i] \in S
  BY DEF Items
<1> QED BY <1>1

LEMMA ListRangeOK ==
  ASSUME IInv, ListRange, BoundsAssumption
  PROVE  IInv'
<1> DEFINE h == Head(merged)
<1>1. /\ at = "merge" /\ at' = "merge" /\ answer = "none" /\ answer' = "none"
      /\ todo = {} /\ todo' = {} /\ merged # <<>> /\ merged' = Tail(merged)
      /\ UNCHANGED pages /\ UNCHANGED asked
      /\ listed' = listed \o Interval(h[1], h[2])
  BY DEF ListRange, IInv, TypeOK
<1>2. ClosedRanges' = ClosedRanges /\ Broken' = Broken
  BY <1>1, SamePages
<1>3. MaxNumber \in Nat /\ merged \in Seq(PageRange) /\ listed \in Seq(Page)
  BY DEF BoundsAssumption, IInv, TypeOK, PageRange, Page
<1>4. /\ AreApart(merged) /\ Increasing(listed)
      /\ \A i \in DOMAIN listed : \A j \in DOMAIN merged : listed[i] < merged[j][1]
      /\ Covered(ClosedRanges) = Covered({}) \cup Covered(Items(merged)) \cup Items(listed)
  BY <1>1 DEF IInv, MergeInv
<1>5. /\ h \in PageRange /\ merged' \in Seq(PageRange)
      /\ h = merged[1] /\ 1 \in DOMAIN merged
      /\ \A i \in DOMAIN merged' : i + 1 \in DOMAIN merged /\ merged'[i] = merged[i + 1]
      /\ Items(merged) = Items(merged') \cup {h}
  <2>1. /\ h \in PageRange /\ Tail(merged) \in Seq(PageRange)
        /\ h = merged[1] /\ 1 \in DOMAIN merged
        /\ \A i \in DOMAIN Tail(merged) : i + 1 \in DOMAIN merged /\ Tail(merged)[i] = merged[i + 1]
        /\ Items(merged) = Items(Tail(merged)) \cup {h}
    BY <1>1, <1>3, HeadAndTail
  <2> HIDE DEF h
  <2> QED BY <1>1, <2>1
<1>6. h[1] \in Nat /\ h[2] \in Nat /\ h[1] <= h[2] /\ h[1] \in Page /\ h[2] \in Page
  BY <1>3, <1>4, <1>5 DEF AreApart, PageRange, Page
<1> HIDE DEF h
<1>7. \A i \in DOMAIN listed : listed[i] < h[1]
  BY <1>4, <1>5
<1>8. /\ listed' \in Seq(Nat) /\ Increasing(listed')
      /\ Items(listed') = Items(listed) \cup h[1]..h[2]
  <2>1. listed \in Seq(Nat)
    BY <1>3 DEF Page
  <2> DEFINE a == h[1]
             b == h[2]
             t == listed \o Interval(a, b)
  <2>2. a \in Nat /\ b \in Nat /\ a <= b + 1 /\ \A i \in DOMAIN listed : listed[i] < a
    BY <1>6, <1>7
  <2>3. listed' = t
    BY <1>1
  <2> HIDE DEF a, b
  <2>4. t \in Seq(Nat) /\ Increasing(t) /\ Items(t) = Items(listed) \cup a..b
    BY <1>4, <2>1, <2>2, ListedOn
  <2> HIDE DEF t
  <2> QED BY <2>3, <2>4 DEF a, b
<1>9. listed' \in Seq(Page)
  <2>1. Items(listed) \subseteq Page
    BY <1>3 DEF Items
  <2>2. h[1]..h[2] \subseteq Page
    BY <1>3, <1>6 DEF Page
  <2>3. Items(listed') \subseteq Page
    BY <1>8, <2>1, <2>2
  <2> QED BY <1>8, <2>3, SeqOfItems
<1>10. TypeOK'
  <2>1. /\ merged' \in Seq((1..MaxNumber) \X (1..MaxNumber))
        /\ listed' \in Seq(1..MaxNumber)
    BY <1>5, <1>9 DEF PageRange, Page
  <2> QED BY <2>1, <1>1 DEF IInv, TypeOK, ListRange
<1>11. MergeInv'
  <2>0. \A i \in DOMAIN merged' : merged'[i][1] \in Nat /\ merged'[i][2] \in Nat
    <3>1. \A i \in DOMAIN merged' : merged'[i] \in PageRange
      BY <1>5
    <3> QED BY <3>1 DEF PageRange, Page
  <2>1. AreApart(merged')
    <3>1. \A i \in DOMAIN merged' : merged'[i][1] <= merged'[i][2]
      BY <1>4, <1>5 DEF AreApart
    <3>2. ASSUME NEW i \in DOMAIN merged', NEW j \in DOMAIN merged', i < j
          PROVE  merged'[i][2] + 1 < merged'[j][1]
      <4>1. i + 1 \in DOMAIN merged /\ j + 1 \in DOMAIN merged
        BY <1>5
      <4>2. i + 1 < j + 1
        <5>1. DOMAIN merged' \subseteq Nat
          BY <1>5
        <5> QED BY <5>1, <3>2
      <4>3. merged[i + 1][2] + 1 < merged[j + 1][1]
        BY <1>4, <4>1, <4>2 DEF AreApart
      <4> QED BY <1>5, <4>3
    <3> QED BY <3>1, <3>2 DEF AreApart
  <2>2. \A i \in DOMAIN listed' : \A j \in DOMAIN merged' : listed'[i] < merged'[j][1]
    <3>1. ASSUME NEW i \in DOMAIN listed', NEW j \in DOMAIN merged'
          PROVE  listed'[i] < merged'[j][1]
      <4>1. listed'[i] \in Items(listed) \cup h[1]..h[2]
        BY <1>8 DEF Items
      <4>2. /\ j + 1 \in DOMAIN merged /\ merged'[j] = merged[j + 1] /\ 1 < j + 1
            /\ merged'[j][1] \in Nat
        <5>1. j \in Nat \ {0}
          BY <1>5
        <5> QED BY <1>5, <2>0, <5>1
      <4>3. CASE listed'[i] \in Items(listed)
        BY <1>4, <4>2, <4>3 DEF Items
      <4>4. CASE listed'[i] \in h[1]..h[2]
        <5>1. h[2] + 1 < merged'[j][1]
          BY <1>4, <1>5, <4>2 DEF AreApart
        <5> QED BY <1>6, <4>2, <4>4, <5>1
      <4> QED BY <4>1, <4>3, <4>4
    <3> QED BY <3>1
  <2>3. Covered(ClosedRanges)' = Covered(todo') \cup Covered(Items(merged')) \cup Items(listed')
    <3>1. Covered(ClosedRanges)' = Covered(ClosedRanges)
      BY <1>2 DEF Covered
    <3>2. Covered({h}) = h[1]..h[2]
      BY <1>6 DEF Covered
    <3>3. Covered(Items(merged)) = Covered(Items(merged')) \cup Covered({h})
      BY <1>5 DEF Covered
    <3>4. Covered({}) = {}
      BY DEF Covered
    <3> QED BY <1>1, <1>4, <1>8, <3>1, <3>2, <3>3, <3>4
  <2>4. AreApart(merged)' /\ Increasing(listed)'
    BY <1>8, <2>1 DEF AreApart, Increasing
  <2> QED BY <1>1, <2>2, <2>3, <2>4 DEF MergeInv
<1>12. ParsedInv'
  BY <1>1, <1>2 DEF IInv, ParsedInv, Rule
<1>13. BlankInv' /\ AskInv' /\ OutputInv' /\ AnswerInv'
  BY <1>1 DEF IInv, BlankInv, AskInv, OutputInv, AnswerInv, Compiled
<1> QED BY <1>10, <1>11, <1>12, <1>13 DEF IInv

LEMMA AskOK ==
  ASSUME IInv, Ask, BoundsAssumption, LimitAssumption
  PROVE  IInv'
<1>1. /\ at = "merge" /\ answer = "none" /\ todo = {} /\ merged = <<>>
      /\ UNCHANGED pages /\ UNCHANGED todo /\ UNCHANGED merged /\ UNCHANGED listed
      /\ UNCHANGED document /\ UNCHANGED outputs /\ UNCHANGED archive
  BY DEF Ask, IInv, TypeOK
<1>2. /\ ClosedRanges' = ClosedRanges /\ Broken' = Broken
      /\ IsOpen' = IsOpen /\ OpenStart' = OpenStart
  BY <1>1, SamePages
<1>3. Accepted
  BY <1>1 DEF IInv, TypeOK, ParsedInv, Accepted, Rule
<1>4. listed \in Seq(Nat) /\ Increasing(listed) /\ Items(listed) = Covered(ClosedRanges)
  <2>1. listed \in Seq(1..MaxNumber) /\ MaxNumber \in Nat
    BY DEF IInv, TypeOK, BoundsAssumption
  <2>2. listed \in Seq(Nat)
    BY <2>1
  <2>3. Covered({}) = {}
    BY DEF Covered
  <2>4. Items(merged) = {}
    BY <1>1 DEF Items
  <2>5. /\ Increasing(listed)
        /\ Covered(ClosedRanges) = Covered(todo) \cup Covered(Items(merged)) \cup Items(listed)
    BY <1>1 DEF IInv, MergeInv
  <2> QED BY <1>1, <2>2, <2>3, <2>4, <2>5
<1>5. IsFiniteSet(Covered(ClosedRanges)) /\ Cardinality(Covered(ClosedRanges)) = Len(listed)
  <2>1. IsFiniteSet(Items(listed)) /\ Cardinality(Items(listed)) = Len(listed)
    BY <1>4, IncreasingCount
  <2> QED BY <1>4, <2>1
<1>6. Covered(ClosedRanges)' = Covered(ClosedRanges)
  BY <1>2 DEF Covered
<1>7. CASE Len(listed) > Limit
  <2>1. at' = "answered" /\ answer' = "page_selection_too_large" /\ asked' = asked
    BY <1>7 DEF Ask, Answered
  <2>2. TypeOK'
    BY <1>1, <2>1 DEF IInv, TypeOK, Refusal
  <2>3. AnswerInv'
    BY <1>5, <1>6, <1>7, <2>1 DEF AnswerInv
  <2>4. ParsedInv' /\ BlankInv' /\ MergeInv' /\ AskInv' /\ OutputInv'
    BY <1>1, <1>2, <2>1 DEF IInv, ParsedInv, BlankInv, MergeInv, AskInv, OutputInv, Compiled, Rule
  <2> QED BY <2>2, <2>3, <2>4 DEF IInv
<1>8. CASE ~(Len(listed) > Limit)
  <2>1. /\ at' = "compile" /\ answer' = "none"
        /\ asked' = listed \o (IF IsOpen THEN Interval(OpenStart, SentinelEnd) ELSE <<>>)
    BY <1>1, <1>8 DEF Ask
  <2>2. Len(listed) \in Nat /\ Len(listed) <= Limit /\ Limit \in Nat
    BY <1>4, <1>8 DEF LimitAssumption
  <2>3. \A p \in Covered(ClosedRanges) : p \in Nat \ {0}
    <3>1. Items(listed) \subseteq Nat \ {0}
      BY DEF Items, IInv, TypeOK
    <3> QED BY <3>1, <1>4
  <2>4. /\ asked' \in Seq(Nat \ {0}) /\ Increasing(asked')
        /\ ~IsOpen => Items(asked') = Covered(ClosedRanges) /\ Len(asked') <= Limit
        /\ IsOpen => /\ Len(asked') = Limit + 1
                     /\ \E e \in Nat : /\ OpenStart <= e
                                       /\ Items(asked') = Covered(ClosedRanges) \cup OpenStart..e
    <3>1. CASE ~IsOpen
      <4>1. asked' = listed
        BY <1>4, <2>1, <3>1
      <4>2. Items(listed) \subseteq Nat \ {0}
        BY <1>4, <2>3
      <4>3. listed \in Seq(Nat \ {0})
        BY <1>4, <4>2, SeqOfItems
      <4> QED BY <1>4, <2>2, <3>1, <4>1, <4>3
    <3>2. CASE IsOpen
      <4> DEFINE e == SentinelEnd
                 t == listed \o Interval(OpenStart, e)
      <4>1. OpenStart \in Nat \ {0}
        BY <1>3, <3>2, OpenStartIs
      <4>2. e = OpenStart + (Limit - Len(listed)) /\ e \in Nat /\ OpenStart <= e
        BY <2>2, <4>1 DEF SentinelEnd
      <4>3. asked' = t
        BY <2>1, <3>2
      <4> HIDE DEF e
      <4>4. \A i \in DOMAIN listed : listed[i] < OpenStart
        <5>1. ASSUME NEW i \in DOMAIN listed PROVE listed[i] < OpenStart
          <6>1. listed[i] \in Covered(ClosedRanges) /\ listed[i] \in Nat
            BY <1>4 DEF Items
          <6>2. PICK r \in ClosedRanges : listed[i] <= r[2]
            BY <6>1 DEF Covered
          <6>3. r[2] < OpenStart /\ r[2] \in Nat
            BY <1>3, <3>2, ClosedRangesAre
          <6> QED BY <4>1, <6>1, <6>2, <6>3
        <5> QED BY <5>1
      <4>5. OpenStart \in Nat /\ OpenStart <= e + 1
        BY <4>1, <4>2
      <4>6. /\ t \in Seq(Nat) /\ Increasing(t) /\ Len(t) = Len(listed) + (e - OpenStart + 1)
            /\ Items(t) = Items(listed) \cup OpenStart..e
        BY <1>4, <4>2, <4>4, <4>5, ListedOn
      <4> HIDE DEF t
      <4>7. Len(t) = Limit + 1
        BY <2>2, <4>1, <4>2, <4>6
      <4>8. Items(t) = Covered(ClosedRanges) \cup OpenStart..e
        BY <1>4, <4>6
      <4>9. t \in Seq(Nat \ {0})
        <5>1. Items(t) \subseteq Nat \ {0}
          BY <2>3, <4>1, <4>8
        <5> QED BY <4>6, <5>1, SeqOfItems
      <4> QED BY <3>2, <4>2, <4>3, <4>6, <4>7, <4>8, <4>9
    <3> QED BY <3>1, <3>2
  <2>5. TypeOK'
    BY <1>1, <2>1, <2>4 DEF IInv, TypeOK
  <2>6. AskInv'
    <3>1. Increasing(asked)'
      BY <2>4 DEF Increasing
    <3> QED BY <1>2, <1>6, <2>4, <3>1 DEF AskInv, Items
  <2>7. ParsedInv' /\ BlankInv' /\ MergeInv' /\ OutputInv' /\ AnswerInv'
    BY <1>1, <1>2, <2>1 DEF IInv, ParsedInv, BlankInv, MergeInv, OutputInv, AnswerInv, Compiled, Rule
  <2> QED BY <2>5, <2>6, <2>7 DEF IInv
<1> QED BY <1>7, <1>8

LEMMA CompileOK ==
  ASSUME IInv, Compile
  PROVE  IInv'
<1>1. /\ at = "compile" /\ answer = "none" /\ at' = "collect" /\ answer' = "none"
      /\ UNCHANGED pages /\ UNCHANGED todo /\ UNCHANGED merged /\ UNCHANGED listed
      /\ UNCHANGED asked /\ UNCHANGED archive
      /\ document' \in 1..MaxDocument
      /\ outputs' = {p \in 1..document' : \E i \in DOMAIN asked : asked[i] = p}
  BY DEF Compile, IInv, TypeOK
<1>2. /\ ClosedRanges' = ClosedRanges /\ Broken' = Broken
      /\ IsOpen' = IsOpen /\ OpenStart' = OpenStart
  BY <1>1, SamePages
<1>3. outputs' = Items(asked') \cap 1..document'
  BY <1>1 DEF Items
<1>4. TypeOK'
  <2>1. outputs' \subseteq 1..document' /\ document' \in 1..MaxDocument /\ MaxDocument \in Nat
    BY <1>1, BoundsAssumption DEF BoundsAssumption
  <2>2. outputs' \subseteq 1..MaxDocument
    BY <2>1
  <2>3. document' \in 0..MaxDocument
    BY <2>1
  <2> QED BY <1>1, <2>2, <2>3 DEF IInv, TypeOK
<1>5. OutputInv'
  BY <1>1, <1>3 DEF OutputInv, Items
<1>6. AskInv'
  <2>1. Covered(ClosedRanges)' = Covered(ClosedRanges) /\ Items(asked)' = Items(asked)
    BY <1>1, <1>2 DEF Covered, Items
  <2>2. Increasing(asked)' <=> Increasing(asked)
    BY <1>1 DEF Increasing
  <2> QED BY <1>1, <1>2, <2>1, <2>2 DEF IInv, AskInv
<1>7. ParsedInv' /\ BlankInv' /\ MergeInv' /\ AnswerInv'
  BY <1>1, <1>2 DEF IInv, ParsedInv, BlankInv, MergeInv, AnswerInv, Compiled, Rule
<1> QED BY <1>4, <1>5, <1>6, <1>7 DEF IInv

LEMMA ArchiveOK ==
  ASSUME IInv, Archive, BoundsAssumption
  PROVE  IInv'
<1>1. /\ at = "collect" /\ answer = "none" /\ at' = "answered"
      /\ answer' \in {"archive", "pages_do_not_exist", "too_many_output_files"}
      /\ UNCHANGED pages /\ UNCHANGED todo /\ UNCHANGED merged /\ UNCHANGED listed
      /\ UNCHANGED asked /\ UNCHANGED document /\ UNCHANGED outputs
  BY DEF Archive, Answered, IInv, TypeOK
<1>2. /\ ClosedRanges' = ClosedRanges /\ Broken' = Broken
      /\ IsOpen' = IsOpen /\ OpenStart' = OpenStart
  BY <1>1, SamePages
<1>3. /\ answer' = "archive" => archive' \in Sorted(outputs) /\ ~TooMany
      /\ answer' = "too_many_output_files" => TooMany
      /\ answer' = "pages_do_not_exist" => outputs = {}
      /\ answer' # "archive" => archive' = archive
  BY DEF Archive, Answered
<1>4. TypeOK'
  <2>1. archive' \in Seq(1..MaxDocument)
    <3>1. CASE answer' = "archive"
      <4>1. outputs \subseteq 1..MaxDocument /\ MaxDocument \in Nat
        BY DEF IInv, TypeOK, BoundsAssumption
      <4>2. IsFiniteSet(1..MaxDocument)
        BY <4>1, FS_Interval
      <4>3. Cardinality(outputs) \in Nat
        BY <4>1, <4>2, FS_Subset, FS_CardinalityType
      <4>4. archive' \in [1..Cardinality(outputs) -> outputs]
        BY <1>3, <3>1 DEF Sorted
      <4>5. archive' \in [1..Cardinality(outputs) -> 1..MaxDocument]
        BY <4>1, <4>4
      <4> QED BY <4>3, <4>5
    <3>2. CASE answer' # "archive"
      BY <1>3, <3>2 DEF IInv, TypeOK
    <3> QED BY <3>1, <3>2
  <2> QED BY <1>1, <2>1 DEF IInv, TypeOK, Refusal
<1>5. AskInv'
  <2>1. Covered(ClosedRanges)' = Covered(ClosedRanges) /\ Items(asked)' = Items(asked)
    BY <1>1, <1>2 DEF Covered, Items
  <2>2. Increasing(asked)' <=> Increasing(asked)
    BY <1>1 DEF Increasing
  <2>3. Compiled
    BY <1>1 DEF Compiled
  <2> QED BY <1>1, <1>2, <2>1, <2>2, <2>3 DEF IInv, AskInv
<1>6. OutputInv'
  <2>1. Compiled
    BY <1>1 DEF Compiled
  <2> QED BY <1>1, <2>1 DEF IInv, OutputInv, Items
<1>7. AnswerInv'
  <2>1. Sorted(outputs)' = Sorted(outputs) /\ (TooMany' <=> TooMany)
    BY <1>1 DEF Sorted, TooMany
  <2> QED BY <1>1, <1>3, <2>1 DEF AnswerInv
<1>8. ParsedInv' /\ BlankInv' /\ MergeInv'
  BY <1>1, <1>2 DEF IInv, ParsedInv, BlankInv, MergeInv, Compiled, Rule
<1> QED BY <1>4, <1>5, <1>6, <1>7, <1>8 DEF IInv

LEMMA StutterOK ==
  ASSUME IInv, UNCHANGED vars
  PROVE  IInv'
<1>1. /\ UNCHANGED at /\ UNCHANGED pages /\ UNCHANGED todo /\ UNCHANGED merged
      /\ UNCHANGED listed /\ UNCHANGED asked /\ UNCHANGED document /\ UNCHANGED outputs
      /\ UNCHANGED archive /\ UNCHANGED answer
  BY DEF vars
<1>2. /\ ClosedRanges' = ClosedRanges /\ Broken' = Broken
      /\ IsOpen' = IsOpen /\ OpenStart' = OpenStart
  BY <1>1, SamePages
<1>3. TypeOK' /\ ParsedInv' /\ BlankInv' /\ OutputInv'
  BY <1>1, <1>2 DEF IInv, TypeOK, ParsedInv, BlankInv, OutputInv, Compiled, Items
<1>4. MergeInv'
  BY <1>1, <1>2 DEF IInv, MergeInv, AreApart, Increasing, Covered, Items
<1>5. AskInv' /\ AnswerInv'
  BY <1>1, <1>2 DEF IInv, AskInv, AnswerInv, Compiled, Increasing, Covered, Items, Sorted, TooMany
<1> QED BY <1>3, <1>4, <1>5 DEF IInv

\* The invariant holds of every selection at every step, and with it the types.
THEOREM PageInvariance == Spec => []IInv
<1>1. Init => IInv
  BY InitOK, BoundsAssumption
<1>2. IInv /\ [Next]_vars => IInv'
  <2> SUFFICES ASSUME IInv, [Next]_vars PROVE IInv'
    OBVIOUS
  <2> USE SelectionsAssumption, LimitAssumption, BoundsAssumption
  <2>1. CASE Parse      BY <2>1, ParseOK
  <2>2. CASE Bound      BY <2>2, BoundOK
  <2>3. CASE Merge      BY <2>3, MergeOK
  <2>4. CASE ListRange  BY <2>4, ListRangeOK
  <2>5. CASE Ask        BY <2>5, AskOK
  <2>6. CASE Compile    BY <2>6, CompileOK
  <2>7. CASE Archive    BY <2>7, ArchiveOK
  <2>8. CASE Finished   BY <2>8, StutterOK DEF Finished
  <2>9. CASE UNCHANGED vars BY <2>9, StutterOK
  <2> QED BY <2>1, <2>2, <2>3, <2>4, <2>5, <2>6, <2>7, <2>8, <2>9 DEF Next
<1> QED BY <1>1, <1>2, PTL DEF Spec

-----------------------------------------------------------------------------
(* What follows from it *)

\* The pages of an answer: Typst wrote of those chosen no other, and, unless they
\* are more than fit, all.
LEMMA OutputsAre ==
  ASSUME IInv, Compiled, BoundsAssumption, LimitAssumption
  PROVE  /\ outputs \subseteq Chosen(document)
         /\ IsFiniteSet(Chosen(document))
         /\ ~TooMany => outputs = Chosen(document)
         /\ outputs = {} => Chosen(document) = {}
<1>1. /\ pages \in Seq(Selection) /\ asked \in Seq(Nat) /\ at # "parse" /\ answer \notin Rule
      /\ document \in 1..MaxDocument /\ MaxDocument \in Nat /\ Limit \in Nat
  <2>1. asked \in Seq(Nat \ {0})
    BY DEF IInv, TypeOK
  <2>2. asked \in Seq(Nat)
    BY <2>1
  <2>3. at # "parse" /\ answer \notin Rule /\ document \in 1..MaxDocument
    BY DEF IInv, TypeOK, OutputInv, Compiled, Rule
  <2> QED BY <2>2, <2>3 DEF IInv, TypeOK, BoundsAssumption, LimitAssumption
<1>2. Accepted
  BY <1>1 DEF IInv, ParsedInv, Accepted
<1>3. document \in Nat /\ outputs = Items(asked) \cap 1..document
  BY <1>1 DEF IInv, OutputInv
<1>4. \A p \in 1..document :
        p \in Chosen(document) <=> (p \in Covered(ClosedRanges) \/ (IsOpen /\ OpenStart <= p))
  BY <1>2, <1>3, ClosedRangesAre
<1>5. Chosen(document) \subseteq 1..document
  BY DEF Chosen
<1>6. IsFiniteSet(1..document) /\ IsFiniteSet(Chosen(document)) /\ IsFiniteSet(outputs)
  <2>1. IsFiniteSet(1..document)
    BY <1>3, FS_Interval
  <2>2. outputs \subseteq 1..document
    BY <1>3
  <2> QED BY <1>5, <2>1, <2>2, FS_Subset
<1>7. IsFiniteSet(Items(asked)) /\ Cardinality(Items(asked)) = Len(asked)
  BY <1>1, IncreasingCount DEF IInv, AskInv
<1>8. CASE ~IsOpen
  <2>1. Items(asked) = Covered(ClosedRanges)
    BY <1>8 DEF IInv, AskInv
  <2>2. outputs = Chosen(document)
    BY <1>3, <1>4, <1>5, <1>8, <2>1
  <2> QED BY <1>6, <2>2
<1>9. CASE IsOpen
  <2>1. PICK e \in Nat : /\ OpenStart <= e /\ Len(asked) = Limit + 1
                         /\ Items(asked) = Covered(ClosedRanges) \cup OpenStart..e
    BY <1>9 DEF IInv, AskInv
  <2>2. OpenStart \in Nat \ {0}
    BY <1>2, <1>9, OpenStartIs
  <2>3. \A p \in OpenStart..e : p \in Nat /\ OpenStart <= p
    BY <2>1, <2>2
  <2>4. outputs \subseteq Chosen(document)
    BY <1>3, <1>4, <1>9, <2>1, <2>3
  <2>5. ASSUME ~TooMany, NEW p \in Chosen(document) PROVE p \in outputs
    <3>1. p \in 1..document /\ p \in Nat
      BY <1>5
    <3>2. CASE p \in Covered(ClosedRanges) \/ p <= e
      <4>1. p \in Covered(ClosedRanges) \/ p \in OpenStart..e
        BY <1>4, <2>1, <2>2, <3>1, <3>2
      <4> QED BY <1>3, <2>1, <3>1, <4>1
    <3>3. CASE p \notin Covered(ClosedRanges) /\ e < p
      <4>1. OpenStart <= document /\ e < document
        BY <1>3, <1>4, <2>1, <2>2, <3>1, <3>3
      <4>2. Items(asked) \subseteq 1..document
        <5>1. ASSUME NEW q \in Covered(ClosedRanges) PROVE q \in 1..document
          <6>1. q \in Items(asked) /\ q \in Nat
            BY <2>1 DEF Covered
          <6>2. q # 0
            BY <6>1 DEF IInv, TypeOK, Items
          <6>3. PICK r \in ClosedRanges : q <= r[2]
            BY DEF Covered
          <6>4. r[2] < OpenStart /\ r[2] \in Nat
            BY <1>2, <1>9, ClosedRangesAre
          <6> QED BY <1>3, <2>2, <4>1, <6>1, <6>2, <6>3, <6>4
        <5>2. OpenStart..e \subseteq 1..document
          BY <1>3, <2>1, <2>2, <4>1
        <5> QED BY <2>1, <5>1, <5>2
      <4>3. outputs = Items(asked)
        BY <1>3, <4>2
      <4>4. Cardinality(outputs) = Limit + 1
        BY <1>7, <2>1, <4>3
      <4> QED BY <1>1, <2>5, <4>4 DEF TooMany
    <3> QED BY <2>1, <3>1, <3>2, <3>3
  <2>6. ASSUME outputs = {}, NEW p \in Chosen(document) PROVE FALSE
    <3>1. p \in 1..document
      BY <1>5
    <3>2. CASE p \in Covered(ClosedRanges)
      BY <1>3, <2>1, <2>6, <3>1, <3>2
    <3>3. CASE OpenStart <= p
      <4>1. OpenStart \in OpenStart..e /\ OpenStart \in 1..document
        BY <1>3, <2>1, <2>2, <3>1, <3>3
      <4> QED BY <1>3, <2>1, <2>6, <4>1
    <3> QED BY <1>4, <3>1, <3>2, <3>3
  <2> QED BY <1>6, <2>4, <2>5, <2>6
<1> QED BY <1>8, <1>9

\* For documents of every length and every limit, an archive is whole: it holds
\* each page that was chosen, once and in order.
THEOREM ArchivesAreWhole == Spec => []NothingCutOff
<1>1. IInv => NothingCutOff
  <2> SUFFICES ASSUME IInv, answer = "archive"
               PROVE  Items(archive) = Chosen(document) /\ Increasing(archive)
    BY DEF NothingCutOff, Items
  <2>1. Compiled /\ archive \in Sorted(outputs) /\ ~TooMany
    BY DEF Compiled, IInv, AnswerInv
  <2>2. outputs = Chosen(document) /\ IsFiniteSet(outputs)
    BY <2>1, OutputsAre, BoundsAssumption, LimitAssumption
  <2>3. outputs \subseteq Nat
    <3>1. outputs \subseteq 1..MaxDocument /\ MaxDocument \in Nat
      BY BoundsAssumption DEF IInv, TypeOK
    <3> QED BY <3>1
  <2>4. Increasing(archive) /\ Items(archive) = outputs
    BY <2>1, <2>2, <2>3, SortedHolds
  <2> QED BY <2>2, <2>4
<1> QED BY <1>1, PageInvariance, PTL

\* For every limit, what is refused would not have fitted, or is not there.
THEOREM NoArchiveWasPossible == Spec => []RefusedForCause
<1>1. IInv => RefusedForCause
  <2> SUFFICES ASSUME IInv PROVE RefusedForCause
    OBVIOUS
  <2> USE BoundsAssumption, LimitAssumption
  <2>1. ASSUME answer = "too_many_output_files" PROVE Cardinality(Chosen(document)) > Limit
    <3>1. Compiled /\ TooMany
      BY <2>1 DEF Compiled, IInv, AnswerInv
    <3>2. outputs \in SUBSET Chosen(document) /\ IsFiniteSet(Chosen(document))
      BY <3>1, OutputsAre
    <3>3. IsFiniteSet(outputs) /\ Cardinality(outputs) <= Cardinality(Chosen(document))
      BY <3>2, FS_Subset
    <3>4. Cardinality(outputs) \in Nat /\ Cardinality(Chosen(document)) \in Nat
      BY <3>2, <3>3, FS_CardinalityType
    <3> QED BY <3>1, <3>3, <3>4 DEF TooMany, LimitAssumption
  <2>2. ASSUME answer = "page_selection_too_large" PROVE Cardinality(Chosen(MaxNumber)) > Limit
    <3> DEFINE C == Covered(ClosedRanges)
    <3>1. IsFiniteSet(C) /\ Cardinality(C) > Limit
      BY <2>2 DEF IInv, AnswerInv
    <3>2. Accepted /\ MaxNumber \in Nat
      BY <2>2 DEF IInv, TypeOK, ParsedInv, Accepted, Rule, BoundsAssumption
    <3>3. C \in SUBSET Chosen(MaxNumber)
      <4>1. ASSUME NEW p \in C PROVE p \in 1..MaxNumber
        <5>1. PICK r \in ClosedRanges : r[1] <= p /\ p <= r[2] /\ p \in Nat
          BY DEF Covered
        <5>2. r[1] \in 1..MaxNumber /\ r[2] \in 1..MaxNumber
          BY <3>2, ClosedRangesAre
        <5> QED BY <3>2, <5>1, <5>2
      <4> QED BY <3>2, <4>1, ClosedRangesAre
    <3>4. IsFiniteSet(Chosen(MaxNumber))
      <4>1. IsFiniteSet(1..MaxNumber) /\ Chosen(MaxNumber) \in SUBSET (1..MaxNumber)
        BY <3>2, FS_Interval DEF Chosen
      <4> QED BY <4>1, FS_Subset
    <3>5. Cardinality(C) <= Cardinality(Chosen(MaxNumber))
      BY <3>3, <3>4, FS_Subset
    <3>6. Cardinality(C) \in Nat /\ Cardinality(Chosen(MaxNumber)) \in Nat
      BY <3>1, <3>4, FS_CardinalityType
    <3> QED BY <3>1, <3>5, <3>6 DEF LimitAssumption
  <2>3. ASSUME answer = "pages_do_not_exist" PROVE Chosen(document) = {}
    <3>1. Compiled /\ outputs = {}
      BY <2>3 DEF Compiled, IInv, AnswerInv
    <3> QED BY <3>1, OutputsAre
  <2> QED BY <2>1, <2>2, <2>3 DEF RefusedForCause
<1> QED BY <1>1, PageInvariance, PTL

\* Whatever is selected, Typst is asked for at most one page more than fits, and
\* for none twice.
THEOREM WorkIsBounded == Spec => []WorkBounded
<1>1. IInv => WorkBounded
  <2> SUFFICES ASSUME IInv PROVE WorkBounded
    OBVIOUS
  <2>1. CASE at = "compile" \/ Compiled
    <3>1. Len(asked) \in Nat /\ Limit \in Nat
      BY LimitAssumption DEF IInv, TypeOK
    <3>2. Increasing(asked) /\ (Len(asked) <= Limit \/ Len(asked) = Limit + 1)
      BY <2>1 DEF IInv, AskInv
    <3> QED BY <3>1, <3>2 DEF WorkBounded
  <2>2. CASE at # "compile" /\ ~Compiled
    <3>1. asked = <<>>
      BY <2>2 DEF IInv, BlankInv
    <3>2. Len(asked) = 0 /\ DOMAIN asked = {} /\ Limit \in Nat
      BY <3>1, LimitAssumption
    <3> QED BY <3>2 DEF WorkBounded, Increasing
  <2> QED BY <2>1, <2>2
<1> QED BY <1>1, PageInvariance, PTL

=============================================================================

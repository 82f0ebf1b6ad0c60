----------------------------- MODULE WindowProofs -----------------------------
(***************************************************************************)
(* What the operations of a rolling window preserve, whatever its entries  *)
(* are: the lemmas that the proofs about both controllers cite.            *)
(***************************************************************************)
EXTENDS RollingWindow, SequenceTheorems, FiniteSetTheorems, WellFoundedInduction, TLAPS

(* A non-empty set of natural numbers has a least element. *)
LEMMA LeastElement ==
    ASSUME NEW S \in SUBSET Nat, S # {}
    PROVE  \E i \in S : \A j \in S : i <= j
<1> DEFINE R == {p \in Nat \X Nat : p[1] < p[2]}
<1>1. IsWellFoundedOn(R, Nat)
  BY NatLessThanWellFounded, Zenon DEF OpToRel
<1>2. \E i \in S : \A j \in S : ~(<<j, i>> \in R)
  <2> HIDE DEF R
  <2> QED
    BY <1>1, WFMin
<1>3. PICK i \in S : \A j \in S : ~(<<j, i>> \in R)
  BY <1>2
<1>4. ASSUME NEW j \in S PROVE i <= j
  <2>1. i \in Nat /\ j \in Nat
    OBVIOUS
  <2>2. ~(<<j, i>> \in R)
    BY <1>3
  <2>3. ~(j < i)
    BY <2>1, <2>2
  <2> QED
    BY <2>1, <2>3
<1> QED
  BY <1>4

(* Pruning the window leaves a window. *)
LEMMA PruneType ==
    ASSUME NEW Entry, NEW s \in Seq(Entry)
    PROVE  Prune(s) \in Seq(Entry)
<1> DEFINE t == NewestOnly(s)
<1>1. t \in Seq(Entry)
  BY SubSeqProperties, WindowAssumption DEF NewestOnly
<1>2. CASE Fresh(t) = {}
  BY <1>2, EmptySeq DEF Prune
<1>3. CASE Fresh(t) # {}
  <2> DEFINE first == CHOOSE i \in Fresh(t) : \A j \in Fresh(t) : i <= j
  <2>1. Fresh(t) \in SUBSET (1..Len(t))
    BY <1>1, LenProperties DEF Fresh
  <2>2. \E i \in Fresh(t) : \A j \in Fresh(t) : i <= j
    BY <2>1, <1>1, <1>3, LeastElement
  <2>3. first \in 1..Len(t)
    BY <2>1, <2>2
  <2>4. /\ Len(t) \in Nat
        /\ \A i \in 1..Len(t) : t[i] \in Entry
    BY <1>1, LenProperties, ElementOfSeq
  <2> HIDE DEF t, first
  <2>5. \A i \in first..Len(t) : t[i] \in Entry
    BY <2>3, <2>4
  <2>6. SubSeq(t, first, Len(t)) \in Seq(Entry)
    BY <2>3, <2>4, <2>5, SubSeqProperties
  <2> QED
    BY <1>3, <2>6 DEF Prune, t, first
<1> QED
  BY <1>2, <1>3

(* A tick leaves a window, if an entry one tick older is an entry. *)
LEMMA AgedType ==
    ASSUME NEW Entry, NEW s \in Seq(Entry),
           \A o \in Entry :
               [o EXCEPT !.age = IF @ < MaxAge THEN @ + 1 ELSE @] \in Entry
    PROVE  Aged(s) \in Seq(Entry)
<1>1. /\ Len(s) \in Nat
      /\ DOMAIN s = 1..Len(s)
      /\ \A i \in 1..Len(s) : s[i] \in Entry
  BY LenProperties, ElementOfSeq
<1>2. Aged(s) \in [1..Len(s) -> Entry]
  BY <1>1 DEF Aged
<1> QED
  BY <1>1, <1>2, SeqDef

(* The greatest element of a non-empty set of numbers below a bound. *)
LEMMA GreatestElement ==
    ASSUME NEW n \in Nat, NEW S \in SUBSET (0..n), S # {}
    PROVE  \E i \in S : \A j \in S : j <= i
<1> DEFINE T == {n - i : i \in S}
<1>1. T \in SUBSET Nat /\ T # {}
  <2>1. \A i \in S : n - i \in Nat
    OBVIOUS
  <2>2. PICK i \in S : TRUE
    OBVIOUS
  <2>3. n - i \in T
    OBVIOUS
  <2> QED
    BY <2>1, <2>3
<1>2. PICK t \in T : \A u \in T : t <= u
  BY <1>1, LeastElement
<1>3. PICK i \in S : t = n - i
  BY <1>2
<1>4. ASSUME NEW j \in S PROVE j <= i
  <2>1. n - j \in T
    OBVIOUS
  <2>2. n - i <= n - j
    BY <1>2, <1>3, <2>1
  <2> QED
    BY <2>2
<1> QED
  BY <1>4

-----------------------------------------------------------------------------
(* What is left of s when its first k entries are taken away. *)
Rest(s, k) == SubSeq(s, k + 1, Len(s))

LEMMA RestFacts ==
    ASSUME NEW Entry, NEW s \in Seq(Entry), NEW k \in 0..Len(s)
    PROVE  /\ Rest(s, k) \in Seq(Entry)
           /\ Len(Rest(s, k)) = Len(s) - k
           /\ DOMAIN Rest(s, k) = 1..(Len(s) - k)
           /\ \A i \in 1..(Len(s) - k) : Rest(s, k)[i] = s[k + i]
<1>1. Len(s) \in Nat /\ \A i \in 1..Len(s) : s[i] \in Entry
  BY LenProperties, ElementOfSeq
<1>2. \A i \in (k + 1)..Len(s) : s[i] \in Entry
  BY <1>1
<1>3. /\ Rest(s, k) \in Seq(Entry)
      /\ Len(Rest(s, k)) = IF k + 1 <= Len(s) THEN Len(s) - (k + 1) + 1 ELSE 0
      /\ \A i \in 1..(Len(s) - (k + 1) + 1) : Rest(s, k)[i] = s[(k + 1) + i - 1]
  <2>1. k + 1 \in Int /\ Len(s) \in Int
    BY <1>1
  <2> QED
    BY <1>2, <2>1, SubSeqProperties DEF Rest
<1>4. Len(Rest(s, k)) = Len(s) - k
  BY <1>1, <1>3
<1>5. \A i \in 1..(Len(s) - k) : Rest(s, k)[i] = s[k + i]
  BY <1>1, <1>3
<1> QED
  BY <1>3, <1>4, <1>5, LenProperties

(* Taking away k entries and then m more takes away k + m. *)
LEMMA RestOfRest ==
    ASSUME NEW Entry, NEW s \in Seq(Entry),
           NEW k \in 0..Len(s), NEW m \in 0..(Len(s) - k)
    PROVE  Rest(Rest(s, k), m) = Rest(s, k + m)
<1>1. Len(s) \in Nat
  BY LenProperties
<1>2. k + m \in 0..Len(s)
  BY <1>1
<1>3. /\ Rest(s, k) \in Seq(Entry)
      /\ Len(Rest(s, k)) = Len(s) - k
      /\ \A i \in 1..(Len(s) - k) : Rest(s, k)[i] = s[k + i]
  BY RestFacts
<1>4. m \in 0..Len(Rest(s, k))
  BY <1>3
<1>5. /\ Rest(Rest(s, k), m) \in Seq(Entry)
      /\ Len(Rest(Rest(s, k), m)) = Len(Rest(s, k)) - m
      /\ \A i \in 1..(Len(Rest(s, k)) - m) : Rest(Rest(s, k), m)[i] = Rest(s, k)[m + i]
  BY <1>3, <1>4, RestFacts
<1>6. /\ Rest(s, k + m) \in Seq(Entry)
      /\ Len(Rest(s, k + m)) = Len(s) - (k + m)
      /\ \A i \in 1..(Len(s) - (k + m)) : Rest(s, k + m)[i] = s[(k + m) + i]
  BY <1>2, RestFacts
<1>7. Len(Rest(Rest(s, k), m)) = Len(Rest(s, k + m))
  BY <1>1, <1>3, <1>5, <1>6
<1>8. ASSUME NEW i \in 1..Len(Rest(Rest(s, k), m))
      PROVE  Rest(Rest(s, k), m)[i] = Rest(s, k + m)[i]
  <2>1. i \in 1..(Len(s) - k - m) /\ m + i \in 1..(Len(s) - k)
    BY <1>1, <1>3, <1>5
  <2>2. Rest(Rest(s, k), m)[i] = s[k + (m + i)]
    BY <1>3, <1>5, <2>1
  <2>3. Rest(s, k + m)[i] = s[(k + m) + i]
    BY <1>1, <1>6, <2>1
  <2>4. k + (m + i) = (k + m) + i
    BY <1>1, <2>1
  <2> QED
    BY <2>2, <2>3, <2>4
<1> QED
  BY <1>5, <1>6, <1>7, <1>8, SeqEqual

(* The size alone: the entries with WindowSize or more after them go. *)
LEMMA NewestTail ==
    ASSUME NEW Entry, NEW s \in Seq(Entry)
    PROVE  \E c \in 0..Len(s) :
              /\ NewestOnly(s) = Rest(s, c)
              /\ \A i \in 1..Len(s) : i > c <=> Len(s) - i < WindowSize
<1>1. Len(s) \in Nat /\ WindowSize \in Nat
  BY LenProperties, WindowAssumption
<1>2. CASE Len(s) > WindowSize
  <2> DEFINE c == Len(s) - WindowSize
  <2>1. c \in 0..Len(s) /\ NewestOnly(s) = Rest(s, c)
    BY <1>1, <1>2 DEF NewestOnly, Rest
  <2>2. \A i \in 1..Len(s) : i > c <=> Len(s) - i < WindowSize
    BY <1>1
  <2> QED
    BY <2>1, <2>2
<1>3. CASE ~(Len(s) > WindowSize)
  <2>1. NewestOnly(s) = Rest(s, 0) /\ 0 \in 0..Len(s)
    BY <1>1, <1>3, SubSeqFull DEF NewestOnly, Rest
  <2>2. \A i \in 1..Len(s) : i > 0 <=> Len(s) - i < WindowSize
    BY <1>1, <1>3
  <2> QED
    BY <2>1, <2>2
<1> QED
  BY <1>2, <1>3

(* The age alone: of a window in order, the entries too old go. *)
LEMMA FreshTail ==
    ASSUME NEW Entry, NEW t \in Seq(Entry), OldestFirst(t),
           \A i \in 1..Len(t) : t[i].age \in Nat
    PROVE  LET kept == IF Fresh(t) = {} THEN << >>
                       ELSE LET first == CHOOSE i \in Fresh(t) : \A j \in Fresh(t) : i <= j
                            IN  SubSeq(t, first, Len(t))
           IN  \E m \in 0..Len(t) :
                 /\ kept = Rest(t, m)
                 /\ \A i \in 1..Len(t) : i > m <=> t[i].age <= WindowSeconds
<1> DEFINE first == CHOOSE i \in Fresh(t) : \A j \in Fresh(t) : i <= j
           kept == IF Fresh(t) = {} THEN << >> ELSE SubSeq(t, first, Len(t))
<1> SUFFICES \E m \in 0..Len(t) :
                /\ kept = Rest(t, m)
                /\ \A i \in 1..Len(t) : i > m <=> t[i].age <= WindowSeconds
  OBVIOUS
<1>1. Len(t) \in Nat /\ DOMAIN t = 1..Len(t) /\ WindowSeconds \in Nat
  BY LenProperties, WindowAssumption
<1>2. Fresh(t) \in SUBSET (1..Len(t))
  BY <1>1 DEF Fresh
<1>3. CASE Fresh(t) = {}
  <2>1. \A i \in 1..Len(t) : ~(t[i].age <= WindowSeconds)
    BY <1>1, <1>3 DEF Fresh
  <2>2. Rest(t, Len(t)) = << >>
    BY <1>1, SubSeqEmpty DEF Rest
  <2>3. Len(t) \in 0..Len(t) /\ kept = Rest(t, Len(t))
    BY <1>1, <1>3, <2>2
  <2>4. \A i \in 1..Len(t) : i > Len(t) <=> t[i].age <= WindowSeconds
    BY <1>1, <2>1
  <2> QED
    BY <2>3, <2>4
<1>4. CASE Fresh(t) # {}
  <2>1. \E i \in Fresh(t) : \A j \in Fresh(t) : i <= j
    BY <1>1, <1>2, <1>4, LeastElement
  <2>2. first \in Fresh(t) /\ \A j \in Fresh(t) : first <= j
    BY <2>1
  <2> HIDE DEF first
  <2>3. first \in 1..Len(t) /\ t[first].age <= WindowSeconds
    BY <1>2, <2>2 DEF Fresh
  <2>4. first - 1 \in 0..Len(t) /\ (first - 1) + 1 = first
    BY <1>1, <2>3
  <2>5. kept = Rest(t, first - 1)
    BY <1>4, <2>4 DEF Rest
  <2>6. ASSUME NEW i \in 1..Len(t)
        PROVE  i > first - 1 <=> t[i].age <= WindowSeconds
    <3>1. ASSUME i > first - 1 PROVE t[i].age <= WindowSeconds
      <4>1. first <= i
        BY <1>1, <2>3, <3>1
      <4>2. t[i].age <= t[first].age
        BY <1>1, <2>3, <4>1 DEF OldestFirst
      <4>3. t[i].age \in Nat /\ t[first].age \in Nat
        BY <2>3
      <4> QED
        BY <1>1, <2>3, <4>2, <4>3
    <3>2. ASSUME t[i].age <= WindowSeconds PROVE i > first - 1
      <4>1. i \in Fresh(t)
        BY <1>1, <3>2 DEF Fresh
      <4> QED
        BY <1>1, <2>2, <2>3, <4>1
    <3> QED
      BY <3>1, <3>2
  <2> QED
    BY <2>4, <2>5, <2>6
<1> QED
  BY <1>3, <1>4

(***************************************************************************)
(* What _prune leaves of a window in order: exactly the outcomes that are  *)
(* no older than the window and among its latest WindowSize ones.  Popping *)
(* from the left loses nothing that counts and keeps nothing that does not.*)
(***************************************************************************)
THEOREM PruneExact ==
    ASSUME NEW Entry, NEW s \in Seq(Entry), OldestFirst(s),
           \A i \in 1..Len(s) : s[i].age \in Nat
    PROVE  \E k \in 0..Len(s) :
              /\ Prune(s) = SubSeq(s, k + 1, Len(s))
              /\ \A i \in 1..Len(s) :
                    i > k <=> /\ s[i].age <= WindowSeconds
                              /\ Len(s) - i < WindowSize
<1>1. Len(s) \in Nat /\ DOMAIN s = 1..Len(s)
  BY LenProperties
<1>2. PICK c \in 0..Len(s) :
          /\ NewestOnly(s) = Rest(s, c)
          /\ \A i \in 1..Len(s) : i > c <=> Len(s) - i < WindowSize
  BY NewestTail
<1> DEFINE t == Rest(s, c)
<1>3. /\ t \in Seq(Entry)
      /\ Len(t) = Len(s) - c
      /\ DOMAIN t = 1..(Len(s) - c)
      /\ \A i \in 1..(Len(s) - c) : t[i] = s[c + i]
  BY RestFacts
<1> HIDE DEF t
<1>4. \A i \in 1..Len(t) : c + i \in 1..Len(s) /\ t[i] = s[c + i]
  BY <1>1, <1>3
<1>5. OldestFirst(t) /\ \A i \in 1..Len(t) : t[i].age \in Nat
  <2>1. \A i \in 1..Len(t) : t[i].age \in Nat
    BY <1>4
  <2>2. ASSUME NEW i \in DOMAIN t, NEW j \in DOMAIN t, i <= j
        PROVE  t[j].age <= t[i].age
    <3>1. c + i \in DOMAIN s /\ c + j \in DOMAIN s /\ c + i <= c + j
      BY <1>1, <1>3, <1>4, <2>2
    <3> QED
      BY <1>3, <1>4, <3>1 DEF OldestFirst
  <2> QED
    BY <2>1, <2>2 DEF OldestFirst
<1>6. PICK m \in 0..Len(t) :
          /\ Prune(s) = Rest(t, m)
          /\ \A i \in 1..Len(t) : i > m <=> t[i].age <= WindowSeconds
  BY <1>2, <1>3, <1>5, FreshTail DEF Prune, t
<1>7. c + m \in 0..Len(s) /\ Prune(s) = SubSeq(s, (c + m) + 1, Len(s))
  <2>1. m \in 0..(Len(s) - c)
    BY <1>3
  <2>2. Rest(t, m) = Rest(s, c + m)
    BY <2>1, RestOfRest DEF t
  <2> QED
    BY <1>1, <1>6, <2>1, <2>2 DEF Rest
<1>8. ASSUME NEW i \in 1..Len(s)
      PROVE  i > c + m <=> s[i].age <= WindowSeconds /\ Len(s) - i < WindowSize
  <2>1. CASE i > c
    <3>1. i - c \in 1..Len(t) /\ c + (i - c) = i
      BY <1>1, <1>3, <2>1
    <3>2. t[i - c] = s[i]
      BY <1>4, <3>1
    <3>3. i - c > m <=> s[i].age <= WindowSeconds
      BY <1>6, <3>1, <3>2
    <3>4. i - c > m <=> i > c + m
      BY <1>1
    <3> QED
      BY <1>2, <2>1, <3>3, <3>4
  <2>2. CASE ~(i > c)
    BY <1>1, <1>2, <2>2
  <2> QED
    BY <2>1, <2>2
<1> QED
  BY <1>7, <1>8

(* So a pruned window is in order, within its size, and fresh throughout. *)
LEMMA PruneOrder ==
    ASSUME NEW Entry, NEW s \in Seq(Entry), OldestFirst(s),
           \A i \in 1..Len(s) : s[i].age \in Nat
    PROVE  /\ OldestFirst(Prune(s))
           /\ AllFresh(Prune(s))
           /\ Len(Prune(s)) <= WindowSize
<1>1. Len(s) \in Nat /\ DOMAIN s = 1..Len(s) /\ WindowSize \in Nat
  BY LenProperties, WindowAssumption
<1>2. PICK k \in 0..Len(s) :
          /\ Prune(s) = Rest(s, k)
          /\ \A i \in 1..Len(s) :
                i > k <=> s[i].age <= WindowSeconds /\ Len(s) - i < WindowSize
  BY PruneExact DEF Rest
<1>3. /\ Len(Prune(s)) = Len(s) - k
      /\ DOMAIN Prune(s) = 1..(Len(s) - k)
      /\ \A i \in 1..(Len(s) - k) : Prune(s)[i] = s[k + i]
  BY <1>2, RestFacts
<1>4. \A i \in DOMAIN Prune(s) : k + i \in 1..Len(s) /\ k + i > k
  BY <1>1, <1>3
<1>5. AllFresh(Prune(s))
  BY <1>2, <1>3, <1>4 DEF AllFresh, Fresh
<1>6. ASSUME NEW i \in DOMAIN Prune(s), NEW j \in DOMAIN Prune(s), i <= j
      PROVE  Prune(s)[j].age <= Prune(s)[i].age
  <2>1. k + i \in DOMAIN s /\ k + j \in DOMAIN s /\ k + i <= k + j
    BY <1>1, <1>3, <1>4, <1>6
  <2> QED
    BY <1>3, <1>6, <2>1 DEF OldestFirst
<1>7. Len(Prune(s)) <= WindowSize
  <2>1. k \in Nat /\ k <= Len(s)
    BY <1>1
  <2>2. CASE k >= Len(s)
    BY <1>1, <1>3, <2>1, <2>2
  <2>3. CASE k < Len(s)
    <3>1. k + 1 \in 1..Len(s) /\ k + 1 > k
      BY <1>1, <2>1, <2>3
    <3>2. Len(s) - (k + 1) < WindowSize
      BY <1>2, <3>1
    <3> QED
      BY <1>1, <1>3, <2>1, <3>2
  <2> QED
    BY <1>1, <2>1, <2>2, <2>3
<1> QED
  BY <1>5, <1>6, <1>7 DEF OldestFirst

(* A new outcome goes behind the others. *)
LEMMA AppendOrder ==
    ASSUME NEW Entry, NEW s \in Seq(Entry), OldestFirst(s),
           \A o \in Entry : o.age \in Nat,
           NEW new \in Entry, new.age = 0
    PROVE  /\ Append(s, new) \in Seq(Entry)
           /\ OldestFirst(Append(s, new))
<1> DEFINE t == Append(s, new)
<1>1. /\ Len(s) \in Nat /\ DOMAIN s = 1..Len(s)
      /\ \A i \in 1..Len(s) : s[i] \in Entry
  BY LenProperties, ElementOfSeq
<1>2. /\ t \in Seq(Entry)
      /\ Len(t) = Len(s) + 1
      /\ \A i \in 1..Len(s) : t[i] = s[i]
      /\ t[Len(s) + 1] = new
  BY AppendProperties
<1>3. DOMAIN t = 1..(Len(s) + 1)
  BY <1>2, LenProperties
<1> HIDE DEF t
<1>4. ASSUME NEW i \in DOMAIN t, NEW j \in DOMAIN t, i <= j
      PROVE  t[j].age <= t[i].age
  <2>1. CASE j = Len(s) + 1
    <3>1. t[i] \in Entry
      BY <1>1, <1>2, <1>3
    <3> QED
      BY <1>2, <2>1, <3>1
  <2>2. CASE j # Len(s) + 1
    <3>1. i \in DOMAIN s /\ j \in DOMAIN s
      BY <1>1, <1>3, <1>4, <2>2
    <3> QED
      BY <1>1, <1>2, <1>4, <3>1 DEF OldestFirst
  <2> QED
    BY <2>1, <2>2
<1> QED
  BY <1>2, <1>4 DEF OldestFirst, t

(* A tick leaves the order and the number of the outcomes as they are. *)
LEMMA AgedOrder ==
    ASSUME NEW Entry, NEW s \in Seq(Entry), OldestFirst(s),
           \A o \in Entry :
               /\ o.age \in 0..MaxAge
               /\ [o EXCEPT !.age = IF @ < MaxAge THEN @ + 1 ELSE @] \in Entry
               /\ [o EXCEPT !.age = IF @ < MaxAge THEN @ + 1 ELSE @].age
                    = IF o.age < MaxAge THEN o.age + 1 ELSE o.age
    PROVE  Len(Aged(s)) = Len(s) /\ OldestFirst(Aged(s))
<1>1. /\ Len(s) \in Nat /\ DOMAIN s = 1..Len(s) /\ MaxAge \in Nat
      /\ \A i \in 1..Len(s) : s[i] \in Entry
  BY LenProperties, ElementOfSeq, WindowAssumption DEF MaxAge
<1>2. DOMAIN Aged(s) = DOMAIN s
  BY DEF Aged
<1>3. Aged(s) \in Seq(Entry)
  BY AgedType
<1>4. Len(Aged(s)) = Len(s)
  <2>1. Len(Aged(s)) \in Nat /\ 1..Len(Aged(s)) = 1..Len(s)
    BY <1>1, <1>2, <1>3, LenProperties
  <2> QED
    BY <1>1, <2>1
<1>5. \A i \in DOMAIN s :
         /\ s[i].age \in 0..MaxAge
         /\ Aged(s)[i].age = IF s[i].age < MaxAge THEN s[i].age + 1 ELSE s[i].age
  BY <1>1 DEF Aged
<1>6. ASSUME NEW i \in DOMAIN s, NEW j \in DOMAIN s, i <= j
      PROVE  Aged(s)[j].age <= Aged(s)[i].age
  <2>1. s[j].age <= s[i].age
    BY <1>6 DEF OldestFirst
  <2> QED
    BY <1>1, <1>5, <2>1
<1> QED
  BY <1>2, <1>4, <1>6 DEF OldestFirst

-----------------------------------------------------------------------------
(* The latencies of the entries in I, and how many are at most v. *)
LatenciesOf(s, I) == {s[i].result.latency : i \in I}
AtMost(s, I, v) == Cardinality({i \in I : s[i].result.latency <= v})

LEMMA PlacesFinite ==
    ASSUME NEW n \in Nat, NEW I \in SUBSET (1..n)
    PROVE  IsFiniteSet(I)
<1>1. IsFiniteSet(1..n)
  BY FS_Interval
<1> QED
  BY <1>1, FS_Subset

(* Finitely many latencies have an upper bound. *)
LEMMA LatenciesBounded ==
    ASSUME NEW s, NEW n \in Nat, NEW I \in SUBSET (1..n),
           \A i \in I : s[i].result.latency \in Nat
    PROVE  \E v \in Nat : \A i \in I : s[i].result.latency <= v
<1> DEFINE Bounds(m, v) == \A i \in I : i <= m => s[i].result.latency <= v
           M == {m \in 0..n : \E v \in Nat : Bounds(m, v)}
<1>1. 0 \in M
  <2>1. \A i \in I : ~(i <= 0)
    OBVIOUS
  <2>2. Bounds(0, 0)
    BY <2>1, Zenon
  <2>3. 0 \in 0..n /\ 0 \in Nat
    OBVIOUS
  <2> QED
    BY <2>2, <2>3, Zenon
<1>2. PICK m \in M : \A x \in M : x <= m
  <2>1. M \in SUBSET (0..n) /\ M # {}
    BY <1>1
  <2> HIDE DEF M
  <2> QED
    BY <2>1, GreatestElement
<1>3. PICK v \in Nat : Bounds(m, v)
  BY <1>2
<1>4. CASE m = n
  BY <1>3, <1>4
<1>5. CASE m # n
  <2>1. m + 1 \in 0..n
    BY <1>2, <1>5
  <2>2. PICK w \in Nat : v <= w /\ (m + 1 \in I => s[m + 1].result.latency <= w)
    <3>1. CASE m + 1 \notin I
      BY <3>1
    <3>2. CASE m + 1 \in I /\ s[m + 1].result.latency <= v
      BY <3>2
    <3>3. CASE m + 1 \in I /\ ~(s[m + 1].result.latency <= v)
      <4>1. s[m + 1].result.latency \in Nat /\ v <= s[m + 1].result.latency
        BY <3>3
      <4> QED
        BY <4>1
    <3> QED
      BY <3>1, <3>2, <3>3
  <2>3. Bounds(m + 1, w)
    <3> SUFFICES ASSUME NEW i \in I, i <= m + 1 PROVE s[i].result.latency <= w
      OBVIOUS
    <3>1. s[i].result.latency \in Nat
      OBVIOUS
    <3>2. CASE i = m + 1
      BY <2>2, <3>2
    <3>3. CASE i # m + 1
      <4>1. i <= m
        BY <2>1, <3>3
      <4>2. s[i].result.latency <= v
        BY <1>3, <4>1
      <4> QED
        BY <2>2, <3>1, <4>2
    <3> QED
      BY <3>2, <3>3
  <2>4. m + 1 \in M
    BY <2>1, <2>3
  <2>5. m + 1 <= m
    BY <1>2, <2>4
  <2> QED
    BY <1>2, <2>5
<1> QED
  BY <1>4, <1>5

(* The k-th latency in ascending order exists, and is one of them. *)
LEMMA OrderedFacts ==
    ASSUME NEW s, NEW n \in Nat, NEW I \in SUBSET (1..n),
           \A i \in I : s[i].result.latency \in Nat,
           NEW k \in Nat, k < Cardinality(I)
    PROVE  Ordered(s, I, k) \in LatenciesOf(s, I)
<1> DEFINE Below(v) == {i \in I : s[i].result.latency < v}
           UpTo(v) == {i \in I : s[i].result.latency <= v}
           V == {v \in Nat : k < Cardinality(UpTo(v))}
<1>1. \A v : /\ Cardinality(UpTo(v)) \in Nat
             /\ Cardinality(Below(v)) \in Nat
  <2>1. IsFiniteSet(I)
    BY PlacesFinite
  <2>2. \A v : UpTo(v) \in SUBSET I /\ Below(v) \in SUBSET I
    OBVIOUS
  <2> HIDE DEF UpTo, Below
  <2> QED
    BY <2>1, <2>2, FS_Subset, FS_CardinalityType
<1>2. PICK w \in V : \A v \in V : w <= v
  <2>1. PICK u \in Nat : \A i \in I : s[i].result.latency <= u
    BY LatenciesBounded
  <2>2. UpTo(u) = I
    BY <2>1
  <2>3. u \in V
    BY <2>2
  <2>4. V \in SUBSET Nat /\ V # {}
    BY <2>3
  <2> HIDE DEF V
  <2> QED
    BY <2>4, LeastElement
<1>3. w \in Nat /\ k < Cardinality(UpTo(w))
  BY <1>2
<1>4. Cardinality(Below(w)) <= k
  <2>1. CASE w = 0
    <3>1. Below(w) = {}
      <4>1. \A i \in I : ~(s[i].result.latency < w)
        <5> HIDE DEF V, UpTo, Below
        <5> QED
          BY <2>1
      <4>2. \A i : i \notin Below(w)
        BY <4>1, Zenon
      <4> QED
        BY <4>2, Zenon
    <3>2. Cardinality(Below(w)) = 0
      BY <3>1, FS_EmptySet, Zenon
    <3> HIDE DEF Below
    <3> QED
      BY <3>2
  <2>2. CASE w # 0
    <3>1. w - 1 \in Nat /\ w - 1 \notin V
      BY <1>2, <1>3, <2>2
    <3>2. Below(w) = UpTo(w - 1)
      <4>1. \A i \in I : s[i].result.latency < w <=> s[i].result.latency <= w - 1
        BY <1>3
      <4> QED
        BY <4>1, Zenon
    <3>3. ~(k < Cardinality(UpTo(w - 1)))
      BY <3>1
    <3> HIDE DEF UpTo, Below
    <3> QED
      BY <1>1, <3>2, <3>3
  <2> QED
    BY <2>1, <2>2
<1>5. w \in LatenciesOf(s, I)
  <2> SUFFICES ASSUME \A i \in I : s[i].result.latency # w PROVE FALSE
    BY DEF LatenciesOf
  <2>1. UpTo(w) = Below(w)
    <3>1. \A i \in I : s[i].result.latency <= w <=> s[i].result.latency < w
      BY <1>3
    <3> QED
      BY <3>1, Zenon
  <2> HIDE DEF UpTo, Below
  <2> QED
    BY <1>1, <1>3, <1>4, <2>1
<1>6. \E v \in LatenciesOf(s, I) :
         /\ Cardinality({i \in I : s[i].result.latency < v}) <= k
         /\ k < Cardinality({i \in I : s[i].result.latency <= v})
  BY <1>3, <1>4, <1>5
<1> QED
  BY <1>6 DEF Ordered, LatenciesOf

(* Interpolation stays between its ends. *)
LEMMA Between ==
    ASSUME NEW lo \in Nat, NEW hi \in Nat, NEW a \in lo..hi, NEW b \in lo..hi,
           NEW d \in 0..100
    PROVE  a * (100 - d) + b * d \in (100 * lo)..(100 * hi)
<1> DEFINE c == 100 - d
<1>1. c \in Nat /\ d \in Nat /\ c + d = 100 /\ a \in Nat /\ b \in Nat
  OBVIOUS
<1> HIDE DEF c
<1>2. lo * c <= a * c /\ a * c <= hi * c
  BY <1>1
<1>3. lo * d <= b * d /\ b * d <= hi * d
  BY <1>1
<1>4. lo * c + lo * d = 100 * lo /\ hi * c + hi * d = 100 * hi
  <2>1. lo * c + lo * d = lo * (c + d) /\ hi * c + hi * d = hi * (c + d)
    BY <1>1
  <2> QED
    BY <1>1, <2>1
<1>5. /\ lo * c \in Int /\ lo * d \in Int /\ hi * c \in Int /\ hi * d \in Int
      /\ a * c \in Int /\ b * d \in Int
  BY <1>1
<1>6. 100 * lo <= a * c + b * d /\ a * c + b * d <= 100 * hi
  <2> DEFINE ac == a * c  bd == b * d  lc == lo * c  ld == lo * d
             hc == hi * c  hd == hi * d
  <2>1. /\ lc <= ac /\ ac <= hc /\ ld <= bd /\ bd <= hd
        /\ lc + ld = 100 * lo /\ hc + hd = 100 * hi
        /\ lc \in Int /\ ld \in Int /\ hc \in Int /\ hd \in Int
        /\ ac \in Int /\ bd \in Int
    BY <1>2, <1>3, <1>4, <1>5
  <2> HIDE DEF ac, bd, lc, ld, hc, hd
  <2>2. 100 * lo <= ac + bd /\ ac + bd <= 100 * hi
    BY <2>1
  <2> QED
    BY <2>2 DEF ac, bd
<1>7. a * c + b * d \in Int
  BY <1>5
<1> QED
  BY <1>6, <1>7 DEF c

(* The ranks of the two order statistics, among m + 1 > 1 values. *)
LEMMA Ranks ==
    ASSUME NEW m \in Nat, m # 0
    PROVE  /\ (95 * m) \div 100 \in 0..m
           /\ (95 * m) \div 100 + 1 \in 0..m
           /\ (95 * m) % 100 \in 0..100
OBVIOUS

(***************************************************************************)
(* The p95 lies between any bounds of the latencies it is taken from, for  *)
(* any number of them: the two order statistics that it interpolates       *)
(* between exist, and interpolating does not leave their range.            *)
(***************************************************************************)
THEOREM P95Between ==
    ASSUME NEW s, NEW n \in Nat, NEW I \in SUBSET (1..n), I # {},
           NEW lo \in Nat, NEW hi \in Nat,
           \A i \in I : s[i].result.latency \in lo..hi
    PROVE  P95x100(s, I) \in (100 * lo)..(100 * hi)
<1>1. Cardinality(I) \in Nat \ {0}
  <2>1. IsFiniteSet(I)
    BY PlacesFinite
  <2> QED
    BY <2>1, FS_CardinalityType, FS_EmptySet
<1> DEFINE m == Cardinality(I) - 1
           j == (95 * m) \div 100
           d == (95 * m) % 100
<1>2. m \in Nat
  BY <1>1
<1>3. \A k \in 0..m : Ordered(s, I, k) \in lo..hi
  <2> SUFFICES ASSUME NEW k \in 0..m PROVE Ordered(s, I, k) \in lo..hi
    OBVIOUS
  <2>1. k \in Nat /\ k < Cardinality(I)
    BY <1>1
  <2>2. \A i \in I : s[i].result.latency \in Nat
    OBVIOUS
  <2>3. Ordered(s, I, k) \in LatenciesOf(s, I)
    BY <2>1, <2>2, OrderedFacts
  <2> QED
    BY <2>3 DEF LatenciesOf
<1>4. CASE m = 0
  <2>1. Ordered(s, I, 0) \in lo..hi /\ P95x100(s, I) = 100 * Ordered(s, I, 0)
    BY <1>3, <1>4 DEF P95x100
  <2> QED
    BY <2>1
<1>5. CASE m # 0
  <2>1. j \in 0..m /\ j + 1 \in 0..m /\ d \in 0..100
    BY <1>2, <1>5, Ranks
  <2>2. Ordered(s, I, j) \in lo..hi /\ Ordered(s, I, j + 1) \in lo..hi
    BY <1>3, <2>1
  <2>3. P95x100(s, I) = Ordered(s, I, j) * (100 - d) + Ordered(s, I, j + 1) * d
    BY <1>5 DEF P95x100
  <2> QED
    BY <2>1, <2>2, <2>3, Between
<1> QED
  BY <1>4, <1>5

(* So a p95 above a threshold shows an outcome above it. *)
LEMMA SlowSomewhere ==
    ASSUME NEW s, NEW n \in Nat, NEW I \in SUBSET (1..n), I # {},
           \A i \in I : s[i].result.latency \in Nat,
           NEW t \in Nat, P95x100(s, I) > 100 * t
    PROVE  \E i \in I : s[i].result.latency > t
<1> SUFFICES ASSUME \A i \in I : ~(s[i].result.latency > t) PROVE FALSE
  OBVIOUS
<1>1. \A i \in I : s[i].result.latency \in 0..t
  OBVIOUS
<1>2. P95x100(s, I) \in (100 * 0)..(100 * t)
  BY <1>1, P95Between
<1> QED
  BY <1>2

(* And a rate above a percentage shows an entry that counts for it. *)
LEMMA RateShows ==
    ASSUME NEW Entry, NEW s \in Seq(Entry), NEW I \in SUBSET (DOMAIN s),
           NEW pct \in Nat, 100 * Cardinality(I) > pct * Len(s)
    PROVE  I # {}
<1> SUFFICES ASSUME I = {} PROVE FALSE
  OBVIOUS
<1>1. Cardinality(I) = 0
  BY FS_EmptySet
<1>2. Len(s) \in Nat
  BY LenProperties
<1>3. pct * Len(s) \in Nat
  BY <1>2
<1> QED
  BY <1>1, <1>3

=============================================================================

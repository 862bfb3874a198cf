---------------------------- MODULE CounterCsvProofs -----------------------------
(***************************************************************************)
(* Proofs about the event groups and the csv file, for any list of events, *)
(* any PMU, any size of group, any number of rows and any times:           *)
(*                                                                         *)
(*   - create_event_groups places every supported event once, in the order *)
(*     of -e (EventsPlacedOnceHolds);                                      *)
(*   - to_csv.py gives every event its own column (ColumnsOwnEventsHolds); *)
(*   - the assertions of to_csv.py hold, and the scaling is right where    *)
(*     ScaledRight says it is (ScaledRightHolds).                          *)
(*                                                                         *)
(* The first two rest on PlaceInv and on what FlattenSeq and FilterEvents  *)
(* compute for every sequence.  Both are recursive functions.  Induction   *)
(* over their argument is done on the set of the numbers a fact holds for  *)
(* (lemma Induction): a set can be the parameter of a lemma where the      *)
(* provers cannot instantiate a predicate.                                 *)
(*                                                                         *)
(* The third rests on CsvInv: the time `totals' has for a group is within  *)
(* the time the group has really had, enabled, running and not running.    *)
(* It is kept although `totals' is an alternating sum of the group's       *)
(* times: what is subtracted is within what it is subtracted from.         *)
(***************************************************************************)
EXTENDS CounterCsv, FiniteSetTheorems, SequenceTheorems, WellFoundedInduction, TLAPS

----------------------------------------------------------------------------------
(***************************************************************************)
(* Natural numbers.                                                        *)
(***************************************************************************)
\* A set of natural numbers has a least element.
LEMMA Least ==
  ASSUME NEW S \in SUBSET Nat, S # {}
  PROVE  \E i \in S : \A j \in S : i <= j
<1> DEFINE R == OpToRel(<, Nat)
<1>1. IsWellFoundedOn(R, Nat)
  BY NatLessThanWellFounded
<1>2. \A i, j \in Nat : j < i => <<j, i>> \in R
  BY DEF OpToRel
<1> HIDE DEF R
<1>3. PICK i \in S : \A j \in S : ~(<<j, i>> \in R)
  BY <1>1, WFMin
<1>4. ASSUME NEW j \in S
      PROVE  i <= j
  <2>1. i \in Nat /\ j \in Nat
    OBVIOUS
  <2>2. ~(j < i)
    BY <1>2, <1>3, <2>1
  <2>3. QED
    BY <2>1, <2>2
<1>5. QED
  BY <1>3, <1>4

\* Induction on the set of the numbers a fact holds for.
LEMMA Induction ==
  ASSUME NEW T, 0 \in T, \A n \in Nat : n \in T => n + 1 \in T
  PROVE  \A n \in Nat : n \in T
<1>1. SUFFICES ASSUME Nat \ T # {}
               PROVE  FALSE
  OBVIOUS
<1>2. PICK i \in Nat \ T : \A j \in Nat \ T : i <= j
  BY <1>1, Least
<1>3. i # 0 /\ i - 1 \in Nat /\ i - 1 \in T
  BY <1>2
<1>4. QED
  BY <1>2, <1>3

\* A set of places has a last one.
LEMMA Greatest ==
  ASSUME NEW n \in Nat, NEW S \in SUBSET (1..n), S # {}
  PROVE  \E i \in S : \A j \in S : j <= i
<1> DEFINE D == {n - i : i \in S}
<1>1. D \in SUBSET Nat /\ D # {}
  <2>1. \A i \in S : n - i \in Nat
    OBVIOUS
  <2>2. QED
    BY <2>1
<1>2. PICK d \in D : \A c \in D : d <= c
  BY <1>1, Least
<1>3. PICK i \in S : d = n - i
  BY <1>2
<1>4. ASSUME NEW j \in S
      PROVE  j <= i
  BY <1>2, <1>3
<1>5. QED
  BY <1>4

----------------------------------------------------------------------------------
(***************************************************************************)
(* The groups laid end to end: FlattenSeq.                                 *)
(***************************************************************************)
\* f is the function by which FlattenSeq joins the first n members of s.
Joins(s, n, f) == f = [i \in 1..n |-> IF i = 1 THEN s[i] ELSE f[i - 1] \o s[i]]

\* Its first value is the first member.
LEMMA JoinFirst ==
  ASSUME NEW s, NEW k \in Nat, NEW f, Joins(s, k, f), k > 0
  PROVE  f[1] = s[1]
<1>1. \A i \in 1..k : f[i] = IF i = 1 THEN s[i] ELSE f[i - 1] \o s[i]
  BY Zenon DEF Joins
<1>2. QED
  BY <1>1

\* A later value is the one before and the next member.
LEMMA JoinNext ==
  ASSUME NEW s, NEW k \in Nat, NEW f, Joins(s, k, f), NEW n \in Nat, n > 0, n < k
  PROVE  f[n + 1] = f[n] \o s[n + 1]
<1>1. \A i \in 1..k : f[i] = IF i = 1 THEN s[i] ELSE f[i - 1] \o s[i]
  BY Zenon DEF Joins
<1>2. n + 1 \in 1..k /\ n + 1 # 1 /\ (n + 1) - 1 = n
  OBVIOUS
<1>3. f[n + 1] = f[(n + 1) - 1] \o s[n + 1]
  BY <1>1, <1>2, Zenon
<1>4. QED
  BY <1>2, <1>3, Zenon

\* There is one, so that is what CHOOSE finds.
LEMMA JoinExists ==
  ASSUME NEW s
  PROVE  \A n \in Nat : \E f : Joins(s, n, f)
<1> DEFINE T == {n \in Nat : \E f : Joins(s, n, f)}
<1>1. 0 \in T
  <2>1. Joins(s, 0, [i \in 1..0 |-> 0])
    BY DEF Joins
  <2>2. QED
    BY <2>1
<1>2. ASSUME NEW n \in Nat, n \in T
      PROVE  n + 1 \in T
  <2>1. PICK f : Joins(s, n, f)
    BY <1>2
  <2> DEFINE h == [i \in 1..(n + 1) |-> IF i = 1 THEN s[i] ELSE f[i - 1] \o s[i]]
  <2>2. ASSUME NEW i \in 1..n
        PROVE  h[i] = f[i]
    <3>1. f[i] = IF i = 1 THEN s[i] ELSE f[i - 1] \o s[i]
      BY <2>1, Zenon DEF Joins
    <3>2. i \in 1..(n + 1)
      OBVIOUS
    <3>3. h[i] = IF i = 1 THEN s[i] ELSE f[i - 1] \o s[i]
      BY <3>2, Zenon
    <3>4. QED
      BY <3>1, <3>3, Zenon
  <2>3. \A i \in 1..(n + 1) : i # 1 => i - 1 \in 1..n
    OBVIOUS
  <2>4. Joins(s, n + 1, h)
    BY <2>2, <2>3 DEF Joins
  <2>5. QED
    BY <2>4
<1>3. \A n \in Nat : n \in T
  BY <1>1, <1>2, Induction
<1>4. QED
  BY <1>3

\* The first n members, or values, are sequences of elements of E.
Typed(s, n, E) == \A i \in 1..n : s[i] \in Seq(E)

\* It joins sequences to sequences.
LEMMA JoinType ==
  ASSUME NEW E, NEW s, NEW k \in Nat, NEW f, Typed(s, k, E), Joins(s, k, f)
  PROVE  Typed(f, k, E)
<1> DEFINE T == {n \in Nat : n \in 1..k => f[n] \in Seq(E)}
<1>1. 0 \in T
  OBVIOUS
<1>2. ASSUME NEW n \in Nat, n \in T, n + 1 \in 1..k
      PROVE  f[n + 1] \in Seq(E)
  <2>1. s[n + 1] \in Seq(E)
    BY <1>2 DEF Typed
  <2>2. CASE n = 0
    <3>1. f[1] = s[1]
      BY <1>2, <2>2, JoinFirst
    <3>2. QED
      BY <2>1, <2>2, <3>1
  <2>3. CASE n # 0
    <3>1. n > 0 /\ n < k /\ n \in 1..k
      BY <1>2, <2>3
    <3>2. f[n + 1] = f[n] \o s[n + 1]
      BY <3>1, JoinNext
    <3>3. f[n] \in Seq(E)
      BY <1>2, <3>1
    <3>4. f[n] \o s[n + 1] \in Seq(E)
      BY <2>1, <3>3, ConcatProperties
    <3>5. QED
      BY <3>2, <3>4, Zenon
  <2>4. QED
    BY <2>2, <2>3
<1>3. \A n \in Nat : n \in T => n + 1 \in T
  BY <1>2
<1>4. \A n \in Nat : n \in T
  BY <1>1, <1>3, Induction
<1>5. QED
  BY <1>4 DEF Typed

\* s and t have the same first m members.
Agree(s, t, m) == \A i \in 1..m : s[i] = t[i]

\* What it joins does not depend on what comes later.
LEMMA JoinSame ==
  ASSUME NEW s, NEW t, NEW f, NEW h, NEW k \in Nat, NEW l \in Nat,
         Joins(s, k, f), Joins(t, l, h),
         NEW m \in Nat, m <= k, m <= l, Agree(s, t, m)
  PROVE  Agree(f, h, m)
<1>f. \A i \in 1..k : f[i] = IF i = 1 THEN s[i] ELSE f[i - 1] \o s[i]
  BY Zenon DEF Joins
<1>h. \A i \in 1..l : h[i] = IF i = 1 THEN t[i] ELSE h[i - 1] \o t[i]
  BY Zenon DEF Joins
<1> DEFINE T == {n \in Nat : n \in 1..m => f[n] = h[n]}
<1>1. 0 \in T
  OBVIOUS
<1>2. ASSUME NEW n \in Nat, n \in T, n + 1 \in 1..m
      PROVE  f[n + 1] = h[n + 1]
  <2>1. s[n + 1] = t[n + 1]
    BY <1>2 DEF Agree
  <2>2. CASE n = 0
    <3>1. k > 0 /\ l > 0
      BY <1>2
    <3>2. f[1] = s[1]
      BY <3>1, JoinFirst
    <3>3. h[1] = t[1]
      BY <3>1, JoinFirst
    <3>4. QED
      BY <2>1, <2>2, <3>2, <3>3
  <2>3. CASE n # 0
    <3>1. /\ n + 1 \in 1..k /\ n + 1 \in 1..l /\ n \in 1..m
          /\ n + 1 # 1 /\ (n + 1) - 1 = n
      BY <1>2, <2>3
    <3>2. f[n + 1] = f[(n + 1) - 1] \o s[n + 1]
      BY <1>f, <3>1, Zenon
    <3>3. h[n + 1] = h[(n + 1) - 1] \o t[n + 1]
      BY <1>h, <3>1, Zenon
    <3>4. f[n] = h[n]
      BY <1>2, <3>1
    <3>5. f[(n + 1) - 1] = h[(n + 1) - 1]
      BY <3>1, <3>4, Zenon
    <3>6. QED
      BY <2>1, <3>2, <3>3, <3>5, Zenon
  <2>4. QED
    BY <2>2, <2>3
<1>3. \A n \in Nat : n \in T => n + 1 \in T
  BY <1>2
<1>4. \A n \in Nat : n \in T
  BY <1>1, <1>3, Induction
<1>5. QED
  BY <1>4 DEF Agree

\* FlattenSeq by that function.
LEMMA Flattens ==
  ASSUME NEW s, Len(s) \in Nat \ {0}
  PROVE  \E f : Joins(s, Len(s), f) /\ FlattenSeq(s) = f[Len(s)]
<1> DEFINE F == CHOOSE f : Joins(s, Len(s), f)
<1>1. Joins(s, Len(s), F)
  BY JoinExists
<1>2. FlattenSeq(s) = F[Len(s)]
  BY DEF FlattenSeq, Joins
<1>3. QED
  BY <1>1, <1>2

\* Append and concatenation.
LEMMA JoinedThenAppended ==
  ASSUME NEW E, NEW u \in Seq(E), NEW v \in Seq(E), NEW e \in E
  PROVE  u \o Append(v, e) = Append(u \o v, e)
<1>1. <<e>> \in Seq(E)
  OBVIOUS
<1>2. u \o (v \o <<e>>) = (u \o v) \o <<e>>
  BY <1>1, ConcatAssociative
<1>3. Append(v, e) = v \o <<e>>
  BY AppendIsConcat
<1>4. u \o v \in Seq(E)
  BY ConcatProperties
<1>5. Append(u \o v, e) = (u \o v) \o <<e>>
  BY <1>4, AppendIsConcat
<1>6. QED
  BY <1>2, <1>3, <1>5

\* The last member one longer.
LEMMA JoinOneLonger ==
  ASSUME NEW E, NEW s, NEW t, NEW f, NEW h, NEW n \in Nat,
         Joins(s, n + 1, f), Joins(t, n + 1, h), Agree(s, t, n),
         Typed(s, n + 1, E), NEW e \in E, t[n + 1] = Append(s[n + 1], e)
  PROVE  h[n + 1] = Append(f[n + 1], e)
<1>0. n + 1 \in Nat /\ n + 1 > 0 /\ n < n + 1 /\ n <= n + 1
  OBVIOUS
<1>1. CASE n = 0
  <2>1. f[1] = s[1]
    BY <1>0, JoinFirst
  <2>2. h[1] = t[1]
    BY <1>0, JoinFirst
  <2>3. QED
    BY <1>1, <2>1, <2>2
<1>2. CASE n # 0
  <2>1. n > 0 /\ n \in 1..n /\ n \in 1..(n + 1) /\ n + 1 \in 1..(n + 1)
    BY <1>2
  <2>2. Typed(f, n + 1, E)
    BY <1>0, JoinType
  <2>3. f[n] \in Seq(E) /\ s[n + 1] \in Seq(E)
    BY <2>1, <2>2 DEF Typed
  <2>4. Agree(f, h, n)
    BY <1>0, JoinSame
  <2>5. f[n] = h[n]
    BY <2>1, <2>4 DEF Agree
  <2>6. f[n + 1] = f[n] \o s[n + 1]
    BY <1>0, <2>1, JoinNext
  <2>7. h[n + 1] = h[n] \o t[n + 1]
    BY <1>0, <2>1, JoinNext
  <2>8. f[n] \o Append(s[n + 1], e) = Append(f[n] \o s[n + 1], e)
    <3>1. \A u, v \in Seq(E) : u \o Append(v, e) = Append(u \o v, e)
      BY JoinedThenAppended
    <3>2. QED
      BY <2>3, <3>1
  <2>9. QED
    BY <2>5, <2>6, <2>7, <2>8
<1>3. QED
  BY <1>1, <1>2

\* A new group comes last.
LEMMA FlattenAppend ==
  ASSUME NEW E, NEW s \in Seq(Seq(E)), s # <<>>, NEW u \in Seq(E)
  PROVE  FlattenSeq(Append(s, u)) = FlattenSeq(s) \o u
<1>1. PICK k \in Nat : k = Len(s)
  BY LenProperties
<1>2. PICK t : t = Append(s, u)
  OBVIOUS
<1>3. PICK l \in Nat : l = k + 1
  OBVIOUS
<1>4. k > 0 /\ Len(t) = l /\ Agree(s, t, k) /\ t[l] = u
  BY <1>1, <1>2, <1>3, AppendProperties, EmptySeq DEF Agree
<1>5. PICK f : Joins(s, k, f) /\ FlattenSeq(s) = f[k]
  <2>1. Len(s) \in Nat \ {0}
    BY <1>1, <1>4
  <2>2. QED
    BY <1>1, <2>1, Flattens
<1>6. PICK h : Joins(t, l, h) /\ FlattenSeq(t) = h[l]
  <2>1. Len(t) \in Nat \ {0}
    BY <1>3, <1>4
  <2>2. \E h : Joins(t, Len(t), h) /\ FlattenSeq(t) = h[Len(t)]
    BY <2>1, Flattens
  <2>3. QED
    BY <1>4, <2>2
<1>7. h[l] = f[k] \o t[l]
  <2>1. k <= l /\ k <= k /\ k < l /\ k \in 1..k
    BY <1>3, <1>4
  <2>2. Agree(f, h, k)
    BY <1>4, <1>5, <1>6, <2>1, JoinSame
  <2>3. f[k] = h[k]
    BY <2>1, <2>2 DEF Agree
  <2>4. h[k + 1] = h[k] \o t[k + 1]
    BY <1>4, <1>6, <2>1, JoinNext
  <2>5. QED
    BY <1>3, <2>3, <2>4
<1>8. QED
  BY <1>2, <1>4, <1>5, <1>6, <1>7

\* An event added to the last group is the last of all.
LEMMA FlattenExtend ==
  ASSUME NEW E, NEW s \in Seq(Seq(E)), s # <<>>, NEW e \in E
  PROVE  FlattenSeq([s EXCEPT ![Len(s)] = Append(@, e)]) = Append(FlattenSeq(s), e)
<1>1. PICK k \in Nat : k = Len(s)
  BY LenProperties
<1>2. PICK t : t = [s EXCEPT ![Len(s)] = Append(@, e)]
  OBVIOUS
<1>3. k > 0 /\ k \in 1..k /\ \A i \in 1..k : s[i] \in Seq(E)
  BY <1>1, EmptySeq, ElementOfSeq
<1>4. PICK u \in Seq(E) : u = Append(s[k], e)
  BY <1>3, AppendProperties
<1>5. /\ Len(t) = k
      /\ \A i \in 1..k : t[i] = IF i = k THEN Append(s[k], e) ELSE s[i]
  <2>1. t = [s EXCEPT ![k] = u]
    BY <1>1, <1>2, <1>4
  <2>2. /\ Len([s EXCEPT ![k] = u]) = Len(s)
        /\ \A i \in 1..Len(s) : [s EXCEPT ![k] = u][i] = IF i = k THEN u ELSE s[i]
    BY <1>1, <1>3, ExceptSeq
  <2>3. QED
    BY <1>1, <1>4, <2>1, <2>2
<1>6. PICK f : Joins(s, k, f) /\ FlattenSeq(s) = f[k]
  <2>1. Len(s) \in Nat \ {0}
    BY <1>1, <1>3
  <2>2. QED
    BY <1>1, <2>1, Flattens
<1>7. PICK h : Joins(t, k, h) /\ FlattenSeq(t) = h[k]
  <2>1. Len(t) \in Nat \ {0}
    BY <1>3, <1>5
  <2>2. \E h : Joins(t, Len(t), h) /\ FlattenSeq(t) = h[Len(t)]
    BY <2>1, Flattens
  <2>3. QED
    BY <1>5, <2>2
<1>8. PICK n \in Nat : n + 1 = k
  <2>1. k - 1 \in Nat /\ (k - 1) + 1 = k
    BY <1>3
  <2>2. QED
    BY <2>1
<1>9. Typed(s, n + 1, E) /\ Agree(s, t, n) /\ t[n + 1] = Append(s[n + 1], e)
  <2>1. k \in 1..k /\ \A i \in 1..n : i \in 1..k /\ i # k
    BY <1>3, <1>8
  <2>2. Agree(s, t, n)
    BY <1>5, <2>1 DEF Agree
  <2>3. t[k] = Append(s[k], e)
    BY <1>5, <2>1
  <2>4. Typed(s, k, E)
    BY <1>3 DEF Typed
  <2>5. QED
    BY <1>8, <2>2, <2>3, <2>4
<1>10. h[n + 1] = Append(f[n + 1], e)
  BY <1>6, <1>7, <1>8, <1>9, JoinOneLonger
<1>11. QED
  BY <1>2, <1>6, <1>7, <1>8, <1>10

\* The elements of two sequences laid end to end.
LEMMA ContainsConcat ==
  ASSUME NEW E, NEW u \in Seq(E), NEW v \in Seq(E), NEW x
  PROVE  Contains(u \o v, x) <=> Contains(u, x) \/ Contains(v, x)
<1>1. /\ Len(u) \in Nat /\ Len(v) \in Nat /\ Len(u \o v) = Len(u) + Len(v)
      /\ \A i \in 1..Len(u) + Len(v) :
           (u \o v)[i] = IF i <= Len(u) THEN u[i] ELSE v[i - Len(u)]
  BY LenProperties, ConcatProperties
<1>2. PICK k \in Nat, l \in Nat : k = Len(u) /\ l = Len(v)
  BY <1>1
<1> DEFINE w == u \o v
<1>3. Len(w) = k + l /\ \A i \in 1..(k + l) : w[i] = IF i <= k THEN u[i] ELSE v[i - k]
  BY <1>1, <1>2
<1> HIDE DEF w
<1>4. ASSUME NEW i \in 1..k
      PROVE  i \in 1..(k + l) /\ w[i] = u[i]
  BY <1>3
<1>5. ASSUME NEW i \in 1..l
      PROVE  \E j \in 1..(k + l) : w[j] = v[i]
  <2>1. k + i \in 1..(k + l) /\ ~(k + i <= k) /\ (k + i) - k = i
    OBVIOUS
  <2>2. w[k + i] = v[(k + i) - k]
    BY <1>3, <2>1
  <2>3. QED
    BY <2>1, <2>2
<1>6. ASSUME NEW i \in 1..(k + l)
      PROVE  (\E j \in 1..k : w[i] = u[j]) \/ (\E j \in 1..l : w[i] = v[j])
  <2>1. CASE i <= k
    BY <1>3, <2>1
  <2>2. CASE ~(i <= k)
    <3>1. i - k \in 1..l /\ w[i] = v[i - k]
      BY <1>3, <2>2
    <3>2. QED
      BY <3>1
  <2>3. QED
    BY <2>1, <2>2
<1>7. Contains(w, x) <=> \E i \in 1..(k + l) : w[i] = x
  BY <1>3 DEF Contains
<1>8. Contains(u, x) <=> \E i \in 1..k : u[i] = x
  BY <1>2 DEF Contains
<1>9. Contains(v, x) <=> \E i \in 1..l : v[i] = x
  BY <1>2 DEF Contains
<1>10. Contains(w, x) <=> Contains(u, x) \/ Contains(v, x)
  BY <1>4, <1>5, <1>6, <1>7, <1>8, <1>9
<1>11. QED
  BY <1>10 DEF w

\* A value has the elements of the members joined so far.
LEMMA JoinContains ==
  ASSUME NEW E, NEW s, NEW k \in Nat, NEW f, Typed(s, k, E), Joins(s, k, f), NEW x
  PROVE  \A n \in 1..k : Contains(f[n], x) <=> \E g \in 1..n : Contains(s[g], x)
<1>0. Typed(f, k, E)
  BY JoinType
<1> DEFINE T == {n \in Nat : n \in 1..k =>
                    (Contains(f[n], x) <=> \E g \in 1..n : Contains(s[g], x))}
<1>1. 0 \in T
  OBVIOUS
<1>2. ASSUME NEW n \in Nat, n \in T, n + 1 \in 1..k
      PROVE  Contains(f[n + 1], x) <=> \E g \in 1..(n + 1) : Contains(s[g], x)
  <2>1. CASE n = 0
    <3>1. f[1] = s[1]
      BY <1>2, <2>1, JoinFirst
    <3>2. 1..(n + 1) = {1}
      BY <2>1
    <3>3. QED
      BY <2>1, <3>1, <3>2
  <2>2. CASE n # 0
    <3>1. n > 0 /\ n < k /\ n \in 1..k
      BY <1>2, <2>2
    <3>2. f[n + 1] = f[n] \o s[n + 1]
      BY <3>1, JoinNext
    <3>3. f[n] \in Seq(E) /\ s[n + 1] \in Seq(E)
      BY <1>0, <1>2, <3>1 DEF Typed
    <3>4. \A u, v \in Seq(E) : Contains(u \o v, x) <=> Contains(u, x) \/ Contains(v, x)
      BY ContainsConcat
    <3>5. Contains(f[n + 1], x) <=> Contains(f[n], x) \/ Contains(s[n + 1], x)
      BY <3>2, <3>3, <3>4
    <3>6. 1..(n + 1) = 1..n \cup {n + 1}
      OBVIOUS
    <3>7. Contains(f[n], x) <=> \E g \in 1..n : Contains(s[g], x)
      BY <1>2, <3>1
    <3>8. QED
      BY <3>5, <3>6, <3>7, Zenon
  <2>3. QED
    BY <2>1, <2>2
<1>3. \A n \in Nat : n \in T => n + 1 \in T
  BY <1>2
<1>4. \A n \in Nat : n \in T
  BY <1>1, <1>3, Induction
<1>5. QED
  BY <1>4

\* FlattenSeq has the elements of the groups and no others.
LEMMA FlattenElements ==
  ASSUME NEW E, NEW s \in Seq(Seq(E)), s # <<>>
  PROVE  /\ FlattenSeq(s) \in Seq(E)
         /\ \A x : Contains(FlattenSeq(s), x) <=> \E g \in 1..Len(s) : Contains(s[g], x)
<1>1. PICK k \in Nat : k = Len(s)
  BY LenProperties
<1>2. k > 0 /\ k \in 1..k /\ Typed(s, k, E)
  BY <1>1, EmptySeq, ElementOfSeq DEF Typed
<1>3. PICK f : Joins(s, k, f) /\ FlattenSeq(s) = f[k]
  <2>1. Len(s) \in Nat \ {0}
    BY <1>1, <1>2
  <2>2. QED
    BY <1>1, <2>1, Flattens
<1>4. Typed(f, k, E)
  BY <1>2, <1>3, JoinType
<1>5. ASSUME NEW x
      PROVE  Contains(f[k], x) <=> \E g \in 1..k : Contains(s[g], x)
  <2>1. \A n \in 1..k : Contains(f[n], x) <=> \E g \in 1..n : Contains(s[g], x)
    BY <1>2, <1>3, JoinContains
  <2>2. QED
    BY <1>2, <2>1
<1>6. f[k] \in Seq(E)
  BY <1>2, <1>4 DEF Typed
<1>7. QED
  BY <1>1, <1>3, <1>5, <1>6

\* The first group alone.
LEMMA FlattenFirst == FlattenSeq(<< <<>> >>) = <<>>
<1>1. PICK s : s = << <<>> >>
  OBVIOUS
<1>2. Len(s) = 1 /\ s[1] = <<>>
  BY <1>1
<1>3. PICK f : Joins(s, Len(s), f) /\ FlattenSeq(s) = f[Len(s)]
  <2>1. Len(s) \in Nat \ {0}
    BY <1>2
  <2>2. QED
    BY <2>1, Flattens
<1>4. f[1] = s[1]
  <2>1. Len(s) \in Nat /\ Len(s) > 0
    BY <1>2
  <2>2. QED
    BY <1>3, <2>1, JoinFirst
<1>5. QED
  BY <1>1, <1>2, <1>3, <1>4

----------------------------------------------------------------------------------
(***************************************************************************)
(* filter_events: FilterEvents.                                            *)
(***************************************************************************)
\* f is the function by which filter_events keeps of the first n requested events.
Keeps(n, f) ==
  f = [i \in 0..n |-> IF i = 0 THEN <<>>
                      ELSE IF requested[i] \in Supported THEN Append(f[i - 1], requested[i])
                      ELSE f[i - 1]]

\* There is one.
LEMMA KeepExists == \A n \in Nat : \E f : Keeps(n, f)
<1> DEFINE T == {n \in Nat : \E f : Keeps(n, f)}
<1>1. 0 \in T
  <2>1. Keeps(0, [i \in 0..0 |-> <<>>])
    BY DEF Keeps
  <2>2. QED
    BY <2>1
<1>2. ASSUME NEW n \in Nat, n \in T
      PROVE  n + 1 \in T
  <2>1. PICK f : Keeps(n, f)
    BY <1>2
  <2> DEFINE Entry(g, i) == IF i = 0 THEN <<>>
                            ELSE IF requested[i] \in Supported
                                   THEN Append(g[i - 1], requested[i])
                            ELSE g[i - 1]
  <2> DEFINE h == [i \in 0..(n + 1) |-> Entry(f, i)]
  <2>2. ASSUME NEW i \in 0..n
        PROVE  h[i] = f[i]
    <3>1. f[i] = Entry(f, i)
      BY <2>1, Zenon DEF Keeps
    <3>2. i \in 0..(n + 1)
      OBVIOUS
    <3>3. h[i] = Entry(f, i)
      BY <3>2, Zenon
    <3>4. QED
      BY <3>1, <3>3, Zenon
  <2>3. \A i \in 0..(n + 1) : i # 0 => i - 1 \in 0..n
    OBVIOUS
  <2>4. \A i \in 0..(n + 1) : Entry(f, i) = Entry(h, i)
    <3> HIDE DEF h
    <3> QED
      BY <2>2, <2>3
  <2>5. h = [i \in 0..(n + 1) |-> Entry(h, i)]
    <3>1. h = [i \in 0..(n + 1) |-> Entry(f, i)]
      OBVIOUS
    <3> HIDE DEF h
    <3>2. QED
      BY <2>4, <3>1
  <2>6. Keeps(n + 1, h)
    BY <2>5, Zenon DEF Keeps
  <2>7. QED
    BY <2>6
<1>3. \A n \in Nat : n \in T
  BY <1>1, <1>2, Induction
<1>4. QED
  BY <1>3

\* FilterEvents by that function.
LEMMA Filters ==
  ASSUME Len(requested) \in Nat
  PROVE  \E f : Keeps(Len(requested), f) /\ FilterEvents(requested) = f[Len(requested)]
<1> DEFINE F == CHOOSE f : Keeps(Len(requested), f)
<1>1. Keeps(Len(requested), F)
  BY KeepExists
<1>2. FilterEvents(requested) = F[Len(requested)]
  BY DEF FilterEvents, Keeps
<1>3. QED
  BY <1>1, <1>2

\* The rank of the next event.
LEMMA RankStep ==
  /\ Rank(0) = 0
  /\ \A n \in Nat : /\ Rank(n) \in Nat
                     /\ Rank(n + 1) = IF requested[n + 1] \in Supported
                                        THEN Rank(n) + 1 ELSE Rank(n)
<1> DEFINE S(n) == {i \in 1..n : requested[i] \in Supported}
<1>1. Rank(0) = 0
  <2>1. S(0) = {}
    OBVIOUS
  <2>2. QED
    BY <2>1, FS_EmptySet DEF Rank
<1>2. ASSUME NEW n \in Nat
      PROVE  /\ Rank(n) \in Nat
             /\ Rank(n + 1) = IF requested[n + 1] \in Supported
                                THEN Rank(n) + 1 ELSE Rank(n)
  <2>1. IsFiniteSet(S(n)) /\ Cardinality(S(n)) \in Nat
    <3>1. IsFiniteSet(1..n) /\ S(n) \subseteq 1..n
      BY FS_Interval
    <3>2. QED
      BY <3>1, FS_Subset, FS_CardinalityType
  <2>2. n + 1 \notin S(n)
    OBVIOUS
  <2>3. CASE requested[n + 1] \in Supported
    <3>1. S(n + 1) = S(n) \cup {n + 1}
      BY <2>3
    <3>2. Cardinality(S(n) \cup {n + 1}) = Cardinality(S(n)) + 1
      BY <2>1, <2>2, FS_AddElement
    <3>3. QED
      BY <2>1, <2>3, <3>1, <3>2 DEF Rank
  <2>4. CASE requested[n + 1] \notin Supported
    <3>1. S(n + 1) = S(n)
      <4>1. \A i \in 1..(n + 1) : i \in 1..n \/ i = n + 1
        OBVIOUS
      <4>2. 1..n \subseteq 1..(n + 1)
        OBVIOUS
      <4>3. QED
        BY <2>4, <4>1, <4>2
    <3>2. QED
      BY <2>1, <2>4, <3>1 DEF Rank
  <2>5. QED
    BY <2>3, <2>4
<1>3. QED
  BY <1>1, <1>2

(***************************************************************************)
(* q is what is kept of the first n requested events: the supported ones   *)
(* at their ranks, and nothing else.                                       *)
(***************************************************************************)
Ranked(q, n) ==
  /\ q \in Seq(Events) /\ Len(q) = Rank(n)
  /\ \A i \in 1..n : requested[i] \in Supported =>
       Rank(i) \in 1..Rank(n) /\ q[Rank(i)] = requested[i]
  /\ \A c \in 1..Rank(n) : \E i \in 1..n : requested[i] \in Supported /\ Rank(i) = c

\* One event more.
LEMMA RankedStep ==
  ASSUME NEW n \in Nat, NEW q, Ranked(q, n), requested[n + 1] \in Events
  PROVE  IF requested[n + 1] \in Supported THEN Ranked(Append(q, requested[n + 1]), n + 1)
         ELSE Ranked(q, n + 1)
<1>1. q \in Seq(Events) /\ Len(q) = Rank(n) /\ Rank(n) \in Nat
  BY RankStep DEF Ranked
<1>2. /\ \A i \in 1..(n + 1) : i \in 1..n \/ i = n + 1
      /\ 1..n \subseteq 1..(n + 1) /\ n + 1 \in 1..(n + 1)
  OBVIOUS
<1>3. CASE requested[n + 1] \in Supported
  <2>1. PICK r \in Nat : r = Rank(n)
    BY <1>1
  <2>2. Rank(n + 1) = r + 1
    BY <1>3, <2>1, RankStep
  <2>3. PICK e \in Events : e = requested[n + 1]
    OBVIOUS
  <2>4. PICK p : p = Append(q, e)
    OBVIOUS
  <2>5. /\ p \in Seq(Events) /\ Len(p) = r + 1
        /\ \A c \in 1..r : p[c] = q[c]
        /\ p[r + 1] = e
    BY <1>1, <2>1, <2>4, AppendProperties
  <2>6. /\ \A c \in 1..(r + 1) : c \in 1..r \/ c = r + 1
        /\ 1..r \subseteq 1..(r + 1) /\ r + 1 \in 1..(r + 1)
    OBVIOUS
  <2>7. ASSUME NEW i \in 1..(n + 1), requested[i] \in Supported
        PROVE  Rank(i) \in 1..(r + 1) /\ p[Rank(i)] = requested[i]
    <3>1. CASE i \in 1..n
      <4>1. Rank(i) \in 1..r /\ q[Rank(i)] = requested[i]
        BY <2>1, <2>7, <3>1 DEF Ranked
      <4>2. QED
        BY <2>5, <2>6, <4>1
    <3>2. CASE i = n + 1
      BY <2>2, <2>3, <2>5, <2>6, <3>2
    <3>3. QED
      BY <1>2, <3>1, <3>2
  <2>8. ASSUME NEW c \in 1..(r + 1)
        PROVE  \E i \in 1..(n + 1) : requested[i] \in Supported /\ Rank(i) = c
    <3>1. CASE c \in 1..r
      <4>1. \E i \in 1..n : requested[i] \in Supported /\ Rank(i) = c
        BY <2>1, <3>1 DEF Ranked
      <4>2. QED
        BY <1>2, <4>1
    <3>2. CASE c = r + 1
      BY <1>2, <1>3, <2>2, <3>2
    <3>3. QED
      BY <2>6, <3>1, <3>2
  <2>9. Ranked(p, n + 1)
    BY <2>2, <2>5, <2>7, <2>8 DEF Ranked
  <2>10. QED
    BY <1>3, <2>3, <2>4, <2>9
<1>4. CASE requested[n + 1] \notin Supported
  <2>1. Rank(n + 1) = Rank(n)
    BY <1>4, RankStep
  <2>2. \A i \in 1..(n + 1) : requested[i] \in Supported => i \in 1..n
    BY <1>2, <1>4
  <2>3. Ranked(q, n + 1)
    BY <1>2, <2>1, <2>2 DEF Ranked
  <2>4. QED
    BY <1>4, <2>3
<1>5. QED
  BY <1>3, <1>4

\* filter_events keeps every supported event, in order, and no other.
LEMMA FilterRanks ==
  ASSUME requested \in Seq(Events)
  PROVE  Ranked(FilterEvents(requested), Len(requested))
<1>1. PICK k \in Nat : k = Len(requested)
  BY LenProperties
<1>2. \A i \in 1..k : requested[i] \in Events
  BY <1>1, ElementOfSeq
<1>3. PICK f : Keeps(k, f) /\ FilterEvents(requested) = f[k]
  BY <1>1, Filters
<1>4. \A i \in 0..k : f[i] = IF i = 0 THEN <<>>
                            ELSE IF requested[i] \in Supported
                                   THEN Append(f[i - 1], requested[i])
                            ELSE f[i - 1]
  BY <1>3, Zenon DEF Keeps
<1> DEFINE T == {n \in Nat : n \in 0..k => Ranked(f[n], n)}
<1>5. 0 \in T
  <2>1. f[0] = <<>>
    BY <1>4
  <2>2. <<>> \in Seq(Events) /\ Len(<<>>) = 0
    BY EmptySeq
  <2>3. Ranked(<<>>, 0)
    BY <2>2, RankStep DEF Ranked
  <2>4. QED
    BY <2>1, <2>3
<1>6. ASSUME NEW n \in Nat, n \in T, n + 1 \in 0..k
      PROVE  Ranked(f[n + 1], n + 1)
  <2>1. /\ n \in 0..k /\ n + 1 \in 1..k /\ n + 1 # 0 /\ (n + 1) - 1 = n
    BY <1>6
  <2>2. Ranked(f[n], n) /\ requested[n + 1] \in Events
    BY <1>2, <1>6, <2>1
  <2>3. f[n + 1] = IF requested[n + 1] \in Supported
                     THEN Append(f[(n + 1) - 1], requested[n + 1]) ELSE f[(n + 1) - 1]
    BY <1>4, <1>6, <2>1, Zenon
  <2>4. f[n + 1] = IF requested[n + 1] \in Supported
                     THEN Append(f[n], requested[n + 1]) ELSE f[n]
    BY <2>1, <2>3, Zenon
  <2>5. IF requested[n + 1] \in Supported THEN Ranked(Append(f[n], requested[n + 1]), n + 1)
        ELSE Ranked(f[n], n + 1)
    BY <2>2, RankedStep
  <2>6. QED
    BY <2>4, <2>5
<1>7. \A n \in Nat : n \in T => n + 1 \in T
  BY <1>6
<1>8. \A n \in Nat : n \in T
  BY <1>5, <1>7, Induction
<1>9. Ranked(f[k], k)
  BY <1>8
<1>10. QED
  BY <1>1, <1>3, <1>9

----------------------------------------------------------------------------------
(***************************************************************************)
(* The inductive invariant of create_event_groups: what the groups hold and *)
(* what is still to be placed are, laid end to end, what filter_events kept. *)
(***************************************************************************)
PlaceInv ==
  /\ requested \in Seq(Events)
  /\ phase \in {"filter", "place", "done", "abort"}
  /\ phase \in {"place", "done"} =>
       /\ groups \in Seq(Seq(Events)) /\ groups # <<>>
       /\ todo \in Seq(Events)
       /\ FlattenSeq(groups) \o todo = FilterEvents(requested)
  /\ phase = "done" => todo = <<>>

\* PlaceInv before filter_events.
LEMMA PlaceInvInit == CsvInit => PlaceInv
<1>1. ASSUME requested \in SeqOf(Events, MaxRequested)
      PROVE  requested \in Seq(Events)
  <2>1. PICK m \in Nat : requested \in [1..m -> Events]
    BY <1>1, EventGroupsAssumption DEF SeqOf, EventGroupsAssumption
  <2>2. QED
    BY <2>1, SeqDef
<1>2. QED
  BY <1>1 DEF CsvInit, Init, PlaceInv

\* filter_events and the first group.
LEMMA FilterStep == PlaceInv /\ Filter => PlaceInv'
<1> SUFFICES ASSUME PlaceInv, Filter PROVE PlaceInv'
  OBVIOUS
<1>1. requested \in Seq(Events) /\ requested' = requested /\ phase' = "place"
  BY DEF PlaceInv, Filter
<1>2. PICK q : q = FilterEvents(requested)
  OBVIOUS
<1>3. q \in Seq(Events)
  BY <1>1, <1>2, FilterRanks DEF Ranked
<1>4. groups' = << <<>> >> /\ todo' = q /\ FilterEvents(requested)' = q
  BY <1>1, <1>2 DEF Filter
<1>5. << <<>> >> \in Seq(Seq(Events)) /\ << <<>> >> # <<>>
  OBVIOUS
<1>6. FlattenSeq(groups)' = <<>>
  BY <1>4, FlattenFirst
<1>7. <<>> \o q = q
  BY <1>3, ConcatEmptySeq
<1>8. QED
  BY <1>1, <1>3, <1>4, <1>5, <1>6, <1>7 DEF PlaceInv

\* The first of the events left, then the others.
LEMMA HeadFirst ==
  ASSUME NEW E, NEW s \in Seq(E), NEW t \in Seq(E), t # <<>>
  PROVE  (s \o <<Head(t)>>) \o Tail(t) = s \o t
<1>1. Head(t) \in E /\ Tail(t) \in Seq(E) /\ <<Head(t)>> \in Seq(E)
  BY HeadTailProperties
<1>2. <<Head(t)>> \o Tail(t) = t
  <2>1. Len(t) \in Nat /\ Len(t) >= 1
    BY EmptySeq
  <2>2. /\ Len(<<Head(t)>>) = 1 /\ Len(Tail(t)) = Len(t) - 1 /\ Head(t) = t[1]
        /\ <<Head(t)>>[1] = Head(t)
        /\ \A i \in 1..Len(Tail(t)) : Tail(t)[i] = t[i + 1]
    <3>1. Len(<<Head(t)>>) = 1 /\ <<Head(t)>>[1] = Head(t)
      OBVIOUS
    <3>2. /\ Len(Tail(t)) = Len(t) - 1
          /\ \A i \in 1..Len(Tail(t)) : Tail(t)[i] = t[i + 1]
      BY HeadTailProperties
    <3>3. Head(t) = t[1]
      OBVIOUS
    <3>4. QED
      BY <3>1, <3>2, <3>3
  <2>3. PICK w : w = <<Head(t)>> \o Tail(t)
    OBVIOUS
  <2>4. PICK h : h = <<Head(t)>>
    OBVIOUS
  <2>5. /\ w \in Seq(E)
        /\ Len(w) = Len(h) + Len(Tail(t))
        /\ \A i \in 1..(Len(h) + Len(Tail(t))) :
             w[i] = IF i <= Len(h) THEN h[i] ELSE Tail(t)[i - Len(h)]
    BY <1>1, <2>3, <2>4, ConcatProperties
  <2>6. /\ Len(w) = Len(t)
        /\ \A i \in 1..Len(t) : w[i] = IF i <= 1 THEN h[i] ELSE Tail(t)[i - 1]
    BY <2>1, <2>2, <2>4, <2>5
  <2>7. ASSUME NEW i \in 1..Len(t)
        PROVE  w[i] = t[i]
    <3>1. CASE i = 1
      BY <2>2, <2>4, <2>6, <3>1
    <3>2. CASE i # 1
      <4>1. i - 1 \in 1..Len(Tail(t)) /\ ~(i <= 1) /\ (i - 1) + 1 = i
        BY <2>1, <2>2, <3>2
      <4>2. w[i] = Tail(t)[i - 1] /\ Tail(t)[i - 1] = t[(i - 1) + 1]
        BY <2>2, <2>6, <4>1
      <4>3. QED
        BY <4>1, <4>2
    <3>3. QED
      BY <3>1, <3>2
  <2>8. QED
    BY <2>3, <2>5, <2>6, <2>7, SeqEqual
<1>3. QED
  BY <1>1, <1>2, ConcatAssociative

\* What is known when an event is about to be placed.
LEMMA PlaceFacts ==
  ASSUME PlaceInv, phase = "place", todo # <<>>
  PROVE  /\ groups \in Seq(Seq(Events)) /\ groups # <<>> /\ Len(groups) \in 1..Len(groups)
         /\ \A i \in 1..Len(groups) : groups[i] \in Seq(Events)
         /\ Head(todo) \in Events /\ Tail(todo) \in Seq(Events)
         /\ (FlattenSeq(groups) \o <<Head(todo)>>) \o Tail(todo) = FilterEvents(requested)
         /\ requested \in Seq(Events)
<1>1. /\ groups \in Seq(Seq(Events)) /\ groups # <<>> /\ todo \in Seq(Events)
      /\ FlattenSeq(groups) \o todo = FilterEvents(requested) /\ requested \in Seq(Events)
  BY DEF PlaceInv
<1>2. FlattenSeq(groups) \in Seq(Events)
  BY <1>1, FlattenElements
<1>3. Len(groups) \in Nat \ {0}
  BY <1>1, EmptySeq
<1>4. \A i \in 1..Len(groups) : groups[i] \in Seq(Events)
  BY <1>1, ElementOfSeq
<1>5. Head(todo) \in Events /\ Tail(todo) \in Seq(Events)
  BY <1>1, HeadTailProperties
<1>6. \A s, t \in Seq(Events) : t # <<>> => (s \o <<Head(t)>>) \o Tail(t) = s \o t
  BY HeadFirst
<1>7. (FlattenSeq(groups) \o <<Head(todo)>>) \o Tail(todo) = FlattenSeq(groups) \o todo
  BY <1>1, <1>2, <1>6, Zenon
<1>8. Len(groups) \in 1..Len(groups)
  BY <1>3
<1>9. QED
  BY <1>1, <1>4, <1>5, <1>7, <1>8

\* add_event to the newest group.
LEMMA PlaceInLastStep == PlaceInv /\ PlaceInLast => PlaceInv'
<1> SUFFICES ASSUME PlaceInv, PlaceInLast PROVE PlaceInv'
  OBVIOUS
<1>1. /\ phase = "place" /\ todo # <<>> /\ phase' = "place" /\ requested' = requested
      /\ todo' = Tail(todo)
      /\ groups' = [groups EXCEPT ![Len(groups)] = Append(@, Head(todo))]
  BY DEF PlaceInLast
<1>2. /\ groups \in Seq(Seq(Events)) /\ groups # <<>> /\ Len(groups) \in 1..Len(groups)
      /\ \A i \in 1..Len(groups) : groups[i] \in Seq(Events)
      /\ Head(todo) \in Events /\ Tail(todo) \in Seq(Events)
      /\ (FlattenSeq(groups) \o <<Head(todo)>>) \o Tail(todo) = FilterEvents(requested)
      /\ requested \in Seq(Events)
  BY <1>1, PlaceFacts
<1>3. PICK u \in Seq(Events) : u = Append(groups[Len(groups)], Head(todo))
  BY <1>2, AppendProperties
<1>4. groups' \in Seq(Seq(Events)) /\ groups' # <<>>
  <2>1. groups' = [groups EXCEPT ![Len(groups)] = u]
    BY <1>1, <1>3
  <2>2. groups' \in Seq(Seq(Events)) /\ Len(groups') = Len(groups)
    BY <1>2, <2>1, ExceptSeq
  <2>3. QED
    BY <1>2, <2>2
<1>5. FlattenSeq(groups') = FlattenSeq(groups) \o <<Head(todo)>>
  <2>1. FlattenSeq(groups') = Append(FlattenSeq(groups), Head(todo))
    BY <1>1, <1>2, FlattenExtend
  <2>2. FlattenSeq(groups) \in Seq(Events)
    BY <1>2, FlattenElements
  <2>3. QED
    BY <1>2, <2>1, <2>2, AppendIsConcat
<1>6. FlattenSeq(groups)' \o todo' = FilterEvents(requested)'
  BY <1>1, <1>2, <1>5
<1>7. QED
  BY <1>1, <1>2, <1>4, <1>6 DEF PlaceInv

\* add_event to a new group.
LEMMA PlaceInNewStep == PlaceInv /\ PlaceInNew => PlaceInv'
<1> SUFFICES ASSUME PlaceInv, PlaceInNew PROVE PlaceInv'
  OBVIOUS
<1>1. /\ phase = "place" /\ todo # <<>> /\ phase' = "place" /\ requested' = requested
      /\ todo' = Tail(todo)
      /\ groups' = Append(groups, <<Head(todo)>>)
  BY DEF PlaceInNew
<1>2. /\ groups \in Seq(Seq(Events)) /\ groups # <<>>
      /\ Head(todo) \in Events /\ Tail(todo) \in Seq(Events)
      /\ (FlattenSeq(groups) \o <<Head(todo)>>) \o Tail(todo) = FilterEvents(requested)
      /\ requested \in Seq(Events)
  BY <1>1, PlaceFacts
<1>3. <<Head(todo)>> \in Seq(Events)
  BY <1>2
<1>4. groups' \in Seq(Seq(Events)) /\ groups' # <<>>
  <2>1. \A u \in Seq(Events) :
          Append(groups, u) \in Seq(Seq(Events)) /\ Append(groups, u) # <<>>
    <3>1. \A S : \A s \in Seq(S), e \in S : Append(s, e) \in Seq(S) /\ Append(s, e) # <<>>
      BY AppendProperties
    <3>2. QED
      BY <1>2, <3>1, Zenon
  <2>2. QED
    BY <1>1, <1>3, <2>1, Zenon
<1>5. FlattenSeq(groups') = FlattenSeq(groups) \o <<Head(todo)>>
  BY <1>1, <1>2, <1>3, FlattenAppend
<1>6. FlattenSeq(groups)' \o todo' = FilterEvents(requested)'
  BY <1>1, <1>2, <1>5
<1>7. QED
  BY <1>1, <1>2, <1>4, <1>6 DEF PlaceInv

(***************************************************************************)
(* create_event_groups drops, repeats and reorders nothing, for any list of *)
(* events, any PMU and any size of group.                                  *)
(***************************************************************************)
THEOREM PlaceInvHolds == CsvSpec => []PlaceInv
<1>1. PlaceInv /\ UNCHANGED vars => PlaceInv'
  BY DEF PlaceInv, vars
<1>2. PlaceInv /\ [CsvNext]_allVars => PlaceInv'
  <2> SUFFICES ASSUME PlaceInv, [CsvNext]_allVars PROVE PlaceInv'
    OBVIOUS
  <2>1. CASE Filter
    BY <2>1, FilterStep
  <2>2. CASE PlaceInLast
    BY <2>2, PlaceInLastStep
  <2>3. CASE PlaceInNew
    BY <2>3, PlaceInNewStep
  <2>4. CASE PlaceFails
    BY <2>4 DEF PlaceFails, PlaceInv
  <2>5. CASE Placed
    BY <2>5 DEF Placed, PlaceInv
  <2>6. CASE UNCHANGED vars
    BY <1>1, <2>6
  <2>7. Next => \/ Filter \/ PlaceInLast \/ PlaceInNew \/ PlaceFails \/ Placed
                \/ UNCHANGED vars
    BY DEF Next, Ended
  <2>8. [CsvNext]_allVars => Next \/ UNCHANGED vars
    BY DEF CsvNext, Open, Row, allVars
  <2>9. QED
    BY <2>1, <2>2, <2>3, <2>4, <2>5, <2>6, <2>7, <2>8
<1>3. QED
  BY <1>2, PlaceInvInit, PTL DEF CsvSpec

\* What is known when create_event_groups has returned.
LEMMA GroupsRanked ==
  ASSUME PlaceInv, phase = "done"
  PROVE  /\ requested \in Seq(Events)
         /\ groups \in Seq(Seq(Events)) /\ groups # <<>>
         /\ Ranked(FlattenSeq(groups), Len(requested))
<1>1. /\ requested \in Seq(Events)
      /\ groups \in Seq(Seq(Events)) /\ groups # <<>>
      /\ FlattenSeq(groups) \o <<>> = FilterEvents(requested)
  BY DEF PlaceInv
<1>2. FlattenSeq(groups) \in Seq(Events)
  BY <1>1, FlattenElements
<1>3. FlattenSeq(groups) = FilterEvents(requested)
  BY <1>1, <1>2, ConcatEmptySeq
<1>4. QED
  BY <1>1, <1>3, FilterRanks

(***************************************************************************)
(* When create_event_groups returns, the n-th supported event of -e is the *)
(* n-th event of the groups, and the groups hold nothing else.             *)
(***************************************************************************)
THEOREM EventsPlacedOnceHolds == CsvSpec => []EventsPlacedOnce
<1>1. PlaceInv => EventsPlacedOnce
  <2> SUFFICES ASSUME PlaceInv, phase = "done"
               PROVE  /\ Len(FlattenSeq(groups)) = Rank(Len(requested))
                      /\ \A n \in DOMAIN requested : requested[n] \in Supported =>
                           FlattenSeq(groups)[Rank(n)] = requested[n]
    BY DEF EventsPlacedOnce
  <2>1. requested \in Seq(Events) /\ Ranked(FlattenSeq(groups), Len(requested))
    BY GroupsRanked
  <2>2. DOMAIN requested = 1..Len(requested)
    BY <2>1, LenProperties
  <2>3. QED
    BY <2>1, <2>2 DEF Ranked
<1>2. QED
  BY <1>1, PlaceInvHolds, PTL

----------------------------------------------------------------------------------
(***************************************************************************)
(* The columns.                                                            *)
(***************************************************************************)
\* The names the columns are made of.
Names == Events \cup ToSet(Permanent)

\* The permanent events are three different names.
LEMMA PermanentNames ==
  /\ Permanent \in Seq(Names) /\ Len(Permanent) = 3
  /\ IsInjective(Permanent)
  /\ \A x : x \in ToSet(Permanent) <=> Contains(Permanent, x)
<1>1. PICK p : p = Permanent
  OBVIOUS
<1>2. Len(p) = 3 /\ DOMAIN p = 1..3
  BY <1>1 DEF Permanent
<1>3. p[1] = "UNHALTED_REFERENCE_CYCLES" /\ p[2] = "INST_RETIRED" /\ p[3] = "CPU_CLK_UNHALTED"
  BY <1>1 DEF Permanent
<1>4. \A i \in 1..3 : i = 1 \/ i = 2 \/ i = 3
  OBVIOUS
<1>5. IsInjective(p)
  BY <1>2, <1>3, <1>4 DEF IsInjective
<1>6. ToSet(p) = {p[i] : i \in 1..3}
  BY <1>2 DEF ToSet
<1>7. \A x : x \in ToSet(p) <=> Contains(p, x)
  BY <1>2, <1>6 DEF Contains
<1>8. p \in Seq(Names)
  <2>1. p[1] \in Names /\ p[2] \in Names /\ p[3] \in Names
    BY <1>1, <1>6 DEF Names
  <2>2. Permanent = <<p[1], p[2], p[3]>>
    BY <1>3 DEF Permanent
  <2>3. QED
    BY <1>1, <2>1, <2>2
<1>9. QED
  BY <1>1, <1>2, <1>5, <1>7, <1>8

\* What follows a prefix.
LEMMA AfterPrefix ==
  ASSUME NEW E, NEW p \in Seq(E), NEW u \in Seq(E)
  PROVE  SubSeq(p \o u, Len(p) + 1, Len(p \o u)) = u
<1>1. PICK k \in Nat, l \in Nat : k = Len(p) /\ l = Len(u)
  BY LenProperties
<1>2. Len(p \o u) = k + l
  BY <1>1, ConcatProperties
<1>3. CASE l = 0
  <2>1. u = <<>>
    BY <1>1, <1>3, EmptySeq
  <2>2. SubSeq(p \o u, k + 1, k + l) = <<>>
    <3>1. k + 1 \in Int /\ k + l \in Int /\ k + l < k + 1
      BY <1>3
    <3>2. QED
      BY <3>1, SubSeqEmpty
  <2>3. QED
    BY <1>1, <1>2, <2>1, <2>2
<1>4. CASE l # 0
  <2>1. /\ k + 1 \in (k + 1)..(k + l) /\ k + l \in (k + 1)..(k + l)
        /\ (k + 1) - k = 1 /\ (k + l) - k = l
    BY <1>4
  <2>2. SubSeq(p \o u, k + 1, k + l) = SubSeq(u, (k + 1) - k, (k + l) - k)
    BY <1>1, <2>1, SubSeqOfConcat2
  <2>3. SubSeq(u, 1, l) = u
    BY <1>1, SubSeqFull
  <2>4. QED
    BY <1>1, <1>2, <2>1, <2>2, <2>3
<1>5. QED
  BY <1>3, <1>4

\* events[3:] of a header are the rotating events of the group, which makes the
\* columns the permanent events and the groups laid end to end.
LEMMA ColumnsAre ==
  ASSUME groups \in Seq(Seq(Events)), groups # <<>>
  PROVE  /\ \A g \in Groups : groups[g] \in Seq(Names) /\ Header(g) \in Seq(Names)
         /\ FlattenSeq(groups) \in Seq(Names)
         /\ Columns = Permanent \o FlattenSeq(groups)
<1>1. \A s \in Seq(Events) : s \in Seq(Names)
  BY SeqMonotonic DEF Names
<1>2. groups \in [Groups -> Seq(Events)]
  BY LenProperties DEF Groups
<1>3. Permanent \in Seq(Names) /\ Len(Permanent) = 3
  BY PermanentNames
<1>4. ASSUME NEW g \in Groups
      PROVE  /\ groups[g] \in Seq(Names) /\ Header(g) \in Seq(Names)
             /\ OwnEvents(g) = groups[g]
  <2>1. groups[g] \in Seq(Names)
    BY <1>1, <1>2
  <2>2. Permanent \o groups[g] \in Seq(Names)
    BY <1>3, <2>1, ConcatProperties
  <2>3. Len(Permanent) + 1 = 4
    BY <1>3
  <2>4. SubSeq(Permanent \o groups[g], Len(Permanent) + 1, Len(Permanent \o groups[g]))
          = groups[g]
    BY <1>3, <2>1, AfterPrefix
  <2>5. QED
    BY <2>1, <2>2, <2>3, <2>4, Zenon DEF Header, OwnEvents
<1>5. [g \in Groups |-> OwnEvents(g)] = groups
  BY <1>2, <1>4
<1>6. FlattenSeq(groups) \in Seq(Names)
  BY <1>1, FlattenElements
<1>7. QED
  BY <1>4, <1>5, <1>6 DEF Columns

\* The last place of a name that occurs.
LEMMA LastPlaceIs ==
  ASSUME NEW E, NEW s \in Seq(E), NEW x, Contains(s, x)
  PROVE  /\ LastPlace(s, x) \in 1..Len(s)
         /\ s[LastPlace(s, x)] = x
<1>1. Len(s) \in Nat /\ DOMAIN s = 1..Len(s)
  BY LenProperties
<1>2. PICK n \in Nat : n = Len(s)
  BY <1>1
<1> DEFINE S == {i \in 1..n : s[i] = x}
<1>3. S \in SUBSET (1..n) /\ S # {}
  BY <1>2 DEF Contains
<1>4. \E i \in S : \A j \in S : j <= i
  <2> HIDE DEF S
  <2> QED
    BY <1>3, Greatest
<1>5. \E i \in DOMAIN s : s[i] = x /\ \A j \in DOMAIN s : s[j] = x => j <= i
  BY <1>1, <1>2, <1>4
<1>6. LastPlace(s, x) \in DOMAIN s /\ s[LastPlace(s, x)] = x
  BY <1>5, Zenon DEF LastPlace
<1>7. QED
  BY <1>1, <1>6

\* Two lists without repetition and without a common element.
LEMMA ConcatInjective ==
  ASSUME NEW E, NEW u \in Seq(E), NEW v \in Seq(E), IsInjective(u), IsInjective(v),
         \A x : Contains(u, x) => ~Contains(v, x)
  PROVE  IsInjective(u \o v)
<1>1. PICK k \in Nat, l \in Nat : k = Len(u) /\ l = Len(v)
  BY LenProperties
<1> DEFINE w == u \o v
<1>2. /\ DOMAIN w = 1..(k + l)
      /\ \A i \in 1..(k + l) : w[i] = IF i <= k THEN u[i] ELSE v[i - k]
  <2>1. w \in Seq(E) /\ Len(w) = k + l
    BY <1>1, ConcatProperties
  <2>2. QED
    BY <1>1, <2>1, ConcatProperties, LenProperties
<1>3. DOMAIN u = 1..k /\ DOMAIN v = 1..l
  BY <1>1, LenProperties
<1> HIDE DEF w
<1>4. \A i \in 1..k, j \in 1..l : u[i] # v[j]
  BY <1>1 DEF Contains
<1>5. \A i \in 1..(k + l) : (i <= k => i \in 1..k) /\ (~(i <= k) => i - k \in 1..l)
  OBVIOUS
<1>6. ASSUME NEW i \in 1..(k + l), NEW j \in 1..(k + l), w[i] = w[j]
      PROVE  i = j
  <2>1. CASE i <= k /\ j <= k
    BY <1>2, <1>3, <1>5, <1>6, <2>1 DEF IsInjective
  <2>2. CASE i <= k /\ ~(j <= k)
    BY <1>2, <1>4, <1>5, <1>6, <2>2
  <2>3. CASE ~(i <= k) /\ j <= k
    BY <1>2, <1>4, <1>5, <1>6, <2>3
  <2>4. CASE ~(i <= k) /\ ~(j <= k)
    <3>1. i - k \in 1..l /\ j - k \in 1..l /\ v[i - k] = v[j - k]
      BY <1>2, <1>5, <1>6, <2>4
    <3>2. i - k = j - k
      BY <1>3, <3>1 DEF IsInjective
    <3>3. QED
      BY <3>2
  <2>5. QED
    BY <2>1, <2>2, <2>3, <2>4
<1>7. IsInjective(w)
  BY <1>2, <1>6 DEF IsInjective
<1>8. QED
  BY <1>7 DEF w

\* The columns are the names of the headers.
LEMMA ColumnNames ==
  ASSUME groups \in Seq(Seq(Events)), groups # <<>>
  PROVE  \A x : Contains(Columns, x) <=> \E g \in Groups : Contains(Header(g), x)
<1> TAKE x
<1>1. /\ \A g \in Groups : groups[g] \in Seq(Names)
      /\ FlattenSeq(groups) \in Seq(Names) /\ Permanent \in Seq(Names)
      /\ Columns = Permanent \o FlattenSeq(groups)
  BY ColumnsAre, PermanentNames
<1>2. \A u, v \in Seq(Names) : Contains(u \o v, x) <=> Contains(u, x) \/ Contains(v, x)
  BY ContainsConcat
<1>3. \A g \in Groups :
        Contains(Header(g), x) <=> Contains(Permanent, x) \/ Contains(groups[g], x)
  BY <1>1, <1>2 DEF Header
<1>4. Contains(Columns, x) <=> Contains(Permanent, x) \/ Contains(FlattenSeq(groups), x)
  BY <1>1, <1>2, Zenon
<1>5. Contains(FlattenSeq(groups), x) <=> \E g \in Groups : Contains(groups[g], x)
  BY FlattenElements DEF Groups
<1>6. \E g \in Groups : TRUE
  <2>1. Len(groups) \in Nat \ {0}
    BY EmptySeq
  <2>2. QED
    BY <2>1 DEF Groups
<1>7. QED
  BY <1>3, <1>4, <1>5, <1>6

\* The column of a name of a header has the group's own counter.
LEMMA CellOfName ==
  ASSUME groups \in Seq(Seq(Events)), groups # <<>>,
         NEW g \in Groups, NEW x, Contains(Header(g), x)
  PROVE  Cell(g, LastPlace(Columns, x)) = x
<1>1. Header(g) \in Seq(Names)
  BY ColumnsAre
<1>2. Columns \in Seq(Names)
  <2>1. /\ FlattenSeq(groups) \in Seq(Names) /\ Permanent \in Seq(Names)
        /\ Columns = Permanent \o FlattenSeq(groups)
    BY ColumnsAre, PermanentNames
  <2>2. QED
    BY <2>1, ConcatProperties
<1>3. Contains(Columns, x)
  BY ColumnNames
<1>4. Columns[LastPlace(Columns, x)] = x
  BY <1>2, <1>3, LastPlaceIs
<1>5. Header(g)[LastPlace(Header(g), x)] = x
  BY <1>1, LastPlaceIs
<1>6. x \in ToSet(Header(g))
  BY <1>1, LenProperties DEF Contains, ToSet
<1>7. QED
  BY <1>4, <1>5, <1>6, Zenon DEF Cell

\* Without a repetition in -e there is none in the groups.
LEMMA RankedInjective ==
  ASSUME NEW q, requested \in Seq(Events), Ranked(q, Len(requested)), IsInjective(requested)
  PROVE  IsInjective(q)
<1>1. PICK k \in Nat : k = Len(requested) /\ DOMAIN requested = 1..k
  BY LenProperties
<1>2. q \in Seq(Events) /\ Len(q) = Rank(k)
  BY <1>1 DEF Ranked
<1>3. DOMAIN q = 1..Rank(k)
  BY <1>2, LenProperties
<1>4. ASSUME NEW c \in 1..Rank(k), NEW d \in 1..Rank(k), q[c] = q[d]
      PROVE  c = d
  <2>1. PICK i \in 1..k : requested[i] \in Supported /\ Rank(i) = c
    BY <1>1 DEF Ranked
  <2>2. PICK j \in 1..k : requested[j] \in Supported /\ Rank(j) = d
    BY <1>1 DEF Ranked
  <2>3. q[c] = requested[i] /\ q[d] = requested[j]
    BY <1>1, <2>1, <2>2 DEF Ranked
  <2>4. i = j
    BY <1>1, <1>4, <2>3 DEF IsInjective
  <2>5. QED
    BY <2>1, <2>2, <2>4
<1>5. QED
  BY <1>3, <1>4 DEF IsInjective

\* What is placed was asked for, and what was asked for and is supported is placed.
LEMMA RankedNames ==
  ASSUME NEW q, requested \in Seq(Events), Ranked(q, Len(requested))
  PROVE  \A x : Contains(q, x) <=> x \in ToSet(requested) \cap Supported
<1>1. PICK k \in Nat : k = Len(requested) /\ DOMAIN requested = 1..k
  BY LenProperties
<1>2. Len(q) = Rank(k)
  BY <1>1 DEF Ranked
<1>3. ASSUME NEW c \in 1..Rank(k)
      PROVE  q[c] \in ToSet(requested) \cap Supported
  <2>1. PICK i \in 1..k : requested[i] \in Supported /\ Rank(i) = c
    BY <1>1 DEF Ranked
  <2>2. q[c] = requested[i]
    BY <1>1, <2>1 DEF Ranked
  <2>3. QED
    BY <1>1, <2>1, <2>2 DEF ToSet
<1>4. ASSUME NEW i \in 1..k, requested[i] \in Supported
      PROVE  \E c \in 1..Rank(k) : q[c] = requested[i]
  BY <1>1, <1>4 DEF Ranked
<1>5. QED
  BY <1>1, <1>2, <1>3, <1>4 DEF Contains, ToSet

(***************************************************************************)
(* Every group writes each of its counters into the column of that event;  *)
(* every column without a namesake is written by some group; every         *)
(* supported event of -e has a column, and only one unless -e repeats a    *)
(* name or has a permanent one.                                            *)
(***************************************************************************)
THEOREM ColumnsOwnEventsHolds == CsvSpec => []ColumnsOwnEvents
<1>1. PlaceInv => ColumnsOwnEvents
  <2> SUFFICES ASSUME PlaceInv, phase = "done", csv = "none" PROVE ColumnsOwnEvents
    BY DEF ColumnsOwnEvents
  <2>1. /\ requested \in Seq(Events) /\ groups \in Seq(Seq(Events)) /\ groups # <<>>
        /\ Ranked(FlattenSeq(groups), Len(requested))
    BY GroupsRanked
  <2>2. /\ \A g \in Groups : Header(g) \in Seq(Names)
        /\ FlattenSeq(groups) \in Seq(Names) /\ Permanent \in Seq(Names)
        /\ Columns = Permanent \o FlattenSeq(groups)
    BY <2>1, ColumnsAre, PermanentNames
  <2>3. Columns \in Seq(Names) /\ DOMAIN Columns = 1..Len(Columns)
    <3>1. Columns \in Seq(Names)
      BY <2>2, ConcatProperties
    <3>2. QED
      BY <3>1, LenProperties
  <2>4. \A x : Contains(FlattenSeq(groups), x) <=> x \in ToSet(requested) \cap Supported
    BY <2>1, RankedNames
  <2>5. ASSUME NEW g \in Groups, NEW i \in DOMAIN Header(g)
        PROVE  Cell(g, LastPlace(Columns, Header(g)[i])) = Header(g)[i]
    <3>1. DOMAIN Header(g) = 1..Len(Header(g))
      BY <2>2, LenProperties
    <3>2. Contains(Header(g), Header(g)[i])
      BY <3>1 DEF Contains
    <3>3. QED
      BY <2>1, <3>2, CellOfName
  <2>6. ASSUME NEW c \in DOMAIN Columns,
               \A d \in DOMAIN Columns : Columns[d] = Columns[c] => d = c
        PROVE  \E g \in Groups : Cell(g, c) = Columns[c]
    <3>1. PICK x : x = Columns[c]
      OBVIOUS
    <3>2. Contains(Columns, x)
      BY <2>3, <3>1 DEF Contains
    <3>3. LastPlace(Columns, x) = c
      BY <2>3, <2>6, <3>1, <3>2, LastPlaceIs
    <3>4. PICK g \in Groups : Contains(Header(g), x)
      BY <2>1, <3>2, ColumnNames
    <3>5. Cell(g, LastPlace(Columns, x)) = x
      BY <2>1, <3>4, CellOfName
    <3>6. QED
      BY <3>1, <3>3, <3>5
  <2>7. ToSet(requested) \cap Supported \subseteq ToSet(Columns)
    <3>1. ASSUME NEW x \in ToSet(requested) \cap Supported
          PROVE  x \in ToSet(Columns)
      <4>1. Contains(FlattenSeq(groups), x)
        BY <2>4
      <4>2. \A u, v \in Seq(Names) : Contains(u \o v, x) <=> Contains(u, x) \/ Contains(v, x)
        BY ContainsConcat
      <4>3. Contains(Columns, x)
        BY <2>2, <4>1, <4>2, Zenon
      <4>4. QED
        BY <2>3, <4>3 DEF Contains, ToSet
    <3>2. QED
      BY <3>1
  <2>8. ASSUME IsInjective(requested), ToSet(requested) \cap ToSet(Permanent) = {}
        PROVE  IsInjective(Columns)
    <3>1. IsInjective(FlattenSeq(groups))
      BY <2>1, <2>8, RankedInjective
    <3>2. \A x : Contains(Permanent, x) => ~Contains(FlattenSeq(groups), x)
      BY <2>4, <2>8, PermanentNames
    <3>3. IsInjective(Permanent)
      BY PermanentNames
    <3>4. IsInjective(Permanent \o FlattenSeq(groups))
      BY <2>2, <3>1, <3>2, <3>3, ConcatInjective
    <3>5. QED
      BY <2>2, <3>4
  <2>9. QED
    BY <2>5, <2>6, <2>7, <2>8 DEF ColumnsOwnEvents
<1>2. QED
  BY <1>1, PlaceInvHolds, PTL

----------------------------------------------------------------------------------
(***************************************************************************)
(* The times and the scaling.                                              *)
(***************************************************************************)
Times == [enabled : Nat, running : Nat]

\* The share of the time a group was enabled and not counted.
Waited(t) == t.enabled - t.running

Within(t, u) ==
  /\ 0 < t.running
  /\ t.running <= u.running
  /\ t.enabled <= u.enabled
  /\ 0 <= Waited(t)
  /\ Waited(t) <= Waited(u)

CsvType ==
  /\ times \in [Groups -> Times]
  /\ interval \in [Groups -> Times]
  /\ real \in [Groups -> Times]
  /\ count \in [Groups -> Nat]

\* What holds of a group while the file is converted.
GroupInv(g) ==
  /\ Waited(times[g]) >= 0
  /\ count[g] = 0 <=> g \notin DOMAIN totals
  /\ count[g] = 0 => times[g] = Zero
  /\ g \in DOMAIN totals =>
       /\ totals[g] = interval[g]
       /\ Within(interval[g], times[g])
  /\ count[g] = 1 => interval[g] = times[g]
  /\ count[g] \in {1, 2} => interval[g] = real[g]

CsvInv ==
  /\ csv \in {"none", "open"}
  /\ csv = "none" => DOMAIN totals = {}
  /\ csv = "open" =>
       /\ phase = "done"
       /\ DOMAIN totals \subseteq Groups
       /\ CsvType
       /\ \A g \in Groups : GroupInv(g)

\* Sums and differences of times, as to_csv.py makes them, are times.
LEMMA NextInterval ==
  ASSUME NEW t \in Times, NEW u \in Times, NEW p \in Times,
         Within(u, t), 0 < p.running, Waited(p) >= 0
  PROVE  /\ Plus(t, p) \in Times
         /\ Minus(Plus(t, p), u) \in Times
         /\ Within(Minus(Plus(t, p), u), Plus(t, p))
         /\ Waited(Plus(t, p)) >= 0
BY DEF Times, Within, Waited, Plus, Minus

\* The first interval of a group.
LEMMA FirstInterval ==
  ASSUME NEW p \in Times, 0 < p.running, Waited(p) >= 0
  PROVE  /\ Plus(Zero, p) = p
         /\ Within(p, p)
BY DEF Times, Within, Waited, Plus, Zero

\* The second: `totals' still has the total.
LEMMA SecondInterval ==
  ASSUME NEW t \in Times, NEW p \in Times
  PROVE  Minus(Plus(t, p), t) = p
BY DEF Times, Minus, Plus

LEMMA CsvInvInit == CsvInit => CsvInv
BY DEF CsvInit, CsvInv

LEMMA OpenStep == CsvInv /\ Open => CsvInv'
<1> SUFFICES ASSUME CsvInv, Open PROVE CsvInv'
  OBVIOUS
<1>1. Groups' = Groups
  BY DEF Open, vars, Groups
<1>2. CsvType'
  BY <1>1, SMT DEF Open, CsvType, Times, Zero
<1>3. DOMAIN totals' = {}
  BY DEF CsvInv, Open
<1>4. ASSUME NEW g \in Groups PROVE GroupInv(g)'
  BY <1>1, <1>3, SMT DEF Open, GroupInv, Zero, Waited
<1> QED
  BY <1>1, <1>2, <1>3, <1>4 DEF CsvInv, Open, vars

LEMMA RowStep ==
  ASSUME CsvInv, csv = "open", NEW g \in Groups, Row(g)
  PROVE  CsvInv'
<1>1. PICK p \in Passed :
        LET new == Plus(times[g], p)
        IN /\ times' = [times EXCEPT ![g] = new]
           /\ real' = [real EXCEPT ![g] = p]
           /\ count' = [count EXCEPT ![g] = @ + 1]
           /\ FirstRow(g, new) \/ LaterRow(g, new)
           /\ UNCHANGED vars
  BY DEF Row
<1> DEFINE new == Plus(times[g], p)
<1>2. p \in Times /\ 0 < p.running /\ Waited(p) >= 0
  BY CounterCsvAssumption DEF CounterCsvAssumption, Passed, Times, Waited
<1>3. /\ times' = [times EXCEPT ![g] = new]
      /\ real' = [real EXCEPT ![g] = p]
      /\ count' = [count EXCEPT ![g] = @ + 1]
      /\ FirstRow(g, new) \/ LaterRow(g, new)
      /\ UNCHANGED vars
  BY <1>1
<1>4. Groups' = Groups /\ phase' = "done"
  BY <1>3 DEF vars, Groups, CsvInv
<1>5. CsvType /\ GroupInv(g) /\ DOMAIN totals \subseteq Groups
  BY DEF CsvInv
<1>6. times[g] \in Times /\ interval[g] \in Times /\ count[g] \in Nat
  BY <1>5 DEF CsvType
<1> HIDE DEF new
\* The outcome for g, whichever row it is.
<1>7. PICK i \in Times :
        /\ interval' = [interval EXCEPT ![g] = i]
        /\ totals' = Assign(g, i)
        /\ csv' = "open"
        /\ new \in Times
        /\ Within(i, new)
        /\ Waited(new) >= 0
        /\ count[g] = 0 => i = new /\ i = p
        /\ count[g] = 1 => i = p
  <2>1. CASE FirstRow(g, new)
    <3>1. count[g] = 0 /\ times[g] = Zero
      BY <2>1, <1>5 DEF FirstRow, GroupInv
    <3>2. new = p /\ Within(p, p)
      BY <3>1, <1>2, FirstInterval DEF new
    <3>3. new.running <= new.enabled
      BY <3>2, <1>2 DEF Waited, Times
    <3> QED
      BY <2>1, <3>1, <3>2, <3>3, <1>2 DEF FirstRow
  <2>2. CASE LaterRow(g, new)
    <3>1. totals[g] = interval[g] /\ Within(interval[g], times[g])
      BY <2>2, <1>5 DEF LaterRow, GroupInv
    <3> DEFINE i == Minus(new, interval[g])
    <3>2. new \in Times /\ i \in Times /\ Within(i, new) /\ Waited(new) >= 0
      BY <3>1, <1>2, <1>6, NextInterval DEF new
    <3>3. count[g] # 0
      BY <2>2, <1>5 DEF LaterRow, GroupInv
    <3>4. count[g] = 1 => i = p
      BY <1>5, <1>2, <1>6, SecondInterval DEF GroupInv, new
    <3>5. i.enabled > 0 /\ i.running > 0 /\ i.running <= i.enabled
      BY <3>2 DEF Within, Waited, Times
    <3>6. /\ interval' = [interval EXCEPT ![g] = i]
          /\ totals' = Assign(g, i)
          /\ csv' = "open"
      BY <2>2, <3>1, <3>5 DEF LaterRow, NewTotals
    <3> QED
      BY <3>2, <3>3, <3>4, <3>6
  <2> QED
    BY <2>1, <2>2, <1>3
<1>8. CsvType'
  BY <1>2, <1>3, <1>4, <1>5, <1>7 DEF CsvType
<1>9. DOMAIN totals' = DOMAIN totals \cup {g}
  BY <1>7 DEF Assign
<1>10. GroupInv(g)'
  <2>1. /\ times'[g] = new /\ interval'[g] = i /\ real'[g] = p
        /\ count'[g] = count[g] + 1 /\ totals'[g] = i
    BY <1>3, <1>5, <1>7 DEF CsvType, Assign
  <2> QED
    BY <2>1, <1>6, <1>7, <1>9 DEF GroupInv
<1>11. ASSUME NEW h \in Groups, h # g PROVE GroupInv(h)'
  <2>1. /\ times'[h] = times[h] /\ interval'[h] = interval[h] /\ real'[h] = real[h]
        /\ count'[h] = count[h]
        /\ h \in DOMAIN totals' <=> h \in DOMAIN totals
        /\ h \in DOMAIN totals => totals'[h] = totals[h]
    BY <1>3, <1>5, <1>7, <1>9, <1>11 DEF CsvType, Assign
  <2>2. GroupInv(h)
    BY <1>11 DEF CsvInv
  <2> QED
    BY <2>1, <2>2 DEF GroupInv
<1> QED
  BY <1>4, <1>5, <1>7, <1>8, <1>9, <1>10, <1>11 DEF CsvInv

LEMMA GroupingStep == CsvInv /\ Next /\ UNCHANGED csvVars => CsvInv'
<1> SUFFICES ASSUME CsvInv, Next, UNCHANGED csvVars PROVE CsvInv'
  OBVIOUS
<1>1. CASE csv = "none"
  BY <1>1 DEF CsvInv, csvVars
<1>2. CASE csv = "open"
  <2>1. UNCHANGED vars
    BY <1>2 DEF CsvInv, Next, Filter, PlaceInLast, PlaceInNew, PlaceFails, Placed, Ended
  <2> QED
    BY <2>1, <1>2 DEF CsvInv, CsvType, GroupInv, Groups, vars, csvVars
<1> QED
  BY <1>1, <1>2 DEF CsvInv

(***************************************************************************)
(* The times to_csv.py subtracts stay within the times of their group, for *)
(* any number of rows of any length.                                       *)
(***************************************************************************)
THEOREM CsvInvHolds == CsvSpec => []CsvInv
<1>1. CsvInv /\ [CsvNext]_allVars => CsvInv'
  <2> SUFFICES ASSUME CsvInv, [CsvNext]_allVars PROVE CsvInv'
    OBVIOUS
  <2>1. CASE Next /\ UNCHANGED csvVars
    BY <2>1, GroupingStep
  <2>2. CASE Open
    BY <2>2, OpenStep
  <2>3. CASE csv = "open" /\ \E g \in Groups : Row(g)
    BY <2>3, RowStep
  <2>4. CASE UNCHANGED allVars
    BY <2>4 DEF CsvInv, CsvType, GroupInv, Groups, vars, csvVars, allVars
  <2> QED
    BY <2>1, <2>2, <2>3, <2>4 DEF CsvNext
<1> QED
  BY <1>1, CsvInvInit, PTL DEF CsvSpec

(***************************************************************************)
(* The assertions of to_csv.py never fail, and the scaling is right for    *)
(* the first two rows of a group and for a group that was always counted.  *)
(***************************************************************************)
THEOREM ScaledRightHolds == CsvSpec => []ScaledRight
<1>1. CsvInv => ScaledRight
  <2> SUFFICES ASSUME CsvInv PROVE ScaledRight
    OBVIOUS
  <2>1. ASSUME csv = "open", NEW g \in Groups, count[g] > 0
        PROVE  /\ count[g] <= 2 => interval[g] = real[g]
               /\ times[g].enabled = times[g].running
                    => interval[g].enabled = interval[g].running
    <3>1. GroupInv(g) /\ CsvType
      BY <2>1 DEF CsvInv
    <3>2. count[g] \in Nat /\ times[g] \in Times /\ interval[g] \in Times
      BY <3>1 DEF CsvType
    <3>3. count[g] # 0
      BY <2>1, <3>2
    <3>4. Within(interval[g], times[g])
      BY <3>1, <3>3 DEF GroupInv
    <3>5. count[g] <= 2 => count[g] \in {1, 2}
      BY <3>2, <3>3
    <3> QED
      BY <3>1, <3>2, <3>4, <3>5 DEF GroupInv, Within, Waited, Times
  <2> QED
    BY <2>1 DEF CsvInv, ScaledRight
<1> QED
  BY <1>1, CsvInvHolds, PTL
==================================================================================

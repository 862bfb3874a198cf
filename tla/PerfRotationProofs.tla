--------------------------- MODULE PerfRotationProofs ---------------------------
(***************************************************************************)
(* TLAPS proofs about the rotation of the event groups, for any number of  *)
(* groups, any PHASES_BETWEEN_SWITCHES and any number of phases.           *)
(***************************************************************************)
EXTENDS PerfRotation, FiniteSetTheorems, SequenceTheorems, TLAPS

\* Wrapping around stays within the groups.
LEMMA NextGroupType ==
  ASSUME NEW g \in Groups
  PROVE  NextGroup(g) \in Groups
  BY RotationAssumption DEF NextGroup, Groups

\* The first group exists.
LEMMA FirstGroup == 1 \in Groups
  BY RotationAssumption DEF Groups

\* Every variable of the rotation and of the kernel side keeps its type.
THEOREM RotationTypeCorrect == Spec => []TypeOK
<1>1. Init => TypeOK
  BY FirstGroup, RotationAssumption DEF Init, TypeOK
<1>2. TypeOK /\ [Next]_vars => TypeOK'
  <2> SUFFICES ASSUME TypeOK, [Next]_vars
               PROVE  TypeOK'
    OBVIOUS
  <2> USE DEF TypeOK
  <2>1. CASE UNCHANGED vars
    BY <2>1 DEF vars
  <2>2. ASSUME NEW g \in Groups, Overflow(g)
        PROVE  TypeOK'
    <3>1. Append(buf[g], "S") \in Seq(Reads)
      BY AppendProperties DEF Reads
    <3>2. pending' \in Seq(Groups)
      BY <2>2, AppendProperties DEF Overflow
    <3>3. buf' \in [Groups -> Seq(Reads)]
      BY <2>2, <3>1 DEF Overflow
    <3>4. QED
      BY <2>2, <3>2, <3>3 DEF Overflow
  <2>3. ASSUME NEW g \in Groups, Throttle(g)
        PROVE  TypeOK'
    <3>1. OtherRecord \in Seq(Reads)
      BY RotationAssumption, IsASeq DEF OtherRecord, Reads
    <3>2. buf[g] \o OtherRecord \in Seq(Reads)
      BY <3>1, ConcatProperties
    <3>3. QED
      BY <2>3, <3>2 DEF Throttle
  <2>4. CASE SigthymeHandler
    <3> DEFINE g == Head(pending)
    <3>1. g \in Groups /\ pending' \in Seq(Groups)
      BY <2>4, HeadTailProperties DEF SigthymeHandler
    <3>2. Tail(buf[g]) \in Seq(Reads)
      BY <2>4, <3>1, HeadTailProperties DEF SigthymeHandler, HeaderAvailable
    <3>3. NextGroup(g) \in Groups
      BY <3>1, NextGroupType
    <3> HIDE DEF g
    <3>4. ReadCounters(g, phasesWithGroup + 1) /\ UNCHANGED <<others, lost>>
      BY <2>4 DEF SigthymeHandler, g
    <3>5. buf' \in [Groups -> Seq(Reads)]
      BY <3>1, <3>2, <3>4 DEF ReadCounters
    <3>6. \/ /\ phasesWithGroup' = phasesWithGroup + 1
             /\ UNCHANGED <<armed, rows>>
          \/ /\ Rotate(g, phasesWithGroup + 1)
             /\ rows' = [rows EXCEPT ![g] = @ + 1]
      BY <3>4 DEF ReadCounters
    <3>7. /\ armed' \in [Groups -> Nat]
          /\ phasesWithGroup' \in Nat
          /\ rows' \in [Groups -> Nat]
      <4>1. CASE Rotate(g, phasesWithGroup + 1) /\ rows' = [rows EXCEPT ![g] = @ + 1]
        <5>1. rows' \in [Groups -> Nat]
          BY <3>1, <4>1
        <5>2. CASE phasesWithGroup + 1 >= Switch
          <6>1. PICK k \in Groups : armed' = [armed EXCEPT ![k] = @ + Switch]
            BY <3>3, <4>1, <5>2 DEF Rotate
          <6>2. phasesWithGroup' = 0
            BY <4>1, <5>2 DEF Rotate
          <6>3. QED
            BY <5>1, <6>1, <6>2, RotationAssumption
        <5>3. CASE ~(phasesWithGroup + 1 >= Switch)
          BY <4>1, <5>1, <5>3 DEF Rotate
        <5>4. QED
          BY <5>2, <5>3
      <4>2. QED
        BY <3>6, <4>1
    <3>8. phases' \in Nat /\ done' \in {0, 1}
      BY <2>4 DEF SigthymeHandler
    <3>9. QED
      BY <3>1, <3>4, <3>5, <3>6, <3>7, <3>8
  <2>5. QED
    BY <2>1, <2>2, <2>3, <2>4 DEF Next, Kernel, Finished
<1>3. QED
  BY <1>1, <1>2, PTL DEF Spec

---------------------------------------------------------------------------------
\* A phase that ends within the turn of g stays within the turn of g.
LEMMA OverflowKeepsTurn ==
  ASSUME TypeOK, TypeOK', Switch <= BufferRecords, lost = 0,
         NEW g \in Groups, Turn(g), NEW k \in Groups, Overflow(k)
  PROVE  lost' = 0 /\ Turn(g)'
<1> DEFINE q == Len(pending)
           b == Len(buf[g])
<1>0. /\ q \in Nat /\ b \in Nat /\ phasesWithGroup \in Nat
      /\ armed[g] \in Nat /\ armed \in [Groups -> Nat]
      /\ pending \in Seq(Groups) /\ buf \in [Groups -> Seq(Reads)]
  BY LenProperties DEF TypeOK
<1>t. /\ b = q /\ phasesWithGroup < Switch
      /\ armed[g] + q + phasesWithGroup = Switch
  BY DEF Turn
<1>1. k = g
  BY DEF Turn, Overflow
<1>2. armed[g] > 0
  BY <1>1 DEF Overflow
<1> HIDE DEF q, b
<1>3. b < BufferRecords
  BY <1>0, <1>t, <1>2, RotationAssumption
<1>4. /\ armed' = [armed EXCEPT ![g] = @ - 1]
      /\ buf' = [buf EXCEPT ![g] = Append(@, "S")]
      /\ pending' = Append(pending, g)
      /\ UNCHANGED <<lost, phasesWithGroup>>
  BY <1>1, <1>3 DEF Overflow, b
<1>5. /\ Len(buf'[g]) = b + 1
      /\ \A i \in 1..b : buf'[g][i] = "S"
      /\ buf'[g][b + 1] = "S"
  <2>1. buf'[g] = Append(buf[g], "S") /\ buf[g] \in Seq(Reads) /\ "S" \in Reads
    BY <1>0, <1>4 DEF Reads
  <2>2. /\ Len(buf'[g]) = b + 1
        /\ \A i \in 1..b : buf'[g][i] = buf[g][i]
        /\ buf'[g][b + 1] = "S"
    BY <2>1, AppendProperties DEF b
  <2>3. QED
    BY <2>2 DEF Turn, b
<1>6. /\ Len(pending') = q + 1
      /\ \A i \in 1..q : pending'[i] = g
      /\ pending'[q + 1] = g
  <2>1. /\ Len(pending') = q + 1
        /\ \A i \in 1..q : pending'[i] = pending[i]
        /\ pending'[q + 1] = g
    BY <1>0, <1>4, AppendProperties DEF q
  <2>2. QED
    BY <2>1 DEF Turn, q
<1>7. \A h \in Groups \ {g} : armed'[h] = 0 /\ buf'[h] = <<>>
  BY <1>0, <1>4 DEF Turn
<1>8. \A i \in 1..Len(pending') : pending'[i] = g
  BY <1>0, <1>6
<1>9. \A i \in 1..Len(buf'[g]) : buf'[g][i] = "S"
  BY <1>0, <1>5
<1>10. armed'[g] + Len(pending') + phasesWithGroup' = Switch
  BY <1>0, <1>t, <1>2, <1>4, <1>6
<1>11. QED
  BY <1>t, <1>4, <1>5, <1>6, <1>7, <1>8, <1>9, <1>10 DEF Turn

\* A handled signal is one phase of the turn of g, or hands the turn on; it adds a
\* row of g.
LEMMA HandlerKeepsTurn ==
  ASSUME TypeOK, TypeOK', lost = 0, NEW g \in Groups, Turn(g), SigthymeHandler
  PROVE  /\ lost' = 0 /\ rows' = [rows EXCEPT ![g] = @ + 1]
         /\ \/ Turn(g)' /\ phasesWithGroup' = phasesWithGroup + 1
            \/ Turn(NextGroup(g))' /\ phasesWithGroup + 1 = Switch /\ phasesWithGroup' = 0
<1> DEFINE q == Len(pending)
           b == Len(buf[g])
<1>0. /\ q \in Nat /\ b \in Nat /\ phasesWithGroup \in Nat
      /\ armed[g] \in Nat /\ armed \in [Groups -> Nat]
      /\ pending \in Seq(Groups) /\ buf \in [Groups -> Seq(Reads)]
  BY LenProperties DEF TypeOK
<1>t. /\ b = q /\ phasesWithGroup < Switch
      /\ armed[g] + q + phasesWithGroup = Switch
  BY DEF Turn
<1>1. q > 0 /\ Head(pending) = g
  <2>1. pending # <<>>
    BY DEF SigthymeHandler
  <2>2. q > 0
    BY <1>0, <2>1, EmptySeq
  <2>3. QED
    BY <1>0, <2>2 DEF Turn
<1>2. buf[g] # <<>> /\ Head(buf[g]) = "S"
  BY <1>0, <1>t, <1>1 DEF Turn
<1> HIDE DEF q, b
<1>3. /\ pending' = Tail(pending) /\ lost' = lost
      /\ buf' = [buf EXCEPT ![g] = Tail(@)]
      /\ Rotate(g, phasesWithGroup + 1) /\ rows' = [rows EXCEPT ![g] = @ + 1]
  BY <1>1, <1>2 DEF SigthymeHandler, ReadCounters
<1>4. /\ pending' \in Seq(Groups) /\ Len(pending') = q - 1
      /\ \A i \in 1..(q - 1) : pending'[i] = pending[i + 1]
  BY <1>0, <1>3, HeadTailProperties DEF SigthymeHandler, q
<1>5. /\ buf'[g] \in Seq(Reads) /\ Len(buf'[g]) = b - 1
      /\ \A i \in 1..(b - 1) : buf'[g][i] = buf[g][i + 1]
  BY <1>0, <1>2, <1>3, HeadTailProperties DEF b
<1>6. \A i \in 1..Len(pending') : pending'[i] = g
  <2>1. \A i \in 1..q : pending[i] = g
    BY DEF Turn, q
  <2>2. ASSUME NEW i \in 1..(q - 1)
        PROVE  i + 1 \in 1..q /\ pending'[i] = pending[i + 1]
    BY <1>0, <1>4
  <2>3. QED
    BY <1>4, <2>1, <2>2
<1>7. \A i \in 1..Len(buf'[g]) : buf'[g][i] = "S"
  <2>1. \A i \in 1..b : buf[g][i] = "S"
    BY DEF Turn, b
  <2>2. ASSUME NEW i \in 1..(b - 1)
        PROVE  i + 1 \in 1..b /\ buf'[g][i] = buf[g][i + 1]
    BY <1>0, <1>5
  <2>3. QED
    BY <1>5, <2>1, <2>2
<1>8. \A h \in Groups \ {g} : buf'[h] = <<>>
  BY <1>0, <1>3 DEF Turn
<1>9. CASE phasesWithGroup + 1 < Switch
  <2>1. phasesWithGroup' = phasesWithGroup + 1 /\ armed' = armed
    BY <1>0, <1>3, <1>9, RotationAssumption DEF Rotate
  <2>2. armed'[g] + Len(pending') + phasesWithGroup' = Switch
    BY <1>0, <1>t, <1>4, <2>1
  <2>3. \A h \in Groups \ {g} : armed'[h] = 0
    BY <2>1 DEF Turn
  <2>4. Len(buf'[g]) = Len(pending')
    BY <1>t, <1>4, <1>5
  <2>5. Turn(g)'
    BY <1>6, <1>7, <1>8, <1>9, <2>1, <2>2, <2>3, <2>4 DEF Turn
  <2>6. QED
    BY <1>3, <2>1, <2>5
<1>10. CASE ~(phasesWithGroup + 1 < Switch)
  <2>1. /\ phasesWithGroup' = 0
        /\ armed' = [armed EXCEPT ![NextGroup(g)] = @ + Switch]
    BY <1>0, <1>3, <1>10, RotationAssumption DEF Rotate
  <2>2. armed[g] = 0 /\ q = 1
    BY <1>0, <1>t, <1>1, <1>10, RotationAssumption
  <2>3. PICK k \in Groups : k = NextGroup(g)
    BY NextGroupType
  <2>4. armed'[k] = Switch /\ \A h \in Groups \ {k} : armed'[h] = 0
    <3>1. \A h \in Groups : armed[h] = 0
      BY <2>2 DEF Turn
    <3>2. QED
      BY <1>0, <2>1, <2>3, <3>1, RotationAssumption
  <2>5. Len(pending') = 0 /\ pending' = <<>>
    BY <1>4, <2>2, EmptySeq
  <2>6. buf'[g] = <<>>
    <3>1. Len(buf'[g]) = 0
      BY <1>t, <1>5, <2>2
    <3>2. QED
      BY <1>5, <3>1, EmptySeq
  <2>7. \A h \in Groups : buf'[h] = <<>> /\ Len(buf'[h]) = 0
    BY <1>8, <2>6, EmptySeq
  <2>8. Turn(k)'
    <3>1. \A h \in Groups \ {k} : armed'[h] = 0 /\ buf'[h] = <<>>
      BY <2>4, <2>7
    <3>2. armed'[k] + Len(pending') + phasesWithGroup' = Switch
      BY <2>1, <2>4, <2>5, RotationAssumption
    <3>3. Len(buf'[k]) = 0 /\ phasesWithGroup' < Switch
      BY <2>1, <2>7, RotationAssumption
    <3>4. QED
      BY <2>5, <3>1, <3>2, <3>3 DEF Turn
  <2>9. phasesWithGroup + 1 = Switch
    BY <1>0, <1>t, <1>10, RotationAssumption
  <2>10. QED
    BY <1>3, <2>1, <2>3, <2>8, <2>9
<1>11. QED
  BY <1>9, <1>10

(***************************************************************************)
(* As long as the kernel has written nothing but samples, and if a page    *)
(* holds the records of one turn, the turns follow each other for ever:    *)
(* TurnInv.                                                                *)
(***************************************************************************)
THEOREM TurnInvHolds ==
  ASSUME Switch <= BufferRecords
  PROVE  Spec => []TurnInv
<1>1. Init => TurnInv
  <2> SUFFICES ASSUME Init
               PROVE  TurnInv
    OBVIOUS
  <2>1. Turn(1)
    BY FirstGroup, RotationAssumption DEF Init, Turn
  <2>2. QED
    BY <2>1, FirstGroup DEF Init, TurnInv
<1>2. TypeOK /\ TypeOK' /\ TurnInv /\ [Next]_vars => TurnInv'
  <2> SUFFICES ASSUME TypeOK, TypeOK', TurnInv, [Next]_vars, others' = 0
               PROVE  lost' = 0 /\ \E g \in Groups : Turn(g)'
    BY DEF TurnInv
  <2>1. CASE UNCHANGED vars
    BY <2>1 DEF vars, TurnInv, Turn
  <2>2. ASSUME NEW k \in Groups, Overflow(k)
        PROVE  lost' = 0 /\ \E g \in Groups : Turn(g)'
    <3>1. others = 0
      BY <2>2 DEF Overflow
    <3>2. QED
      BY <2>2, <3>1, OverflowKeepsTurn DEF TurnInv
  <2>3. ASSUME NEW k \in Groups, Throttle(k)
        PROVE  FALSE
    BY <2>3 DEF Throttle, TypeOK
  <2>4. CASE SigthymeHandler
    <3>1. others = 0
      BY <2>4 DEF SigthymeHandler
    <3>2. QED
      BY <2>4, <3>1, HandlerKeepsTurn, NextGroupType DEF TurnInv
  <2>5. QED
    BY <2>1, <2>2, <2>3, <2>4 DEF Next, Kernel, Finished
<1>3. QED
  BY <1>1, <1>2, RotationTypeCorrect, PTL DEF Spec

\* Hence the profile never starves before num_phases are done: a signal is always
\* queued or to come.
THEOREM NeverStarvesHolds ==
  ASSUME Switch <= BufferRecords
  PROVE  Spec => []NeverStarves
<1>1. TypeOK /\ TurnInv => NeverStarves
  <2> SUFFICES ASSUME TypeOK, TurnInv, others = 0, pending = <<>>
               PROVE  \E g \in Groups : armed[g] > 0
    BY DEF NeverStarves
  <2>1. PICK g \in Groups : Turn(g)
    BY DEF TurnInv
  <2>2. Len(pending) = 0
    OBVIOUS
  <2>3. armed[g] > 0
    BY <2>1, <2>2, RotationAssumption DEF Turn, TypeOK
  <2>4. QED
    BY <2>3
<1>2. QED
  BY <1>1, TurnInvHolds, RotationTypeCorrect, PTL

\* And the kernel never drops a sample.
THEOREM NoSampleLostHolds ==
  ASSUME Switch <= BufferRecords
  PROVE  Spec => []NoSampleLost
<1>1. TurnInv => NoSampleLost
  BY DEF TurnInv, NoSampleLost
<1>2. QED
  BY <1>1, TurnInvHolds, PTL

---------------------------------------------------------------------------------
(***************************************************************************)
(* How far the groups are when g has its turn: those before g have had one *)
(* turn more than those after it.                                          *)
(***************************************************************************)
RowsAt(g, b) ==
  \A h \in Groups :
    rows[h] = b + (IF h < g THEN Switch ELSE IF h = g THEN phasesWithGroup ELSE 0)

BalanceInv == others = 0 => \E g \in Groups : Turn(g) /\ \E b \in Nat : RowsAt(g, b)

\* One more row for g within its turn.
LEMMA RowInTurn ==
  ASSUME TypeOK, NEW g \in Groups, NEW b \in Nat, RowsAt(g, b),
         rows' = [rows EXCEPT ![g] = @ + 1], phasesWithGroup' = phasesWithGroup + 1
  PROVE  RowsAt(g, b)'
<1>0. rows \in [Groups -> Nat] /\ phasesWithGroup \in Nat
  BY DEF TypeOK
<1>1. \A h \in Groups : h \in Int
  BY RotationAssumption DEF Groups
<1>2. QED
  BY <1>0, <1>1, RotationAssumption DEF RowsAt

\* The last row of a turn: the next group starts where g did, or, after the last
\* group, all start together.
LEMMA RowEndsTurn ==
  ASSUME TypeOK, NEW g \in Groups, NEW b \in Nat, RowsAt(g, b),
         rows' = [rows EXCEPT ![g] = @ + 1], phasesWithGroup + 1 = Switch, phasesWithGroup' = 0
  PROVE  \E c \in Nat : RowsAt(NextGroup(g), c)'
<1>0. rows \in [Groups -> Nat] /\ phasesWithGroup \in Nat /\ Switch \in Nat /\ NumGroups \in Nat
  BY RotationAssumption DEF TypeOK
<1>1. \A h \in Groups : rows'[h] = b + IF h <= g THEN Switch ELSE 0
  BY <1>0 DEF RowsAt, Groups
<1>2. CASE g = NumGroups
  <2>1. NextGroup(g) = 1 /\ b + Switch \in Nat
    BY <1>0, <1>2 DEF NextGroup
  <2>2. \A h \in Groups : h <= g /\ ~(h < 1)
    BY <1>0, <1>2 DEF Groups
  <2>3. \A h \in Groups :
          rows'[h] = (b + Switch) + (IF h < 1 THEN Switch ELSE IF h = 1 THEN phasesWithGroup' ELSE 0)
    BY <1>0, <1>1, <2>2
  <2>4. QED
    BY <2>1, <2>3 DEF RowsAt
<1>3. CASE g # NumGroups
  <2>1. NextGroup(g) = g + 1
    BY <1>3 DEF NextGroup
  <2>2. \A h \in Groups : (h <= g) <=> (h < g + 1)
    BY <1>0 DEF Groups
  <2>3. \A h \in Groups :
          rows'[h] = b + (IF h < g + 1 THEN Switch ELSE IF h = g + 1 THEN phasesWithGroup' ELSE 0)
    BY <1>0, <1>1, <2>2
  <2>4. QED
    BY <2>1, <2>3 DEF RowsAt
<1>4. QED
  BY <1>2, <1>3

\* The groups stay within one turn of each other as BalanceInv says.
THEOREM BalanceInvHolds ==
  ASSUME Switch <= BufferRecords
  PROVE  Spec => []BalanceInv
<1>1. Init => BalanceInv
  <2> SUFFICES ASSUME Init
               PROVE  BalanceInv
    OBVIOUS
  <2>1. Turn(1)
    BY FirstGroup, RotationAssumption DEF Init, Turn
  <2>2. \A h \in Groups : ~(h < 1)
    BY RotationAssumption DEF Groups
  <2>3. RowsAt(1, 0)
    BY <2>2 DEF Init, RowsAt
  <2>4. QED
    BY <2>1, <2>3, FirstGroup DEF BalanceInv
<1>2. TypeOK /\ TypeOK' /\ TurnInv /\ BalanceInv /\ [Next]_vars => BalanceInv'
  <2> SUFFICES ASSUME TypeOK, TypeOK', TurnInv, BalanceInv, [Next]_vars, others' = 0
               PROVE  \E g \in Groups : Turn(g)' /\ \E b \in Nat : RowsAt(g, b)'
    BY DEF BalanceInv
  <2>1. CASE UNCHANGED vars
    BY <2>1 DEF vars, BalanceInv, Turn, RowsAt
  <2>2. ASSUME NEW k \in Groups, Overflow(k)
        PROVE  \E g \in Groups : Turn(g)' /\ \E b \in Nat : RowsAt(g, b)'
    <3>1. others = 0 /\ UNCHANGED <<rows, phasesWithGroup>>
      BY <2>2 DEF Overflow
    <3>2. PICK g \in Groups : Turn(g) /\ \E b \in Nat : RowsAt(g, b)
      BY <3>1 DEF BalanceInv
    <3>3. PICK b \in Nat : RowsAt(g, b)
      BY <3>2
    <3>4. Turn(g)'
      BY <2>2, <3>1, <3>2, OverflowKeepsTurn DEF TurnInv
    <3>5. RowsAt(g, b)'
      BY <3>1, <3>3 DEF RowsAt
    <3>6. QED
      BY <3>4, <3>5
  <2>3. ASSUME NEW k \in Groups, Throttle(k)
        PROVE  FALSE
    BY <2>3 DEF Throttle, TypeOK
  <2>4. CASE SigthymeHandler
    <3>1. others = 0
      BY <2>4 DEF SigthymeHandler
    <3>2. PICK g \in Groups : Turn(g) /\ \E b \in Nat : RowsAt(g, b)
      BY <3>1 DEF BalanceInv
    <3>3. PICK b \in Nat : RowsAt(g, b)
      BY <3>2
    <3>4. /\ rows' = [rows EXCEPT ![g] = @ + 1]
          /\ \/ Turn(g)' /\ phasesWithGroup' = phasesWithGroup + 1
             \/ Turn(NextGroup(g))' /\ phasesWithGroup + 1 = Switch /\ phasesWithGroup' = 0
      BY <2>4, <3>1, <3>2, HandlerKeepsTurn DEF TurnInv
    <3>5. CASE Turn(g)' /\ phasesWithGroup' = phasesWithGroup + 1
      BY <3>3, <3>4, <3>5, RowInTurn
    <3>6. CASE Turn(NextGroup(g))' /\ phasesWithGroup + 1 = Switch /\ phasesWithGroup' = 0
      <4>1. NextGroup(g) \in Groups
        BY NextGroupType
      <4>2. \E c \in Nat : RowsAt(NextGroup(g), c)'
        BY <3>3, <3>4, <3>6, RowEndsTurn
      <4>3. QED
        BY <3>6, <4>1, <4>2
    <3>7. QED
      BY <3>4, <3>5, <3>6
  <2>5. QED
    BY <2>1, <2>2, <2>3, <2>4 DEF Next, Kernel, Finished
<1>3. QED
  BY <1>1, <1>2, TurnInvHolds, RotationTypeCorrect, PTL DEF Spec

(***************************************************************************)
(* No group is ever more than one turn ahead of another, for any number of *)
(* groups and any PHASES_BETWEEN_SWITCHES, as long as the kernel writes    *)
(* samples only and a page holds the records of one turn.                  *)
(***************************************************************************)
THEOREM RowsBalancedHolds ==
  ASSUME Switch <= BufferRecords
  PROVE  Spec => []RowsBalanced
<1>1. TypeOK /\ BalanceInv => RowsBalanced
  <2> SUFFICES ASSUME TypeOK, BalanceInv, others = 0, NEW x \in Groups, NEW y \in Groups
               PROVE  rows[x] <= rows[y] + Switch
    BY DEF RowsBalanced
  <2>1. PICK g \in Groups : Turn(g) /\ \E b \in Nat : RowsAt(g, b)
    BY DEF BalanceInv
  <2>2. PICK b \in Nat : RowsAt(g, b)
    BY <2>1
  <2>3. phasesWithGroup \in Nat /\ phasesWithGroup < Switch /\ Switch \in Nat
    BY <2>1, RotationAssumption DEF Turn, TypeOK
  <2>4. \A h \in Groups : rows[h] \in {b, b + phasesWithGroup, b + Switch}
    BY <2>2 DEF RowsAt
  <2>5. rows[x] <= b + Switch /\ rows[y] >= b /\ rows[x] \in Nat /\ rows[y] \in Nat
    BY <2>3, <2>4
  <2>6. QED
    BY <2>3, <2>4, <2>5
<1>2. QED
  BY <1>1, BalanceInvHolds, RotationTypeCorrect, PTL

---------------------------------------------------------------------------------
(***************************************************************************)
(* The part of a turn that survives records of other kinds: all signals    *)
(* are of one group, the only one armed, and its buffer has a read for     *)
(* each.  A call that reads something else than a sample at the end of a   *)
(* turn leaves phasesWithGroup at Switch, with nothing armed or queued.    *)
(***************************************************************************)
SignalsOf(g) ==
  /\ \A h \in Groups \ {g} : armed[h] = 0
  /\ \A i \in 1..Len(pending) : pending[i] = g
  /\ armed[g] + Len(pending) + phasesWithGroup = Switch
  /\ Len(pending) <= Len(buf[g])

SignalInv == \E g \in Groups : SignalsOf(g)

\* A phase ends: the sample is in the buffer, or the buffer is full and so has more
\* reads than a turn has signals.
LEMMA OverflowKeepsSignals ==
  ASSUME TypeOK, Switch <= BufferRecords,
         NEW g \in Groups, SignalsOf(g), NEW k \in Groups, Overflow(k)
  PROVE  SignalsOf(g)'
<1>0. /\ Len(pending) \in Nat /\ Len(buf[g]) \in Nat /\ phasesWithGroup \in Nat
      /\ armed[g] \in Nat /\ armed \in [Groups -> Nat]
      /\ pending \in Seq(Groups) /\ buf \in [Groups -> Seq(Reads)] /\ buf[g] \in Seq(Reads)
  BY LenProperties DEF TypeOK
<1>1. k = g /\ armed[g] > 0
  BY DEF SignalsOf, Overflow
<1>2. /\ armed' = [armed EXCEPT ![g] = @ - 1] /\ pending' = Append(pending, g)
      /\ phasesWithGroup' = phasesWithGroup
  BY <1>1 DEF Overflow
<1>3. /\ Len(pending') = Len(pending) + 1
      /\ \A i \in 1..Len(pending) : pending'[i] = pending[i]
      /\ pending'[Len(pending) + 1] = g
  BY <1>0, <1>2, AppendProperties
<1>4. \A i \in 1..Len(pending') : pending'[i] = g
  <2>1. PICK n \in Nat : n = Len(pending)
    BY <1>0
  <2>2. \A i \in 1..(n + 1) : i \in 1..n \/ i = n + 1
    OBVIOUS
  <2>3. Len(pending') = n + 1
    BY <1>3, <2>1
  <2>4. QED
    BY <1>3, <2>1, <2>2, <2>3 DEF SignalsOf
<1>5. armed[g] + Len(pending) + phasesWithGroup = Switch /\ Len(pending) <= Len(buf[g])
  BY DEF SignalsOf
<1>6. armed'[g] = armed[g] - 1 /\ \A h \in Groups \ {g} : armed'[h] = 0
  BY <1>0, <1>2 DEF SignalsOf
<1>7. armed'[g] + Len(pending') + phasesWithGroup' = Switch
  BY <1>0, <1>2, <1>3, <1>5, <1>6, RotationAssumption
<1>8. Len(pending') <= Len(buf'[g])
  <2>1. CASE Len(buf[g]) < BufferRecords
    <3>1. buf'[g] = Append(buf[g], "S") /\ "S" \in Reads
      BY <1>0, <1>1, <2>1 DEF Overflow, Reads
    <3>2. Len(buf'[g]) = Len(buf[g]) + 1
      BY <1>0, <3>1, AppendProperties
    <3>3. QED
      BY <1>0, <1>3, <1>5, <3>2
  <2>2. CASE ~(Len(buf[g]) < BufferRecords)
    <3>1. buf' = buf
      BY <1>1, <2>2 DEF Overflow
    <3>2. Len(pending) + 1 <= Switch
      BY <1>0, <1>1, <1>5, RotationAssumption
    <3>3. Len(pending) + 1 <= Len(buf[g])
      BY <1>0, <2>2, <3>2, RotationAssumption
    <3>4. QED
      BY <1>3, <3>1, <3>3
  <2>3. QED
    BY <2>1, <2>2
<1>9. QED
  BY <1>4, <1>6, <1>7, <1>8 DEF SignalsOf

\* The call that completes a turn handles the last of its signals.
LEMMA LastOfTurn ==
  ASSUME NEW a \in Nat, NEW q \in Nat, NEW p \in Nat, NEW s \in Nat,
         a + q + p = s, p + 1 >= s, q > 0
  PROVE  a = 0 /\ q = 1
  OBVIOUS

\* A handled signal takes one read of its group; the last of a turn arms the next
\* group, or nothing.
LEMMA HandlerKeepsSignals ==
  ASSUME TypeOK, NEW g \in Groups, SignalsOf(g), SigthymeHandler
  PROVE  \E k \in Groups : SignalsOf(k)'
<1>0. /\ Len(pending) \in Nat /\ Len(buf[g]) \in Nat /\ phasesWithGroup \in Nat
      /\ armed[g] \in Nat /\ armed \in [Groups -> Nat]
      /\ pending \in Seq(Groups) /\ buf \in [Groups -> Seq(Reads)] /\ buf[g] \in Seq(Reads)
  BY LenProperties DEF TypeOK
<1>1. /\ armed[g] + Len(pending) + phasesWithGroup = Switch /\ Len(pending) <= Len(buf[g])
      /\ \A h \in Groups \ {g} : armed[h] = 0
      /\ \A i \in 1..Len(pending) : pending[i] = g
  BY DEF SignalsOf
<1>2. pending # <<>> /\ Len(pending) > 0
  BY <1>0, EmptySeq DEF SigthymeHandler
<1>3. Head(pending) = g
  BY <1>0, <1>1, <1>2
<1>4. buf[g] # <<>> /\ ReadCounters(g, phasesWithGroup + 1) /\ pending' = Tail(pending)
  BY <1>3 DEF SigthymeHandler, HeaderAvailable
<1>5. /\ Len(pending') = Len(pending) - 1
      /\ \A i \in 1..(Len(pending) - 1) : pending'[i] = pending[i + 1]
  BY <1>0, <1>2, <1>4, HeadTailProperties
<1>6. \A i \in 1..Len(pending') : pending'[i] = g
  <2>1. \A i \in 1..Len(pending') : i + 1 \in 1..Len(pending) /\ i \in 1..(Len(pending) - 1)
    BY <1>0, <1>5
  <2>2. QED
    BY <1>1, <1>5, <2>1
<1>7. Len(buf'[g]) = Len(buf[g]) - 1
  <2>1. buf'[g] = Tail(buf[g])
    BY <1>0, <1>4 DEF ReadCounters
  <2>2. QED
    BY <1>0, <1>4, <2>1, HeadTailProperties
<1>8. CASE phasesWithGroup' = phasesWithGroup + 1 /\ armed' = armed
  <2>1. armed'[g] + Len(pending') + phasesWithGroup' = Switch
    BY <1>0, <1>1, <1>5, <1>8
  <2>2. Len(pending') <= Len(buf'[g])
    BY <1>0, <1>1, <1>5, <1>7
  <2>3. SignalsOf(g)'
    BY <1>1, <1>6, <1>8, <2>1, <2>2 DEF SignalsOf
  <2>4. QED
    BY <2>3
<1>9. CASE /\ phasesWithGroup + 1 >= Switch /\ phasesWithGroup' = 0
           /\ armed' = [armed EXCEPT ![NextGroup(g)] = @ + Switch]
  <2>1. armed[g] = 0 /\ Len(pending) = 1
    <3>1. armed[g] + Len(pending) + phasesWithGroup = Switch /\ phasesWithGroup + 1 >= Switch
      BY <1>1, <1>9
    <3>2. Switch \in Nat
      BY RotationAssumption
    <3>3. Len(pending) > 0
      BY <1>2
    <3>4. QED
      BY <1>0, <3>1, <3>2, <3>3, LastOfTurn
  <2>2. PICK k \in Groups : k = NextGroup(g)
    BY NextGroupType
  <2>3. armed'[k] = Switch /\ \A h \in Groups \ {k} : armed'[h] = 0
    <3>1. \A h \in Groups : armed[h] = 0
      BY <1>1, <2>1
    <3>2. QED
      BY <1>0, <1>9, <2>2, <3>1, RotationAssumption
  <2>4. Len(pending') = 0
    BY <1>5, <2>1
  <2>5. Len(buf'[k]) >= 0
    <3>1. buf'[k] \in Seq(Reads)
      <4>1. Tail(buf[g]) \in Seq(Reads)
        BY <1>0, <1>4, HeadTailProperties
      <4>2. QED
        BY <1>0, <1>4, <4>1 DEF ReadCounters
    <3>2. QED
      BY <3>1, LenProperties
  <2>6. armed'[k] + Len(pending') + phasesWithGroup' = Switch
    BY <1>9, <2>3, <2>4, RotationAssumption
  <2>7. \A i \in 1..Len(pending') : pending'[i] = k
    BY <2>4
  <2>8. SignalsOf(k)'
    BY <2>3, <2>4, <2>5, <2>6, <2>7 DEF SignalsOf
  <2>9. QED
    BY <2>8
<1>10. QED
  BY <1>4, <1>8, <1>9 DEF ReadCounters, Rotate

\* All signals are of the one armed group, each with something to read.
THEOREM SignalInvHolds ==
  ASSUME Switch <= BufferRecords
  PROVE  Spec => []SignalInv
<1>1. Init => SignalInv
  <2> SUFFICES ASSUME Init
               PROVE  SignalInv
    OBVIOUS
  <2>1. SignalsOf(1)
    BY FirstGroup, RotationAssumption DEF Init, SignalsOf
  <2>2. QED
    BY <2>1, FirstGroup DEF SignalInv
<1>2. TypeOK /\ SignalInv /\ [Next]_vars => SignalInv'
  <2> SUFFICES ASSUME TypeOK, [Next]_vars, NEW g \in Groups, SignalsOf(g)
               PROVE  \E k \in Groups : SignalsOf(k)'
    BY DEF SignalInv
  <2>1. CASE UNCHANGED vars
    BY <2>1 DEF vars, SignalsOf
  <2>2. ASSUME NEW k \in Groups, Overflow(k)
        PROVE  SignalsOf(g)'
    BY <2>2, OverflowKeepsSignals
  <2>3. ASSUME NEW k \in Groups, Throttle(k)
        PROVE  SignalsOf(g)'
    <3>1. UNCHANGED <<armed, pending, phasesWithGroup>> /\ buf' = [buf EXCEPT ![k] = @ \o OtherRecord]
      BY <2>3 DEF Throttle
    <3>2. buf \in [Groups -> Seq(Reads)] /\ OtherRecord \in Seq(Reads)
      BY RotationAssumption, IsASeq DEF TypeOK, OtherRecord, Reads
    <3>3. Len(buf'[g]) >= Len(buf[g])
      <4>1. CASE k = g
        <5>1. buf'[g] = buf[g] \o OtherRecord /\ buf[g] \in Seq(Reads)
          BY <3>1, <3>2, <4>1
        <5>2. Len(buf'[g]) = Len(buf[g]) + Len(OtherRecord)
          BY <3>2, <5>1, ConcatProperties
        <5>3. Len(OtherRecord) \in Nat /\ Len(buf[g]) \in Nat
          BY <3>2, <5>1, LenProperties
        <5>4. QED
          BY <5>2, <5>3
      <4>2. CASE k # g
        <5>1. buf'[g] = buf[g] /\ Len(buf[g]) \in Nat
          BY <3>1, <3>2, <4>2, LenProperties
        <5>2. QED
          BY <5>1
      <4>3. QED
        BY <4>1, <4>2
    <3>4. Len(pending) \in Nat /\ Len(buf[g]) \in Nat /\ Len(buf'[g]) \in Int
      <4>1. Len(pending) \in Nat /\ Len(buf[g]) \in Nat
        BY LenProperties DEF TypeOK
      <4>2. buf[k] \o OtherRecord \in Seq(Reads)
        BY <3>2, ConcatProperties
      <4>3. buf'[g] \in Seq(Reads)
        BY <3>1, <3>2, <4>2
      <4>4. QED
        BY <4>1, <4>3, LenProperties
    <3>5. Len(pending') <= Len(buf'[g])
      <4>1. Len(pending) <= Len(buf[g])
        BY DEF SignalsOf
      <4>2. QED
        BY <3>1, <3>3, <3>4, <4>1
    <3>6. QED
      BY <3>1, <3>5 DEF SignalsOf
  <2>4. CASE SigthymeHandler
    BY <2>4, HandlerKeepsSignals
  <2>5. QED
    BY <2>1, <2>2, <2>3, <2>4 DEF Next, Kernel, Finished
<1>3. QED
  BY <1>1, <1>2, RotationTypeCorrect, PTL DEF Spec

(***************************************************************************)
(* No handler call meets an empty buffer, whatever the kernel writes into  *)
(* it besides samples and even when it drops some, if a page holds the     *)
(* records of one turn.                                                    *)
(***************************************************************************)
THEOREM SignalsHaveRecordsHolds ==
  ASSUME Switch <= BufferRecords
  PROVE  Spec => []SignalsHaveRecords
<1>1. TypeOK /\ SignalInv => SignalsHaveRecords
  <2> SUFFICES ASSUME TypeOK, SignalInv, NEW h \in Groups
               PROVE  Cardinality({i \in 1..Len(pending) : pending[i] = h}) <= Len(buf[h])
    BY DEF SignalsHaveRecords
  <2>1. PICK g \in Groups : SignalsOf(g)
    BY DEF SignalInv
  <2>2. Len(pending) \in Nat /\ Len(buf[h]) \in Nat
    BY LenProperties DEF TypeOK
  <2>3. CASE h = g
    <3>1. {i \in 1..Len(pending) : pending[i] = h} = 1..Len(pending)
      BY <2>1, <2>3 DEF SignalsOf
    <3>2. Cardinality(1..Len(pending)) = Len(pending)
      <4>1. 1 \in Int /\ Len(pending) \in Int
        BY <2>2
      <4>2. Cardinality(1..Len(pending)) = IF 1 > Len(pending) THEN 0 ELSE Len(pending) - 1 + 1
        BY <4>1, FS_Interval
      <4>3. QED
        BY <2>2, <4>2
    <3>3. QED
      BY <2>1, <2>3, <3>1, <3>2 DEF SignalsOf
  <2>4. CASE h # g
    <3>1. {i \in 1..Len(pending) : pending[i] = h} = {}
      BY <2>1, <2>4 DEF SignalsOf
    <3>2. Cardinality({}) = 0
      BY FS_EmptySet
    <3>3. QED
      BY <2>2, <3>1, <3>2
  <2>5. QED
    BY <2>3, <2>4
<1>2. QED
  BY <1>1, SignalInvHolds, RotationTypeCorrect, PTL
=================================================================================

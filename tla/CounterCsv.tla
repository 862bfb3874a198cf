------------------------------- MODULE CounterCsv --------------------------------
(***************************************************************************)
(* From the event groups of the profiler to the columns of the csv file:   *)
(* the headers finalize_events writes for the groups EventGroups made, and *)
(* the conversion of profiler/to_csv.py, which finds the columns from the  *)
(* headers and turns running counts into counts per row.                   *)
(*                                                                         *)
(* When the PMU is shared, the kernel counts a group for part of the time  *)
(* only, and a row's counts are scaled by the share of its own interval:   *)
(* time_running / time_enabled.  The model follows these two times.  A     *)
(* count is never scaled by another group's share, and the difference of   *)
(* two counts needs no model.  to_csv keeps the times of a group's last    *)
(* row in `totals', but from the second row on it puts the length of the   *)
(* interval there instead of the new total, so the third interval and      *)
(* those after it are not the time since the row before.                   *)
(*                                                                         *)
(* A row is converted when it is written.  The script reads the finished   *)
(* file in the same order.                                                 *)
(***************************************************************************)
EXTENDS EventGroups

CONSTANTS
  MaxRows,   \* bound: rows
  MaxTick    \* bound: units of time from one row of a group to its next

ASSUME CounterCsvAssumption == MaxRows \in Nat /\ MaxTick \in Nat \ {0}

VARIABLES
  times,     \* kernel, per group: time_enabled and time_running of its leader
  totals,    \* to_csv, per group that had a row: the times it subtracts
  interval,  \* to_csv, per group: the times the last row was scaled with
  real,      \* history, per group: the times that really passed since the row before
  count,     \* history, per group: its rows
  csv        \* "none", "open" or "assert", when an assertion of to_csv failed

csvVars == <<times, totals, interval, real, count, csv>>

Groups == 1..Len(groups)
Zero == [enabled |-> 0, running |-> 0]

CsvInit ==
  /\ Init
  /\ times = <<>> /\ totals = <<>> /\ interval = <<>> /\ real = <<>> /\ count = <<>>
  /\ csv = "none"

----------------------------------------------------------------------------------
(***************************************************************************)
(* The header and the columns.                                             *)
(***************************************************************************)
Permanent == <<"UNHALTED_REFERENCE_CYCLES", "INST_RETIRED", "CPU_CLK_UNHALTED">>

\* finalize_events: the names of a group, clock and permanent events first.
Header(g) == Permanent \o groups[g]

\* Mutated form: one name too many.
OwnEventsFromThird(g) == SubSeq(Header(g), 3, Len(Header(g)))

\* events[3:]
OwnEvents(g) == SubSeq(Header(g), 4, Len(Header(g)))

\* The headers come in the order of a hash table; another order than that of
\* creation permutes the columns.
Columns == Permanent \o FlattenSeq([g \in Groups |-> OwnEvents(g)])

\* The last of the places where a name stands: what a Python dictionary filled
\* in order has for it.
LastPlace(names, e) ==
  CHOOSE i \in DOMAIN names :
    names[i] = e /\ \A j \in DOMAIN names : names[j] = e => j <= i

\* The counter of group g that goes into column c, or "nan".
Cell(g, c) ==
  IF \E e \in ToSet(Header(g)) : LastPlace(Columns, e) = c
    THEN Header(g)[LastPlace(Header(g), Columns[c])]
    ELSE "nan"

----------------------------------------------------------------------------------
Minus(a, b) == [enabled |-> a.enabled - b.enabled, running |-> a.running - b.running]
Plus(a, b) == [enabled |-> a.enabled + b.enabled, running |-> a.running + b.running]

\* totals[g] = t of the Python dictionary.
Assign(g, t) == [h \in DOMAIN totals \cup {g} |-> IF h = g THEN t ELSE totals[h]]

\* The profile starts: the groups are there and nothing has been counted.
Open ==
  /\ phase = "done"
  /\ csv = "none"
  /\ csv' = "open"
  /\ times' = [g \in Groups |-> Zero]
  /\ interval' = [g \in Groups |-> Zero]
  /\ real' = [g \in Groups |-> Zero]
  /\ count' = [g \in Groups |-> 0]
  /\ UNCHANGED <<vars, totals>>

\* The first row of a group.
FirstRow(g, new) ==
  /\ g \notin DOMAIN totals
  /\ interval' = [interval EXCEPT ![g] = new]
  /\ totals' = Assign(g, new)
  /\ csv' = IF new.running <= new.enabled THEN csv ELSE "assert"

\* Mutated form: the running time is not put back.
NewTotalsForgets(g, passed) == [passed EXCEPT !.running = totals[g].running]

\* What a later row, whose interval was found to be `passed', puts into totals.
NewTotals(g, passed) == passed

\* A later row, with the assertions on the times and on the multiplier.
LaterRow(g, new) ==
  LET passed == Minus(new, totals[g])
  IN /\ g \in DOMAIN totals
     /\ interval' = [interval EXCEPT ![g] = passed]
     /\ totals' = Assign(g, NewTotals(g, passed))
     /\ csv' = IF /\ passed.enabled > 0 /\ passed.running > 0
                  /\ passed.running <= passed.enabled
                 THEN csv ELSE "assert"

(***************************************************************************)
(* What may pass between two samples of a group: it was enabled for some   *)
(* time and counted for all of it or a part, not none, since it overflowed.*)
(***************************************************************************)
Passed ==
  {p \in [enabled : 1..MaxTick, running : 1..MaxTick] : p.running <= p.enabled}

\* A sample of group g, written by read_counters and converted.
Row(g) ==
  \E passed \in Passed :
    LET new == Plus(times[g], passed)
    IN /\ times' = [times EXCEPT ![g] = new]
       /\ real' = [real EXCEPT ![g] = passed]
       /\ count' = [count EXCEPT ![g] = @ + 1]
       /\ FirstRow(g, new) \/ LaterRow(g, new)
       /\ UNCHANGED vars

Rows == FoldFunction(LAMBDA n, m : n + m, 0, count)

allVars == <<vars, csvVars>>

CsvNext ==
  \/ Next /\ UNCHANGED csvVars
  \/ Open
  \/ csv = "open" /\ Rows < MaxRows /\ \E g \in Groups : Row(g)

CsvSpec == CsvInit /\ [][CsvNext]_allVars

----------------------------------------------------------------------------------
(***************************************************************************)
(* However the PMU spreads the events over groups, every event that was    *)
(* asked for and is supported has one column, each group that counts it    *)
(* writes there, and nothing but its own counter.  A name given twice has  *)
(* two columns, of which the first is never written, and so has one that   *)
(* every group counts anyway.  The groups do not change once the first row *)
(* is written.                                                             *)
(***************************************************************************)
ColumnsOwnEvents ==
  (phase = "done" /\ csv = "none") =>
    /\ \A g \in Groups : \A i \in DOMAIN Header(g) :
         Cell(g, LastPlace(Columns, Header(g)[i])) = Header(g)[i]
    /\ \A c \in DOMAIN Columns :
         (\A d \in DOMAIN Columns : Columns[d] = Columns[c] => d = c)
            => \E g \in Groups : Cell(g, c) = Columns[c]
    /\ ToSet(requested) \cap Supported \subseteq ToSet(Columns)
    /\ (IsInjective(requested) /\ ToSet(requested) \cap ToSet(Permanent) = {})
         => IsInjective(Columns)

(***************************************************************************)
(* The assertions of to_csv.py on the times (lines 86, 96, 97 and 105)     *)
(* hold for every sequence of rows, although `totals' has the wrong value  *)
(* after the second row of a group: they do not notice it.                 *)
(*                                                                         *)
(* The scaling is right for the first two rows of a group, and for all of  *)
(* them if the group was counted all the time.                             *)
(***************************************************************************)
ScaledRight ==
  /\ csv # "assert"
  /\ csv = "open" => \A g \in Groups :
       count[g] > 0 =>
         /\ count[g] <= 2 => interval[g] = real[g]
         /\ times[g].enabled = times[g].running
              => interval[g].enabled = interval[g].running
==================================================================================

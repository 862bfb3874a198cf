------------------------------ MODULE PerfRotation ------------------------------
(***************************************************************************)
(* How the profiler collects counters from one thread in counters mode     *)
(* (no -m): read_counters, and the part of sigthyme_handler around it, of  *)
(* profiler/datamime-profiler.cpp.                                         *)
(*                                                                         *)
(* The events are spread over groups.  One group is armed for              *)
(* PHASES_BETWEEN_SWITCHES overflows (PERF_EVENT_IOC_REFRESH); each        *)
(* overflow puts a sample record in the group's ring buffer and queues the *)
(* real-time signal SIGTHYME with the group's fd.  The handler reads one   *)
(* record, and after the last one arms the next group.  Nothing else ever  *)
(* arms a group, so a handler call that returns early at that point ends   *)
(* the profile.                                                            *)
(*                                                                         *)
(* The kernel side (Overflow, Throttle) is external.  A ring buffer is     *)
(* kept as the sequence of reads it takes to empty it: a sample is one     *)
(* read "S" (read_counters takes its header and its payload); a record of  *)
(* another kind is a read "T" of its header word, and one read "t" for     *)
(* each word of the payload that read_counters leaves behind.              *)
(***************************************************************************)
EXTENDS Integers, Sequences, FiniteSets

CONSTANTS
  NumGroups,       \* tinfo.event_groups.size()
  Switch,          \* PHASES_BETWEEN_SWITCHES
  NumPhases,       \* args.num_phases (-n)
  OtherWords,      \* payload of another record (PERF_RECORD_THROTTLE: 3)
  BufferRecords,   \* what BUFFER_PAGES pages hold
  MaxOthers        \* bound: records that are not samples

ASSUME RotationAssumption ==
  /\ NumGroups \in Nat \ {0}
  /\ Switch \in Nat \ {0}
  /\ NumPhases \in Nat \ {0}
  /\ OtherWords \in Nat /\ BufferRecords \in Nat
  /\ MaxOthers \in Nat

VARIABLES
  armed,     \* kernel: overflows each group's leader may still report
  buf,       \* kernel: the ring buffer of each group's leader
  pending,   \* kernel: queue of SIGTHYME, each with the group of its si_fd
  others,    \* kernel: records that are not samples produced so far
  lost,      \* kernel: samples dropped because the buffer was full
  phases,    \* tinfo.phases
  phasesWithGroup,  \* tinfo.phases_with_current_group
  rows,      \* lines written to the output file, by group
  done       \* state.done

vars == <<armed, buf, pending, others, lost, phases, phasesWithGroup, rows, done>>

Groups == 1..NumGroups

\* Mutated form: the first group is armed without a limit, as in -m mode.
InitUnlimited ==
  /\ armed = [g \in Groups |-> IF g = 1 THEN NumPhases ELSE 0]
  /\ buf = [g \in Groups |-> <<>>]
  /\ pending = <<>>
  /\ others = 0
  /\ lost = 0
  /\ phases = 0
  /\ phasesWithGroup = 0
  /\ rows = [g \in Groups |-> 0]
  /\ done = 0

\* create_event_groups, last part: the first group of the map is armed.
Init ==
  /\ armed = [g \in Groups |-> IF g = 1 THEN Switch ELSE 0]
  /\ buf = [g \in Groups |-> <<>>]
  /\ pending = <<>>
  /\ others = 0
  /\ lost = 0
  /\ phases = 0
  /\ phasesWithGroup = 0
  /\ rows = [g \in Groups |-> 0]
  /\ done = 0

(***************************************************************************)
(* External: a phase of the profiled thread ends.  The leader of the armed *)
(* group overflows: its limit drops by one (at 0 the kernel disables the   *)
(* group), the record is written if it fits and the signal is queued.      *)
(***************************************************************************)
Overflow(g) ==
  LET fits == Len(buf[g]) < BufferRecords
  IN /\ armed[g] > 0
     /\ armed' = [armed EXCEPT ![g] = @ - 1]
     /\ buf' = IF fits THEN [buf EXCEPT ![g] = Append(@, "S")] ELSE buf
     /\ lost' = IF fits THEN lost ELSE lost + 1
     /\ pending' = Append(pending, g)
     /\ UNCHANGED <<others, phases, phasesWithGroup, rows, done>>

OtherRecord == [i \in 1..(1 + OtherWords) |-> IF i = 1 THEN "T" ELSE "t"]

\* External: the kernel writes a record that is not a sample, without a signal.
Throttle(g) ==
  /\ armed[g] > 0
  /\ others < MaxOthers
  /\ others' = others + 1
  /\ buf' = [buf EXCEPT ![g] = @ \o OtherRecord]
  /\ UNCHANGED <<armed, pending, lost, phases, phasesWithGroup, rows, done>>

\* Mutated forms: the iterator stays at the last group, or runs past the end.
NextGroupStuck(g) == IF g = NumGroups THEN g ELSE g + 1

NextGroupNoWrap(g) == g + 1

\* The group after g in the iteration order of the map, wrapping around.
NextGroup(g) == IF g = NumGroups THEN 1 ELSE g + 1

\* The tail of read_counters, after a row was written.
Rotate(g, n) ==
  IF n >= Switch
    THEN /\ phasesWithGroup' = 0
         /\ armed' = [armed EXCEPT ![NextGroup(g)] = @ + Switch]
    ELSE /\ phasesWithGroup' = n
         /\ UNCHANGED armed

\* Mutated form: every record in the buffer is consumed, not one.
ReadCountersDrains(g, n) ==
  /\ buf' = [buf EXCEPT ![g] = <<>>]
  /\ IF Head(buf[g]) # "S"
       THEN phasesWithGroup' = n /\ UNCHANGED <<armed, rows>>
       ELSE Rotate(g, n) /\ rows' = [rows EXCEPT ![g] = @ + 1]

(***************************************************************************)
(* read_counters for the group of the signal, n being the incremented      *)
(* phases_with_current_group.  One header is read (an empty buffer ends    *)
(* the profiler: HeaderAvailable).  A header that is not a sample's is     *)
(* only logged and dropped; its payload stays in the buffer and there is   *)
(* no rotation.  A sample is read to its end, its row is written, and the  *)
(* rotation follows.                                                       *)
(***************************************************************************)
ReadCounters(g, n) ==
  /\ buf' = [buf EXCEPT ![g] = Tail(@)]
  /\ IF Head(buf[g]) # "S"
       THEN phasesWithGroup' = n /\ UNCHANGED <<armed, rows>>
       ELSE Rotate(g, n) /\ rows' = [rows EXCEPT ![g] = @ + 1]

HeaderAvailable(g) == buf[g] # <<>>

\* sigthyme_handler: one queued signal, handled to its end.
SigthymeHandler ==
  /\ pending # <<>>
  /\ HeaderAvailable(Head(pending))
  /\ pending' = Tail(pending)
  /\ phases' = phases + 1
  /\ ReadCounters(Head(pending), phasesWithGroup + 1)
  /\ done' = IF phases + 1 >= NumPhases THEN 1 ELSE done
  /\ UNCHANGED <<others, lost>>

Kernel == \E g \in Groups : Overflow(g) \/ Throttle(g)

\* num_phases are done, or nothing is armed and the thread runs unobserved.
Finished ==
  /\ done = 1 \/ (pending = <<>> /\ \A g \in Groups : armed[g] = 0)
  /\ UNCHANGED vars

Next ==
  \/ done = 0 /\ (Kernel \/ SigthymeHandler)
  \/ Finished

Spec == Init /\ [][Next]_vars

\* The profiled thread runs and queued signals are delivered.
FairSpec ==
  /\ Spec
  /\ WF_vars(done = 0 /\ \E g \in Groups : Overflow(g))
  /\ WF_vars(done = 0 /\ SigthymeHandler)

---------------------------------------------------------------------------------
Reads == {"S", "T", "t"}

\* Every variable keeps its type.
TypeOK ==
  /\ armed \in [Groups -> Nat]
  /\ buf \in [Groups -> Seq(Reads)]
  /\ pending \in Seq(Groups)
  /\ others \in Nat /\ lost \in Nat
  /\ phases \in Nat /\ phasesWithGroup \in Nat
  /\ rows \in [Groups -> Nat]
  /\ done \in {0, 1}

(***************************************************************************)
(* The profile never starves: until num_phases are done, a signal is       *)
(* queued or some group is armed, since a spent group is always replaced,  *)
(* as long as the kernel has written samples only.                         *)
(***************************************************************************)
NeverStarves ==
  (done = 0 /\ others = 0) => pending # <<>> \/ \E g \in Groups : armed[g] > 0

(***************************************************************************)
(* The inductive strengthening of NeverStarves and NoSampleLost, as long   *)
(* as the kernel writes samples only: one group g has its turn; the others *)
(* are spent and read; of the Switch phases of the turn, some are still    *)
(* armed, some are queued (each with its record), the others were handled. *)
(***************************************************************************)
Turn(g) ==
  /\ \A h \in Groups \ {g} : armed[h] = 0 /\ buf[h] = <<>>
  /\ \A i \in 1..Len(pending) : pending[i] = g
  /\ \A i \in 1..Len(buf[g]) : buf[g][i] = "S"
  /\ Len(buf[g]) = Len(pending)
  /\ armed[g] + Len(pending) + phasesWithGroup = Switch
  /\ phasesWithGroup < Switch

TurnInv == others = 0 => lost = 0 /\ \E g \in Groups : Turn(g)

\* The groups share the phases evenly while the kernel writes samples only: no group
\* is ever more than one turn ahead of another, so each event is measured over a
\* comparable number of phases.
RowsBalanced == others = 0 => \A g, h \in Groups : rows[g] <= rows[h] + Switch

\* A handler call never meets an empty buffer (it would end the profiler with
\* "cannot read event header"): every queued signal has something to read.
SignalsHaveRecords ==
  \A g \in Groups :
    Cardinality({i \in 1..Len(pending) : pending[i] = g}) <= Len(buf[g])

\* As long as the kernel writes samples only it drops none: a page holds the records
\* of one turn, and a group is armed again only when its buffer is empty.
NoSampleLost == others = 0 => lost = 0

\* The requested number of phases is reached, unless a record that is not a sample
\* came: a handler call that reads one at the end of a turn arms nothing.
Completes == <>(done = 1 \/ others > 0)
=================================================================================

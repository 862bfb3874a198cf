------------------------------- MODULE EventGroups -------------------------------
(***************************************************************************)
(* How the requested events are spread over event groups before profiling  *)
(* starts: filter_events, EventGroup::add_event and                        *)
(* ThreadInfo::create_event_groups of profiler/datamime-profiler.cpp.      *)
(*                                                                         *)
(* Every group holds the clock and the permanent events (BaseEvents of     *)
(* them) and room for MaxGroupEvents in all.  The events are added to the  *)
(* newest group; when add_event refuses, because the group is full or      *)
(* because perf_event_open fails, a new group is opened for the event, and *)
(* a refusal by the new group is an assertion failure.                     *)
(***************************************************************************)
EXTENDS Integers, Sequences, FiniteSets, SequencesExt

CONSTANTS
  Events,          \* names of events
  Supported,       \* those pfm_get_os_event_encoding knows on this machine
  PMUs,            \* the PMUs considered, each as the pairs {e, f} it cannot
                   \* count in one group, and {e} for an event it cannot open
  BaseEvents,      \* clock event + permanent events
  MaxGroupEvents,  \* MAX_GROUP_EVENTS
  MaxRequested     \* bound on the length of the -e list

ASSUME EventGroupsAssumption == MaxRequested \in Nat

VARIABLES
  conflicts,  \* what the PMU of this machine refuses
  requested,  \* the -e list
  todo,       \* the rotating events not placed yet
  groups,     \* the rotating events of each group, in order of creation
  phase       \* "filter", "place", "done" or "abort"

vars == <<conflicts, requested, todo, groups, phase>>

Init ==
  /\ conflicts \in PMUs
  /\ requested \in SeqOf(Events, MaxRequested)
  /\ todo = <<>>
  /\ groups = <<>>
  /\ phase = "filter"

\* filter_events: kept[n] is what the loop has kept of the first n events.
FilterEvents(events) ==
  LET kept[n \in 0..Len(events)] ==
        IF n = 0 THEN <<>>
        ELSE IF events[n] \in Supported THEN Append(kept[n - 1], events[n])
        ELSE kept[n - 1]
  IN kept[Len(events)]

\* The rotating events, and the first group, which exists without any of them too.
Filter ==
  /\ phase = "filter"
  /\ todo' = FilterEvents(requested)
  /\ groups' = << <<>> >>
  /\ phase' = "place"
  /\ UNCHANGED <<conflicts, requested>>

\* perf_event_open of e with the events of group g.
Opens(g, e) == \A f \in ToSet(g) \cup {e} : {e, f} \notin conflicts

\* EventGroup::add_event: TRUE when the event was added.
AddEvent(g, e) == BaseEvents + Len(g) < MaxGroupEvents /\ Opens(g, e)

PlaceInLast ==
  /\ phase = "place"
  /\ todo # <<>>
  /\ AddEvent(Last(groups), Head(todo))
  /\ groups' = [groups EXCEPT ![Len(groups)] = Append(@, Head(todo))]
  /\ todo' = Tail(todo)
  /\ UNCHANGED <<conflicts, requested, phase>>

\* Mutated form: the event that did not fit is not added to the new group.
PlaceInNewDrops ==
  /\ phase = "place"
  /\ todo # <<>>
  /\ ~AddEvent(Last(groups), Head(todo))
  /\ AddEvent(<<>>, Head(todo))
  /\ groups' = Append(groups, <<>>)
  /\ todo' = Tail(todo)
  /\ UNCHANGED <<conflicts, requested, phase>>

PlaceInNew ==
  /\ phase = "place"
  /\ todo # <<>>
  /\ ~AddEvent(Last(groups), Head(todo))
  /\ AddEvent(<<>>, Head(todo))
  /\ groups' = Append(groups, <<Head(todo)>>)
  /\ todo' = Tail(todo)
  /\ UNCHANGED <<conflicts, requested, phase>>

\* assert(ret) on the second add_event.
PlaceFails ==
  /\ phase = "place"
  /\ todo # <<>>
  /\ ~AddEvent(Last(groups), Head(todo))
  /\ ~AddEvent(<<>>, Head(todo))
  /\ groups' = Append(groups, <<>>)
  /\ phase' = "abort"
  /\ UNCHANGED <<conflicts, requested, todo>>

Placed ==
  /\ phase = "place"
  /\ todo = <<>>
  /\ phase' = "done"
  /\ UNCHANGED <<conflicts, requested, todo, groups>>

Ended == phase \in {"done", "abort"} /\ UNCHANGED vars

Next == Filter \/ PlaceInLast \/ PlaceInNew \/ PlaceFails \/ Placed \/ Ended

Spec == Init /\ [][Next]_vars

----------------------------------------------------------------------------------
\* The place of the n-th requested event among the supported ones.
Rank(n) == Cardinality({i \in 1..n : requested[i] \in Supported})

(***************************************************************************)
(* Nothing is lost or measured twice: when create_event_groups returns,    *)
(* the groups laid end to end are the supported events in the order of -e. *)
(***************************************************************************)
EventsPlacedOnce ==
  phase = "done" =>
    /\ Len(FlattenSeq(groups)) = Rank(Len(requested))
    /\ \A n \in DOMAIN requested :
         requested[n] \in Supported => FlattenSeq(groups)[Rank(n)] = requested[n]
==================================================================================

----------------------------- MODULE Profiling -----------------------------
(***************************************************************************)
(* The profiler (core/profiler.hpp) and the tracer (core/tracing.hpp), fed *)
(* by scopes that nest: each block of code opens a KernelScope and a       *)
(* TraceScope, whose destructors record when it is left.                   *)
(*                                                                         *)
(* The clock is in units of which Micro make a microsecond: the profiler   *)
(* counts units, the tracer whole microseconds since its origin, time 0.   *)
(* Flops and bytes are summed as the time is, and left out.                *)
(***************************************************************************)
EXTENDS Integers, Sequences, SequencesExt

CONSTANTS
  Labels,
  Micro,
  MaxTime, MaxDepth, MaxCalls   \* bounds of the runs

ASSUME ProfilingAssumption == Micro \in Nat \ {0} /\ {MaxTime, MaxDepth, MaxCalls} \subseteq Nat

VARIABLES
  clock,
  scopes,           \* the open scopes, outermost first
  profiled, stats,  \* the profiler: enabled_ and stats_
  traced, events    \* the tracer: enabled_ and events_

profilingVars == <<clock, scopes, profiled, stats, traced, events>>

KernelStat(ns) == [calls |-> 1, total |-> ns, min |-> ns, max |-> ns]
Smaller(a, b) == IF a < b THEN a ELSE b
Larger(a, b) == IF a > b THEN a ELSE b

\* Mutant: the record is made with a minimum of zero, and only lowered.
AddedTo(old, ns) ==
  [calls |-> old.calls + 1, total |-> old.total + ns, min |-> Smaller(old.min, ns), max |-> Larger(old.max, ns)]
RecordFromZero(name, ns) ==
  [n \in DOMAIN stats \cup {name} |->
     IF n # name THEN stats[n]
     ELSE AddedTo(IF n \in DOMAIN stats THEN stats[n]
                  ELSE [calls |-> 0, total |-> 0, min |-> 0, max |-> 0], ns)]

record(name, ns) ==
  [n \in DOMAIN stats \cup {name} |->
     IF n # name THEN stats[n]
     ELSE IF n \in DOMAIN stats THEN AddedTo(stats[n], ns) ELSE KernelStat(ns)]

now_us == clock \div Micro

\* Mutant: the duration is rounded, the start already was.
EventRounded(scope) ==
  [name |-> scope.name, ts |-> scope.start_us, dur |-> (clock - scope.start) \div Micro]

Event(scope) == [name |-> scope.name, ts |-> scope.start_us, dur |-> now_us - scope.start_us]

ProfilingInit ==
  /\ clock = 0 /\ scopes = <<>>
  /\ profiled = TRUE /\ stats = <<>>
  /\ traced = FALSE /\ events = <<>>

Tick == clock < MaxTime /\ clock' = clock + 1 /\ UNCHANGED <<scopes, profiled, stats, traced, events>>

Open(name) ==
  /\ Len(scopes) < MaxDepth
  /\ scopes' = Append(scopes, [name |-> name, start |-> clock, start_us |-> now_us])
  /\ UNCHANGED <<clock, profiled, stats, traced, events>>

\* The innermost scope is left: both destructors.
Close ==
  /\ scopes # <<>>
  /\ Len(events) < MaxCalls
  /\ \A n \in DOMAIN stats : stats[n].calls < MaxCalls
  /\ scopes' = Front(scopes)
  /\ LET scope == Last(scopes)
     IN  /\ stats' = IF profiled THEN record(scope.name, clock - scope.start) ELSE stats
         /\ events' = IF traced THEN Append(events, Event(scope)) ELSE events
  /\ UNCHANGED <<clock, profiled, traced>>

\* set_enabled and reset, whatever is open.
ToggleProfiler == profiled' = ~profiled /\ UNCHANGED <<clock, scopes, stats, traced, events>>
ToggleTracer == traced' = ~traced /\ UNCHANGED <<clock, scopes, profiled, stats, events>>
ResetProfiler == stats' = <<>> /\ UNCHANGED <<clock, scopes, profiled, traced, events>>
ResetTracer == events' = <<>> /\ UNCHANGED <<clock, scopes, profiled, stats, traced>>

ProfilingNext ==
  \/ Tick \/ Close \/ \E name \in Labels : Open(name)
  \/ ToggleProfiler \/ ToggleTracer \/ ResetProfiler \/ ResetTracer

ProfilingSpec == ProfilingInit /\ [][ProfilingNext]_profilingVars

---------------------------------------------------------------------------
(* Properties *)

EndOf(e) == e.ts + e.dur

\* The events of the trace nest as their scopes did, and children are emitted
\* before their parents: an event is after an earlier one, or encloses it,
\* although starts and ends are cut to whole microseconds and tracing is
\* switched on and off with scopes open.
EventsNest ==
  \A i, j \in 1 .. Len(events) :
    i < j =>
      /\ EndOf(events[i]) <= EndOf(events[j])
      /\ EndOf(events[i]) <= events[j].ts \/ events[j].ts <= events[i].ts

\* The minimum and the maximum of a name were both measured: the total of its
\* calls is what they and calls in between can add up to.
StatsConsistent ==
  \A n \in DOMAIN stats :
    LET s == stats[n]
    IN  /\ s.max + (s.calls - 1) * s.min <= s.total
        /\ s.total <= s.min + (s.calls - 1) * s.max
=============================================================================

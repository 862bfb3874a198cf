-------------------------- MODULE MCProfilerLifecycle --------------------------
(***************************************************************************)
(* The wind-down of ProfilerLifecycle for TLC.                             *)
(***************************************************************************)
EXTENDS ProfilerLifecycle

CONSTANTS t1, t2

\* Bounds: one phase beyond the two that are asked for leaves a late signal; each
\* signal from outside comes at most once.
MCThreads == {t1, t2}
MCMayExit == {t2}
MCModes == {"mrc", "counters"}
MCCounters == {"counters"}
MCOutside == {"SIGUSR1", "SIGTSTP", "SIGSTOP", "SIGKILL", "SIGINT"}
=================================================================================

---------------------------- MODULE MCScheduler ----------------------------
(***************************************************************************)
(* Small instances of Scheduler for TLC.                                   *)
(***************************************************************************)
EXTENDS Scheduler

CONSTANTS s1, r1, r2    \* request ids

\* Requests that are not sessions are interchangeable.  Used by the runs that
\* check no liveness property.
Symmetry == Permutations(Requests \ Sessions)

=============================================================================

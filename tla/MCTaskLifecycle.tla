-------------------------- MODULE MCTaskLifecycle --------------------------
(***************************************************************************)
(* Finite instances of TaskLifecycle.                                      *)
(***************************************************************************)
EXTENDS TaskLifecycle

\* When the tasks were submitted: all in 2026-06, or one of them in the time
\* of the old system.
Recent == [t \in Tasks |-> 1780000000]
OneLegacy ==
  [Recent EXCEPT ![CHOOSE t \in Tasks : TRUE] = 1700000000]
=============================================================================

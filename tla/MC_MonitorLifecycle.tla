------------------------- MODULE MC_MonitorLifecycle -------------------------
(***************************************************************************)
(* The instance of MonitorLifecycle for its safety run: calls and projects *)
(* are interchangeable.                                                    *)
(***************************************************************************)
EXTENDS MonitorLifecycle, TLC

Symmetry == Permutations(Calls) \cup Permutations(Projects)

=============================================================================

----------------------------- MODULE MCIdlePark -----------------------------
(* Two scenes of IdlePark for TLC: processes that exchange messages, and     *)
(* processes that wait for timeouts and file operations.                     *)
EXTENDS IdlePark, TLC

\* The processes of a scene play the same part; the workers do not (worker 0
\* ticks).
PidSymmetry == Permutations(MessagePids)

\* Bound: a step that would bring the two kinds together is not explored.
KeepsScene == born' \subseteq MessagePids \/ born' \subseteq TimerPids
=============================================================================

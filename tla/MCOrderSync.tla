---------------------------- MODULE MCOrderSync ----------------------------
(***************************************************************************)
(* Instances of the hall-order protocol for TLC.  Nodes are model values;  *)
(* only an elevator that may take orders differs from the others, so the   *)
(* remaining nodes may be exchanged in every run that checks safety.       *)
(***************************************************************************)
EXTENDS OrderHistory, TLC

\* What a run with at most one fault that does not ask about completions has to
\* tell apart: once a fault has happened, which one it was matters to the
\* properties and to what may still happen only if it was a reconnection.
Uncounted == <<nodeVars, syncVars, outbox, wire, served, pressed, Faults, budget.press, budget.selfNew>>

Exchangeable == Permutations(Node \ Takers)
=============================================================================

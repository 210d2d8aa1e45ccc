---------------------------- MODULE LatestValue ----------------------------
(***************************************************************************)
(* What the goroutines expect of the channels of capacity one between      *)
(* them: a register in which a new value replaces one nobody has taken, at *)
(* once.  Whoever takes a value takes the newest one.                      *)
(***************************************************************************)
CONSTANT Value

VARIABLES
    newest,  \* the value put last
    slot,    \* {newest} if nobody has taken it, else {}
    taken    \* the value taken last

Init == newest \in Value /\ slot = {} /\ taken = newest

Put(v) == newest' = v /\ slot' = {v} /\ UNCHANGED taken

Take == slot = {newest} /\ taken' = newest /\ slot' = {} /\ UNCHANGED newest

Next == (\E v \in Value : Put(v)) \/ Take

Spec == Init /\ [][Next]_<<newest, slot, taken>>
=============================================================================

------------------------------ MODULE Mailbox ------------------------------
(***************************************************************************)
(* How the goroutines really use a channel of capacity one (sendLatest* in *)
(* worldview.go, sendState and sendLatestBool in FSM, the end of           *)
(* GoroutineSync): try to send; if the channel is full, receive the old    *)
(* value, unless the other side has just done so; then send.  The other    *)
(* side may act between any two of these steps.                            *)
(***************************************************************************)
CONSTANT Value

VARIABLES
    latest,   \* the value the sender sends, or has sent last
    sender,   \* "idle", "full" (the first try failed) or "drained"
    channel,  \* the set of what the channel holds
    taken     \* the value the receiver received last

boxVars == <<latest, sender, channel, taken>>

Init ==
    /\ latest \in Value
    /\ taken   = latest
    /\ sender  = "idle"
    /\ channel = {}

Send(v) ==
    /\ sender = "idle"
    /\ latest' = v
    /\ IF channel = {} THEN channel' = {v} /\ UNCHANGED sender
                       ELSE sender' = "full" /\ UNCHANGED channel
    /\ UNCHANGED taken

\* Mutant: the old value stays, the new one is dropped.
KeepOld ==
    /\ sender = "full"
    /\ sender' = "idle"
    /\ UNCHANGED <<latest, channel, taken>>

Drain ==
    /\ sender = "full"
    /\ sender' = "drained"
    /\ channel' = {}
    /\ UNCHANGED <<latest, taken>>

\* The send without a default: it waits until the channel has room.
SendAgain ==
    /\ sender = "drained"
    /\ channel = {}
    /\ channel' = {latest}
    /\ sender' = "idle"
    /\ UNCHANGED <<latest, taken>>

Receive ==
    /\ \E v \in channel : taken' = v
    /\ channel' = {}
    /\ UNCHANGED <<latest, sender>>

Next == (\E v \in Value : Send(v)) \/ Drain \/ SendAgain \/ Receive

Spec == Init /\ [][Next]_boxVars

-----------------------------------------------------------------------------
\* The blocking send never blocks: the channel has a single sender.
SenderNeverWaits == sender = "drained" => channel = {}

\* A value counts as put when the old one is out of the way.
Register == INSTANCE LatestValue WITH
    newest <- IF sender = "full" THEN IF channel = {} THEN taken ELSE CHOOSE v \in channel : TRUE
                                 ELSE latest,
    slot   <- IF sender = "drained" THEN {latest} ELSE channel

\* To its two sides the channel is a register that holds the newest value only.
KeepsLatest == Register!Spec
=============================================================================

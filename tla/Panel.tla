------------------------------- MODULE Panel -------------------------------
(***************************************************************************)
(* The buttons and lamps of one elevator: the pollers, ButtonsListener and *)
(* its two channels, the button cases of the worldview goroutine, the      *)
(* channel to ButtonLightsListener in its single steps (Mailbox), and the  *)
(* other writer of those lamps, TurnOffAllLights; and the stop lamp, which *)
(* ErrorLight lets blink and the poller of the stop button writes too.     *)
(* Each lamp is written by a call of its own.                              *)
(*                                                                         *)
(* The rest of the program is environment: it confirms and completes       *)
(* orders and has its elevator in error or not.                            *)
(***************************************************************************)
EXTENDS Naturals, Sequences

CONSTANTS
    HallButton,
    CabButton,
    ChannelCap,   \* capacity of cabBtnCh and hallBtnCh (8)
    MaxEvents     \* bound: presses, changes of the network and of the error state

ASSUME PanelBounds == ChannelCap \in Nat \ {0} /\ MaxEvents \in Nat

Button == HallButton \cup CabButton

\* What of a worldview the lamps show: the Confirmed hall orders and the cab
\* orders of this elevator, if AllCabOrders has an entry for it.
View == [lit : SUBSET Button, cabEntry : BOOLEAN]

VARIABLES
    down,          \* the buttons that are pressed at the moment
    prev,          \* prev of PollButtons
    event,         \* the event PollButtons hands over, if any
    listening,     \* the event ButtonsListener forwards, if any
    cabBtnCh,
    hallBtnCh,
    started,       \* worldviewInit has returned
    hasNetwork,
    order,         \* order[b]: "none", "pending" (Unconfirmed) or "lit"
    cabEntry,      \* AllCabOrders has an entry for this elevator
    latest, sender, channel, taken,   \* lightsCh, as in Mailbox
    writing,       \* the view ButtonLightsListener shows, and the lamps left to write
    lamp,          \* the lamps that are lit
    dark,          \* the lamps InitElevator has still to turn off
    report,        \* its report: "later", "sent" or "handled"
    inError,       \* what updateErrorState returned last
    errorLightCh,  \* the value ErrorLight has not taken yet, if any
    blinking,
    lampOn,
    stopLamp,
    light,         \* light of PollStopButton
    wanted,        \* history: buttons polled whose order is not completed yet
    budget         \* how many of the bounded events may still happen

Box == INSTANCE Mailbox WITH Value <- View

buttons   == <<down, prev, event, listening, cabBtnCh, hallBtnCh>>
worldview == <<started, hasNetwork, order, cabEntry>>
lightsCh  == <<latest, sender, channel, taken>>
lamps     == <<writing, lamp, dark, report>>
stop      == <<inError, errorLightCh, blinking, lampOn, stopLamp, light>>
vars      == <<buttons, worldview, lightsCh, lamps, stop, wanted, budget>>

\* The lamps are as the program before left them.
Init ==
    /\ down       = {}
    /\ prev       = {}
    /\ event      = {}
    /\ listening  = {}
    /\ cabBtnCh   = <<>>
    /\ hallBtnCh  = <<>>
    /\ started    = FALSE
    /\ hasNetwork = TRUE
    /\ order      = [b \in Button |-> "none"]
    /\ cabEntry   \in BOOLEAN
    /\ latest     = [lit |-> {}, cabEntry |-> FALSE]
    /\ taken      = latest
    /\ sender     = "idle"
    /\ channel    = {}
    /\ writing    = {}
    /\ lamp       \in SUBSET Button
    /\ dark       = Button
    /\ report     = "later"
    /\ inError    = FALSE
    /\ errorLightCh = {}
    /\ blinking   = FALSE
    /\ lampOn     = FALSE
    /\ stopLamp   = FALSE
    /\ light      = FALSE
    /\ wanted     = {}
    /\ budget     = MaxEvents

Spend == budget > 0 /\ budget' = budget - 1

-----------------------------------------------------------------------------
(* Passengers, PollButtons and ButtonsListener. *)

Press(b) ==
    /\ b \notin down
    /\ Spend
    /\ down' = down \cup {b}
    /\ UNCHANGED <<prev, event, listening, cabBtnCh, hallBtnCh, worldview, lightsCh, lamps, stop, wanted>>

ReleaseButton(b) ==
    /\ b \in down
    /\ down' = down \ {b}
    /\ UNCHANGED <<prev, event, listening, cabBtnCh, hallBtnCh, worldview, lightsCh, lamps, stop, wanted, budget>>

\* The poller waits until the event it saw before is taken.
PollButtons(b) ==
    /\ event = {}
    /\ b \in down <=> b \notin prev
    /\ prev'   = IF b \in down THEN prev \cup {b} ELSE prev \ {b}
    /\ event'  = IF b \in down THEN {b} ELSE {}
    /\ wanted' = IF b \in down THEN wanted \cup {b} ELSE wanted
    /\ UNCHANGED <<down, listening, cabBtnCh, hallBtnCh, worldview, lightsCh, lamps, stop, budget>>

\* Mutant: a new event replaces one that is not forwarded yet.
TakeNewest ==
    /\ event # {}
    /\ listening' = event
    /\ event' = {}
    /\ UNCHANGED <<down, prev, cabBtnCh, hallBtnCh, worldview, lightsCh, lamps, stop, wanted, budget>>

TakeEvent ==
    /\ listening = {}
    /\ event # {}
    /\ listening' = event
    /\ event' = {}
    /\ UNCHANGED <<down, prev, cabBtnCh, hallBtnCh, worldview, lightsCh, lamps, stop, wanted, budget>>

\* Mutant: the presses in the car are not told from those on the floors.
ForwardUnsorted == \E b \in listening :
    /\ listening' = {}
    /\ Len(hallBtnCh) < ChannelCap
    /\ hallBtnCh' = Append(hallBtnCh, b)
    /\ UNCHANGED <<down, prev, event, cabBtnCh, worldview, lightsCh, lamps, stop, wanted, budget>>

\* A full channel of one kind keeps the events of the other kind waiting too.
ForwardEvent == \E b \in listening :
    /\ listening' = {}
    /\ \/ /\ b \in CabButton
          /\ Len(cabBtnCh) < ChannelCap
          /\ cabBtnCh' = Append(cabBtnCh, b)
          /\ UNCHANGED hallBtnCh
       \/ /\ b \in HallButton
          /\ Len(hallBtnCh) < ChannelCap
          /\ hallBtnCh' = Append(hallBtnCh, b)
          /\ UNCHANGED cabBtnCh
    /\ UNCHANGED <<down, prev, event, worldview, lightsCh, lamps, stop, wanted, budget>>

-----------------------------------------------------------------------------
(* The worldview goroutine.  It handles nothing while it sends. *)

Lit(orders) == {b \in Button : orders[b] = "lit"}

\* Store the orders, then sendLatestLights.
Update(orders, entry) ==
    /\ order'    = orders
    /\ cabEntry' = entry
    /\ Box!Send([lit |-> Lit(orders), cabEntry |-> entry])

Start ==
    /\ ~started
    /\ started' = TRUE
    /\ UNCHANGED <<buttons, hasNetwork, order, cabEntry, lightsCh, lamps, stop, wanted, budget>>

HandleCabButton ==
    /\ started
    /\ cabBtnCh # <<>>
    /\ Update([order EXCEPT ![Head(cabBtnCh)] = "lit"], TRUE)
    /\ cabBtnCh' = Tail(cabBtnCh)
    /\ UNCHANGED <<down, prev, event, listening, hallBtnCh, started, hasNetwork, lamps, stop, wanted, budget>>

\* Without a network a press of a hall button has no effect.
HandleHallButton ==
    LET b == Head(hallBtnCh)
    IN  /\ started
        /\ sender = "idle"
        /\ hallBtnCh # <<>>
        /\ hallBtnCh' = Tail(hallBtnCh)
        /\ IF hasNetwork
           THEN /\ Update([order EXCEPT ![b] = IF @ = "none" THEN "pending" ELSE @], cabEntry)
                /\ UNCHANGED wanted
           ELSE /\ wanted' = wanted \ {b}
                /\ UNCHANGED <<order, cabEntry, lightsCh>>
        /\ UNCHANGED <<down, prev, event, listening, cabBtnCh, started, hasNetwork, lamps, stop, budget>>

\* A sync result confirms an order.
Confirm(b) ==
    /\ started
    /\ order[b] = "pending"
    /\ Update([order EXCEPT ![b] = "lit"], cabEntry)
    /\ UNCHANGED <<buttons, started, hasNetwork, lamps, stop, wanted, budget>>

\* A report of the elevator, or a sync result, ends an order.
Complete(b) ==
    /\ started
    /\ order[b] = "lit"
    /\ Update([order EXCEPT ![b] = "none"], cabEntry)
    /\ wanted' = wanted \ {b}
    /\ UNCHANGED <<buttons, started, hasNetwork, lamps, stop, budget>>

\* The report InitElevator ends with changes no order.
HandleReport ==
    /\ started
    /\ report = "sent"
    /\ Update(order, cabEntry)
    /\ report' = "handled"
    /\ UNCHANGED <<buttons, started, hasNetwork, writing, lamp, dark, stop, wanted, budget>>

NetworkChanges ==
    /\ Spend
    /\ hasNetwork' = ~hasNetwork
    /\ UNCHANGED <<buttons, started, order, cabEntry, lightsCh, lamps, stop, wanted>>

SendLights ==
    /\ Box!Drain \/ Box!SendAgain
    /\ UNCHANGED <<buttons, worldview, lamps, stop, wanted, budget>>

-----------------------------------------------------------------------------
(* The lamps. *)

\* ButtonLightsListener takes the next worldview when it has written the last.
TakeLights ==
    /\ writing = {}
    /\ Box!Receive
    /\ writing' = {[view |-> taken', left |-> IF taken'.cabEntry THEN Button ELSE HallButton]}
    /\ UNCHANGED <<buttons, worldview, lamp, dark, report, stop, wanted, budget>>

SetLamp(b, on) == lamp' = IF on THEN lamp \cup {b} ELSE lamp \ {b}

WriteLamp(b) == \E w \in writing :
    /\ b \in w.left
    /\ SetLamp(b, b \in w.view.lit)
    /\ writing' = IF w.left = {b} THEN {} ELSE {[w EXCEPT !.left = @ \ {b}]}
    /\ UNCHANGED <<buttons, worldview, lightsCh, dark, report, stop, wanted, budget>>

\* TurnOffAllLights, in the goroutine of the elevator.
TurnOff(b) ==
    /\ b \in dark
    /\ SetLamp(b, FALSE)
    /\ dark' = dark \ {b}
    /\ UNCHANGED <<buttons, worldview, lightsCh, writing, report, stop, wanted, budget>>

\* Mutant: the report does not wait for the lamps.
ReportEarly ==
    /\ report = "later"
    /\ report' = "sent"
    /\ UNCHANGED <<buttons, worldview, lightsCh, writing, lamp, dark, stop, wanted, budget>>

\* InitElevator has turned off the lamps and found its floor.
InitElevator ==
    /\ report = "later"
    /\ dark = {}
    /\ report' = "sent"
    /\ UNCHANGED <<buttons, worldview, lightsCh, writing, lamp, dark, stop, wanted, budget>>

-----------------------------------------------------------------------------
(* The stop lamp.  Its writers start when InitElevator is done. *)

Running == report # "later"

\* updateErrorState and sendLatestBool in RunElevator.
SendError(error) ==
    /\ Running
    /\ inError' = error
    /\ errorLightCh' = {error}
    /\ UNCHANGED <<buttons, worldview, lightsCh, lamps, blinking, lampOn, stopLamp, light, wanted>>

ErrorTimeout == ~inError /\ Spend /\ SendError(TRUE)

Recover == inError /\ SendError(FALSE) /\ UNCHANGED budget

\* Every tick at a floor says so again.
StillFine == ~inError /\ SendError(FALSE) /\ UNCHANGED budget

\* Mutant: the lamp is left as it is.
StopBlinking == \E val \in errorLightCh :
    /\ errorLightCh' = {}
    /\ blinking' = val
    /\ UNCHANGED <<buttons, worldview, lightsCh, lamps, inError, lampOn, stopLamp, light, wanted, budget>>

ErrorLight == \E val \in errorLightCh :
    /\ errorLightCh' = {}
    /\ blinking' = val
    /\ stopLamp' = (val /\ stopLamp)
    /\ UNCHANGED <<buttons, worldview, lightsCh, lamps, inError, lampOn, light, wanted, budget>>

Blink ==
    /\ blinking
    /\ lampOn' = ~lampOn
    /\ stopLamp' = lampOn'
    /\ UNCHANGED <<buttons, worldview, lightsCh, lamps, inError, errorLightCh, blinking, light, wanted, budget>>

\* The first press turns the lamp off, the second on.
PollStopButton ==
    /\ Running
    /\ Spend
    /\ stopLamp' = light
    /\ light' = ~light
    /\ UNCHANGED <<buttons, worldview, lightsCh, lamps, inError, errorLightCh, blinking, lampOn, wanted>>

Next ==
    \/ \E b \in Button : \/ Press(b)
                         \/ ReleaseButton(b)
                         \/ PollButtons(b)
                         \/ Confirm(b)
                         \/ Complete(b)
                         \/ WriteLamp(b)
                         \/ TurnOff(b)
    \/ TakeEvent
    \/ ForwardEvent
    \/ Start
    \/ HandleCabButton
    \/ HandleHallButton
    \/ HandleReport
    \/ NetworkChanges
    \/ SendLights
    \/ TakeLights
    \/ InitElevator
    \/ ErrorTimeout
    \/ Recover
    \/ StillFine
    \/ ErrorLight
    \/ Blink
    \/ PollStopButton

\* The goroutines run.  Select picks any ready case, so none of the worldview
\* goroutine's is passed over for ever.  An elevator that
\* stays out of error ticks at a floor again and again.
Fairness ==
    /\ \A b \in Button : WF_vars(PollButtons(b)) /\ WF_vars(WriteLamp(b)) /\ WF_vars(TurnOff(b))
    /\ WF_vars(TakeEvent) /\ WF_vars(ForwardEvent)
    /\ WF_vars(Start) /\ WF_vars(InitElevator)
    /\ SF_vars(HandleCabButton) /\ SF_vars(HandleHallButton) /\ SF_vars(HandleReport)
    /\ WF_vars(SendLights) /\ WF_vars(TakeLights)
    /\ WF_vars(ErrorLight) /\ WF_vars(Blink) /\ WF_vars(StillFine)

Spec     == Init /\ [][Next]_vars
LiveSpec == Spec /\ Fairness

-----------------------------------------------------------------------------
\* The type invariant.
TypeOK ==
    /\ down       \in SUBSET Button
    /\ prev       \in SUBSET Button
    /\ event      \in SUBSET Button
    /\ listening  \in SUBSET Button
    /\ cabBtnCh   \in Seq(CabButton) /\ Len(cabBtnCh) <= ChannelCap
    /\ hallBtnCh  \in Seq(HallButton) /\ Len(hallBtnCh) <= ChannelCap
    /\ started    \in BOOLEAN
    /\ hasNetwork \in BOOLEAN
    /\ order      \in [Button -> {"none", "pending", "lit"}]
    /\ cabEntry   \in BOOLEAN
    /\ latest     \in View
    /\ taken      \in View
    /\ sender     \in {"idle", "full", "drained"}
    /\ channel    \in SUBSET View
    /\ writing    \in SUBSET [view : View, left : SUBSET Button]
    /\ lamp       \in SUBSET Button
    /\ dark       \in SUBSET Button
    /\ report     \in {"later", "sent", "handled"}
    /\ errorLightCh \in SUBSET BOOLEAN
    /\ {inError, blinking, lampOn, stopLamp, light} \subseteq BOOLEAN
    /\ wanted     \in SUBSET Button
    /\ budget     \in Nat

Waiting == event \cup listening \cup {cabBtnCh[i] : i \in DOMAIN cabBtnCh}
                                \cup {hallBtnCh[i] : i \in DOMAIN hallBtnCh}

\* A press the poller has seen is not forgotten before its order is completed,
\* though it may come before the worldview goroutine has started and find the
\* channels full.
NoPressForgotten == \A b \in wanted : order[b] # "none" \/ b \in Waiting

\* A passenger in the car whose press was polled gets a lamp, or has already
\* arrived: poller, listener, worldview and lamps never wait for each other in
\* a circle, and no newer view is dropped for an older one.
PressShows == \A b \in CabButton : b \in wanted ~> b \in lamp \/ b \notin wanted

\* At last every lamp shows its order, although two goroutines write it and one of
\* them, at the start, does not know the orders.
LampsSettle == \A b \in Button : <>[](b \in lamp <=> order[b] = "lit")

\* The stop lamp blinks as long as the elevator is in error, whatever the poller of
\* the stop button writes in between.  Out of error it is off at last, though a
\* press may light it and ErrorLight forgets what it wrote: each tick says so again.
ErrorLampSettles ==
    /\ <>[]inError => []<>stopLamp /\ []<>~stopLamp
    /\ <>[]~inError => <>[]~stopLamp

\* The lights' listener always takes the newest view, as if the worldview
\* goroutine had replaced the old one in a single step.
LightsAreLatest == Box!KeepsLatest
=============================================================================

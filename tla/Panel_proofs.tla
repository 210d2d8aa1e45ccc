------------------------------ MODULE Panel_proofs ------------------------------
(***************************************************************************)
(* The buttons and lamps, for any buttons, capacities and number of        *)
(* presses: no press is forgotten, and the goroutine that writes the lamps *)
(* always takes the newest view of the orders.                             *)
(***************************************************************************)
EXTENDS Panel, TLAPS

BoxP == INSTANCE Mailbox_proofs WITH Value <- View

-----------------------------------------------------------------------------
(* Types, a group of variables at a time. *)

\* The conjuncts of TypeOK, by the variables of the groups in vars.
ButtonsOK ==
    /\ down      \in SUBSET Button
    /\ prev      \in SUBSET Button
    /\ event     \in SUBSET Button
    /\ listening \in SUBSET Button
    /\ cabBtnCh  \in Seq(CabButton) /\ Len(cabBtnCh) <= ChannelCap
    /\ hallBtnCh \in Seq(HallButton) /\ Len(hallBtnCh) <= ChannelCap

WorldviewOK ==
    /\ started    \in BOOLEAN
    /\ hasNetwork \in BOOLEAN
    /\ order      \in [Button -> {"none", "pending", "lit"}]
    /\ cabEntry   \in BOOLEAN

ChannelOK ==
    /\ latest  \in View
    /\ taken   \in View
    /\ sender  \in {"idle", "full", "drained"}
    /\ channel \in SUBSET View

LampsOK ==
    /\ writing \in SUBSET [view : View, left : SUBSET Button]
    /\ lamp    \in SUBSET Button
    /\ dark    \in SUBSET Button
    /\ report  \in {"later", "sent", "handled"}

StopOK ==
    /\ errorLightCh \in SUBSET BOOLEAN
    /\ {inError, blinking, lampOn, stopLamp, light} \subseteq BOOLEAN

RestOK == wanted \in SUBSET Button /\ budget \in Nat

Groups == ButtonsOK /\ WorldviewOK /\ ChannelOK /\ LampsOK /\ StopOK /\ RestOK

LEMMA TypesByGroup == (TypeOK <=> Groups) /\ (TypeOK' <=> Groups')
  BY DEF Groups, TypeOK, ButtonsOK, WorldviewOK, ChannelOK, LampsOK, StopOK, RestOK

\* A group that a step leaves alone stays well-typed.
LEMMA Untouched ==
  /\ ButtonsOK /\ UNCHANGED buttons => ButtonsOK'
  /\ WorldviewOK /\ UNCHANGED worldview => WorldviewOK'
  /\ ChannelOK /\ UNCHANGED lightsCh => ChannelOK'
  /\ LampsOK /\ UNCHANGED lamps => LampsOK'
  /\ StopOK /\ UNCHANGED stop => StopOK'
  /\ RestOK /\ UNCHANGED <<wanted, budget>> => RestOK'
  BY DEF ButtonsOK, buttons, WorldviewOK, worldview, ChannelOK, lightsCh, LampsOK, lamps, StopOK, stop, RestOK

LEMMA SpendKeeps == budget \in Nat /\ Spend => budget' \in Nat
  BY DEF Spend

LEMMA ViewOf ==
  ASSUME NEW orders, NEW entry \in BOOLEAN
  PROVE  [lit |-> Lit(orders), cabEntry |-> entry] \in View
  BY DEF View, Lit

LEMMA UpdateTypes ==
  ASSUME NEW orders \in [Button -> {"none", "pending", "lit"}], NEW entry \in BOOLEAN,
         WorldviewOK, ChannelOK, Update(orders, entry), UNCHANGED <<started, hasNetwork>>
  PROVE  WorldviewOK' /\ ChannelOK'
<1>1. WorldviewOK'
  BY DEF WorldviewOK, Update
<1>2. ChannelOK'
  BY ViewOf DEF ChannelOK, Update, Box!Send
<1> QED BY <1>1, <1>2

LEMMA OneOrder ==
  ASSUME NEW b \in Button, NEW o \in {"none", "pending", "lit"}, order \in [Button -> {"none", "pending", "lit"}]
  PROVE  [order EXCEPT ![b] = o] \in [Button -> {"none", "pending", "lit"}]
  OBVIOUS

LEMMA PanelTypesInit == Init => TypeOK
<1> SUFFICES ASSUME Init PROVE TypeOK
  OBVIOUS
<1>1. ButtonsOK
  BY PanelBounds DEF Init, ButtonsOK
<1>2. WorldviewOK /\ ChannelOK
  BY DEF Init, WorldviewOK, ChannelOK, View
<1>3. LampsOK /\ StopOK /\ RestOK
  BY PanelBounds DEF Init, LampsOK, StopOK, RestOK
<1> QED BY <1>1, <1>2, <1>3, TypesByGroup DEF Groups

LEMMA ButtonActionsTypes ==
  ASSUME TypeOK, NEW b \in Button, Press(b) \/ ReleaseButton(b) \/ PollButtons(b)
  PROVE  TypeOK'
<1>1. ButtonsOK'
  BY DEF Press, ReleaseButton, PollButtons, TypeOK, ButtonsOK
<1>2. RestOK'
  BY SpendKeeps DEF Press, ReleaseButton, PollButtons, TypeOK, RestOK
<1>3. UNCHANGED <<worldview, lightsCh, lamps, stop>>
  BY DEF Press, ReleaseButton, PollButtons
<1> QED BY <1>1, <1>2, <1>3, TypesByGroup, Untouched DEF Groups

LEMMA ListenerTypes ==
  ASSUME TypeOK, TakeEvent \/ ForwardEvent
  PROVE  TypeOK'
<1>1. CASE TakeEvent
  BY <1>1, TypesByGroup, Untouched DEF Groups, TakeEvent, ButtonsOK
<1>2. CASE ForwardEvent
  <2>1. PICK b \in listening : /\ listening' = {}
                               /\ \/ /\ b \in CabButton
                                     /\ Len(cabBtnCh) < ChannelCap
                                     /\ cabBtnCh' = Append(cabBtnCh, b)
                                     /\ UNCHANGED hallBtnCh
                                  \/ /\ b \in HallButton
                                     /\ Len(hallBtnCh) < ChannelCap
                                     /\ hallBtnCh' = Append(hallBtnCh, b)
                                     /\ UNCHANGED cabBtnCh
    BY <1>2 DEF ForwardEvent
  <2>2. UNCHANGED <<down, prev, event>>
    BY <1>2 DEF ForwardEvent
  <2>3. ChannelCap \in Nat
    BY PanelBounds
  <2>4. ButtonsOK'
    <3>1. ButtonsOK
      BY TypesByGroup DEF Groups
    <3>2. CASE /\ b \in CabButton /\ Len(cabBtnCh) < ChannelCap
               /\ cabBtnCh' = Append(cabBtnCh, b) /\ UNCHANGED hallBtnCh
      <4>1. cabBtnCh' \in Seq(CabButton) /\ Len(cabBtnCh') <= ChannelCap
        BY <2>3, <3>1, <3>2 DEF ButtonsOK
      <4> QED BY <2>1, <2>2, <3>1, <3>2, <4>1 DEF ButtonsOK
    <3>3. CASE /\ b \in HallButton /\ Len(hallBtnCh) < ChannelCap
               /\ hallBtnCh' = Append(hallBtnCh, b) /\ UNCHANGED cabBtnCh
      <4>1. hallBtnCh' \in Seq(HallButton) /\ Len(hallBtnCh') <= ChannelCap
        BY <2>3, <3>1, <3>3 DEF ButtonsOK
      <4> QED BY <2>1, <2>2, <3>1, <3>3, <4>1 DEF ButtonsOK
    <3> QED BY <2>1, <3>2, <3>3
  <2>5. UNCHANGED <<worldview, lightsCh, lamps, stop, wanted, budget>>
    BY <1>2 DEF ForwardEvent
  <2> QED BY <2>4, <2>5, TypesByGroup, Untouched DEF Groups
<1> QED BY <1>1, <1>2

LEMMA WorldviewTypes ==
  ASSUME TypeOK
  PROVE  /\ Start \/ NetworkChanges \/ HandleCabButton \/ HandleHallButton \/ HandleReport => TypeOK'
         /\ \A b \in Button : Confirm(b) \/ Complete(b) => TypeOK'
<1> USE TypesByGroup DEF Groups
<1>0. order \in [Button -> {"none", "pending", "lit"}] /\ cabEntry \in BOOLEAN
  BY DEF TypeOK
<1>1. ASSUME Start \/ NetworkChanges PROVE TypeOK'
  <2>1. WorldviewOK' /\ RestOK'
    BY <1>1, SpendKeeps DEF Start, NetworkChanges, WorldviewOK, RestOK
  <2>2. UNCHANGED <<buttons, lightsCh, lamps, stop>>
    BY <1>1 DEF Start, NetworkChanges
  <2> QED BY <2>1, <2>2, Untouched
<1>2. ASSUME HandleCabButton PROVE TypeOK'
  <2>1. Head(cabBtnCh) \in CabButton /\ cabBtnCh' \in Seq(CabButton) /\ Len(cabBtnCh') <= ChannelCap
    BY <1>2, PanelBounds DEF HandleCabButton, TypeOK
  <2>2. ButtonsOK'
    BY <1>2, <2>1 DEF HandleCabButton, ButtonsOK
  <2>3. [order EXCEPT ![Head(cabBtnCh)] = "lit"] \in [Button -> {"none", "pending", "lit"}]
    BY <1>0, <2>1, OneOrder DEF Button
  <2>4. WorldviewOK' /\ ChannelOK'
    BY <1>2, <2>3, UpdateTypes DEF HandleCabButton
  <2>5. UNCHANGED <<lamps, stop, wanted, budget>>
    BY <1>2 DEF HandleCabButton
  <2> QED BY <2>2, <2>4, <2>5, Untouched
<1>3. ASSUME HandleHallButton PROVE TypeOK'
  <2> DEFINE b == Head(hallBtnCh)
             O == [order EXCEPT ![b] = IF @ = "none" THEN "pending" ELSE @]
  <2>1. b \in HallButton /\ hallBtnCh' \in Seq(HallButton) /\ Len(hallBtnCh') <= ChannelCap
    BY <1>3, PanelBounds DEF HandleHallButton, TypeOK
  <2>2. ButtonsOK'
    BY <1>3, <2>1 DEF HandleHallButton, ButtonsOK
  <2>3. O \in [Button -> {"none", "pending", "lit"}]
    BY <1>0, <2>1 DEF Button
  <2>4. CASE hasNetwork
    <3>1. Update(O, cabEntry) /\ UNCHANGED <<started, hasNetwork, lamps, stop, wanted, budget>>
      BY <1>3, <2>4 DEF HandleHallButton
    <3> HIDE DEF O
    <3>2. WorldviewOK' /\ ChannelOK'
      BY <3>1, <1>0, <2>3, UpdateTypes
    <3> QED BY <2>2, <3>1, <3>2, Untouched
  <2>5. CASE ~hasNetwork
    <3>1. wanted' = wanted \ {b} /\ UNCHANGED <<worldview, lightsCh, lamps, stop, budget>>
      BY <1>3, <2>5 DEF HandleHallButton, worldview
    <3>2. RestOK'
      BY <3>1 DEF RestOK
    <3> QED BY <2>2, <3>1, <3>2, Untouched
  <2> QED BY <2>4, <2>5
<1>4. ASSUME HandleReport PROVE TypeOK'
  <2>1. WorldviewOK' /\ ChannelOK'
    BY <1>4, <1>0, UpdateTypes DEF HandleReport
  <2>2. LampsOK'
    BY <1>4 DEF HandleReport, LampsOK
  <2>3. UNCHANGED <<buttons, stop, wanted, budget>>
    BY <1>4 DEF HandleReport
  <2> QED BY <2>1, <2>2, <2>3, Untouched
<1>5. ASSUME NEW b \in Button, Confirm(b) \/ Complete(b) PROVE TypeOK'
  <2>1. PICK o \in {"none", "lit"} : Update([order EXCEPT ![b] = o], cabEntry)
    BY <1>5 DEF Confirm, Complete
  <2>2. UNCHANGED <<buttons, started, hasNetwork, lamps, stop, budget>> /\ wanted' \subseteq wanted
    BY <1>5 DEF Confirm, Complete
  <2>3. WorldviewOK' /\ ChannelOK'
    BY <1>0, <2>1, <2>2, OneOrder, UpdateTypes
  <2>4. RestOK'
    BY <2>2 DEF RestOK
  <2> QED BY <2>2, <2>3, <2>4, Untouched
<1> QED BY <1>1, <1>2, <1>3, <1>4, <1>5

LEMMA LampTypes ==
  ASSUME TypeOK
  PROVE  /\ SendLights \/ TakeLights \/ InitElevator => TypeOK'
         /\ \A b \in Button : WriteLamp(b) \/ TurnOff(b) => TypeOK'
<1> USE TypesByGroup DEF Groups
<1>1. ASSUME SendLights PROVE TypeOK'
  <2>1. ChannelOK'
    BY <1>1 DEF SendLights, Box!Drain, Box!SendAgain, ChannelOK
  <2> QED BY <1>1, <2>1, Untouched DEF SendLights
<1>2. ASSUME TakeLights PROVE TypeOK'
  <2>1. ChannelOK'
    BY <1>2 DEF TakeLights, Box!Receive, ChannelOK
  <2>2. LampsOK'
    BY <1>2, <2>1 DEF TakeLights, LampsOK, ChannelOK, Button
  <2> QED BY <1>2, <2>1, <2>2, Untouched DEF TakeLights
<1>3. ASSUME InitElevator PROVE TypeOK'
  BY <1>3, Untouched DEF InitElevator, LampsOK
<1>4. ASSUME NEW b \in Button, WriteLamp(b) PROVE TypeOK'
  <2>1. PICK w \in writing : /\ lamp' \subseteq lamp \cup {b}
                             /\ writing' \subseteq {[w EXCEPT !.left = @ \ {b}]}
    BY <1>4 DEF WriteLamp, SetLamp
  <2>2. [w EXCEPT !.left = @ \ {b}] \in [view : View, left : SUBSET Button]
    BY DEF LampsOK
  <2>3. LampsOK'
    BY <1>4, <2>1, <2>2 DEF LampsOK, WriteLamp
  <2> QED BY <1>4, <2>3, Untouched DEF WriteLamp
<1>5. ASSUME NEW b \in Button, TurnOff(b) PROVE TypeOK'
  <2>1. LampsOK'
    BY <1>5 DEF TurnOff, SetLamp, LampsOK
  <2> QED BY <1>5, <2>1, Untouched DEF TurnOff
<1> QED BY <1>1, <1>2, <1>3, <1>4, <1>5

LEMMA StopTypes ==
  ASSUME TypeOK, ErrorTimeout \/ Recover \/ StillFine \/ ErrorLight \/ Blink \/ PollStopButton
  PROVE  TypeOK'
<1>1. StopOK'
  BY TypesByGroup DEF Groups, ErrorTimeout, Recover, StillFine, SendError, ErrorLight, Blink, PollStopButton, StopOK
<1>2. UNCHANGED <<buttons, worldview, lightsCh, lamps, wanted>>
  BY DEF ErrorTimeout, Recover, StillFine, SendError, ErrorLight, Blink, PollStopButton
<1>3. RestOK'
  BY <1>2, TypesByGroup, SpendKeeps
     DEF Groups, ErrorTimeout, Recover, StillFine, ErrorLight, Blink, PollStopButton, RestOK
<1> QED BY <1>1, <1>2, <1>3, TypesByGroup, Untouched DEF Groups

LEMMA PanelTypesNext == TypeOK /\ [Next]_vars => TypeOK'
<1> SUFFICES ASSUME TypeOK, [Next]_vars PROVE TypeOK'
  OBVIOUS
<1>1. CASE UNCHANGED vars
  BY <1>1, TypesByGroup, Untouched DEF Groups, vars
<1>2. CASE Next
  BY <1>2, ButtonActionsTypes, ListenerTypes, WorldviewTypes, LampTypes, StopTypes DEF Next
<1> QED BY <1>1, <1>2

\* The channels of the buttons stay within their capacity, a view shows buttons of
\* the panel only and every variable keeps its type, for every set of buttons.
THEOREM PanelTypes == Spec => []TypeOK
  BY PanelTypesInit, PanelTypesNext, PTL DEF Spec

-----------------------------------------------------------------------------
(* lightsCh is a Mailbox. *)

\* What a step does to the channel.
BoxStep == (\E v \in View : Box!Send(v)) \/ Box!Drain \/ Box!SendAgain \/ Box!Receive \/ UNCHANGED lightsCh

LEMMA UpdateIsSend ==
  ASSUME NEW orders, NEW entry \in BOOLEAN, Update(orders, entry)
  PROVE  BoxStep
  BY ViewOf DEF Update, BoxStep

LEMMA NextIsBoxStep == cabEntry \in BOOLEAN /\ [Next]_vars => BoxStep
<1> SUFFICES ASSUME cabEntry \in BOOLEAN, [Next]_vars PROVE BoxStep
  OBVIOUS
<1>1. ASSUME NEW b \in Button, \/ Press(b) \/ ReleaseButton(b) \/ PollButtons(b)
                               \/ WriteLamp(b) \/ TurnOff(b)
      PROVE  UNCHANGED lightsCh
  BY <1>1 DEF Press, ReleaseButton, PollButtons, WriteLamp, TurnOff
<1>2. ASSUME NEW b \in Button, Confirm(b) \/ Complete(b) PROVE BoxStep
  BY <1>2, UpdateIsSend DEF Confirm, Complete
<1>3. ASSUME TakeEvent \/ ForwardEvent \/ Start \/ NetworkChanges \/ InitElevator PROVE UNCHANGED lightsCh
  BY <1>3 DEF TakeEvent, ForwardEvent, Start, NetworkChanges, InitElevator
<1>4. ASSUME ErrorTimeout \/ Recover \/ StillFine \/ ErrorLight \/ Blink \/ PollStopButton
      PROVE  UNCHANGED lightsCh
  BY <1>4 DEF ErrorTimeout, Recover, StillFine, SendError, ErrorLight, Blink, PollStopButton
<1>5. ASSUME HandleCabButton \/ HandleHallButton \/ HandleReport PROVE BoxStep
  BY <1>5, UpdateIsSend DEF HandleCabButton, HandleHallButton, HandleReport, BoxStep
<1>6. CASE SendLights \/ TakeLights
  BY <1>6 DEF SendLights, TakeLights, BoxStep
<1>7. CASE UNCHANGED vars
  BY <1>7 DEF vars, BoxStep
<1> QED BY <1>1, <1>2, <1>3, <1>4, <1>5, <1>6, <1>7 DEF Next, BoxStep

LEMMA BoxStepIsMailbox == BoxStep => [BoxP!Next]_(BoxP!boxVars)
  BY DEF BoxStep, lightsCh, BoxP!Next, BoxP!boxVars, BoxP!Send, BoxP!Drain, BoxP!SendAgain, BoxP!Receive,
     Box!Send, Box!Drain, Box!SendAgain, Box!Receive

LEMMA PanelInitBox == Init => BoxP!Init /\ cabEntry \in BOOLEAN
  BY DEF Init, BoxP!Init, View

\* The goroutine that writes the lamps takes the newest view of the orders, though
\* the worldview goroutine replaces a view it has not taken in up to three steps.
THEOREM LightsTakeNewest == Spec => LightsAreLatest
<1>1. TypeOK => cabEntry \in BOOLEAN
  BY DEF TypeOK
<1>2. Spec => BoxP!Spec
  BY <1>1, PanelTypes, PanelInitBox, NextIsBoxStep, BoxStepIsMailbox, PTL DEF Spec, BoxP!Spec
<1>3. BoxP!Spec => BoxP!KeepsLatest
  BY BoxP!MailboxIsRegister
<1>4. BoxP!KeepsLatest => Box!KeepsLatest
  BY DEF BoxP!KeepsLatest, Box!KeepsLatest, BoxP!Register!Spec, Box!Register!Spec,
     BoxP!Register!Init, Box!Register!Init, BoxP!Register!Next, Box!Register!Next,
     BoxP!Register!Put, Box!Register!Put, BoxP!Register!Take, Box!Register!Take
<1> QED BY <1>2, <1>3, <1>4 DEF LightsAreLatest

-----------------------------------------------------------------------------
(* No press is forgotten. *)

\* What a channel of buttons holds.
Queued(s) == {s[i] : i \in DOMAIN s}

LEMMA WaitingIs == /\ Waiting  = event \cup listening \cup Queued(cabBtnCh) \cup Queued(hallBtnCh)
                   /\ Waiting' = event' \cup listening' \cup Queued(cabBtnCh') \cup Queued(hallBtnCh')
  BY DEF Waiting, Queued

LEMMA AppendQueues ==
  ASSUME NEW S, NEW s \in Seq(S), NEW b
  PROVE  Queued(Append(s, b)) = Queued(s) \cup {b}
<1> DEFINE t == Append(s, b)
<1>1. Len(s) \in Nat /\ DOMAIN s = 1..Len(s) /\ Len(t) = Len(s) + 1 /\ DOMAIN t = 1..Len(t)
  OBVIOUS
<1>2. (\A i \in 1..Len(s) : t[i] = s[i]) /\ t[Len(s) + 1] = b
  OBVIOUS
<1> HIDE DEF t
<1>3. DOMAIN t = DOMAIN s \cup {Len(s) + 1}
  BY <1>1
<1>4. Queued(t) = Queued(s) \cup {b}
  BY <1>1, <1>2, <1>3 DEF Queued
<1> QED BY <1>4 DEF t

LEMMA HeadAndTail ==
  ASSUME NEW S, NEW s \in Seq(S), s # <<>>
  PROVE  Queued(s) = {Head(s)} \cup Queued(Tail(s))
<1> DEFINE t == Tail(s)
<1>1. Len(s) \in Nat \ {0} /\ DOMAIN s = 1..Len(s) /\ Len(t) = Len(s) - 1 /\ DOMAIN t = 1..Len(t)
  OBVIOUS
<1>2. (\A i \in 1..Len(t) : t[i] = s[i + 1]) /\ Head(s) = s[1]
  OBVIOUS
<1> HIDE DEF t
<1>3. ASSUME NEW b \in Queued(s) PROVE b \in {Head(s)} \cup Queued(t)
  <2>1. PICK i \in 1..Len(s) : b = s[i]
    BY <1>1, <1>3 DEF Queued
  <2>2. CASE i = 1
    BY <1>2, <2>1, <2>2
  <2>3. CASE i # 1
    <3>1. i - 1 \in 1..Len(t) /\ (i - 1) + 1 = i
      BY <1>1, <2>1, <2>3
    <3>2. t[i - 1] = b
      BY <1>2, <2>1, <3>1
    <3> QED BY <1>1, <3>1, <3>2 DEF Queued
  <2> QED BY <2>2, <2>3
<1>4. ASSUME NEW b \in {Head(s)} \cup Queued(t) PROVE b \in Queued(s)
  <2>1. CASE b = Head(s)
    BY <1>1, <1>2, <2>1 DEF Queued
  <2>2. CASE b \in Queued(t)
    <3>1. PICK i \in 1..Len(t) : b = t[i]
      BY <1>1, <2>2 DEF Queued
    <3>2. i + 1 \in 1..Len(s) /\ b = s[i + 1]
      BY <1>1, <1>2, <3>1
    <3> QED BY <1>1, <3>2 DEF Queued
  <2> QED BY <1>4, <2>1, <2>2
<1> QED BY <1>3, <1>4 DEF t

\* The poller and the listener hold one event at a time.  A listener that held two
\* would drop one when it forwards the other.
One(s)   == \A b, c \in s : b = c
Kept     == NoPressForgotten /\ One(event) /\ One(listening)

LEMMA KeptInit == Init => Kept
  BY DEF Init, Kept, NoPressForgotten, One

LEMMA PollKeeps == ASSUME TypeOK, Kept, NEW b \in Button, PollButtons(b) PROVE Kept'
<1>1. event' \subseteq {b} /\ event = {} /\ wanted' \subseteq wanted \cup event'
  BY DEF PollButtons
<1>2. UNCHANGED <<listening, cabBtnCh, hallBtnCh, order>>
  BY DEF PollButtons, worldview
<1>3. Waiting \subseteq Waiting' /\ event' \subseteq Waiting'
  BY <1>1, <1>2, WaitingIs
<1>4. NoPressForgotten'
  BY <1>1, <1>2, <1>3 DEF Kept, NoPressForgotten
<1> QED BY <1>1, <1>2, <1>4 DEF Kept, One

LEMMA TakeKeeps == ASSUME TypeOK, Kept, TakeEvent PROVE Kept'
<1>1. listening = {} /\ listening' = event /\ event' = {} /\ UNCHANGED <<cabBtnCh, hallBtnCh, order, wanted>>
  BY DEF TakeEvent, worldview
<1>2. Waiting = Waiting'
  BY <1>1, WaitingIs
<1> QED BY <1>1, <1>2 DEF Kept, NoPressForgotten, One

LEMMA ForwardKeeps == ASSUME TypeOK, Kept, ForwardEvent PROVE Kept'
<1>1. PICK b \in listening : \/ cabBtnCh' = Append(cabBtnCh, b) /\ UNCHANGED hallBtnCh
                             \/ hallBtnCh' = Append(hallBtnCh, b) /\ UNCHANGED cabBtnCh
  BY DEF ForwardEvent
<1>2. listening' = {} /\ UNCHANGED <<event, order, wanted>>
  BY DEF ForwardEvent, worldview
<1>3. listening = {b}
  BY <1>1 DEF Kept, One
<1>4. cabBtnCh \in Seq(CabButton) /\ hallBtnCh \in Seq(HallButton)
  BY DEF TypeOK
<1>5. Waiting' = Waiting
  <2>1. CASE cabBtnCh' = Append(cabBtnCh, b) /\ UNCHANGED hallBtnCh
    <3>1. Queued(cabBtnCh') = Queued(cabBtnCh) \cup {b} /\ Queued(hallBtnCh') = Queued(hallBtnCh)
      BY <1>4, <2>1, AppendQueues
    <3> QED BY <1>2, <1>3, <3>1, WaitingIs
  <2>2. CASE hallBtnCh' = Append(hallBtnCh, b) /\ UNCHANGED cabBtnCh
    <3>1. Queued(hallBtnCh') = Queued(hallBtnCh) \cup {b} /\ Queued(cabBtnCh') = Queued(cabBtnCh)
      BY <1>4, <2>2, AppendQueues
    <3> QED BY <1>2, <1>3, <3>1, WaitingIs
  <2> QED BY <1>1, <2>1, <2>2
<1> QED BY <1>2, <1>5 DEF Kept, NoPressForgotten, One

LEMMA CabButtonKeeps == ASSUME TypeOK, Kept, HandleCabButton PROVE Kept'
<1> DEFINE b == Head(cabBtnCh)
<1>1. cabBtnCh \in Seq(CabButton) /\ cabBtnCh # <<>> /\ cabBtnCh' = Tail(cabBtnCh)
  BY DEF TypeOK, HandleCabButton
<1>2. UNCHANGED <<event, listening, hallBtnCh, wanted>> /\ order' = [order EXCEPT ![b] = "lit"]
  BY DEF HandleCabButton, Update
<1>3. Waiting \subseteq Waiting' \cup {b}
  BY <1>1, <1>2, HeadAndTail, WaitingIs
<1>4. order \in [Button -> {"none", "pending", "lit"}] /\ wanted \subseteq Button
  BY DEF TypeOK
<1> HIDE DEF b
<1>5. \A c \in wanted : order'[c] = IF c = b THEN "lit" ELSE order[c]
  BY <1>2, <1>4
<1>6. NoPressForgotten'
  BY <1>2, <1>3, <1>5 DEF Kept, NoPressForgotten
<1> QED BY <1>2, <1>6 DEF Kept, One

LEMMA HallButtonKeeps == ASSUME TypeOK, Kept, HandleHallButton PROVE Kept'
<1> DEFINE b == Head(hallBtnCh)
<1>1. hallBtnCh \in Seq(HallButton) /\ hallBtnCh # <<>> /\ hallBtnCh' = Tail(hallBtnCh)
  BY DEF TypeOK, HandleHallButton
<1>2. UNCHANGED <<event, listening, cabBtnCh>>
  BY DEF HandleHallButton
<1>3. Waiting \subseteq Waiting' \cup {b}
  BY <1>1, <1>2, HeadAndTail, WaitingIs
<1>4. order \in [Button -> {"none", "pending", "lit"}] /\ wanted \subseteq Button
  BY DEF TypeOK
<1>5. NoPressForgotten'
  <2>1. CASE hasNetwork
    <3>1. UNCHANGED wanted /\ order' = [order EXCEPT ![b] = IF @ = "none" THEN "pending" ELSE @]
      BY <2>1 DEF HandleHallButton, Update
    <3> HIDE DEF b
    <3>2. \A c \in wanted : order'[c] = order[c] \/ (c = b /\ order'[c] # "none")
      BY <1>4, <3>1
    <3>3. \A c \in wanted : c = b => order'[c] # "none"
      BY <1>4, <3>1
    <3> QED BY <1>3, <3>1, <3>2, <3>3 DEF Kept, NoPressForgotten
  <2>2. CASE ~hasNetwork
    <3>1. wanted' = wanted \ {b} /\ UNCHANGED order
      BY <2>2 DEF HandleHallButton
    <3> HIDE DEF b
    <3> QED BY <1>3, <3>1 DEF Kept, NoPressForgotten
  <2> QED BY <2>1, <2>2
<1> QED BY <1>2, <1>5 DEF Kept, One

LEMMA OrderEndsKeeps == ASSUME TypeOK, Kept, NEW b \in Button, Confirm(b) \/ Complete(b) PROVE Kept'
<1>1. UNCHANGED <<event, listening, cabBtnCh, hallBtnCh>>
  BY DEF Confirm, Complete, buttons
<1>2. Waiting' = Waiting
  BY <1>1, WaitingIs
<1>3. order \in [Button -> {"none", "pending", "lit"}] /\ wanted \subseteq Button
  BY DEF TypeOK
<1>4. CASE Confirm(b)
  <2>1. order' = [order EXCEPT ![b] = "lit"] /\ UNCHANGED wanted
    BY <1>4 DEF Confirm, Update
  <2>2. \A c \in wanted : order'[c] = order[c] \/ order'[c] = "lit"
    BY <1>3, <2>1
  <2> QED BY <1>1, <1>2, <2>1, <2>2 DEF Kept, NoPressForgotten, One
<1>5. CASE Complete(b)
  <2>1. order' = [order EXCEPT ![b] = "none"] /\ wanted' = wanted \ {b}
    BY <1>5 DEF Complete, Update
  <2>2. \A c \in wanted' : order'[c] = order[c] /\ c \in wanted
    BY <1>3, <2>1
  <2> QED BY <1>1, <1>2, <2>2 DEF Kept, NoPressForgotten, One
<1> QED BY <1>4, <1>5

LEMMA KeptUnchanged ==
  ASSUME Kept, UNCHANGED <<event, listening, cabBtnCh, hallBtnCh, order, wanted>>
  PROVE  Kept'
  BY WaitingIs DEF Kept, NoPressForgotten, One

LEMMA KeptNext == TypeOK /\ Kept /\ [Next]_vars => Kept'
<1> SUFFICES ASSUME TypeOK, Kept, [Next]_vars PROVE Kept'
  OBVIOUS
<1>1. ASSUME NEW b \in Button, Press(b) \/ ReleaseButton(b) \/ WriteLamp(b) \/ TurnOff(b) PROVE Kept'
  BY <1>1, KeptUnchanged DEF Press, ReleaseButton, WriteLamp, TurnOff, buttons, worldview
<1>2. CASE Start \/ NetworkChanges \/ InitElevator \/ SendLights \/ TakeLights
  BY <1>2, KeptUnchanged DEF Start, NetworkChanges, InitElevator, SendLights, TakeLights, buttons, worldview
<1>3. CASE ErrorTimeout \/ Recover \/ StillFine \/ ErrorLight \/ Blink \/ PollStopButton
  BY <1>3, KeptUnchanged
     DEF ErrorTimeout, Recover, StillFine, SendError, ErrorLight, Blink, PollStopButton, buttons, worldview
<1>4. CASE HandleReport
  BY <1>4, KeptUnchanged DEF HandleReport, Update, buttons
<1>5. CASE UNCHANGED vars
  BY <1>5, KeptUnchanged DEF vars, buttons, worldview
<1> QED BY <1>1, <1>2, <1>3, <1>4, <1>5, PollKeeps, TakeKeeps, ForwardKeeps, CabButtonKeeps,
           HallButtonKeeps, OrderEndsKeeps DEF Next

\* A press that was polled waits somewhere between the poller and the worldview
\* goroutine, or has an order, until that order is completed or the press is refused
\* for want of a network - though the channels fill up while that goroutine waits at
\* the start, and each of the four hands on one event at a time.
THEOREM PressesNotForgotten == Spec => []NoPressForgotten
<1>1. Kept => NoPressForgotten
  BY DEF Kept
<1> QED BY <1>1, PanelTypes, KeptInit, KeptNext, PTL DEF Spec
=============================================================================

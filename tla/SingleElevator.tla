--------------------------- MODULE SingleElevator ---------------------------
(***************************************************************************)
(* src/Heis_go, the first version of the elevator: one loop that polls the *)
(* stop button, the obstruction switch, the order buttons, the floor       *)
(* sensor and the timer, in that order, every 25 ms.  The car goes on      *)
(* between two polls; the passengers are what a poll finds: a switch that  *)
(* changed since the poll before, a button that was pressed since.         *)
(*                                                                         *)
(* setAllLights follows every change of the requests: the lamps of the     *)
(* order buttons are the requests.                                         *)
(***************************************************************************)
EXTENDS Integers

CONSTANTS
    N_FLOORS,
    MaxPress, MaxStop, MaxObstruct   \* bounds: how often each switch is set

ASSUME LoopConstants ==
    /\ N_FLOORS \in Nat \ {0, 1}
    /\ {MaxPress, MaxStop, MaxObstruct} \subseteq Nat

Floor     == 0 .. N_FLOORS - 1
Between   == -1
D_Down    == -1
D_Stop    == 0
D_Up      == 1
Direction == {D_Down, D_Stop, D_Up}
Behaviour == {"Idle", "DoorOpen", "Moving"}
Button    == {"HallUp", "HallDown", "Cab"}
Request   == Floor \X Button
Phase     == {"stop", "obstruction", "buttons", "floor", "timer"}

VARIABLES
    position,          \* of the car: 2 * f at floor f, odd between two floors
    motor, doorLight,
    prevStop, prevObstruction, prevFloor,   \* what the last poll found
    e,                 \* the Elevator
    timer,             \* "off", "running" or "over"
    phase,             \* the poll that is next; "panic" when the program is gone
    budget

previous == <<prevStop, prevObstruction, prevFloor>>
vars     == <<position, motor, doorLight, previous, e, timer, phase, budget>>

elevator_floorSensor == IF position % 2 = 0 THEN position \div 2 ELSE Between

\* The elevator starts anywhere in the shaft; between floors it is driven down.
Init ==
    /\ position \in 0 .. 2 * (N_FLOORS - 1)
    /\ LET between == elevator_floorSensor = Between
       IN  /\ motor = IF between THEN D_Down ELSE D_Stop
           /\ e = [floor |-> Between, dirn |-> motor, requests |-> {},
                   behaviour |-> IF between THEN "Moving" ELSE "Idle"]
    /\ doorLight = FALSE
    /\ prevStop = FALSE /\ prevObstruction = FALSE /\ prevFloor = Between
    /\ timer  = "off"
    /\ phase  = "stop"
    /\ budget = [press |-> MaxPress, stop |-> MaxStop, obstruct |-> MaxObstruct]

-----------------------------------------------------------------------------
(* requests.go *)

Beyond(s, d)      == \E r \in s.requests : (r[1] - s.floor) * d > 0
requests_above(s) == Beyond(s, D_Up)
requests_below(s) == Beyond(s, D_Down)
Here(s, b)        == <<s.floor, b>> \in s.requests
requests_here(s)  == \E b \in Button : Here(s, b)

Pair(d, b) == [dirn |-> d, behaviour |-> b]

\* Mutant: somebody here who goes the other way is overlooked.
chooseElsewhere(s) ==
    CASE Beyond(s, s.dirn)  -> Pair(s.dirn, "Moving")
      [] s.dirn # D_Stop /\ ~Beyond(s, s.dirn) ->
            IF Beyond(s, -s.dirn) THEN Pair(-s.dirn, "Moving") ELSE Pair(D_Stop, "Idle")
      [] s.dirn = D_Stop ->
            IF requests_here(s) THEN Pair(D_Stop, "DoorOpen")
            ELSE IF requests_above(s) THEN Pair(D_Up, "Moving")
            ELSE IF requests_below(s) THEN Pair(D_Down, "Moving") ELSE Pair(D_Stop, "Idle")

requests_chooseDirection(s) ==
    CASE s.dirn # D_Stop /\ Beyond(s, s.dirn)  -> Pair(s.dirn, "Moving")
      [] s.dirn # D_Stop /\ ~Beyond(s, s.dirn) ->
            IF requests_here(s) THEN Pair(-s.dirn, "DoorOpen")
            ELSE IF Beyond(s, -s.dirn) THEN Pair(-s.dirn, "Moving") ELSE Pair(D_Stop, "Idle")
      [] s.dirn = D_Stop ->
            IF requests_here(s) THEN Pair(D_Stop, "DoorOpen")
            ELSE IF requests_above(s) THEN Pair(D_Up, "Moving")
            ELSE IF requests_below(s) THEN Pair(D_Down, "Moving") ELSE Pair(D_Stop, "Idle")

Along(d) == IF d = D_Up THEN "HallUp" ELSE "HallDown"

\* Mutant: the car only stops where somebody wants it.
stopWhereAsked(s) == Here(s, Along(s.dirn)) \/ Here(s, "Cab")

requests_shouldStop(s) ==
    s.dirn # D_Stop => Here(s, Along(s.dirn)) \/ Here(s, "Cab") \/ ~Beyond(s, s.dirn)

requests_shouldClearImmediately(s, r) ==
    r[1] = s.floor /\ (s.dirn = D_Stop \/ r[2] \in {"Cab", Along(s.dirn)})

requests_clearAtCurrentFloor(s) ==
    LET turns == ~Beyond(s, s.dirn) /\ ~Here(s, Along(s.dirn))
        served == IF s.dirn = D_Stop \/ turns THEN Button ELSE {"Cab", Along(s.dirn)}
    IN  [s EXCEPT !.requests = @ \ ({s.floor} \X served)]

-----------------------------------------------------------------------------
(* fsm.go *)

FsmOnInitBetweenFloors ==
    /\ motor' = D_Down
    /\ e' = [e EXCEPT !.dirn = D_Down, !.behaviour = "Moving"]
    /\ UNCHANGED <<doorLight, timer>>

\* An Idle elevator that has not seen a floor yet looks at requests[-1].
Panics == e.behaviour = "Idle" /\ e.floor = Between

FsmOnRequestButtonPress(r) ==
    LET asked == [e EXCEPT !.requests = @ \cup {r}]
        pair  == requests_chooseDirection(asked)
        next  == [asked EXCEPT !.dirn = pair.dirn, !.behaviour = pair.behaviour]
        opens == next.behaviour = "DoorOpen"
    IN  \/ /\ e.behaviour = "DoorOpen"
           /\ requests_shouldClearImmediately(e, r)
           /\ timer' = "running"
           /\ UNCHANGED <<e, motor, doorLight>>
        \/ /\ e.behaviour = "Moving" \/ (e.behaviour = "DoorOpen" /\ ~requests_shouldClearImmediately(e, r))
           /\ e' = asked
           /\ UNCHANGED <<motor, doorLight, timer>>
        \/ /\ e.behaviour = "Idle"
           /\ e' = IF opens THEN requests_clearAtCurrentFloor(next) ELSE next
           /\ motor' = IF next.behaviour = "Moving" THEN next.dirn ELSE motor
           /\ doorLight' = (doorLight \/ opens)
           /\ timer' = IF opens THEN "running" ELSE timer

FsmOnFloorArrival(newFloor) ==
    LET s == [e EXCEPT !.floor = newFloor]
    IN  IF e.behaviour = "Moving" /\ requests_shouldStop(s)
        THEN /\ motor' = D_Stop
             /\ doorLight' = TRUE
             /\ timer' = "running"
             /\ e' = [requests_clearAtCurrentFloor(s) EXCEPT !.behaviour = "DoorOpen"]
        ELSE e' = s /\ UNCHANGED <<motor, doorLight, timer>>

\* main has stopped the timer.
FsmOnDoorTimeout ==
    LET pair == requests_chooseDirection(e)
        next == [e EXCEPT !.dirn = pair.dirn, !.behaviour = pair.behaviour]
    IN  IF e.behaviour # "DoorOpen" THEN timer' = "off" /\ UNCHANGED <<e, motor, doorLight>>
        ELSE IF next.behaviour = "DoorOpen"
        THEN /\ timer' = "running"
             /\ e' = requests_clearAtCurrentFloor(next)
             /\ UNCHANGED <<motor, doorLight>>
        ELSE /\ timer' = "off"
             /\ e' = next
             /\ doorLight' = FALSE
             /\ motor' = next.dirn

-----------------------------------------------------------------------------
(* main.go: the loop. *)

Spend(switch) == budget[switch] > 0 /\ budget' = [budget EXCEPT ![switch] = @ - 1]

\* While the button is held nothing else is polled.
StopPressed ==
    /\ phase = "stop" /\ ~prevStop
    /\ Spend("stop")
    /\ prevStop' = TRUE
    /\ motor' = D_Stop
    /\ e' = [e EXCEPT !.dirn = D_Stop, !.requests = {}]
    /\ timer' = "off"
    /\ UNCHANGED <<position, doorLight, prevObstruction, prevFloor, phase>>

\* Mutant: the door that is opened is not closed again.
openForGood ==
    /\ e' = [e EXCEPT !.behaviour = "DoorOpen"]
    /\ doorLight' = TRUE
    /\ UNCHANGED <<motor, timer>>

\* The door is opened wherever the car is, if it has ever been at a floor.
openAnywhere ==
    /\ e' = [e EXCEPT !.behaviour = "DoorOpen"]
    /\ doorLight' = TRUE
    /\ timer' = "running"
    /\ UNCHANGED motor

StopReleased ==
    /\ phase = "stop" /\ prevStop
    /\ prevStop' = FALSE
    /\ phase' = "obstruction"
    /\ IF e.floor # Between THEN openAnywhere ELSE FsmOnInitBetweenFloors
    /\ UNCHANGED <<position, prevObstruction, prevFloor, budget>>

StopNotPressed ==
    /\ phase = "stop" /\ ~prevStop
    /\ phase' = "obstruction"
    /\ UNCHANGED <<position, motor, doorLight, previous, e, timer, budget>>

\* Mutant: it is not asked whether the elevator was moving.
motorAnyway(obstruction) == IF obstruction THEN D_Stop ELSE e.dirn

\* A changed obstruction switch stops the motor or lets it go on.
motorAfter(obstruction) ==
    IF obstruction THEN D_Stop ELSE IF e.behaviour = "Moving" THEN e.dirn ELSE motor

PollObstruction(obstruction) ==
    /\ phase = "obstruction"
    /\ phase' = "buttons"
    /\ prevObstruction' = obstruction
    /\ motor' = IF obstruction = prevObstruction THEN motor ELSE motorAfter(obstruction)
    /\ IF obstruction /\ ~prevObstruction THEN Spend("obstruct") ELSE UNCHANGED budget
    /\ UNCHANGED <<position, doorLight, prevStop, prevFloor, e, timer>>

\* Buttons pressed since the last poll are handled one by one.
PollButton(r) ==
    /\ phase = "buttons"
    /\ Spend("press")
    /\ IF Panics
       THEN phase' = "panic" /\ UNCHANGED <<e, motor, doorLight, timer>>
       ELSE FsmOnRequestButtonPress(r) /\ UNCHANGED phase
    /\ UNCHANGED <<position, previous>>

ButtonsPolled ==
    /\ phase = "buttons"
    /\ phase' = "floor"
    /\ UNCHANGED <<position, motor, doorLight, previous, e, timer, budget>>

PollFloor ==
    /\ phase = "floor"
    /\ phase' = "timer"
    /\ prevFloor' = elevator_floorSensor
    /\ IF elevator_floorSensor \notin {Between, prevFloor}
       THEN FsmOnFloorArrival(elevator_floorSensor)
       ELSE UNCHANGED <<e, motor, doorLight, timer>>
    /\ UNCHANGED <<position, prevStop, prevObstruction, budget>>

\* Mutant: the door closes on the obstruction.
PollTimerAnyway ==
    /\ phase = "timer"
    /\ phase' = "stop"
    /\ IF timer # "over" THEN UNCHANGED <<e, motor, doorLight, timer>> ELSE FsmOnDoorTimeout
    /\ UNCHANGED <<position, previous, budget>>

PollTimer ==
    /\ phase = "timer"
    /\ phase' = "stop"
    /\ IF timer # "over" THEN UNCHANGED <<e, motor, doorLight, timer>>
       ELSE IF prevObstruction THEN timer' = "running" /\ UNCHANGED <<e, motor, doorLight>>
       ELSE FsmOnDoorTimeout
    /\ UNCHANGED <<position, previous, budget>>

\* The duration of the timer is over.
TimerTimedOut ==
    /\ timer = "running"
    /\ timer' = "over"
    /\ UNCHANGED <<position, motor, doorLight, previous, e, phase, budget>>

\* The car takes longer than a round of the loop to pass a floor's sensor.
CarMoves ==
    /\ motor # D_Stop
    /\ prevFloor = elevator_floorSensor
    /\ position' = position + motor
    /\ UNCHANGED <<motor, doorLight, previous, e, timer, phase, budget>>

Loop ==
    \/ StopPressed
    \/ StopReleased
    \/ StopNotPressed
    \/ \E obstruction \in BOOLEAN : PollObstruction(obstruction)
    \/ \E r \in Request : PollButton(r)
    \/ ButtonsPolled
    \/ PollFloor
    \/ PollTimer

Next == Loop \/ TimerTimedOut \/ CarMoves

\* The loop runs on, and nobody holds the stop button or blocks the door for ever.
LiveSpec ==
    /\ Init /\ [][Next]_vars
    /\ WF_vars(Loop) /\ WF_vars(TimerTimedOut) /\ WF_vars(CarMoves)
    /\ WF_vars(StopReleased) /\ SF_vars(PollObstruction(FALSE))

-----------------------------------------------------------------------------
\* The type invariant; the car never leaves the shaft.
TypeOK ==
    /\ position \in 0 .. 2 * (N_FLOORS - 1)
    /\ motor \in Direction /\ doorLight \in BOOLEAN
    /\ {prevStop, prevObstruction} \subseteq BOOLEAN
    /\ prevFloor \in Floor \cup {Between}
    /\ e \in [floor : Floor \cup {Between}, dirn : Direction, behaviour : Behaviour, requests : SUBSET Request]
    /\ timer \in {"off", "running", "over"}
    /\ phase \in Phase \cup {"panic"}
    /\ budget \in [{"press", "stop", "obstruct"} -> Nat]

\* The motor runs only for a moving elevator and in its direction: the
\* obstruction switch and the stop button stop the motor but leave the behaviour,
\* and both give it back later.
MotorObeys ==
    /\ motor # D_Stop => e.behaviour = "Moving" /\ motor = e.dirn
    /\ e.behaviour = "Moving" /\ motor = D_Stop => prevObstruction \/ prevStop

\* The door is open (its lamp is on) only while the car stands, at a floor unless
\* the stop button was used, and it will close: the timer runs unless the stop
\* button is held.
OpenDoorIsSafe ==
    doorLight => /\ motor = D_Stop /\ e.behaviour = "DoorOpen"
                 /\ elevator_floorSensor # Between \/ budget.stop # MaxStop
                 /\ timer # "off" \/ prevStop

\* An obstructed door is not closed.
ObstructedStaysOpen == [][doorLight /\ ~doorLight' => ~prevObstruction]_vars

\* Every request is served at last, or withdrawn by the stop button.
RequestsServed == \A r \in Request : r \in e.requests ~> r \notin e.requests
=============================================================================

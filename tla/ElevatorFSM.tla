----------------------------- MODULE ElevatorFSM -----------------------------
(***************************************************************************)
(* One elevator: the goroutine RunElevator with its timers, the goroutine  *)
(* that polls the floor sensor, and the car they drive.  Between two polls *)
(* the state's Floor is the floor the car was last seen at, not where it   *)
(* is: a handler that runs before the sensor's may use a stale one.        *)
(*                                                                         *)
(* Handlers are atomic: they take microseconds, the car seconds.           *)
(***************************************************************************)
EXTENDS Integers, FiniteSetsExt

CONSTANTS
    N_FLOORS,
    MaxPress,      \* bound: requests the worldview gives the elevator
    MaxObstruct,   \* bound: how often the door is obstructed
    MaxError       \* bound: how often the error timer expires

ASSUME FloorsAndBounds ==
    /\ N_FLOORS \in Nat \ {0, 1}
    /\ {MaxPress, MaxObstruct, MaxError} \subseteq Nat

Floor     == 0 .. N_FLOORS - 1
Between   == -1
D_Down    == -1
D_Stop    == 0
D_Up      == 1
Direction == {D_Down, D_Stop, D_Up}
Behaviour == {"Idle", "DoorOpen", "Moving"}
Button    == {"HallUp", "HallDown", "Cab"}
Request   == Floor \X Button

ElevatorState == [Floor : Floor, Dirn : Direction, Behaviour : Behaviour,
                  Requests : SUBSET Request, Error : BOOLEAN]

VARIABLES
    position,   \* of the car: 2 * f at floor f, odd between two floors
    motor,      \* the direction the motor runs
    prev,       \* what PollFloorSensor saw last
    sensor,     \* floorSensorCh: the floor the poller is handing over, if any
    elevator,   \* elevatorState of RunElevator
    reported,   \* the last state sent on elevatorStateCh
    doorTimer,  \* doorTimer runs (is not nil)
    errorTimer, \* "reset", "late" (a tick went by without a reset) or "expired"
    obstruct,   \* obstruct of RunElevator
    budget      \* how often each bounded event may still happen

car  == <<position, motor>>
poll == <<prev, sensor>>
vars == <<car, poll, elevator, reported, doorTimer, errorTimer, obstruct, budget>>

\* elevio.GetFloor: the sensor of a floor, or -1.
GetFloor == IF position % 2 = 0 THEN position \div 2 ELSE Between

\* The state InitElevator leaves: the car stands at the floor it was driven down to.
Init ==
    /\ \E f \in Floor :
          /\ position = 2 * f
          /\ elevator = [Floor |-> f, Dirn |-> D_Stop, Behaviour |-> "Idle",
                         Requests |-> {}, Error |-> FALSE]
    /\ motor      = D_Stop
    /\ prev       = Between
    /\ sensor     = {}
    /\ reported   = elevator
    /\ doorTimer  = FALSE
    /\ errorTimer = "reset"
    /\ obstruct   = FALSE
    /\ budget     = [press |-> MaxPress, obstruct |-> MaxObstruct, error |-> MaxError]

-----------------------------------------------------------------------------
(* requests.go *)

requestsAbove(e) == \E r \in e.Requests : r[1] > e.Floor
requestsBelow(e) == \E r \in e.Requests : r[1] < e.Floor
requestsHere(e)  == \E r \in e.Requests : r[1] = e.Floor
Here(e, b)       == <<e.Floor, b>> \in e.Requests

Moving(d) == [Dirn |-> d, Behaviour |-> "Moving"]
OpenDoor  == [Dirn |-> D_Stop, Behaviour |-> "DoorOpen"]
Rest      == [Dirn |-> D_Stop, Behaviour |-> "Idle"]

\* Go on as long as there are requests ahead, then serve this floor, then turn.
\* (The direction the code returns with an open door is never used.)
chooseDirection(e) ==
    CASE e.Dirn = D_Up   /\ requestsAbove(e) -> Moving(D_Up)
      [] e.Dirn = D_Down /\ requestsBelow(e) -> Moving(D_Down)
      [] OTHER -> IF requestsHere(e) THEN OpenDoor
                  ELSE IF e.Dirn # D_Up /\ requestsAbove(e) THEN Moving(D_Up)
                  ELSE IF e.Dirn # D_Down /\ requestsBelow(e) THEN Moving(D_Down)
                  ELSE Rest

shouldServeCurrentFloor(e) ==
    /\ GetFloor # Between
    /\ CASE e.Dirn = D_Up   -> Here(e, "HallUp") \/ Here(e, "Cab") \/ (~requestsAbove(e) /\ Here(e, "HallDown"))
         [] e.Dirn = D_Down -> Here(e, "HallDown") \/ Here(e, "Cab") \/ (~requestsBelow(e) /\ Here(e, "HallUp"))
         [] e.Dirn = D_Stop -> requestsHere(e)

\* Mutant: the passengers who turn round here are never served.
ServedAhead(e) ==
    {"Cab"} \cup (IF e.Dirn = D_Up THEN {"HallUp"} ELSE IF e.Dirn = D_Down THEN {"HallDown"}
                  ELSE {"HallUp", "HallDown"})

\* What an opened door serves: the passengers who go on in the car's direction,
\* and the others if the car turns here.
Served(e) ==
    {"Cab"} \cup
    CASE e.Dirn = D_Up   -> IF requestsAbove(e) \/ Here(e, "HallUp") THEN {"HallUp"} ELSE {"HallUp", "HallDown"}
      [] e.Dirn = D_Down -> IF requestsBelow(e) \/ Here(e, "HallDown") THEN {"HallDown"} ELSE {"HallUp", "HallDown"}
      [] e.Dirn = D_Stop -> {"HallUp", "HallDown"}

clearAtCurrentFloor(e) == [e EXCEPT !.Requests = @ \ ({e.Floor} \X Served(e))]

-----------------------------------------------------------------------------
(* FSM.go and state.go: what the handlers share.  e is the handler's state so *)
(* far, sent the state it, or a handler before it, sent last.                 *)

Store(e, sent) == elevator' = e /\ reported' = sent

\* Mutant: the motor is left as it is.
openDoorMotorOn(e) ==
    LET open == [clearAtCurrentFloor(e) EXCEPT !.Behaviour = "DoorOpen"]
    IN  /\ Store(open, open)
        /\ doorTimer' = TRUE
        /\ UNCHANGED motor

openDoorAndClearCurrentFloor(e) ==
    LET open == [clearAtCurrentFloor(e) EXCEPT !.Behaviour = "DoorOpen"]
    IN  /\ motor' = D_Stop
        /\ Store(open, open)
        /\ doorTimer' = TRUE

elevatorCanMove(e) == e.Behaviour # "DoorOpen" /\ ~e.Error /\ e.Requests # {} /\ GetFloor # Between

\* The car is not driven beyond the first or the last floor.  A state that does
\* not change is not sent.
applyDecision(decision, e, sent) ==
    LET db  == IF decision.Behaviour = "Moving" /\ e.Floor + decision.Dirn \notin Floor
               THEN Rest ELSE decision
        new == [e EXCEPT !.Dirn = db.Dirn, !.Behaviour = db.Behaviour]
    IN  /\ motor' = db.Dirn
        /\ Store(new, IF new = e THEN sent ELSE new)

executeMovementPlan(e, sent) ==
    IF chooseDirection(e) = OpenDoor
    THEN openDoorAndClearCurrentFloor(e)
    ELSE applyDecision(chooseDirection(e), e, sent) /\ doorTimer' = FALSE

updateErrorState(error, e) == [e EXCEPT !.Error = error]

\* Mutant: nothing stops the car at the last floor.
RunsOn(f, e) == FALSE

\* Arriving at the last floor ahead stops the motor.
StopsAtEnd(f, e) == /\ e.Floor # f
                    /\ \/ f = 0 /\ e.Dirn = D_Down
                       \/ f = N_FLOORS - 1 /\ e.Dirn = D_Up

\* Mutant: the floor is only taken over at a stop.
updateFloorLate(f, e) ==
    [e EXCEPT !.Floor = IF StopsAtEnd(f, e) \/ e.Behaviour # "Moving" THEN f ELSE @,
              !.Dirn = IF StopsAtEnd(f, e) THEN D_Stop ELSE @]

updateFloor(f, e) == [e EXCEPT !.Floor = f, !.Dirn = IF StopsAtEnd(f, e) THEN D_Stop ELSE @]

\* Mutant: a changed floor or error, or a new request, is not sent.
Unsent(e) == reported

\* The state a handler has sent after it changed the elevator's to e.
Sent(e) == IF e = elevator THEN reported ELSE e

Spend(event) == budget[event] > 0 /\ budget' = [budget EXCEPT ![event] = @ - 1]

-----------------------------------------------------------------------------
(* The cases of RunElevator.  (The stop button only prints the hall orders.) *)

\* worldviewToFSMCh: requests are added, none is ever taken back.
TakeRequests(new) ==
    LET e == [elevator EXCEPT !.Requests = @ \cup new]
    IN  /\ IF shouldServeCurrentFloor(e) THEN openDoorAndClearCurrentFloor(e)
           ELSE IF elevatorCanMove(e) THEN executeMovementPlan(e, reported)
           ELSE Store(e, Sent(e)) /\ UNCHANGED <<motor, doorTimer>>
        /\ UNCHANGED <<position, poll, errorTimer, obstruct>>

\* Here the worldview may give the elevator any.
WorldviewToFSM == \E k \in 0 .. budget.press : \E new \in kSubset(k, Request \ elevator.Requests) :
    /\ TakeRequests(new)
    /\ budget' = [budget EXCEPT !.press = @ - k]

\* Mutants: the obstruction is not looked at; the timer is not started again.
DoorTimeoutObstructed ==
    /\ doorTimer
    /\ IF elevator.Error THEN UNCHANGED <<elevator, reported, doorTimer, motor>>
       ELSE executeMovementPlan(elevator, reported)
    /\ UNCHANGED <<position, poll, errorTimer, obstruct, budget>>

DoorTimeoutForgets ==
    /\ doorTimer
    /\ IF obstruct \/ elevator.Error THEN doorTimer' = FALSE /\ UNCHANGED <<elevator, reported, motor>>
       ELSE executeMovementPlan(elevator, reported)
    /\ UNCHANGED <<position, poll, errorTimer, obstruct, budget>>

\* doorTimer fires; the door is held open while obstructed or in error.
DoorTimeout ==
    /\ doorTimer
    /\ IF obstruct \/ elevator.Error THEN UNCHANGED <<elevator, reported, doorTimer, motor>>
       ELSE IF shouldServeCurrentFloor(elevator) THEN openDoorAndClearCurrentFloor(elevator)
       ELSE executeMovementPlan(elevator, reported)
    /\ UNCHANGED <<position, poll, errorTimer, obstruct, budget>>

\* floorTicker: a car at a floor whose door is not obstructed is not in error.
Healthy == GetFloor # Between /\ ~(obstruct /\ elevator.Behaviour = "DoorOpen")

TickedState == IF Healthy THEN updateErrorState(FALSE, elevator) ELSE elevator

FloorTick ==
    LET e == TickedState
    IN  /\ errorTimer' = IF Healthy THEN "reset" ELSE IF errorTimer = "reset" THEN "late" ELSE errorTimer
        /\ IF elevatorCanMove(e) THEN executeMovementPlan(e, Sent(e))
           ELSE Store(e, Sent(e)) /\ UNCHANGED <<motor, doorTimer>>
        /\ UNCHANGED <<position, poll, obstruct, budget>>

\* floorSensorCh: the poller hands over the floor it saw.
FloorSensor == \E f \in sensor :
    LET e == updateFloor(f, elevator)
    IN  /\ sensor' = {}
        /\ IF /\ ~doorTimer /\ e.Behaviour = "Moving"
              /\ shouldServeCurrentFloor(e) /\ ~e.Error
           THEN openDoorAndClearCurrentFloor(e)
           ELSE IF elevatorCanMove(e) THEN executeMovementPlan(e, Sent(e))
           ELSE /\ Store(e, Sent(e))
                /\ motor' = IF StopsAtEnd(f, elevator) THEN D_Stop ELSE motor
                /\ UNCHANGED doorTimer
        /\ UNCHANGED <<position, prev, errorTimer, obstruct, budget>>

\* obstructCh
ObstructionSwitch(on) ==
    LET e == IF on THEN elevator ELSE updateErrorState(FALSE, elevator)
    IN  /\ obstruct = ~on
        /\ obstruct' = on
        /\ Store(e, Sent(e))
        /\ errorTimer' = IF on THEN errorTimer ELSE "reset"
        /\ IF on THEN Spend("obstruct") ELSE UNCHANGED budget
        /\ UNCHANGED <<car, poll, doorTimer>>

\* errorTimer fires five seconds after its last reset, so at least one tick
\* found the car between two floors or with an obstructed door.
ErrorTimeout ==
    LET e == updateErrorState(TRUE, elevator)
    IN  /\ errorTimer = "late"
        /\ errorTimer' = "expired"
        /\ Spend("error")
        /\ Store(e, Sent(e))
        /\ UNCHANGED <<car, poll, doorTimer, obstruct>>

-----------------------------------------------------------------------------
(* The sensor's poller and the car. *)

\* PollFloorSensor: hand over a floor that was not seen by the poll before.
PollFloorSensor ==
    /\ sensor = {}
    /\ prev # GetFloor
    /\ prev' = GetFloor
    /\ sensor' = {GetFloor} \ {Between}
    /\ UNCHANGED <<car, elevator, reported, doorTimer, errorTimer, obstruct, budget>>

\* The car passes a floor in a tenth of a second or more, the sensor is polled
\* every 20 ms: the car does not leave a floor, or reach the next one, unseen.
CarMoves ==
    /\ motor # D_Stop
    /\ prev = GetFloor
    /\ sensor = {}
    /\ position' = position + motor
    /\ UNCHANGED <<motor, poll, elevator, reported, doorTimer, errorTimer, obstruct, budget>>

Next ==
    \/ WorldviewToFSM
    \/ DoorTimeout
    \/ FloorTick
    \/ FloorSensor
    \/ \E on \in BOOLEAN : ObstructionSwitch(on)
    \/ ErrorTimeout
    \/ PollFloorSensor
    \/ CarMoves

\* The timers fire, the poller runs, the motor turns and an obstruction goes away.
Fairness ==
    /\ WF_vars(DoorTimeout)
    /\ WF_vars(FloorTick)
    /\ WF_vars(FloorSensor)
    /\ WF_vars(ObstructionSwitch(FALSE))
    /\ WF_vars(PollFloorSensor)
    /\ WF_vars(CarMoves)

Spec     == Init /\ [][Next]_vars
LiveSpec == Spec /\ Fairness

-----------------------------------------------------------------------------
\* The type invariant; the car never leaves the shaft.
TypeOK ==
    /\ position   \in 0 .. 2 * (N_FLOORS - 1)
    /\ motor      \in Direction
    /\ prev       \in Floor \cup {Between}
    /\ sensor     \in SUBSET Floor
    /\ elevator   \in ElevatorState
    /\ reported   \in ElevatorState
    /\ doorTimer  \in BOOLEAN
    /\ errorTimer \in {"reset", "late", "expired"}
    /\ obstruct   \in BOOLEAN
    /\ budget     \in [{"press", "obstruct", "error"} -> Nat]

\* An open door has a running timer, or it would never close: five handlers
\* assign doorTimer together with the state, some of them nil.
OpenDoorHasTimer == (elevator.Behaviour = "DoorOpen") <=> doorTimer

\* The car stands at a floor while the door is open, though handlers that use a
\* stale Floor, or none that tells of the door, drive the motor.
OpenDoorStandsStill == elevator.Behaviour = "DoorOpen" => motor = D_Stop /\ GetFloor # Between

\* What the worldview was told last is the elevator's state, except that a moving
\* elevator may have been given requests it has not reported: orders are
\* completed from reports of an open door, which lack no request.
ReportIsCurrent ==
    /\ [reported EXCEPT !.Requests = elevator.Requests] = elevator
    /\ reported.Requests \subseteq elevator.Requests
    /\ elevator.Behaviour = "DoorOpen" => reported = elevator

\* A door that is obstructed stays open (FSM.go: "Hold doren apen sa lenge
\* obstruction er aktiv eller heisen er i error").
ObstructedStaysOpen ==
    [][elevator.Behaviour = "DoorOpen" /\ elevator'.Behaviour # "DoorOpen"
       => ~obstruct /\ ~elevator.Error]_vars

\* A request the elevator has is served at last, whatever requests are added,
\* if the motor and the door fail finitely often.
RequestsServed == \A r \in Request : r \in elevator.Requests ~> r \notin elevator.Requests

\* Requests are removed, and the door is opened for them, only "hvis heisen er pa
\* en etasje med aktive ordrer" (clearFloorRequests): at the floor where the car
\* is, unless the sensor saw that floor and the event is still to be handled.
ServedWhereTheCarIs ==
    [][\A r \in elevator.Requests \ elevator'.Requests :
          r[1] = GetFloor \/ prev # GetFloor \/ sensor = {GetFloor}]_vars
=============================================================================

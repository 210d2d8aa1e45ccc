-------------------------- MODULE ElevatorFSM_proofs --------------------------
(***************************************************************************)
(* The elevator, for every number of floors and every bound: its door and  *)
(* the door's timer, what the worldview is told of it, and its car, which  *)
(* stays in the shaft.                                                     *)
(*                                                                         *)
(* The door: it is open exactly while its timer runs, and the car then     *)
(* stands still at a floor.  The two are one inductive invariant: the      *)
(* timer's handler opens the door again without reading the sensor, which  *)
(* is right because the car still stands where the door was opened.        *)
(***************************************************************************)
EXTENDS ElevatorFSM, TLAPS

State == [Floor : Int, Dirn : Direction, Behaviour : Behaviour,
          Requests : SUBSET (Int \X Button), Error : BOOLEAN]

\* As much of the type invariant as the argument needs.
Shape ==
    /\ position \in Int
    /\ motor \in Direction
    /\ sensor \in SUBSET Int
    /\ elevator \in State
    /\ doorTimer \in BOOLEAN

Door == Shape /\ OpenDoorHasTimer /\ OpenDoorStandsStill

Open(e) == e.Behaviour = "DoorOpen"

\* A handler that ran while the car was at a floor, or left the door closed.
DoorHandled ==
    /\ elevator' \in State
    /\ motor' \in Direction
    /\ doorTimer' \in BOOLEAN
    /\ Open(elevator') <=> doorTimer'
    /\ Open(elevator') => motor' = D_Stop /\ GetFloor # Between

LEMMA OpenDoorHandles ==
  ASSUME NEW e \in State, GetFloor # Between, openDoorAndClearCurrentFloor(e)
  PROVE  DoorHandled
<1> DEFINE cleared == clearAtCurrentFloor(e)
           open    == [cleared EXCEPT !.Behaviour = "DoorOpen"]
<1>1. cleared \in State
  BY DEF clearAtCurrentFloor, State
<1>2. open \in State /\ Open(open)
  BY <1>1 DEF State, Behaviour, Open
<1>3. elevator' = open /\ motor' = D_Stop /\ doorTimer' = TRUE
  BY DEF openDoorAndClearCurrentFloor, Store
<1> QED BY <1>2, <1>3 DEF DoorHandled, Direction

LEMMA PlanHandles ==
  ASSUME NEW e \in State, NEW sent, GetFloor # Between, executeMovementPlan(e, sent)
  PROVE  DoorHandled
<1> DEFINE decision == chooseDirection(e)
<1>1. CASE decision = OpenDoor
  BY <1>1, OpenDoorHandles DEF executeMovementPlan
<1>2. CASE decision # OpenDoor
  <2>1. decision \in {Moving(D_Up), Moving(D_Down), Rest}
    BY <1>2 DEF chooseDirection
  <2> DEFINE db  == IF decision.Behaviour = "Moving" /\ e.Floor + decision.Dirn \notin Floor
                    THEN Rest ELSE decision
             new == [e EXCEPT !.Dirn = db.Dirn, !.Behaviour = db.Behaviour]
  <2>2. db \in {Moving(D_Up), Moving(D_Down), Rest}
    BY <2>1
  <2>3. db.Dirn \in Direction /\ db.Behaviour \in {"Moving", "Idle"}
    BY <2>2 DEF Moving, Rest, Direction
  <2>4. elevator' = new /\ motor' = db.Dirn /\ doorTimer' = FALSE
    BY <1>2 DEF executeMovementPlan, applyDecision, Store
  <2> HIDE DEF db
  <2>5. new \in State /\ ~Open(new)
    BY <2>3 DEF State, Behaviour, Open
  <2> QED BY <2>3, <2>4, <2>5 DEF DoorHandled
<1> QED BY <1>1, <1>2

\* A state changed in nothing that concerns the door, and nothing else done.
LEMMA StoreHandles ==
  ASSUME Door, NEW e \in State, NEW sent, e.Behaviour = elevator.Behaviour,
         Store(e, sent), doorTimer' = doorTimer, motor' \in {motor, D_Stop}
  PROVE  DoorHandled
<1>1. elevator' = e
  BY DEF Store
<1>2. doorTimer' \in BOOLEAN /\ (Open(e) <=> doorTimer')
  BY DEF Door, Shape, OpenDoorHasTimer, Open
<1>3. motor' \in Direction
  BY DEF Door, Shape, Direction
<1>4. Open(e) => motor' = D_Stop /\ GetFloor # Between
  BY DEF Door, OpenDoorStandsStill, Open
<1> QED BY <1>1, <1>2, <1>3, <1>4 DEF DoorHandled

LEMMA HandledIsDoor ==
  ASSUME Door, DoorHandled, UNCHANGED position, sensor' \in SUBSET Int
  PROVE  Door'
<1>1. GetFloor' = GetFloor
  BY DEF GetFloor
<1> QED BY <1>1 DEF Door, Shape, DoorHandled, OpenDoorHasTimer, OpenDoorStandsStill, Open

LEMMA DoorInit == Init => Door
<1> SUFFICES ASSUME Init PROVE Door
  OBVIOUS
<1>1. PICK f \in Floor :
        /\ position = 2 * f
        /\ elevator = [Floor |-> f, Dirn |-> D_Stop, Behaviour |-> "Idle",
                       Requests |-> {}, Error |-> FALSE]
  BY DEF Init
<1>2. f \in Int
  BY FloorsAndBounds DEF Floor
<1>3. position \in Int
  BY <1>1, <1>2
<1>4. elevator \in State /\ elevator.Behaviour = "Idle"
  BY <1>1, <1>2 DEF State, Direction, Behaviour
<1> QED BY <1>3, <1>4 DEF Init, Door, Shape, Direction, OpenDoorHasTimer, OpenDoorStandsStill

LEMMA TakeRequestsDoor ==
  ASSUME Door, NEW new \in SUBSET (Int \X Button), TakeRequests(new)
  PROVE  Door'
<1> DEFINE e == [elevator EXCEPT !.Requests = @ \cup new]
<1>2. /\ IF shouldServeCurrentFloor(e) THEN openDoorAndClearCurrentFloor(e)
         ELSE IF elevatorCanMove(e) THEN executeMovementPlan(e, reported)
         ELSE Store(e, Sent(e)) /\ UNCHANGED <<motor, doorTimer>>
      /\ UNCHANGED <<position, poll>>
  BY DEF TakeRequests
<1>3. e \in State /\ e.Behaviour = elevator.Behaviour
  BY DEF Door, Shape, State
<1> HIDE DEF e
<1>4. CASE shouldServeCurrentFloor(e)
  <2>1. GetFloor # Between
    BY <1>4 DEF shouldServeCurrentFloor
  <2>2. DoorHandled
    BY <1>2, <1>3, <1>4, <2>1, OpenDoorHandles DEF e
  <2> QED BY <1>2, <2>2, HandledIsDoor DEF Door, Shape, poll
<1>5. CASE ~shouldServeCurrentFloor(e) /\ elevatorCanMove(e)
  <2>1. GetFloor # Between
    BY <1>5 DEF elevatorCanMove
  <2>2. DoorHandled
    BY <1>2, <1>3, <1>5, <2>1, PlanHandles DEF e
  <2> QED BY <1>2, <2>2, HandledIsDoor DEF Door, Shape, poll
<1>6. CASE ~shouldServeCurrentFloor(e) /\ ~elevatorCanMove(e)
  <2>1. DoorHandled
    BY <1>2, <1>3, <1>6, StoreHandles DEF e
  <2> QED BY <1>2, <2>1, HandledIsDoor DEF Door, Shape, poll
<1> QED BY <1>4, <1>5, <1>6

LEMMA WorldviewDoor == ASSUME Door, WorldviewToFSM PROVE Door'
<1>1. PICK new \in SUBSET (Int \X Button) : TakeRequests(new)
  BY DEF WorldviewToFSM, kSubset, Request, Floor
<1> QED BY <1>1, TakeRequestsDoor

LEMMA TimeoutDoor == ASSUME Door, DoorTimeout PROVE Door'
<1>1. elevator \in State /\ GetFloor # Between
  BY DEF DoorTimeout, Door, Shape, OpenDoorHasTimer, OpenDoorStandsStill
<1>2. CASE obstruct \/ elevator.Error
  BY <1>2 DEF DoorTimeout, poll, Door, Shape, OpenDoorHasTimer, OpenDoorStandsStill, GetFloor
<1>3. CASE ~(obstruct \/ elevator.Error)
  <2>1. DoorHandled
    BY <1>1, <1>3, OpenDoorHandles, PlanHandles DEF DoorTimeout
  <2> QED BY <2>1, HandledIsDoor DEF DoorTimeout, poll, Door, Shape
<1> QED BY <1>2, <1>3

LEMMA TickDoor == ASSUME Door, FloorTick PROVE Door'
<1>1. PICK e \in {elevator, updateErrorState(FALSE, elevator)} :
         IF elevatorCanMove(e) THEN executeMovementPlan(e, Sent(e))
         ELSE Store(e, Sent(e)) /\ UNCHANGED <<motor, doorTimer>>
  BY DEF FloorTick, TickedState
<1>2. e \in State /\ e.Behaviour = elevator.Behaviour
  BY DEF updateErrorState, Door, Shape, State
<1>3. DoorHandled
  BY <1>1, <1>2, PlanHandles, StoreHandles DEF elevatorCanMove
<1> QED BY <1>3, HandledIsDoor DEF FloorTick, poll, Door, Shape

LEMMA SensorDoor == ASSUME Door, FloorSensor PROVE Door'
<1>1. PICK f \in sensor :
        /\ sensor' = {}
        /\ IF /\ ~doorTimer /\ updateFloor(f, elevator).Behaviour = "Moving"
              /\ shouldServeCurrentFloor(updateFloor(f, elevator)) /\ ~updateFloor(f, elevator).Error
           THEN openDoorAndClearCurrentFloor(updateFloor(f, elevator))
           ELSE IF elevatorCanMove(updateFloor(f, elevator))
           THEN executeMovementPlan(updateFloor(f, elevator), Sent(updateFloor(f, elevator)))
           ELSE /\ Store(updateFloor(f, elevator), Sent(updateFloor(f, elevator)))
                /\ motor' = IF StopsAtEnd(f, elevator) THEN D_Stop ELSE motor
                /\ UNCHANGED doorTimer
        /\ UNCHANGED position
  BY DEF FloorSensor
<1> DEFINE e == updateFloor(f, elevator)
<1>2. e \in State /\ e.Behaviour = elevator.Behaviour
  BY DEF updateFloor, Door, Shape, State, Direction
<1> HIDE DEF e
<1>3. DoorHandled
  <2>1. CASE openDoorAndClearCurrentFloor(e) /\ shouldServeCurrentFloor(e)
    BY <1>2, <2>1, OpenDoorHandles DEF shouldServeCurrentFloor
  <2>2. CASE executeMovementPlan(e, Sent(e)) /\ elevatorCanMove(e)
    BY <1>2, <2>2, PlanHandles DEF elevatorCanMove
  <2>3. CASE Store(e, Sent(e)) /\ motor' \in {motor, D_Stop} /\ UNCHANGED doorTimer
    BY <1>2, <2>3, StoreHandles
  <2> QED BY <1>1, <2>1, <2>2, <2>3 DEF e
<1> QED BY <1>1, <1>3, HandledIsDoor

LEMMA ErrorDoor ==
  ASSUME Door, NEW error \in BOOLEAN, NEW sent,
         \/ Store(elevator, sent)
         \/ Store(updateErrorState(error, elevator), sent),
         UNCHANGED <<car, poll, doorTimer>>
  PROVE  Door'
<1>1. PICK e \in {elevator, updateErrorState(error, elevator)} : Store(e, sent)
  OBVIOUS
<1>2. e \in State /\ e.Behaviour = elevator.Behaviour
  BY DEF updateErrorState, Door, Shape, State
<1>3. DoorHandled
  BY <1>1, <1>2, StoreHandles DEF car
<1> QED BY <1>3, HandledIsDoor DEF car, poll, Door, Shape

LEMMA DoorNext == Door /\ [Next]_vars => Door'
<1> SUFFICES ASSUME Door, [Next]_vars PROVE Door'
  OBVIOUS
<1>1. CASE UNCHANGED vars
  BY <1>1 DEF vars, car, poll, Door, Shape, OpenDoorHasTimer, OpenDoorStandsStill, GetFloor
<1>2. CASE WorldviewToFSM
  BY <1>2, WorldviewDoor
<1>3. CASE DoorTimeout
  BY <1>3, TimeoutDoor
<1>4. CASE FloorTick
  BY <1>4, TickDoor
<1>5. CASE FloorSensor
  BY <1>5, SensorDoor
<1>6. ASSUME NEW on \in BOOLEAN, ObstructionSwitch(on) PROVE Door'
  BY <1>6, ErrorDoor DEF ObstructionSwitch
<1>7. CASE ErrorTimeout
  BY <1>7, ErrorDoor DEF ErrorTimeout
<1>8. CASE PollFloorSensor
  <2>1. GetFloor \in Int /\ GetFloor' = GetFloor
    BY <1>8 DEF PollFloorSensor, GetFloor, Between, car, Door, Shape
  <2> QED BY <1>8, <2>1 DEF PollFloorSensor, car, Door, Shape, OpenDoorHasTimer, OpenDoorStandsStill
<1>9. CASE CarMoves
  <2>1. elevator.Behaviour # "DoorOpen"
    BY <1>9 DEF CarMoves, Door, OpenDoorStandsStill
  <2> QED BY <1>9, <2>1 DEF CarMoves, poll, Door, Shape, OpenDoorHasTimer, OpenDoorStandsStill,
                           Direction, D_Down, D_Stop, D_Up
<1> QED BY <1>1, <1>2, <1>3, <1>4, <1>5, <1>6, <1>7, <1>8, <1>9 DEF Next

\* OpenDoorHasTimer for every number of floors: an open door always has a running
\* timer, and a closed one none, whatever handlers run in which order.
THEOREM DoorTimerRuns == Spec => []OpenDoorHasTimer
<1>1. Door => OpenDoorHasTimer
  BY DEF Door
<1> QED BY <1>1, DoorInit, DoorNext, PTL DEF Spec

\* OpenDoorStandsStill for every number of floors: the motor never runs, and the car
\* is never between two floors, while the door is open.
THEOREM OpenDoorIsSafe == Spec => []OpenDoorStandsStill
<1>1. Door => OpenDoorStandsStill
  BY DEF Door
<1> QED BY <1>1, DoorInit, DoorNext, PTL DEF Spec

-----------------------------------------------------------------------------
(* What the worldview is told.  A report agrees with the elevator's state if *)
(* it lacks at most requests.  A handler computes a state, sends it only if  *)
(* it changed, and may send another one before: what agreed when the handler *)
(* began has to agree with whatever it leaves.                               *)

Agrees(sent, e) ==
    /\ sent \in State
    /\ sent.Requests \subseteq e.Requests
    /\ [sent EXCEPT !.Requests = e.Requests] = e

Current == Agrees(reported, elevator) /\ (Open(elevator) => reported = elevator)

LEMMA AgreesWithItself == ASSUME NEW e \in State PROVE Agrees(e, e)
  BY DEF Agrees, State

LEMMA OpenDoorOpens ==
  ASSUME NEW e \in State, openDoorAndClearCurrentFloor(e)
  PROVE  elevator' \in State /\ Open(elevator') /\ reported' = elevator'
<1> DEFINE cleared == clearAtCurrentFloor(e)
           open    == [cleared EXCEPT !.Behaviour = "DoorOpen"]
<1>1. cleared \in State
  BY DEF clearAtCurrentFloor, State
<1>2. open \in State /\ Open(open)
  BY <1>1 DEF State, Behaviour, Open
<1>3. elevator' = open /\ reported' = open
  BY DEF openDoorAndClearCurrentFloor, Store
<1> QED BY <1>2, <1>3

LEMMA OpenDoorCurrent == ASSUME NEW e \in State, openDoorAndClearCurrentFloor(e) PROVE Current'
  BY OpenDoorOpens, AgreesWithItself DEF Current

LEMMA PlanCurrent ==
  ASSUME NEW e \in State, NEW sent, Agrees(sent, e), executeMovementPlan(e, sent)
  PROVE  Current'
<1> DEFINE decision == chooseDirection(e)
<1>1. CASE decision = OpenDoor
  BY <1>1, OpenDoorCurrent DEF executeMovementPlan
<1>2. CASE decision # OpenDoor
  <2>1. decision \in {Moving(D_Up), Moving(D_Down), Rest}
    BY <1>2 DEF chooseDirection
  <2> DEFINE db  == IF decision.Behaviour = "Moving" /\ e.Floor + decision.Dirn \notin Floor
                    THEN Rest ELSE decision
             new == [e EXCEPT !.Dirn = db.Dirn, !.Behaviour = db.Behaviour]
  <2>2. db \in {Moving(D_Up), Moving(D_Down), Rest}
    BY <2>1
  <2>3. db.Dirn \in Direction /\ db.Behaviour \in {"Moving", "Idle"}
    BY <2>2 DEF Moving, Rest, Direction
  <2>4. elevator' = new /\ reported' = IF new = e THEN sent ELSE new
    BY <1>2 DEF executeMovementPlan, applyDecision, Store
  <2> HIDE DEF db
  <2>5. new \in State /\ ~Open(new)
    BY <2>3 DEF State, Behaviour, Open
  <2>6. CASE new = e
    BY <2>4, <2>5, <2>6 DEF Current
  <2>7. CASE new # e
    BY <2>4, <2>5, <2>7, AgreesWithItself DEF Current
  <2> QED BY <2>6, <2>7
<1> QED BY <1>1, <1>2

LEMMA StoreCurrent == ASSUME Current, NEW e \in State, Store(e, Sent(e)) PROVE Current'
<1>1. CASE e = elevator
  BY <1>1 DEF Store, Sent, Current, Open
<1>2. CASE e # elevator
  BY <1>2, AgreesWithItself DEF Store, Sent, Current
<1> QED BY <1>1, <1>2

LEMMA SentAgrees == ASSUME Current, NEW e \in State PROVE Agrees(Sent(e), e)
  BY AgreesWithItself DEF Sent, Current

LEMMA TakeRequestsCurrent ==
  ASSUME Door, Current, NEW new \in SUBSET (Int \X Button), TakeRequests(new)
  PROVE  Current'
<1> DEFINE e == [elevator EXCEPT !.Requests = @ \cup new]
<1>1. e \in State /\ Agrees(reported, e)
  <2>1. elevator \in State
    BY DEF Door, Shape
  <2>2. e \in State /\ e.Requests = elevator.Requests \cup new
    BY <2>1 DEF State
  <2>3. [reported EXCEPT !.Requests = elevator.Requests] = elevator
    BY DEF Current, Agrees
  <2>4. [reported EXCEPT !.Requests = e.Requests] = e
    BY <2>1, <2>2, <2>3 DEF Current, Agrees, State
  <2> HIDE DEF e
  <2> QED BY <2>2, <2>4 DEF Current, Agrees
<1>2. IF shouldServeCurrentFloor(e) THEN openDoorAndClearCurrentFloor(e)
      ELSE IF elevatorCanMove(e) THEN executeMovementPlan(e, reported)
      ELSE Store(e, Sent(e)) /\ UNCHANGED <<motor, doorTimer>>
  BY DEF TakeRequests
<1> HIDE DEF e
<1> QED BY <1>1, <1>2, OpenDoorCurrent, PlanCurrent, StoreCurrent

LEMMA CurrentNext == ASSUME Door, Current, [Next]_vars PROVE Current'
<1>0. elevator \in State /\ updateErrorState(FALSE, elevator) \in State /\ updateErrorState(TRUE, elevator) \in State
  BY DEF Door, Shape, State, updateErrorState
<1>1. CASE WorldviewToFSM
  <2>1. PICK new \in SUBSET (Int \X Button) : TakeRequests(new)
    BY <1>1 DEF WorldviewToFSM, kSubset, Request, Floor
  <2> QED BY <2>1, TakeRequestsCurrent
<1>2. CASE DoorTimeout
  <2>1. CASE obstruct \/ elevator.Error
    BY <1>2, <2>1 DEF DoorTimeout, Current, Agrees, Open
  <2>2. CASE ~(obstruct \/ elevator.Error)
    BY <1>0, <1>2, <2>2, OpenDoorCurrent, PlanCurrent DEF DoorTimeout, Current
  <2> QED BY <2>1, <2>2
<1>3. CASE FloorTick
  <2>1. TickedState \in State
    BY <1>0 DEF TickedState
  <2>2. IF elevatorCanMove(TickedState) THEN executeMovementPlan(TickedState, Sent(TickedState))
        ELSE Store(TickedState, Sent(TickedState))
    BY <1>3 DEF FloorTick
  <2> QED BY <2>1, <2>2, PlanCurrent, StoreCurrent, SentAgrees
<1>4. CASE FloorSensor
  <2>1. PICK f \in sensor :
          \/ openDoorAndClearCurrentFloor(updateFloor(f, elevator))
          \/ executeMovementPlan(updateFloor(f, elevator), Sent(updateFloor(f, elevator)))
          \/ Store(updateFloor(f, elevator), Sent(updateFloor(f, elevator)))
    BY <1>4 DEF FloorSensor
  <2>2. updateFloor(f, elevator) \in State
    BY DEF updateFloor, Door, Shape, State, Direction
  <2> QED BY <2>1, <2>2, OpenDoorCurrent, PlanCurrent, StoreCurrent, SentAgrees
<1>5. ASSUME NEW on \in BOOLEAN, ObstructionSwitch(on) PROVE Current'
  BY <1>0, <1>5, StoreCurrent DEF ObstructionSwitch
<1>6. CASE ErrorTimeout
  BY <1>0, <1>6, StoreCurrent DEF ErrorTimeout
<1>7. CASE PollFloorSensor \/ CarMoves \/ UNCHANGED vars
  BY <1>7 DEF PollFloorSensor, CarMoves, vars, Current, Agrees, Open
<1> QED BY <1>1, <1>2, <1>3, <1>4, <1>5, <1>6, <1>7 DEF Next

LEMMA CurrentInit == ASSUME Init, Door PROVE Current
  BY AgreesWithItself DEF Init, Door, Shape, Current

\* ReportIsCurrent for every number of floors: orders are completed from reports of
\* an open door, and such a report is the elevator's state, whatever was skipped.
THEOREM WorldviewIsToldTheTruth == Spec => []ReportIsCurrent
<1>1. Door /\ Current => ReportIsCurrent
  BY DEF Current, Agrees, Open, ReportIsCurrent
<1>2. Init => Door /\ Current
  BY DoorInit, CurrentInit
<1>3. Door /\ Current /\ [Next]_vars => Door' /\ Current'
  BY DoorNext, CurrentNext
<1> QED BY <1>1, <1>2, <1>3, PTL DEF Spec

-----------------------------------------------------------------------------
(* The obstruction. *)

LEMMA ClosingStep ==
  ASSUME Door, [Next]_vars, Open(elevator), ~Open(elevator')
  PROVE  ~obstruct /\ ~elevator.Error
<1>0. elevator \in State
  BY DEF Door, Shape
<1>1. ASSUME NEW e \in State, e.Behaviour = elevator.Behaviour,
             \/ openDoorAndClearCurrentFloor(e) \/ elevatorCanMove(e) \/ elevator' = e
      PROVE  FALSE
  BY <1>1, OpenDoorOpens DEF elevatorCanMove, Open
<1>2. CASE WorldviewToFSM
  <2>1. PICK new \in SUBSET (Int \X Button) : TakeRequests(new)
    BY <1>2 DEF WorldviewToFSM, kSubset, Request, Floor
  <2> DEFINE e == [elevator EXCEPT !.Requests = @ \cup new]
  <2>2. e \in State /\ e.Behaviour = elevator.Behaviour
    BY <1>0 DEF State
  <2>3. openDoorAndClearCurrentFloor(e) \/ elevatorCanMove(e) \/ elevator' = e
    BY <2>1 DEF TakeRequests, Store
  <2> HIDE DEF e
  <2> QED BY <1>1, <2>2, <2>3
<1>3. CASE DoorTimeout
  BY <1>3 DEF DoorTimeout
<1>4. CASE FloorTick
  <2>1. TickedState \in State /\ TickedState.Behaviour = elevator.Behaviour
    BY <1>0 DEF TickedState, updateErrorState, State
  <2>2. elevatorCanMove(TickedState) \/ elevator' = TickedState
    BY <1>4 DEF FloorTick, Store
  <2> QED BY <1>1, <2>1, <2>2
<1>5. CASE FloorSensor
  <2>1. PICK f \in sensor :
          \/ openDoorAndClearCurrentFloor(updateFloor(f, elevator))
          \/ elevatorCanMove(updateFloor(f, elevator))
          \/ elevator' = updateFloor(f, elevator)
    BY <1>5 DEF FloorSensor, Store
  <2>2. updateFloor(f, elevator) \in State /\ updateFloor(f, elevator).Behaviour = elevator.Behaviour
    BY <1>0 DEF updateFloor, Door, Shape, State, Direction
  <2> QED BY <1>1, <2>1, <2>2
<1>6. ASSUME NEW on \in BOOLEAN, ObstructionSwitch(on) PROVE FALSE
  <2>1. elevator' \in {elevator, updateErrorState(FALSE, elevator)}
    BY <1>6 DEF ObstructionSwitch, Store
  <2> QED BY <1>0, <2>1 DEF updateErrorState, State, Open
<1>7. CASE ErrorTimeout
  <2>1. elevator' = updateErrorState(TRUE, elevator)
    BY <1>7 DEF ErrorTimeout, Store
  <2> QED BY <1>0, <2>1 DEF updateErrorState, State, Open
<1>8. CASE PollFloorSensor \/ CarMoves \/ UNCHANGED vars
  BY <1>8 DEF PollFloorSensor, CarMoves, vars
<1> QED BY <1>2, <1>3, <1>4, <1>5, <1>6, <1>7, <1>8 DEF Next

\* ObstructedStaysOpen for every number of floors: no handler, the door's own timer
\* included, closes a door that is obstructed or whose elevator is in error.
THEOREM ObstructionHoldsTheDoor == Spec => ObstructedStaysOpen
<1>1. Door /\ [Next]_vars =>
        [elevator.Behaviour = "DoorOpen" /\ elevator'.Behaviour # "DoorOpen"
         => ~obstruct /\ ~elevator.Error]_vars
  BY ClosingStep DEF Open
<1> QED BY <1>1, DoorInit, DoorNext, PTL DEF Spec, ObstructedStaysOpen

-----------------------------------------------------------------------------
(* The car stays in its shaft, although the handlers know its place only     *)
(* from the sensor's last event.                                             *)
(*                                                                           *)
(* Between two floors the motor is not touched (elevatorCanMove reads the    *)
(* sensor, an open door is at a floor), so the car is next to the floor it   *)
(* left, in the motor's direction.  At a floor it is not driven on before    *)
(* the sensor's event is handled.  And the motor never drives it from the    *)
(* floor the elevator believes in to one that does not exist: a decision     *)
(* does not, and an arrival at the last floor stops it.                      *)

Obeys(m, e) == m # D_Stop => m = e.Dirn /\ e.Floor + m \in Floor

Shaft ==
    /\ TypeOK
    /\ Obeys(motor, elevator)
    /\ \A f \in sensor : f = GetFloor /\ prev = f
    /\ prev = GetFloor /\ sensor = {} => GetFloor \in {Between, elevator.Floor}
    /\ GetFloor = Between => motor # D_Stop /\ position = 2 * elevator.Floor + motor

\* What a handler leaves that worked on the state e.
Driven(e) ==
    /\ elevator' \in ElevatorState /\ elevator'.Floor = e.Floor
    /\ reported' \in ElevatorState
    /\ doorTimer' \in BOOLEAN
    /\ motor' \in Direction
    /\ Obeys(motor', elevator')
    /\ \A r \in e.Requests \ elevator'.Requests : r[1] = e.Floor /\ GetFloor # Between

-----------------------------------------------------------------------------
(* Floors and positions. *)

LEMMA FloorInt == Floor \subseteq Int /\ N_FLOORS \in Int /\ N_FLOORS >= 2
  BY FloorsAndBounds DEF Floor

LEMMA EvenPosition ==
  ASSUME NEW f \in Int PROVE (2 * f) % 2 = 0 /\ (2 * f) \div 2 = f
  OBVIOUS

LEMMA OddPosition ==
  ASSUME NEW f \in Int PROVE (2 * f + 1) % 2 = 1 /\ (2 * f - 1) % 2 = 1
  OBVIOUS

LEMMA HalfOfEven ==
  ASSUME NEW n \in Int, n % 2 = 0 PROVE n = 2 * (n \div 2) /\ n \div 2 \in Int
  OBVIOUS

LEMMA TwoSteps == ASSUME NEW f \in Int, NEW d \in Int PROVE (2 * f + d) + d = 2 * (f + d)
  OBVIOUS

LEMMA FloorOfPosition ==
  ASSUME NEW f \in Floor, position = 2 * f PROVE GetFloor = f
  BY FloorInt, EvenPosition DEF GetFloor

LEMMA PositionAtFloor ==
  ASSUME TypeOK, GetFloor # Between PROVE GetFloor \in Floor /\ position = 2 * GetFloor
<1>1. GetFloor = position \div 2 /\ position % 2 = 0
  BY DEF GetFloor
<1>2. position \in Int /\ 0 <= position /\ position <= 2 * (N_FLOORS - 1)
  BY FloorInt DEF TypeOK
<1>3. position = 2 * (position \div 2) /\ position \div 2 \in Int
  BY <1>1, <1>2, HalfOfEven
<1> HIDE DEF GetFloor
<1>4. 0 <= GetFloor /\ GetFloor <= N_FLOORS - 1 /\ GetFloor \in Int
  BY <1>1, <1>2, <1>3, FloorInt
<1> QED BY <1>1, <1>3, <1>4, FloorInt DEF Floor

-----------------------------------------------------------------------------
(* The handlers' common parts. *)

LEMMA OpenDoorDrives ==
  ASSUME NEW e \in ElevatorState, GetFloor # Between, openDoorAndClearCurrentFloor(e)
  PROVE  Driven(e)
<1> DEFINE cleared == clearAtCurrentFloor(e)
           open    == [cleared EXCEPT !.Behaviour = "DoorOpen"]
<1>1. /\ cleared \in ElevatorState /\ cleared.Floor = e.Floor
      /\ cleared.Requests = e.Requests \ ({e.Floor} \X Served(e))
  BY DEF clearAtCurrentFloor, ElevatorState
<1>2. /\ open \in ElevatorState /\ open.Floor = e.Floor
      /\ open.Requests = e.Requests \ ({e.Floor} \X Served(e))
  BY <1>1 DEF ElevatorState, Behaviour
<1>3. elevator' = open /\ reported' = open /\ motor' = D_Stop /\ doorTimer' = TRUE
  BY DEF openDoorAndClearCurrentFloor, Store
<1>4. \A r \in e.Requests \ open.Requests : r[1] = e.Floor
  BY <1>2
<1> HIDE DEF open
<1> QED BY <1>2, <1>3, <1>4 DEF Driven, Obeys, Direction

LEMMA PlanDrives ==
  ASSUME NEW e \in ElevatorState, NEW sent \in ElevatorState, GetFloor # Between,
         executeMovementPlan(e, sent)
  PROVE  Driven(e)
<1> DEFINE decision == chooseDirection(e)
<1>1. CASE decision = OpenDoor
  BY <1>1, OpenDoorDrives DEF executeMovementPlan
<1>2. CASE decision # OpenDoor
  <2>1. decision \in {Moving(D_Up), Moving(D_Down), Rest}
    BY <1>2 DEF chooseDirection
  <2> DEFINE db  == IF decision.Behaviour = "Moving" /\ e.Floor + decision.Dirn \notin Floor
                    THEN Rest ELSE decision
             new == [e EXCEPT !.Dirn = db.Dirn, !.Behaviour = db.Behaviour]
  <2>2. /\ db.Dirn \in Direction /\ db.Behaviour \in {"Moving", "Idle"}
        /\ db.Dirn # D_Stop => e.Floor + db.Dirn \in Floor
    BY <2>1 DEF Moving, Rest, Direction
  <2>3. elevator' = new /\ motor' = db.Dirn /\ doorTimer' = FALSE /\ reported' = IF new = e THEN sent ELSE new
    BY <1>2 DEF executeMovementPlan, applyDecision, Store
  <2> HIDE DEF db
  <2>4. /\ new \in ElevatorState /\ new.Floor = e.Floor
        /\ new.Dirn = db.Dirn /\ new.Requests = e.Requests
    BY <2>2 DEF ElevatorState, Behaviour
  <2> HIDE DEF new
  <2> QED BY <2>2, <2>3, <2>4 DEF Driven, Obeys
<1> QED BY <1>1, <1>2

LEMMA StoreDrives ==
  ASSUME Shaft, NEW e \in ElevatorState, Store(e, Sent(e)), doorTimer' = doorTimer,
         motor' \in Direction, Obeys(motor', e)
  PROVE  Driven(e)
  BY DEF Shaft, TypeOK, Store, Sent, Driven

LEMMA SentTyped == ASSUME Shaft, NEW e \in ElevatorState PROVE Sent(e) \in ElevatorState
  BY DEF Shaft, TypeOK, Sent

\* A handler that does not learn of a floor, and between two floors does not
\* touch the motor.
LEMMA DrivenInShaft ==
  ASSUME Shaft, NEW e, e.Floor = elevator.Floor, Driven(e),
         GetFloor # Between \/ motor' = motor, UNCHANGED <<position, poll>>,
         errorTimer' \in {"reset", "late", "expired"}, obstruct' \in BOOLEAN,
         budget' \in [{"press", "obstruct", "error"} -> Nat]
  PROVE  Shaft'
<1>1. GetFloor' = GetFloor
  BY DEF GetFloor
<1>2. TypeOK'
  BY DEF Shaft, TypeOK, Driven, poll
<1> QED BY <1>1, <1>2 DEF Shaft, Driven, poll

-----------------------------------------------------------------------------
(* The actions. *)

LEMMA ShaftInit == Init => Shaft
<1> SUFFICES ASSUME Init PROVE Shaft
  OBVIOUS
<1>1. PICK f \in Floor :
        /\ position = 2 * f
        /\ elevator = [Floor |-> f, Dirn |-> D_Stop, Behaviour |-> "Idle",
                       Requests |-> {}, Error |-> FALSE]
  BY DEF Init
<1>2. GetFloor = f /\ f # Between /\ elevator.Floor = f
  BY <1>1, FloorOfPosition DEF Floor, Between
<1>3. elevator \in ElevatorState
  BY <1>1 DEF ElevatorState, Direction, Behaviour
<1>4. position \in 0 .. 2 * (N_FLOORS - 1)
  BY <1>1, FloorInt DEF Floor
<1>5. budget \in [{"press", "obstruct", "error"} -> Nat]
  BY FloorsAndBounds DEF Init
<1>6. TypeOK
  BY <1>3, <1>4, <1>5 DEF Init, TypeOK, Direction
<1> QED BY <1>2, <1>6 DEF Init, Shaft, Obeys

LEMMA TakeRequestsDrives ==
  ASSUME Shaft, NEW new \in SUBSET Request, TakeRequests(new)
  PROVE  /\ Driven([elevator EXCEPT !.Requests = @ \cup new])
         /\ GetFloor # Between \/ motor' = motor
<1> DEFINE e == [elevator EXCEPT !.Requests = @ \cup new]
<1>1. e \in ElevatorState /\ e.Floor = elevator.Floor /\ e.Dirn = elevator.Dirn
  BY DEF Shaft, TypeOK, ElevatorState
<1>2. IF shouldServeCurrentFloor(e) THEN openDoorAndClearCurrentFloor(e)
      ELSE IF elevatorCanMove(e) THEN executeMovementPlan(e, reported)
      ELSE Store(e, Sent(e)) /\ UNCHANGED <<motor, doorTimer>>
  BY DEF TakeRequests
<1>3. Obeys(motor, e) /\ motor \in Direction /\ reported \in ElevatorState
  BY <1>1 DEF Shaft, TypeOK, Obeys
<1> HIDE DEF e
<1>4. CASE shouldServeCurrentFloor(e)
  BY <1>1, <1>2, <1>4, OpenDoorDrives DEF shouldServeCurrentFloor, e
<1>5. CASE ~shouldServeCurrentFloor(e) /\ elevatorCanMove(e)
  BY <1>1, <1>2, <1>3, <1>5, PlanDrives DEF elevatorCanMove, e
<1>6. CASE ~shouldServeCurrentFloor(e) /\ ~elevatorCanMove(e)
  <2>1. Store(e, Sent(e)) /\ motor' = motor /\ doorTimer' = doorTimer
    BY <1>2, <1>6
  <2>2. Driven(e)
    BY <1>1, <1>3, <2>1, StoreDrives
  <2> QED BY <2>1, <2>2 DEF e
<1> QED BY <1>4, <1>5, <1>6

LEMMA WorldviewInShaft == ASSUME Shaft, WorldviewToFSM PROVE Shaft'
<1>1. PICK k \in 0 .. budget.press, new \in SUBSET Request :
        TakeRequests(new) /\ budget' = [budget EXCEPT !.press = @ - k]
  BY DEF WorldviewToFSM, kSubset
<1> DEFINE e == [elevator EXCEPT !.Requests = @ \cup new]
<1>2. e.Floor = elevator.Floor
  BY DEF Shaft, TypeOK, ElevatorState
<1>3. budget' \in [{"press", "obstruct", "error"} -> Nat]
  <2>1. budget \in [{"press", "obstruct", "error"} -> Nat]
    BY DEF Shaft, TypeOK
  <2>2. budget.press - k \in Nat
    BY <2>1
  <2> QED BY <1>1, <2>1, <2>2
<1>4. Driven(e) /\ (GetFloor # Between \/ motor' = motor)
  BY <1>1, TakeRequestsDrives
<1>5. UNCHANGED <<position, poll, errorTimer, obstruct>>
  BY <1>1 DEF TakeRequests
<1> HIDE DEF e
<1> QED BY <1>2, <1>3, <1>4, <1>5, DrivenInShaft DEF Shaft, TypeOK

LEMMA TimeoutDrives ==
  ASSUME Shaft, Door, DoorTimeout, ~(obstruct \/ elevator.Error)
  PROVE  Driven(elevator) /\ GetFloor # Between
<1>1. elevator \in ElevatorState /\ reported \in ElevatorState
  BY DEF Shaft, TypeOK
<1>2. GetFloor # Between
  BY DEF DoorTimeout, Door, OpenDoorHasTimer, OpenDoorStandsStill
<1> QED BY <1>1, <1>2, OpenDoorDrives, PlanDrives DEF DoorTimeout

LEMMA TickDrives ==
  ASSUME Shaft, FloorTick
  PROVE  /\ TickedState \in ElevatorState /\ TickedState.Floor = elevator.Floor
         /\ TickedState.Requests = elevator.Requests
         /\ Driven(TickedState) /\ (GetFloor # Between \/ motor' = motor)
<1> DEFINE e == TickedState
<1>1. /\ e \in ElevatorState /\ e.Floor = elevator.Floor /\ e.Dirn = elevator.Dirn
      /\ e.Requests = elevator.Requests
  BY DEF Shaft, TypeOK, ElevatorState, TickedState, updateErrorState
<1>2. IF elevatorCanMove(e) THEN executeMovementPlan(e, Sent(e))
      ELSE Store(e, Sent(e)) /\ UNCHANGED <<motor, doorTimer>>
  BY DEF FloorTick
<1>3. Obeys(motor, e) /\ motor \in Direction
  BY <1>1 DEF Shaft, TypeOK, Obeys
<1> HIDE DEF e
<1>4. CASE elevatorCanMove(e)
  BY <1>1, <1>2, <1>4, PlanDrives, SentTyped DEF elevatorCanMove, e
<1>5. CASE ~elevatorCanMove(e)
  BY <1>1, <1>2, <1>3, <1>5, StoreDrives DEF e
<1> QED BY <1>1, <1>4, <1>5 DEF e

\* Arriving: the elevator learns where it is.
LEMMA SensorDrives ==
  ASSUME Shaft, FloorSensor
  PROVE  /\ GetFloor \in Floor /\ sensor' = {} /\ prev = GetFloor
         /\ Driven(updateFloor(GetFloor, elevator))
         /\ updateFloor(GetFloor, elevator).Floor = GetFloor
         /\ updateFloor(GetFloor, elevator).Requests = elevator.Requests
<1>1. PICK f \in sensor :
        /\ sensor' = {}
        /\ \/ openDoorAndClearCurrentFloor(updateFloor(f, elevator))
           \/ executeMovementPlan(updateFloor(f, elevator), Sent(updateFloor(f, elevator)))
           \/ /\ Store(updateFloor(f, elevator), Sent(updateFloor(f, elevator)))
              /\ motor' = IF StopsAtEnd(f, elevator) THEN D_Stop ELSE motor
              /\ UNCHANGED doorTimer
  BY DEF FloorSensor
<1>2. f = GetFloor /\ prev = f /\ f \in Floor /\ f # Between
  BY DEF Shaft, TypeOK, Floor, Between
<1> DEFINE e == updateFloor(f, elevator)
<1>3. elevator \in ElevatorState /\ motor \in Direction /\ Obeys(motor, elevator)
  BY DEF Shaft, TypeOK
<1>4. /\ e \in ElevatorState /\ e.Floor = f /\ e.Requests = elevator.Requests
      /\ e.Dirn = IF StopsAtEnd(f, elevator) THEN D_Stop ELSE elevator.Dirn
  BY <1>2, <1>3 DEF ElevatorState, updateFloor, Direction
<1>5. ASSUME motor # D_Stop, ~StopsAtEnd(f, elevator) PROVE f + motor \in Floor
  <2>1. motor = elevator.Dirn /\ elevator.Floor + motor \in Floor /\ elevator.Floor \in Floor
    BY <1>3, <1>5 DEF Obeys, ElevatorState
  <2>2. CASE elevator.Floor = f
    BY <2>1, <2>2
  <2>3. CASE elevator.Floor # f
    <3>1. motor = D_Up => f # N_FLOORS - 1
      BY <1>5, <2>1, <2>3 DEF StopsAtEnd
    <3>2. motor = D_Down => f # 0
      BY <1>5, <2>1, <2>3 DEF StopsAtEnd
    <3> QED BY <1>2, <1>3, <1>5, <3>1, <3>2, FloorInt DEF Direction, D_Up, D_Down, D_Stop, Floor
  <2> QED BY <2>2, <2>3
<1>6. ASSUME motor' = IF StopsAtEnd(f, elevator) THEN D_Stop ELSE motor
      PROVE  motor' \in Direction /\ Obeys(motor', e)
  BY <1>3, <1>4, <1>5, <1>6 DEF Obeys, Direction
<1> HIDE DEF e
<1>7. Driven(e)
  <2>1. CASE openDoorAndClearCurrentFloor(e)
    BY <1>2, <1>4, <2>1, OpenDoorDrives
  <2>2. CASE executeMovementPlan(e, Sent(e))
    BY <1>2, <1>4, <2>2, PlanDrives, SentTyped
  <2>3. CASE /\ Store(e, Sent(e)) /\ UNCHANGED doorTimer
             /\ motor' = IF StopsAtEnd(f, elevator) THEN D_Stop ELSE motor
    BY <1>4, <1>6, <2>3, StoreDrives
  <2> QED BY <1>1, <2>1, <2>2, <2>3 DEF e
<1> QED BY <1>1, <1>2, <1>4, <1>7 DEF e

LEMMA SensorInShaft == ASSUME Shaft, FloorSensor PROVE Shaft'
<1>1. UNCHANGED <<position, prev, errorTimer, obstruct, budget>>
  BY DEF FloorSensor
<1>2. GetFloor' = GetFloor /\ GetFloor # Between
  BY <1>1, SensorDrives DEF GetFloor, Floor, Between
<1>3. elevator'.Floor = GetFloor
  BY SensorDrives DEF Driven
<1>4. TypeOK'
  BY <1>1, SensorDrives DEF Shaft, TypeOK, Driven
<1>5. Obeys(motor', elevator')
  BY SensorDrives DEF Driven
<1> QED BY <1>1, <1>2, <1>3, <1>4, <1>5, SensorDrives DEF Shaft

LEMMA SpendTyped ==
  ASSUME Shaft, NEW event \in {"press", "obstruct", "error"}, Spend(event)
  PROVE  budget' \in [{"press", "obstruct", "error"} -> Nat]
  BY DEF Shaft, TypeOK, Spend

LEMMA ErrorInShaft ==
  ASSUME Shaft, NEW e \in {elevator, updateErrorState(FALSE, elevator), updateErrorState(TRUE, elevator)},
         Store(e, Sent(e)), UNCHANGED <<car, poll, doorTimer>>,
         errorTimer' \in {"reset", "late", "expired"}, obstruct' \in BOOLEAN,
         budget' \in [{"press", "obstruct", "error"} -> Nat]
  PROVE  Shaft'
<1>1. e \in ElevatorState /\ e.Floor = elevator.Floor /\ e.Dirn = elevator.Dirn
  BY DEF updateErrorState, Shaft, TypeOK, ElevatorState
<1>2. motor' \in Direction /\ Obeys(motor', e) /\ motor' = motor
  BY <1>1 DEF car, Shaft, TypeOK, Obeys
<1>3. Driven(e)
  BY <1>1, <1>2, StoreDrives
<1> QED BY <1>1, <1>2, <1>3, DrivenInShaft DEF car

LEMMA MovesInShaft == ASSUME Shaft, CarMoves PROVE Shaft'
<1>1. /\ motor # D_Stop /\ prev = GetFloor /\ sensor = {} /\ position' = position + motor
      /\ UNCHANGED <<motor, poll, elevator, reported, doorTimer, errorTimer, obstruct, budget>>
  BY DEF CarMoves
<1>2. /\ motor \in {D_Up, D_Down} /\ elevator.Floor + motor \in Floor /\ elevator.Floor \in Floor
      /\ position \in Int
  BY <1>1 DEF Shaft, TypeOK, Obeys, Direction, ElevatorState
<1>3. CASE GetFloor = Between
  <2>1. position = 2 * elevator.Floor + motor
    BY <1>3 DEF Shaft
  <2>2. position' = 2 * (elevator.Floor + motor)
    <3>1. elevator.Floor \in Int /\ motor \in Int
      <4>1. elevator.Floor \in Int
        BY <1>2, FloorInt, Zenon
      <4>2. motor \in Int
        BY <1>2 DEF D_Up, D_Down
      <4> QED BY <4>1, <4>2
    <3>2. position' = (2 * elevator.Floor + motor) + motor
      BY <1>1, <2>1
    <3> QED BY <3>1, <3>2, TwoSteps
  <2>3. GetFloor' = elevator.Floor + motor
    BY <1>2, <2>2, FloorInt, EvenPosition DEF GetFloor
  <2>4. GetFloor' # Between
    BY <1>2, <2>3 DEF Floor, Between
  <2>5. position' \in 0 .. 2 * (N_FLOORS - 1)
    BY <1>2, <2>2, FloorInt DEF Floor
  <2>6. TypeOK'
    BY <1>1, <2>5 DEF Shaft, TypeOK, poll
  <2> QED BY <1>1, <1>3, <2>4, <2>6 DEF Shaft, poll
<1>4. CASE GetFloor # Between
  <2>1. elevator.Floor = GetFloor
    BY <1>1, <1>4 DEF Shaft
  <2>2. position = 2 * elevator.Floor
    BY <1>4, <2>1, PositionAtFloor DEF Shaft
  <2>3. position' = 2 * elevator.Floor + motor
    BY <1>1, <2>2
  <2>4. GetFloor' = Between
    <3>1. position' = 2 * elevator.Floor + 1 \/ position' = 2 * elevator.Floor - 1
      BY <1>2, <2>3, FloorInt DEF D_Up, D_Down
    <3>2. position' % 2 = 1
      BY <1>2, <3>1, FloorInt, OddPosition
    <3> QED BY <3>2 DEF GetFloor
  <2>5. position' \in 0 .. 2 * (N_FLOORS - 1)
    BY <1>2, <2>3, FloorInt DEF Floor, D_Up, D_Down
  <2>6. TypeOK'
    BY <1>1, <2>5 DEF Shaft, TypeOK, poll
  <2> QED BY <1>1, <2>3, <2>4, <2>6 DEF Shaft, poll
<1> QED BY <1>3, <1>4

LEMMA ShaftNext == ASSUME Shaft, Door, [Next]_vars PROVE Shaft'
<1>1. CASE WorldviewToFSM
  BY <1>1, WorldviewInShaft
<1>2. CASE DoorTimeout
  <2>1. UNCHANGED <<position, poll, errorTimer, obstruct, budget>>
    BY <1>2 DEF DoorTimeout
  <2>2. CASE obstruct \/ elevator.Error
    BY <1>2, <2>1, <2>2 DEF DoorTimeout, Shaft, TypeOK, GetFloor, poll
  <2>3. CASE ~(obstruct \/ elevator.Error)
    BY <1>2, <2>1, <2>3, TimeoutDrives, DrivenInShaft DEF Shaft, TypeOK
  <2> QED BY <2>2, <2>3
<1>3. CASE FloorTick
  <2>1. UNCHANGED <<position, poll, obstruct, budget>> /\ errorTimer' \in {"reset", "late", "expired"}
    BY <1>3 DEF FloorTick, Shaft, TypeOK
  <2> QED BY <1>3, <2>1, TickDrives, DrivenInShaft DEF Shaft, TypeOK
<1>4. CASE FloorSensor
  BY <1>4, SensorInShaft
<1>5. ASSUME NEW on \in BOOLEAN, ObstructionSwitch(on) PROVE Shaft'
  <2>1. /\ budget' \in [{"press", "obstruct", "error"} -> Nat] /\ obstruct' \in BOOLEAN
        /\ errorTimer' \in {"reset", "late", "expired"}
    BY <1>5, SpendTyped DEF ObstructionSwitch, Shaft, TypeOK
  <2> QED BY <1>5, <2>1, ErrorInShaft DEF ObstructionSwitch
<1>6. CASE ErrorTimeout
  <2>1. /\ budget' \in [{"press", "obstruct", "error"} -> Nat] /\ obstruct' \in BOOLEAN
        /\ errorTimer' \in {"reset", "late", "expired"}
    BY <1>6, SpendTyped DEF ErrorTimeout, Shaft, TypeOK
  <2> QED BY <1>6, <2>1, ErrorInShaft DEF ErrorTimeout
<1>7. CASE PollFloorSensor
  <2>1. /\ GetFloor' = GetFloor /\ prev' = GetFloor /\ sensor' = {GetFloor} \ {Between}
        /\ UNCHANGED <<car, elevator, reported, doorTimer, errorTimer, obstruct, budget>>
    BY <1>7 DEF PollFloorSensor, GetFloor, car
  <2>2. GetFloor \in Floor \cup {Between}
    BY PositionAtFloor DEF Shaft
  <2>3. TypeOK'
    BY <2>1, <2>2 DEF Shaft, TypeOK, car
  <2> QED BY <2>1, <2>2, <2>3 DEF Shaft, car
<1>8. CASE CarMoves
  BY <1>8, MovesInShaft
<1>9. CASE UNCHANGED vars
  BY <1>9 DEF vars, car, poll, Shaft, TypeOK, GetFloor, Obeys
<1> QED BY <1>1, <1>2, <1>3, <1>4, <1>5, <1>6, <1>7, <1>8, <1>9 DEF Next

LEMMA DoorAndShaft == Spec => [](Door /\ Shaft)
<1>1. Init => Door /\ Shaft
  BY DoorInit, ShaftInit
<1>2. Door /\ Shaft /\ [Next]_vars => Door' /\ Shaft'
  BY DoorNext, ShaftNext
<1> QED BY <1>1, <1>2, PTL DEF Spec

\* TypeOK for every number of floors: above all, the car never leaves the shaft.
THEOREM CarStaysInShaft == Spec => []TypeOK
<1>1. Shaft => TypeOK
  BY DEF Shaft
<1> QED BY <1>1, DoorAndShaft, PTL

-----------------------------------------------------------------------------
\* An elevator that is not waiting for its sensor knows the floor it is at.
LEMMA KnowsTheFloor ==
  ASSUME Shaft, GetFloor # Between
  PROVE  elevator.Floor = GetFloor \/ prev # GetFloor \/ sensor = {GetFloor}
<1>1. CASE sensor = {}
  BY <1>1 DEF Shaft
<1>2. CASE sensor # {}
  BY <1>2 DEF Shaft
<1> QED BY <1>1, <1>2

LEMMA ServingStep ==
  ASSUME Door, Shaft, [Next]_vars, NEW r \in elevator.Requests \ elevator'.Requests
  PROVE  r[1] = GetFloor \/ prev # GetFloor \/ sensor = {GetFloor}
<1>1. ASSUME NEW e, e.Floor = elevator.Floor, Driven(e), elevator.Requests \subseteq e.Requests
      PROVE  r[1] = GetFloor \/ prev # GetFloor \/ sensor = {GetFloor}
  BY <1>1, KnowsTheFloor DEF Driven
<1>2. CASE WorldviewToFSM
  <2>1. PICK new \in SUBSET Request : TakeRequests(new)
    BY <1>2 DEF WorldviewToFSM, kSubset
  <2> DEFINE e == [elevator EXCEPT !.Requests = @ \cup new]
  <2>2. e.Floor = elevator.Floor /\ elevator.Requests \subseteq e.Requests
    BY DEF Shaft, TypeOK, ElevatorState
  <2>3. Driven(e)
    BY <2>1, TakeRequestsDrives
  <2> HIDE DEF e
  <2> QED BY <1>1, <2>2, <2>3
<1>3. CASE DoorTimeout
  <2>1. CASE obstruct \/ elevator.Error
    BY <1>3, <2>1 DEF DoorTimeout
  <2>2. CASE ~(obstruct \/ elevator.Error)
    BY <1>1, <1>3, <2>2, TimeoutDrives
  <2> QED BY <2>1, <2>2
<1>4. CASE FloorTick
  BY <1>1, <1>4, TickDrives
<1>5. CASE FloorSensor
  BY <1>5, SensorDrives DEF Driven
<1>6. CASE (\E on \in BOOLEAN : ObstructionSwitch(on)) \/ ErrorTimeout
  <2>1. elevator' \in {elevator, updateErrorState(FALSE, elevator), updateErrorState(TRUE, elevator)}
    BY <1>6 DEF ObstructionSwitch, ErrorTimeout, Store
  <2> QED BY <2>1 DEF updateErrorState, Shaft, TypeOK, ElevatorState
<1>7. CASE PollFloorSensor \/ CarMoves \/ UNCHANGED vars
  BY <1>7 DEF PollFloorSensor, CarMoves, vars
<1> QED BY <1>2, <1>3, <1>4, <1>5, <1>6, <1>7 DEF Next

\* ServedWhereTheCarIs for every number of floors: passengers are only taken off
\* the list where the car is, or an event of the sensor is still to be handled.
THEOREM ServedAtTheCarsFloor == Spec => ServedWhereTheCarIs
<1>1. Door /\ Shaft /\ [Next]_vars =>
        [\A r \in elevator.Requests \ elevator'.Requests :
            r[1] = GetFloor \/ prev # GetFloor \/ sensor = {GetFloor}]_vars
  BY ServingStep
<1> QED BY <1>1, DoorAndShaft, PTL DEF Spec, ServedWhereTheCarIs
=============================================================================

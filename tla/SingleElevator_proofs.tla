------------------------ MODULE SingleElevator_proofs ------------------------
(***************************************************************************)
(* The door and the motor of the first version, for every number of floors *)
(* and whatever the passengers do.  The stop button and the obstruction    *)
(* switch stop the motor and leave the behaviour: the invariant says which *)
(* of the two may disagree, and since when.                                *)
(***************************************************************************)
EXTENDS SingleElevator, TLAPS

Elevator == [floor : Int, dirn : Direction, behaviour : Behaviour, requests : SUBSET (Int \X Button)]

Typed ==
    /\ position \in Int
    /\ motor \in Direction /\ doorLight \in BOOLEAN
    /\ prevStop \in BOOLEAN /\ prevObstruction \in BOOLEAN
    /\ e \in Elevator
    /\ timer \in {"off", "running", "over"}
    /\ budget \in [{"press", "stop", "obstruct"} -> Nat] /\ budget.stop <= MaxStop

Agree ==
    /\ MotorObeys
    /\ phase # "stop" => ~prevStop
    /\ prevStop => motor = D_Stop /\ budget.stop # MaxStop
    /\ e.behaviour = "Moving" /\ ~prevStop => e.dirn # D_Stop

DoorAgrees ==
    /\ doorLight <=> e.behaviour = "DoorOpen"
    /\ doorLight => e.floor # Between
    /\ doorLight => timer # "off" \/ prevStop
    /\ e.behaviour # "Moving" => elevator_floorSensor # Between \/ budget.stop # MaxStop

Safe == Typed /\ Agree /\ DoorAgrees

\* What an event of fsm.go leaves.
Handled ==
    /\ motor' \in Direction /\ doorLight' \in BOOLEAN /\ timer' \in {"off", "running", "over"}
    /\ e' \in Elevator
    /\ motor' # D_Stop => e'.behaviour = "Moving" /\ motor' = e'.dirn
    /\ e'.behaviour = "Moving" => e'.dirn # D_Stop
    /\ e'.behaviour = "Moving" /\ motor' = D_Stop => prevObstruction
    /\ doorLight' <=> e'.behaviour = "DoorOpen"
    /\ doorLight' => e'.floor # Between /\ timer' # "off"
    /\ e'.behaviour # "Moving" => elevator_floorSensor # Between \/ budget.stop # MaxStop

LEMMA HandledIsSafe ==
  ASSUME Safe, Handled, ~prevStop, UNCHANGED <<position, prevStop, prevObstruction>>,
         budget' \in [{"press", "stop", "obstruct"} -> Nat], budget'.stop = budget.stop
  PROVE  Safe'
<1>1. elevator_floorSensor' = elevator_floorSensor
  BY DEF elevator_floorSensor
<1>2. Typed'
  BY DEF Safe, Typed, Handled
<1>3. Agree' /\ DoorAgrees'
  BY <1>1 DEF Handled, Agree, DoorAgrees, MotorObeys
<1> QED BY <1>2, <1>3 DEF Safe

LEMMA ChooseDirection ==
  ASSUME NEW s, s.dirn \in Direction
  PROVE  /\ requests_chooseDirection(s).dirn \in Direction
         /\ requests_chooseDirection(s).behaviour \in Behaviour
         /\ requests_chooseDirection(s).behaviour = "Moving" => requests_chooseDirection(s).dirn # D_Stop
         /\ requests_chooseDirection(s).behaviour = "Idle" => requests_chooseDirection(s).dirn = D_Stop
<1>1. -s.dirn \in Direction /\ (s.dirn # D_Stop => -s.dirn # D_Stop)
  BY DEF Direction, D_Up, D_Down, D_Stop
<1>2. \/ /\ s.dirn # D_Stop
         /\ requests_chooseDirection(s) \in
              {Pair(s.dirn, "Moving"), Pair(-s.dirn, "DoorOpen"), Pair(-s.dirn, "Moving"), Pair(D_Stop, "Idle")}
      \/ requests_chooseDirection(s) \in
           {Pair(D_Stop, "DoorOpen"), Pair(D_Up, "Moving"), Pair(D_Down, "Moving"), Pair(D_Stop, "Idle")}
  BY DEF requests_chooseDirection
<1> QED BY <1>1, <1>2 DEF Pair, Direction, Behaviour, D_Up, D_Down, D_Stop

LEMMA ClearAtFloor ==
  ASSUME NEW s \in Elevator
  PROVE  LET c == requests_clearAtCurrentFloor(s)
         IN  c \in Elevator /\ c.floor = s.floor /\ c.dirn = s.dirn /\ c.behaviour = s.behaviour
  BY DEF requests_clearAtCurrentFloor, Elevator

LEMMA SensorInt == ASSUME NEW n \in Int PROVE n \div 2 \in Int
  OBVIOUS

LEMMA SafeInit == Init => Safe
<1> SUFFICES ASSUME Init PROVE Safe
  OBVIOUS
<1> DEFINE between == elevator_floorSensor = Between
<1>1. /\ position \in Int /\ budget \in [{"press", "stop", "obstruct"} -> Nat]
      /\ budget.stop = MaxStop /\ MaxStop \in Nat
  BY LoopConstants DEF Init
<1>2. /\ motor = IF between THEN D_Down ELSE D_Stop
      /\ e = [floor |-> Between, dirn |-> motor, requests |-> {},
              behaviour |-> IF between THEN "Moving" ELSE "Idle"]
  BY DEF Init
<1>3. motor \in Direction /\ e \in Elevator
  BY <1>2 DEF Direction, Elevator, Behaviour, Between
<1>4. e.dirn = motor /\ e.behaviour = IF between THEN "Moving" ELSE "Idle"
  BY <1>2
<1>5. Typed
  <2>1. budget.stop <= MaxStop
    BY <1>1
  <2>2. doorLight \in BOOLEAN /\ prevStop \in BOOLEAN /\ prevObstruction \in BOOLEAN
        /\ timer \in {"off", "running", "over"}
    BY DEF Init
  <2> QED BY <1>1, <1>3, <2>1, <2>2 DEF Typed
<1>6. Agree /\ DoorAgrees
  BY <1>2, <1>4 DEF Init, Agree, DoorAgrees, MotorObeys, D_Down, D_Stop
<1> QED BY <1>5, <1>6 DEF Safe

LEMMA PressHandles ==
  ASSUME Safe, ~prevStop, ~Panics, NEW r \in Request, FsmOnRequestButtonPress(r)
  PROVE  Handled
<1> DEFINE asked == [e EXCEPT !.requests = @ \cup {r}]
           pair  == requests_chooseDirection(asked)
           next  == [asked EXCEPT !.dirn = pair.dirn, !.behaviour = pair.behaviour]
           opens == next.behaviour = "DoorOpen"
<1>1. /\ asked \in Elevator
      /\ asked.floor = e.floor /\ asked.dirn = e.dirn /\ asked.behaviour = e.behaviour
  BY DEF Safe, Typed, Elevator, Request, Floor
<1>2. /\ pair.dirn \in Direction /\ pair.behaviour \in Behaviour
      /\ pair.behaviour = "Moving" => pair.dirn # D_Stop
  BY <1>1, ChooseDirection DEF Elevator
<1> HIDE DEF asked, pair
<1>3. next \in Elevator /\ next.floor = e.floor /\ next.dirn = pair.dirn /\ next.behaviour = pair.behaviour
  BY <1>1, <1>2 DEF Elevator
<1> HIDE DEF next
<1>4. CASE e.behaviour = "DoorOpen" /\ UNCHANGED <<e, motor, doorLight>> /\ timer' = "running"
  BY <1>4 DEF Safe, Typed, Agree, DoorAgrees, MotorObeys, Handled
<1>5. CASE e.behaviour # "Idle" /\ e' = asked /\ UNCHANGED <<motor, doorLight, timer>>
  BY <1>1, <1>5 DEF Safe, Typed, Agree, DoorAgrees, MotorObeys, Handled
<1>6. CASE /\ e.behaviour = "Idle"
           /\ e' = IF opens THEN requests_clearAtCurrentFloor(next) ELSE next
           /\ motor' = IF next.behaviour = "Moving" THEN next.dirn ELSE motor
           /\ doorLight' = (doorLight \/ opens)
           /\ timer' = IF opens THEN "running" ELSE timer
  <2>1. ~doorLight /\ motor = D_Stop /\ e.floor # Between
    BY <1>6 DEF Panics, Safe, Agree, DoorAgrees, MotorObeys
  <2>2. /\ e' \in Elevator /\ e'.floor = e.floor /\ e'.dirn = pair.dirn
        /\ e'.behaviour = pair.behaviour
    BY <1>3, <1>6, ClearAtFloor
  <2> QED BY <1>2, <1>3, <1>6, <2>1, <2>2 DEF Safe, Typed, DoorAgrees, Handled
<1> QED BY <1>4, <1>5, <1>6 DEF FsmOnRequestButtonPress, asked, pair, next

LEMMA ArrivalHandles ==
  ASSUME Safe, ~prevStop, elevator_floorSensor # Between, FsmOnFloorArrival(elevator_floorSensor)
  PROVE  Handled
<1> DEFINE s == [e EXCEPT !.floor = elevator_floorSensor]
<1>1. elevator_floorSensor \in Int
  BY SensorInt DEF elevator_floorSensor, Between, Safe, Typed
<1>2. /\ s \in Elevator /\ s.floor = elevator_floorSensor
      /\ s.dirn = e.dirn /\ s.behaviour = e.behaviour
  BY <1>1 DEF Safe, Typed, Elevator
<1> HIDE DEF s
<1>3. CASE /\ motor' = D_Stop /\ doorLight' = TRUE /\ timer' = "running"
           /\ e' = [requests_clearAtCurrentFloor(s) EXCEPT !.behaviour = "DoorOpen"]
  <2>1. e' \in Elevator /\ e'.floor = elevator_floorSensor /\ e'.behaviour = "DoorOpen"
    BY <1>2, <1>3, ClearAtFloor DEF Elevator, Behaviour
  <2> QED BY <1>3, <2>1 DEF Handled, Direction
<1>4. CASE e' = s /\ UNCHANGED <<motor, doorLight, timer>>
  BY <1>2, <1>4 DEF Safe, Typed, Agree, DoorAgrees, MotorObeys, Handled
<1> QED BY <1>3, <1>4 DEF FsmOnFloorArrival, s

LEMMA TimeoutHandles == ASSUME Safe, ~prevStop, FsmOnDoorTimeout PROVE Handled
<1> DEFINE pair == requests_chooseDirection(e)
           next == [e EXCEPT !.dirn = pair.dirn, !.behaviour = pair.behaviour]
<1>1. CASE e.behaviour # "DoorOpen" /\ timer' = "off" /\ UNCHANGED <<e, motor, doorLight>>
  BY <1>1 DEF Safe, Typed, Agree, DoorAgrees, MotorObeys, Handled
<1>2. /\ pair.dirn \in Direction /\ pair.behaviour \in Behaviour
      /\ pair.behaviour = "Moving" => pair.dirn # D_Stop
      /\ pair.behaviour = "Idle" => pair.dirn = D_Stop
  BY ChooseDirection DEF Safe, Typed, Elevator
<1> HIDE DEF pair
<1>3. next \in Elevator /\ next.floor = e.floor /\ next.dirn = pair.dirn /\ next.behaviour = pair.behaviour
  BY <1>2 DEF Safe, Typed, Elevator
<1> HIDE DEF next
<1>4. CASE /\ e.behaviour = "DoorOpen" /\ next.behaviour = "DoorOpen" /\ timer' = "running"
           /\ e' = requests_clearAtCurrentFloor(next) /\ UNCHANGED <<motor, doorLight>>
  <2>1. e' \in Elevator /\ e'.floor = e.floor /\ e'.behaviour = "DoorOpen"
    BY <1>3, <1>4, ClearAtFloor
  <2> QED BY <1>4, <2>1 DEF Safe, Typed, Agree, DoorAgrees, MotorObeys, Handled
<1>5. CASE /\ e.behaviour = "DoorOpen" /\ next.behaviour # "DoorOpen" /\ timer' = "off"
           /\ e' = next /\ doorLight' = FALSE /\ motor' = next.dirn
  BY <1>2, <1>3, <1>5 DEF Safe, DoorAgrees, Handled, Behaviour
<1> QED BY <1>1, <1>4, <1>5 DEF FsmOnDoorTimeout, pair, next

LEMMA NothingHandled ==
  ASSUME Safe, ~prevStop, UNCHANGED <<e, motor, doorLight, timer>> PROVE Handled
  BY DEF Safe, Typed, Agree, DoorAgrees, MotorObeys, Handled

LEMMA SafeNext == Safe /\ [Next]_vars => Safe'
<1> SUFFICES ASSUME Safe, [Next]_vars PROVE Safe'
  OBVIOUS
<1>1. CASE StopPressed
  <2>1. budget'.stop < MaxStop /\ budget' \in [{"press", "stop", "obstruct"} -> Nat]
    BY <1>1, LoopConstants DEF StopPressed, Spend, Safe, Typed
  <2>2. /\ e' \in Elevator /\ e'.floor = e.floor /\ e'.behaviour = e.behaviour
        /\ motor' = D_Stop /\ prevStop' = TRUE /\ timer' = "off" /\ phase' = phase
        /\ UNCHANGED <<position, doorLight, prevObstruction>>
    BY <1>1 DEF StopPressed, Safe, Typed, Elevator, Direction
  <2>3. Typed'
    BY <2>1, <2>2, LoopConstants DEF Safe, Typed, Direction
  <2>4. phase' = "stop" /\ budget'.stop # MaxStop
    BY <1>1, <2>1, <2>2, LoopConstants DEF StopPressed
  <2> QED BY <2>2, <2>3, <2>4 DEF Safe, Agree, DoorAgrees, MotorObeys
<1>2. CASE StopReleased
  <2>1. /\ prevStop' = FALSE /\ UNCHANGED <<position, prevObstruction, budget>>
        /\ IF e.floor # Between THEN openAnywhere ELSE FsmOnInitBetweenFloors
    BY <1>2 DEF StopReleased
  <2>2. motor = D_Stop /\ budget.stop \in Nat
    BY <1>2 DEF StopReleased, Safe, Typed, Agree
  <2>3. elevator_floorSensor' = elevator_floorSensor
    BY <2>1 DEF elevator_floorSensor
  <2>4. CASE e.floor # Between /\ openAnywhere
    <3>1. /\ e' \in Elevator /\ e'.floor = e.floor /\ e'.behaviour = "DoorOpen"
          /\ doorLight' = TRUE /\ timer' = "running" /\ motor' = motor
      BY <2>4 DEF openAnywhere, Safe, Typed, Elevator, Behaviour
    <3>2. Typed'
      BY <2>1, <3>1 DEF Safe, Typed
    <3>3. elevator_floorSensor # Between \/ budget.stop # MaxStop
      BY <1>2 DEF StopReleased, Safe, Agree
    <3> QED BY <2>1, <2>2, <2>3, <2>4, <3>1, <3>2, <3>3 DEF Safe, Agree, DoorAgrees, MotorObeys
  <2>5. CASE e.floor = Between /\ FsmOnInitBetweenFloors
    <3>1. /\ e' \in Elevator /\ e'.floor = e.floor /\ e'.behaviour = "Moving"
          /\ e'.dirn = D_Down /\ motor' = D_Down /\ doorLight' = doorLight /\ timer' = timer
      BY <2>5 DEF FsmOnInitBetweenFloors, Safe, Typed, Elevator, Behaviour, Direction
    <3>2. ~doorLight /\ D_Down \in Direction /\ D_Down # D_Stop
      BY <2>5 DEF Safe, DoorAgrees, Direction, D_Down, D_Stop
    <3>3. Typed'
      BY <2>1, <3>1, <3>2 DEF Safe, Typed
    <3> QED BY <2>1, <3>1, <3>2, <3>3 DEF Safe, Agree, DoorAgrees, MotorObeys
  <2> QED BY <2>1, <2>4, <2>5
<1>3. CASE StopNotPressed
  <2>1. /\ ~prevStop /\ UNCHANGED <<position, prevStop, prevObstruction, budget>>
        /\ UNCHANGED <<e, motor, doorLight, timer>>
    BY <1>3 DEF StopNotPressed, previous
  <2>2. budget' \in [{"press", "stop", "obstruct"} -> Nat] /\ budget'.stop = budget.stop
    BY <2>1 DEF Safe, Typed
  <2>3. Handled
    BY <2>1, NothingHandled
  <2> QED BY <2>1, <2>2, <2>3, HandledIsSafe
<1>4. ASSUME NEW obstruction \in BOOLEAN, PollObstruction(obstruction) PROVE Safe'
  <2>1. budget' \in [{"press", "stop", "obstruct"} -> Nat] /\ budget'.stop = budget.stop
    BY <1>4 DEF PollObstruction, Spend, Safe, Typed
  <2>2. /\ ~prevStop /\ UNCHANGED <<position, prevStop, e, doorLight, timer>>
        /\ prevObstruction' = obstruction
        /\ motor' = IF obstruction = prevObstruction THEN motor ELSE motorAfter(obstruction)
    BY <1>4 DEF PollObstruction, Safe, Agree
  <2>3. elevator_floorSensor' = elevator_floorSensor
    BY <2>2 DEF elevator_floorSensor
  <2>4. /\ motor' \in Direction
        /\ motor' # D_Stop => e.behaviour = "Moving" /\ motor' = e.dirn
        /\ e.behaviour = "Moving" /\ motor' = D_Stop => obstruction
    BY <2>2 DEF motorAfter, Safe, Typed, Elevator, Agree, MotorObeys, Direction
  <2>5. Typed'
    BY <2>1, <2>2, <2>4 DEF Safe, Typed
  <2> QED BY <2>1, <2>2, <2>3, <2>4, <2>5 DEF Safe, Agree, DoorAgrees, MotorObeys
<1>5. ASSUME NEW r \in Request, PollButton(r) PROVE Safe'
  <2>1. budget' \in [{"press", "stop", "obstruct"} -> Nat] /\ budget'.stop = budget.stop
    BY <1>5 DEF PollButton, Spend, Safe, Typed
  <2>2. ~prevStop
    BY <1>5 DEF PollButton, Safe, Agree
  <2>3. Handled
    BY <1>5, <2>2, PressHandles, NothingHandled DEF PollButton
  <2> QED BY <1>5, <2>1, <2>2, <2>3, HandledIsSafe DEF PollButton, previous
<1>6. CASE ButtonsPolled
  BY <1>6, NothingHandled, HandledIsSafe DEF ButtonsPolled, previous, Safe, Typed, Agree
<1>7. CASE PollFloor
  <2>1. ~prevStop /\ UNCHANGED <<position, prevStop, prevObstruction, budget>>
    BY <1>7 DEF PollFloor, Safe, Agree
  <2>2. Handled
    BY <1>7, <2>1, ArrivalHandles, NothingHandled DEF PollFloor
  <2> QED BY <2>1, <2>2, HandledIsSafe DEF Safe, Typed
<1>8. CASE PollTimer
  <2>1. ~prevStop /\ UNCHANGED <<position, prevStop, prevObstruction, budget>>
    BY <1>8 DEF PollTimer, previous, Safe, Agree
  <2>2. ASSUME timer' = "running", UNCHANGED <<e, motor, doorLight>> PROVE Handled
    BY <2>1, <2>2 DEF Safe, Typed, Agree, DoorAgrees, MotorObeys, Handled
  <2>3. Handled
    BY <1>8, <2>1, <2>2, TimeoutHandles, NothingHandled DEF PollTimer
  <2> QED BY <2>1, <2>3, HandledIsSafe DEF Safe, Typed
<1>9. CASE TimerTimedOut
  BY <1>9 DEF TimerTimedOut, previous, Safe, Typed, Agree, DoorAgrees, MotorObeys, elevator_floorSensor
<1>10. CASE CarMoves
  <2>1. e.behaviour = "Moving" /\ position' \in Int
    BY <1>10 DEF CarMoves, Safe, Typed, Agree, MotorObeys, Direction, D_Up, D_Down, D_Stop
  <2> QED BY <1>10, <2>1 DEF CarMoves, previous, Safe, Typed, Agree, DoorAgrees, MotorObeys
<1>11. CASE UNCHANGED vars
  BY <1>11 DEF vars, previous, Safe, Typed, Agree, DoorAgrees, MotorObeys, elevator_floorSensor
<1> QED BY <1>1, <1>2, <1>3, <1>4, <1>5, <1>6, <1>7, <1>8, <1>9, <1>10, <1>11 DEF Next, Loop

LEMMA AlwaysSafe == Init /\ [][Next]_vars => []Safe
  BY SafeInit, SafeNext, PTL

\* MotorObeys for every number of floors: the motor runs for a moving elevator only,
\* in its direction, and stands only for the obstruction or the stop button.
THEOREM MotorFollowsElevator == LiveSpec => []MotorObeys
<1>1. Safe => MotorObeys
  BY DEF Safe, Agree
<1> QED BY <1>1, AlwaysSafe, PTL DEF LiveSpec

\* OpenDoorIsSafe for every number of floors: an open door has a standing car, which
\* is at a floor unless the stop button was used, and a timer that will close it.
THEOREM DoorIsSafe == LiveSpec => []OpenDoorIsSafe
<1>1. Safe => OpenDoorIsSafe
  BY DEF Safe, Agree, DoorAgrees, MotorObeys, OpenDoorIsSafe
<1> QED BY <1>1, AlwaysSafe, PTL DEF LiveSpec

-----------------------------------------------------------------------------
(* The shaft.  How far the car can be from the floor the elevator knows, and *)
(* that a moving elevator has a reason to go on.                             *)

Bounds ==
    /\ position   \in 0 .. 2 * (N_FLOORS - 1)
    /\ prevFloor  \in Floor \cup {Between}
    /\ e.floor    \in Floor \cup {Between}
    /\ e.requests \in SUBSET Request
    /\ phase      \in Phase \cup {"panic"}

\* The car is next to the floor of the elevator, unless it moved after the last poll.
Near ==
    e.floor # Between =>
        /\ position \in 2 * e.floor - 2 .. 2 * e.floor + 2
        /\ prevFloor = elevator_floorSensor => position \in 2 * e.floor - 1 .. 2 * e.floor + 1

\* An elevator that has not seen a floor yet only goes down.
Lost ==
    e.floor = Between =>
        /\ prevFloor = Between
        /\ e.behaviour = "Moving" /\ ~prevStop => e.dirn = D_Down

Heading == e.behaviour = "Moving" /\ ~prevStop /\ e.floor # Between => Beyond(e, e.dirn)

Shaft == Bounds /\ Near /\ Lost /\ Heading

LEMMA Sensor ==
  ASSUME NEW p \in 0 .. 2 * (N_FLOORS - 1)
  PROVE  LET s == IF p % 2 = 0 THEN p \div 2 ELSE Between
         IN  /\ s \in Floor \cup {Between}
             /\ s # Between <=> p % 2 = 0
             /\ s # Between => p = 2 * s
<1>1. N_FLOORS \in Nat /\ N_FLOORS > 1
  BY LoopConstants
<1>2. CASE p % 2 = 0
  <2>1. p \div 2 \in Int /\ p = 2 * (p \div 2)
    BY <1>1, <1>2
  <2>2. p \div 2 \in 0 .. N_FLOORS - 1
    BY <1>1, <2>1
  <2> QED BY <1>2, <2>1, <2>2 DEF Floor, Between
<1>3. CASE p % 2 # 0
  BY <1>3
<1> QED BY <1>2, <1>3

LEMMA ChooseHeads ==
  ASSUME NEW s, s.dirn \in Direction, requests_chooseDirection(s).behaviour = "Moving"
  PROVE  Beyond(s, requests_chooseDirection(s).dirn)
<1> DEFINE pair == requests_chooseDirection(s)
<1>1. \/ pair.behaviour # "Moving"
      \/ pair = Pair(s.dirn, "Moving") /\ Beyond(s, s.dirn)
      \/ pair = Pair(-s.dirn, "Moving") /\ Beyond(s, -s.dirn)
      \/ pair = Pair(D_Up, "Moving") /\ Beyond(s, D_Up)
      \/ pair = Pair(D_Down, "Moving") /\ Beyond(s, D_Down)
  <2>1. pair \in {Pair(-s.dirn, "DoorOpen"), Pair(D_Stop, "DoorOpen"), Pair(D_Stop, "Idle")} => pair.behaviour # "Moving"
    BY DEF Pair
  <2> HIDE DEF Pair
  <2> QED BY <2>1 DEF requests_chooseDirection, requests_above, requests_below, Pair
<1>2. ASSUME NEW d, pair = Pair(d, "Moving") PROVE pair.dirn = d
  BY <1>2 DEF Pair
<1> QED BY <1>1, <1>2

LEMMA BeyondMore ==
  ASSUME NEW s, NEW t, NEW d, t.floor = s.floor, s.requests \subseteq t.requests, Beyond(s, d)
  PROVE  Beyond(t, d)
  BY DEF Beyond

LEMMA ClearedRequests ==
  ASSUME NEW s \in Elevator PROVE requests_clearAtCurrentFloor(s).requests \subseteq s.requests
  BY DEF requests_clearAtCurrentFloor, Elevator

LEMMA ShaftInit == Init => Shaft
<1> SUFFICES ASSUME Init PROVE Shaft
  OBVIOUS
<1>1. e.floor = Between /\ e.requests = {} /\ e.dirn = motor
      /\ e.behaviour = (IF elevator_floorSensor = Between THEN "Moving" ELSE "Idle")
      /\ motor = (IF elevator_floorSensor = Between THEN D_Down ELSE D_Stop)
  BY DEF Init
<1> QED BY <1>1 DEF Init, Shaft, Bounds, Near, Lost, Heading, Phase

\* The car stands while an event is handled.
LEMMA SameFloor ==
  ASSUME Shaft, UNCHANGED <<position, prevFloor>>, e'.floor = e.floor, e'.requests \in SUBSET Request,
         phase' \in Phase \cup {"panic"},
         e'.floor = Between /\ e'.behaviour = "Moving" /\ ~prevStop' => e'.dirn = D_Down,
         Heading'
  PROVE  Shaft'
<1>1. elevator_floorSensor' = elevator_floorSensor
  BY DEF elevator_floorSensor
<1> QED BY <1>1 DEF Shaft, Bounds, Near, Lost

LEMMA StopPressedShaft == ASSUME Safe, Shaft, StopPressed PROVE Shaft'
<1>1. e'.floor = e.floor /\ e'.requests = {} /\ prevStop'
  BY DEF StopPressed, Safe, Typed, Elevator
<1> QED BY <1>1, SameFloor DEF StopPressed, Heading, Shaft, Bounds

LEMMA StopReleasedShaft == ASSUME Safe, Shaft, StopReleased PROVE Shaft'
<1>1. CASE e.floor # Between
  <2>1. e'.floor = e.floor /\ e'.requests = e.requests /\ e'.behaviour = "DoorOpen"
    BY <1>1 DEF StopReleased, openAnywhere, Safe, Typed, Elevator
  <2> QED BY <1>1, <2>1, SameFloor DEF StopReleased, Heading, Shaft, Bounds, Phase
<1>2. CASE e.floor = Between
  <2>1. e'.floor = e.floor /\ e'.requests = e.requests /\ e'.dirn = D_Down
    BY <1>2 DEF StopReleased, FsmOnInitBetweenFloors, Safe, Typed, Elevator
  <2> QED BY <1>2, <2>1, SameFloor DEF StopReleased, Heading, Shaft, Bounds, Phase
<1> QED BY <1>1, <1>2

\* The actions that leave the elevator and its car alone.
LEMMA QuietShaft ==
  ASSUME Shaft, UNCHANGED <<position, prevStop, prevFloor, e>>, phase' \in Phase \cup {"panic"}
  PROVE  Shaft'
  BY SameFloor DEF Shaft, Bounds, Lost, Heading

LEMMA PressShaft ==
  ASSUME Safe, Shaft, ~prevStop, ~Panics, NEW r \in Request, FsmOnRequestButtonPress(r),
         UNCHANGED <<position, prevStop, prevFloor, phase>>
  PROVE  Shaft'
<1> DEFINE asked == [e EXCEPT !.requests = @ \cup {r}]
           pair  == requests_chooseDirection(asked)
           next  == [asked EXCEPT !.dirn = pair.dirn, !.behaviour = pair.behaviour]
           opens == next.behaviour = "DoorOpen"
<1>0. phase' \in Phase \cup {"panic"}
  BY DEF Shaft, Bounds
<1>1. /\ asked \in Elevator
      /\ asked.floor = e.floor /\ asked.dirn = e.dirn /\ asked.behaviour = e.behaviour
      /\ asked.requests = e.requests \cup {r}
  BY DEF Safe, Typed, Elevator, Request, Floor
<1>2. asked.requests \in SUBSET Request
  BY <1>1 DEF Shaft, Bounds
<1>3. /\ pair.dirn \in Direction /\ pair.behaviour \in Behaviour
      /\ pair.behaviour = "Moving" => Beyond(asked, pair.dirn)
  BY <1>1, ChooseDirection, ChooseHeads DEF Elevator
<1> HIDE DEF asked, pair
<1>4. /\ next \in Elevator /\ next.floor = e.floor /\ next.dirn = pair.dirn
      /\ next.behaviour = pair.behaviour /\ next.requests = asked.requests
  BY <1>1, <1>3 DEF Elevator
<1>5. next.behaviour = "Moving" => Beyond(next, next.dirn)
  BY <1>1, <1>3, <1>4, BeyondMore
<1> HIDE DEF next
<1>6. CASE UNCHANGED e
  BY <1>0, <1>6, QuietShaft
<1>7. CASE e' = asked
  BY <1>0, <1>1, <1>2, <1>7, SameFloor, BeyondMore DEF Shaft, Lost, Heading
<1>8. CASE e.behaviour = "Idle" /\ e' = IF opens THEN requests_clearAtCurrentFloor(next) ELSE next
  <2>1. e.floor # Between
    BY <1>8 DEF Panics
  <2>2. CASE opens
    <3>1. e'.floor = e.floor /\ e'.behaviour = "DoorOpen" /\ e'.requests \in SUBSET Request
      BY <1>2, <1>4, <1>8, <2>2, ClearAtFloor, ClearedRequests
    <3> QED BY <1>0, <2>1, <3>1, SameFloor DEF Heading
  <2>3. CASE ~opens
    BY <1>0, <1>2, <1>4, <1>5, <1>8, <2>1, <2>3, SameFloor DEF Heading
  <2> QED BY <2>2, <2>3
<1> QED BY <1>6, <1>7, <1>8 DEF FsmOnRequestButtonPress, asked, pair, next

LEMMA ArrivalShaft ==
  ASSUME Safe, Shaft, ~prevStop, PollFloor PROVE Shaft'
<1> DEFINE floor == elevator_floorSensor
           s     == [e EXCEPT !.floor = floor]
<1>1. /\ floor \in Floor \cup {Between} /\ (floor # Between <=> position % 2 = 0)
      /\ floor # Between => position = 2 * floor
  BY Sensor DEF elevator_floorSensor, Shaft, Bounds
<1>2. /\ prevFloor' = floor /\ floor' = floor /\ phase' = "timer" /\ UNCHANGED <<position, prevStop>>
  BY DEF PollFloor, elevator_floorSensor
<1>3. /\ s \in Elevator /\ s.floor = floor /\ s.requests = e.requests
      /\ s.dirn = e.dirn /\ s.behaviour = e.behaviour
  BY <1>1 DEF Safe, Typed, Elevator, Floor, Between
<1>4. N_FLOORS \in Int
  BY LoopConstants
<1>5. CASE floor \notin {Between, prevFloor}
  <2>1. /\ e'.floor = floor /\ e'.requests \in SUBSET Request
        /\ e'.behaviour = "Moving" => Beyond(e', e'.dirn)
    <3>1. FsmOnFloorArrival(floor)
      BY <1>5 DEF PollFloor
    <3>2. CASE e.behaviour = "Moving" /\ requests_shouldStop(s)
      <4>1. e' = [requests_clearAtCurrentFloor(s) EXCEPT !.behaviour = "DoorOpen"]
        BY <3>1, <3>2 DEF FsmOnFloorArrival
      <4> HIDE DEF s
      <4>2. e'.floor = floor /\ e'.behaviour = "DoorOpen" /\ e'.requests \subseteq e.requests
        BY <1>3, <4>1, ClearAtFloor, ClearedRequests DEF Elevator
      <4> QED BY <4>2 DEF Shaft, Bounds
    <3>3. CASE ~(e.behaviour = "Moving" /\ requests_shouldStop(s))
      <4>1. e' = s
        BY <3>1, <3>3 DEF FsmOnFloorArrival
      <4> HIDE DEF s
      <4> QED BY <1>3, <3>3, <4>1 DEF Shaft, Bounds, requests_shouldStop
    <3> QED BY <3>2, <3>3
  <2>2. floor \in Int /\ position = 2 * floor /\ e'.floor # Between
    BY <1>1, <1>5, <2>1 DEF Floor
  <2> HIDE DEF floor
  <2>3. Bounds'
    BY <1>1, <1>2, <2>1 DEF Shaft, Bounds, Phase
  <2>4. Near'
    BY <1>2, <2>1, <2>2 DEF Near
  <2> QED BY <2>1, <2>2, <2>3, <2>4 DEF Shaft, Lost, Heading
<1>6. CASE floor \in {Between, prevFloor}
  <2>1. UNCHANGED e
    BY <1>6 DEF PollFloor
  <2>2. Bounds'
    BY <1>1, <1>2, <2>1 DEF Shaft, Bounds, Phase
  <2>3. e.floor # Between => position \in 2 * e.floor - 1 .. 2 * e.floor + 1
    <3>1. CASE floor = prevFloor
      BY <3>1 DEF Shaft, Near
    <3>2. CASE floor = Between
      <4> SUFFICES ASSUME e.floor # Between PROVE position \in 2 * e.floor - 1 .. 2 * e.floor + 1
        OBVIOUS
      <4>1. position \in Int /\ position % 2 # 0
        BY <1>1, <3>2, <1>4 DEF Shaft, Bounds
      <4>2. e.floor \in Int /\ position \in 2 * e.floor - 2 .. 2 * e.floor + 2
        BY DEF Shaft, Bounds, Near, Floor
      <4> QED BY <4>1, <4>2
    <3> QED BY <1>6, <3>1, <3>2
  <2>4. Near'
    <3> SUFFICES ASSUME e.floor # Between PROVE Near'
      BY <2>1 DEF Near
    <3>1. e.floor \in Int
      BY <1>4 DEF Shaft, Bounds, Floor
    <3> QED BY <1>2, <2>1, <2>3, <3>1 DEF Near
  <2>5. Lost' /\ Heading'
    BY <1>2, <1>6, <2>1 DEF Shaft, Lost, Heading
  <2> QED BY <2>2, <2>4, <2>5 DEF Shaft
<1> QED BY <1>5, <1>6

LEMMA TimeoutShaft ==
  ASSUME Safe, Shaft, FsmOnDoorTimeout, UNCHANGED <<position, prevStop, prevFloor>>, phase' \in Phase
  PROVE  Shaft'
<1> DEFINE pair == requests_chooseDirection(e)
           next == [e EXCEPT !.dirn = pair.dirn, !.behaviour = pair.behaviour]
<1>1. CASE UNCHANGED e
  BY <1>1, QuietShaft
<1>2. /\ pair.dirn \in Direction /\ pair.behaviour \in Behaviour
      /\ pair.behaviour = "Moving" => Beyond(e, pair.dirn)
  BY ChooseDirection, ChooseHeads DEF Safe, Typed, Elevator
<1> HIDE DEF pair
<1>3. /\ next \in Elevator /\ next.floor = e.floor /\ next.dirn = pair.dirn
      /\ next.behaviour = pair.behaviour /\ next.requests = e.requests
  BY <1>2 DEF Safe, Typed, Elevator
<1>4. next.behaviour = "Moving" => Beyond(next, next.dirn)
  BY <1>2, <1>3, BeyondMore
<1> HIDE DEF next
<1>5. e.behaviour = "DoorOpen" => e.floor # Between
  BY DEF Safe, DoorAgrees
<1>6. e.requests \in SUBSET Request
  BY DEF Shaft, Bounds
<1>7. CASE e.behaviour = "DoorOpen" /\ next.behaviour = "DoorOpen" /\ e' = requests_clearAtCurrentFloor(next)
  <2>1. e'.floor = e.floor /\ e'.behaviour = "DoorOpen" /\ e'.requests \in SUBSET Request
    BY <1>3, <1>6, <1>7, ClearAtFloor, ClearedRequests
  <2> QED BY <1>5, <1>7, <2>1, SameFloor DEF Heading
<1>8. CASE e.behaviour = "DoorOpen" /\ e' = next
  BY <1>3, <1>4, <1>5, <1>6, <1>8, SameFloor DEF Heading
<1> QED BY <1>1, <1>7, <1>8 DEF FsmOnDoorTimeout, pair, next

LEMMA CarMovesShaft == ASSUME Safe, Shaft, CarMoves PROVE Shaft'
<1> DEFINE floor == elevator_floorSensor
<1>1. /\ motor # D_Stop /\ motor \in Direction /\ prevFloor = floor /\ position' = position + motor
      /\ UNCHANGED <<prevStop, prevFloor, e, phase>>
  BY DEF CarMoves, previous, Safe, Typed
<1>2. e.behaviour = "Moving" /\ motor = e.dirn /\ ~prevStop
  BY <1>1 DEF Safe, Agree, MotorObeys
<1>3. /\ floor \in Floor \cup {Between} /\ (floor # Between <=> position % 2 = 0)
      /\ floor # Between => position = 2 * floor
  BY Sensor DEF elevator_floorSensor, Shaft, Bounds
<1>4. N_FLOORS \in Nat /\ N_FLOORS > 1 /\ position \in 0 .. 2 * (N_FLOORS - 1)
  BY LoopConstants DEF Shaft, Bounds
<1>5. motor = 1 \/ motor = -1
  BY <1>1 DEF Direction, D_Up, D_Down, D_Stop
<1>6. position' \in 0 .. 2 * (N_FLOORS - 1)
      /\ (e.floor # Between => position' \in 2 * e.floor - 2 .. 2 * e.floor + 2)
  <2>1. CASE e.floor = Between
    <3>1. floor = Between /\ motor = -1
      BY <1>1, <1>2, <2>1 DEF Shaft, Lost, D_Down
    <3>2. position # 0
      BY <1>3, <3>1
    <3> QED BY <1>1, <1>4, <2>1, <3>1, <3>2
  <2>2. CASE e.floor # Between
    <3>1. e.floor \in Int /\ 0 <= e.floor /\ position \in 2 * e.floor - 1 .. 2 * e.floor + 1
      BY <1>1, <1>4, <2>2 DEF Shaft, Bounds, Near, Floor
    <3>2. PICK r \in e.requests : (r[1] - e.floor) * motor > 0
      BY <1>2, <2>2 DEF Shaft, Heading, Beyond
    <3>3. r[1] \in Int /\ 0 <= r[1] /\ r[1] <= N_FLOORS - 1
      BY <1>4 DEF Shaft, Bounds, Request, Floor
    <3>4. CASE motor = 1
      <4>1. e.floor + 1 <= N_FLOORS - 1
        BY <1>4, <3>1, <3>2, <3>3, <3>4
      <4> QED BY <1>1, <1>4, <3>1, <3>4, <4>1
    <3>5. CASE motor = -1
      <4>1. 1 <= e.floor
        BY <1>4, <3>1, <3>2, <3>3, <3>5
      <4> QED BY <1>1, <1>4, <3>1, <3>5, <4>1
    <3> QED BY <1>5, <3>4, <3>5
  <2> QED BY <2>1, <2>2
<1>7. floor' # floor
  <2>1. floor' # Between <=> position' % 2 = 0
    BY <1>6, Sensor DEF elevator_floorSensor
  <2>2. position' % 2 = 0 <=> position % 2 # 0
    BY <1>1, <1>4, <1>5
  <2> HIDE DEF floor
  <2> QED BY <1>3, <2>1, <2>2
<1>8. Bounds'
  BY <1>1, <1>6 DEF Shaft, Bounds
<1>9. Near'
  BY <1>1, <1>6, <1>7 DEF Near
<1> QED BY <1>1, <1>8, <1>9 DEF Shaft, Lost, Heading

LEMMA ShaftNext == Safe /\ Shaft /\ [Next]_vars => Shaft'
<1> SUFFICES ASSUME Safe, Shaft, [Next]_vars PROVE Shaft'
  OBVIOUS
<1>1. CASE StopPressed \/ StopReleased
  BY <1>1, StopPressedShaft, StopReleasedShaft
<1>2. CASE StopNotPressed \/ ButtonsPolled \/ TimerTimedOut
  BY <1>2, QuietShaft DEF StopNotPressed, ButtonsPolled, TimerTimedOut, previous, Phase, Shaft, Bounds
<1>3. ASSUME NEW obstruction \in BOOLEAN, PollObstruction(obstruction) PROVE Shaft'
  BY <1>3, QuietShaft DEF PollObstruction, Phase
<1>4. ASSUME NEW r \in Request, PollButton(r) PROVE Shaft'
  <2>1. ~prevStop
    BY <1>4 DEF PollButton, Safe, Agree
  <2>2. UNCHANGED <<position, prevStop, prevFloor>>
    BY <1>4 DEF PollButton, previous
  <2>3. CASE Panics
    BY <1>4, <2>2, <2>3, QuietShaft DEF PollButton
  <2>4. CASE ~Panics
    BY <1>4, <2>1, <2>2, <2>4, PressShaft DEF PollButton
  <2> QED BY <2>3, <2>4
<1>5. CASE PollFloor
  <2>1. ~prevStop
    BY <1>5 DEF PollFloor, Safe, Agree
  <2> QED BY <1>5, <2>1, ArrivalShaft
<1>6. CASE PollTimer
  <2>1. UNCHANGED <<position, prevStop, prevFloor>> /\ phase' = "stop"
    BY <1>6 DEF PollTimer, previous
  <2>2. UNCHANGED e \/ FsmOnDoorTimeout
    BY <1>6 DEF PollTimer
  <2> QED BY <2>1, <2>2, QuietShaft, TimeoutShaft DEF Phase
<1>7. CASE CarMoves
  BY <1>7, CarMovesShaft
<1>8. CASE UNCHANGED vars
  BY <1>8, QuietShaft DEF vars, previous, Shaft, Bounds
<1> QED BY <1>1, <1>2, <1>3, <1>4, <1>5, <1>6, <1>7, <1>8 DEF Next, Loop

\* TypeOK for every number of floors: the car never leaves the shaft, though the stop
\* button strands it between two floors and makes it forget where it was going.
THEOREM CarStaysInTheShaft == LiveSpec => []TypeOK
<1>1. Safe /\ Shaft => TypeOK
  <2> SUFFICES ASSUME Safe, Shaft PROVE TypeOK
    OBVIOUS
  <2>1. e \in [floor : Floor \cup {Between}, dirn : Direction, behaviour : Behaviour, requests : SUBSET Request]
    BY DEF Safe, Typed, Elevator, Shaft, Bounds
  <2> QED BY <2>1 DEF Safe, Typed, Shaft, Bounds, TypeOK
<1> QED BY <1>1, AlwaysSafe, ShaftInit, ShaftNext, PTL DEF LiveSpec
=============================================================================

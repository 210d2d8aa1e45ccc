----------------------------- MODULE Cabin_proofs -----------------------------
(***************************************************************************)
(* The program of one elevator: its state is well-typed, and no order is   *)
(* taken as served whose passengers have not met an open door, for any     *)
(* number of floors and buttons.                                           *)
(*                                                                         *)
(* The worldview concludes that an order was served from two copies of the *)
(* elevator's state, the report in hand and the one before, and from the   *)
(* order's owner.  That is right only because of what the five goroutines  *)
(* can have done meanwhile.  Where an order has been passed on or reported *)
(* (Asked), the elevator has got it, is about to get it, or has opened its *)
(* door for it (Delivered); an open door that is reported still is open    *)
(* there; and one that was reported and is closed again finds no requests  *)
(* on their way to the elevator.                                           *)
(***************************************************************************)
EXTENDS Cabin, ElevatorFSM_proofs, FiniteSetTheorems

\* A mailbox whose content, if any, is in S.
Holds(mailbox, S) == mailbox = {} \/ \E v \in S : mailbox = {v}

GoodOrder  == {order \in Order : WellFormed(order)}
CellOrders == [HallCell -> GoodOrder]
Report     == [Floor : Floor, Behaviour : Behaviour, Requests : SUBSET Request, Error : BOOLEAN]
Results    == SUBSET (HallCell \cup CabRequest(CabFloor))
Result     == SUBSET HallCell
Input      == [hallRequests : SUBSET HallCell, states : SUBSET {Me}]

\* The elevator, and what it has told and is about to tell the worldview.
ElevatorOK ==
    /\ Door /\ Shaft /\ Current
    /\ Holds(toWorldview, Report) /\ Holds(unsent, Report) /\ state \in Report

OrdersOK ==
    /\ hall \in CellOrders /\ cab \subseteq CabFloor
    /\ Holds(toSync, CellOrders) /\ Holds(fromSync, CellOrders)

AssignerOK ==
    /\ Holds(toAssigner, Input)
    /\ Holds(assigning, Result) /\ Holds(lastResult, Result) /\ Holds(fromAssigner, Result)

\* At most one result is on its way from the assigner to the elevator.
OneResult == toFSM = <<>> \/ (fromAssigner = {} /\ \E q \in Results : toFSM = <<q>>)

HistoryOK == met \in Results /\ astray \in BOOLEAN

Typed == ElevatorOK /\ OrdersOK /\ AssignerOK /\ OneResult /\ HistoryOK

-----------------------------------------------------------------------------
(* Constants, mailboxes and orders. *)

LEMMA CellsAreRequests ==
  /\ HallCell \subseteq Request /\ CabRequest(CabFloor) \subseteq Request
  /\ Request \subseteq Int \X Button
<1>1. Floor \subseteq Int
  BY FloorInt
<1>2. {"HallUp", "HallDown"} \subseteq Button /\ "Cab" \in Button
  BY DEF Button
<1> QED BY <1>1, <1>2, CabinConstants DEF Request, CabRequest

LEMMA HoldsOne == ASSUME NEW S, NEW v \in S PROVE Holds({v}, S) /\ Holds({}, S)
  BY DEF Holds

LEMMA HeldOne == ASSUME NEW S, NEW m, Holds(m, S), NEW v \in m PROVE m = {v} /\ v \in S
  BY DEF Holds

LEMMA HeldIsFew == ASSUME NEW S, NEW m, Holds(m, S) PROVE Cardinality(m) <= 1 /\ m \subseteq S
  BY FS_EmptySet, FS_Singleton DEF Holds

LEMMA NodeOwners == Me \in OwnerID /\ NoOwner \in OwnerID /\ PeerDied \in OwnerID /\ Me # NoOwner /\ Me # PeerDied
                    /\ NoOwner # PeerDied
  BY CabinConstants, OwnerMarkers DEF OwnerID

LEMMA GoodOrders ==
  /\ NoOrder \in GoodOrder /\ LostOrder \in GoodOrder
  /\ \A o \in GoodOrder : o.SyncState = None => o = NoOrder
  BY NodeOwners DEF GoodOrder, Order, WellFormed, NoOrder, LostOrder, OrderSyncState,
                    None, Unconfirmed, Confirmed, DeleteProposed

LEMMA PressedOrder ==
  addNewHallOrder(NoOrder) \in GoodOrder
  /\ addNewHallOrder(NoOrder).SyncState = Unconfirmed /\ addNewHallOrder(NoOrder).OwnerID = NoOwner
  BY NodeOwners DEF addNewHallOrder, GoodOrder, Order, WellFormed, NoOrder, OrderSyncState,
                    None, Unconfirmed, Confirmed, DeleteProposed

\* What a report does to an order, and a report of an error.
LEMMA CompletedOrder ==
  ASSUME NEW o \in GoodOrder, NEW before \in BOOLEAN, NEW now \in BOOLEAN
  PROVE  LET done == CompleteServed(o, before, now, Me)
         IN  /\ done \in GoodOrder /\ done.OwnerID = o.OwnerID
             /\ done = o \/ (o.SyncState = Confirmed /\ done.SyncState = DeleteProposed)
  BY NodeOwners DEF CompleteServed, GoodOrder, Order, WellFormed, OrderSyncState,
                    None, Unconfirmed, Confirmed, DeleteProposed

LEMMA DeadOrder ==
  ASSUME NEW o \in GoodOrder
  PROVE  LET dead == markPeerDead(o, Me)
         IN  dead \in GoodOrder /\ (dead = o \/ (dead = LostOrder /\ o.SyncState = Confirmed))
  BY GoodOrders DEF markPeerDead

LEMMA MergedOrder ==
  ASSUME NEW o \in GoodOrder, NEW s \in GoodOrder
  PROVE  /\ MergeSyncOrder(o, s) \in {o, s}
         /\ o.SyncState = DeleteProposed /\ s.SyncState = None => MergeSyncOrder(o, s) = s
  BY GoodOrders DEF MergeSyncOrder, shouldAcceptSyncOrder, LostOrder, None, Unconfirmed, Confirmed, DeleteProposed

LEMMA MergedState ==
  ASSUME NEW o \in GoodOrder, NEW s \in GoodOrder, MergeSyncOrder(o, s) = NoOrder, o # NoOrder
  PROVE  o.SyncState = DeleteProposed
<1>1. s = NoOrder /\ o.SyncState \in OrderSyncState /\ o.SyncState # None
  BY MergedOrder, GoodOrders DEF GoodOrder, Order
<1> QED BY <1>1 DEF MergeSyncOrder, shouldAcceptSyncOrder, NoOrder, LostOrder, OrderSyncState,
                    None, Unconfirmed, Confirmed, DeleteProposed

LEMMA SyncedOrder ==
  ASSUME NEW o \in GoodOrder
  PROVE  LET s == SyncCell(o)
         IN  /\ s \in GoodOrder /\ s.SyncState # DeleteProposed
             /\ o.SyncState \in {None, DeleteProposed} => s = NoOrder
             /\ s.OwnerID \in {o.OwnerID, NoOwner}
<1>1. o.SyncState \in 0 .. 3 /\ o.OwnerID \in OwnerID /\ o = [SyncState |-> o.SyncState, OwnerID |-> o.OwnerID]
  BY DEF GoodOrder, Order, OrderSyncState, None, DeleteProposed
<1>2. CASE o.SyncState = None
  BY <1>2, GoodOrders DEF SyncCell, Normalise, Consensus, NoOrder, None, Unconfirmed, Confirmed, DeleteProposed
<1>3. CASE o.SyncState = Unconfirmed
  BY <1>1, <1>3, NodeOwners DEF SyncCell, Normalise, Consensus, GoodOrder, Order, WellFormed, OrderSyncState,
                    None, Unconfirmed, Confirmed, DeleteProposed
<1>4. CASE o.SyncState = Confirmed
  BY <1>1, <1>4 DEF SyncCell, Normalise, Consensus, None, Unconfirmed, Confirmed, DeleteProposed
<1>5. CASE o.SyncState = DeleteProposed
  BY <1>5, GoodOrders DEF SyncCell, Normalise, Consensus, NoOrder, None, Unconfirmed, Confirmed, DeleteProposed
<1> QED BY <1>1, <1>2, <1>3, <1>4, <1>5 DEF None, Unconfirmed, Confirmed, DeleteProposed

-----------------------------------------------------------------------------
(* What the elevator's handlers have in common. *)

Excused(c) == c \in met \/ astray

Where == Open(elevator) => GetFloor = elevator.Floor \/ astray

\* A handler that worked on the state e, or sent it: requests go only where the
\* door is opened.
Serves(e, sent) ==
    /\ elevator'.Floor = e.Floor
    /\ elevator'.Requests \subseteq e.Requests
    /\ \A r \in e.Requests \ elevator'.Requests : Open(elevator') /\ r[1] = elevator'.Floor
    /\ reported' = elevator' \/ (elevator' = e /\ reported' = sent)

LEMMA OpenDoorServes ==
  ASSUME NEW e \in ElevatorState, NEW sent, openDoorAndClearCurrentFloor(e)
  PROVE  Serves(e, sent) /\ Open(elevator') /\ reported' = elevator'
<1> DEFINE cleared == clearAtCurrentFloor(e)
           open    == [cleared EXCEPT !.Behaviour = "DoorOpen"]
<1>1. /\ cleared \in ElevatorState /\ cleared.Floor = e.Floor
      /\ cleared.Requests = e.Requests \ ({e.Floor} \X Served(e))
  BY DEF clearAtCurrentFloor, ElevatorState
<1>2. /\ open.Floor = e.Floor /\ Open(open)
      /\ open.Requests = e.Requests \ ({e.Floor} \X Served(e))
  BY <1>1 DEF ElevatorState, Open
<1>3. elevator' = open /\ reported' = open
  BY DEF openDoorAndClearCurrentFloor, Store
<1>4. \A r \in e.Requests \ open.Requests : r[1] = e.Floor
  BY <1>2
<1> HIDE DEF open
<1> QED BY <1>2, <1>3, <1>4 DEF Serves

LEMMA PlanServes ==
  ASSUME NEW e \in ElevatorState, NEW sent, executeMovementPlan(e, sent)
  PROVE  Serves(e, sent)
<1> DEFINE decision == chooseDirection(e)
<1>1. CASE decision = OpenDoor
  BY <1>1, OpenDoorServes DEF executeMovementPlan
<1>2. CASE decision # OpenDoor
  <2> DEFINE db  == IF decision.Behaviour = "Moving" /\ e.Floor + decision.Dirn \notin Floor
                    THEN Rest ELSE decision
             new == [e EXCEPT !.Dirn = db.Dirn, !.Behaviour = db.Behaviour]
  <2>1. elevator' = new /\ reported' = IF new = e THEN sent ELSE new
    BY <1>2 DEF executeMovementPlan, applyDecision, Store
  <2> HIDE DEF db
  <2>2. new.Floor = e.Floor /\ new.Requests = e.Requests
    BY DEF ElevatorState
  <2> HIDE DEF new
  <2> QED BY <2>1, <2>2 DEF Serves
<1> QED BY <1>1, <1>2

LEMMA StoreServes ==
  ASSUME NEW e, Store(e, Sent(e)) PROVE Serves(e, Sent(e)) /\ elevator' = e
  BY DEF Store, Serves

\* What a step of the elevator does, whatever handler it was.  It has worked on
\* the requests of before and added ones, has perhaps sent e first, and leaves
\* its state in elevator and what it sent last in reported.
Handles(e, added) ==
    /\ e \in ElevatorState /\ e.Requests = elevator.Requests /\ e.Behaviour = elevator.Behaviour
    /\ Open(e) => e.Floor = elevator.Floor \/ astray
    /\ e # elevator => added = {}
    /\ elevator'.Requests \subseteq elevator.Requests \cup added
    /\ \A r \in (elevator.Requests \cup added) \ elevator'.Requests : Open(elevator') /\ r[1] = elevator'.Floor
    /\ Open(elevator) /\ ~Open(elevator') => Quiet /\ e = elevator
    /\ Open(elevator) /\ Open(elevator') => elevator'.Floor = elevator.Floor \/ astray
    /\ reported' = elevator' \/ reported' = Sent(e)

\* Which reports wait after it: none new, one, or two.
Posts(e) ==
    \/ UNCHANGED <<toWorldview, unsent, reported>>
    \/ /\ reported' = elevator' \/ (reported' = e /\ e # elevator)
       /\ toWorldview' = {ReportOf(reported')} /\ unsent' = {}
    \/ /\ e # elevator /\ reported' = elevator'
       /\ toWorldview' = {ReportOf(e)} /\ unsent' = {ReportOf(elevator')}

\* What happens to the requests on their way.
Takes(added) ==
    \/ added = {} /\ toFSM' = toFSM
    \/ toFSM # <<>> /\ added = Head(toFSM) /\ toFSM' = Tail(toFSM)

LEMMA ReportsPost ==
  ASSUME NEW e, NEW opened \in BOOLEAN, Reports(e, opened), opened => reported' = elevator',
         reported' = elevator' \/ reported' = Sent(e)
  PROVE  unsent = {} /\ Posts(e)
<1> DEFINE first == IF e = elevator THEN {} ELSE {e}
           last  == IF opened \/ reported' # Sent(e) THEN {reported'} ELSE {}
           sends == IF first = {} THEN last ELSE first
<1>1. /\ unsent = {}
      /\ toWorldview' = IF sends = {} THEN toWorldview ELSE {ReportOf(s) : s \in sends}
      /\ unsent' = IF first = {} THEN {} ELSE {ReportOf(s) : s \in last}
  BY DEF Reports
<1>2. last = {} \/ (last = {reported'} /\ reported' = elevator')
  OBVIOUS
<1>3. last = {} => reported' = Sent(e)
  OBVIOUS
<1> HIDE DEF last
<1>4. CASE e = elevator
  BY <1>1, <1>2, <1>3, <1>4 DEF Posts, Sent
<1>5. CASE e # elevator
  <2>1. toWorldview' = {ReportOf(e)} /\ unsent' = {ReportOf(s) : s \in last}
    BY <1>1, <1>5
  <2> QED BY <1>1, <1>2, <1>3, <1>5, <2>1 DEF Posts, Sent
<1> QED BY <1>4, <1>5

Handler(e, added) ==
    /\ added \in Results /\ Handles(e, added)
    /\ unsent = {} /\ Posts(e) /\ Takes(added)
    /\ Door' /\ Shaft' /\ Current' /\ UNCHANGED position
    /\ met' = met \cup Meets(elevator', Pressed)
    /\ astray' = (astray \/ (elevator'.Behaviour = "DoorOpen" /\ elevator'.Floor # GetFloor))
    /\ UNCHANGED <<orders, sync, toAssigner, assigner>>

\* The history variables and the others' state, from Reports.
LEMMA ReportsHandle ==
  ASSUME NEW e, NEW opened \in BOOLEAN, Reports(e, opened), opened => reported' = elevator',
         NEW added \in Results, Handles(e, added), Takes(added),
         Door', Shaft', Current', UNCHANGED position
  PROVE  Handler(e, added)
<1>1. unsent = {} /\ Posts(e)
  BY ReportsPost DEF Handles
<1>2. /\ met' = met \cup Meets(elevator', Pressed)
      /\ astray' = (astray \/ (elevator'.Behaviour = "DoorOpen" /\ elevator'.Floor # GetFloor))
      /\ UNCHANGED <<orders, sync, toAssigner, assigner>>
  BY DEF Reports
<1> QED BY <1>1, <1>2 DEF Handler

LEMMA ResultsAreRequests == ASSUME NEW q \in Results PROVE q \in SUBSET Request /\ q \in SUBSET (Int \X Button)
  BY CellsAreRequests DEF Results

LEMMA TakeWorldviewHandles ==
  ASSUME Typed, Where, TakeWorldview
  PROVE  Handler(elevator, Head(toFSM))
<1> DEFINE added == Head(toFSM)
           e     == [elevator EXCEPT !.Requests = @ \cup added]
<1>1. toFSM # <<>> /\ toFSM' = Tail(toFSM) /\ TakeRequests(added) /\ UNCHANGED budget
      /\ Reports(elevator, shouldServeCurrentFloor(e))
  BY DEF TakeWorldview
<1>2. added \in Results
  BY <1>1 DEF Typed, OneResult
<1>3. Door /\ Shaft /\ Current /\ elevator \in ElevatorState
  BY DEF Typed, ElevatorOK, Shaft, TypeOK
<1> HIDE DEF added
<1>4. added \in SUBSET Request /\ added \in SUBSET (Int \X Button)
  BY <1>2, ResultsAreRequests
<1>5. /\ e \in ElevatorState /\ e.Floor = elevator.Floor /\ e.Behaviour = elevator.Behaviour
      /\ e.Requests = elevator.Requests \cup added
  BY <1>3, <1>4 DEF ElevatorState
<1>6. Door' /\ Current'
  BY <1>1, <1>3, <1>4, TakeRequestsDoor, TakeRequestsCurrent
<1>7. Driven(e) /\ (GetFloor # Between \/ motor' = motor)
  BY <1>1, <1>3, <1>4, TakeRequestsDrives
<1>8. /\ IF shouldServeCurrentFloor(e) THEN openDoorAndClearCurrentFloor(e)
         ELSE IF elevatorCanMove(e) THEN executeMovementPlan(e, reported)
         ELSE Store(e, Sent(e)) /\ UNCHANGED <<motor, doorTimer>>
      /\ UNCHANGED <<position, poll, errorTimer, obstruct>>
  BY <1>1 DEF TakeRequests
<1>9. Shaft'
  <2> HIDE DEF e
  <2> QED BY <1>1, <1>3, <1>5, <1>7, <1>8, DrivenInShaft DEF Shaft, TypeOK
<1> HIDE DEF e
<1>10. /\ Serves(e, reported) \/ (Serves(e, Sent(e)) /\ elevator' = e)
       /\ shouldServeCurrentFloor(e) => reported' = elevator' /\ Open(elevator')
       /\ Open(elevator) => Open(elevator')
  <2>1. CASE shouldServeCurrentFloor(e)
    BY <1>5, <1>8, <2>1, OpenDoorServes
  <2>2. CASE ~shouldServeCurrentFloor(e) /\ elevatorCanMove(e)
    BY <1>5, <1>8, <2>2, PlanServes DEF elevatorCanMove, Open
  <2>3. CASE ~shouldServeCurrentFloor(e) /\ ~elevatorCanMove(e)
    BY <1>5, <1>8, <2>3, StoreServes DEF Open
  <2> QED BY <2>1, <2>2, <2>3
<1>11. Handles(elevator, added)
  <2>1. reported' = elevator' \/ reported' = Sent(elevator)
    BY <1>10 DEF Serves, Sent
  <2>2. elevator'.Floor = elevator.Floor
    BY <1>5, <1>10 DEF Serves
  <2>3. /\ elevator'.Requests \subseteq e.Requests
        /\ \A r \in e.Requests \ elevator'.Requests : Open(elevator') /\ r[1] = elevator'.Floor
    BY <1>10 DEF Serves
  <2> QED BY <1>3, <1>5, <1>10, <2>1, <2>2, <2>3 DEF Handles
<1>12. Takes(added)
  BY <1>1 DEF Takes, added
<1>13. shouldServeCurrentFloor(e) \in BOOLEAN /\ UNCHANGED position
  BY <1>8 DEF shouldServeCurrentFloor
<1>14. Reports(elevator, shouldServeCurrentFloor(e))
  BY <1>1 DEF e
<1> QED BY <1>2, <1>6, <1>9, <1>10, <1>11, <1>12, <1>13, <1>14, ReportsHandle DEF added

LEMMA NoneAdded == {} \in Results
  BY DEF Results

LEMMA NextHandles ==
  ASSUME Typed, [Next]_vars PROVE Door' /\ Shaft' /\ Current'
  BY DoorNext, ShaftNext, CurrentNext DEF Typed, ElevatorOK

LEMMA CloseDoorHandles ==
  ASSUME Typed, Where, CloseDoor
  PROVE  Handler(elevator, {})
<1> DEFINE opened == ~obstruct /\ ~elevator.Error
<1>1. Quiet /\ DoorTimeout /\ Reports(elevator, opened) /\ toFSM' = toFSM
  BY DEF CloseDoor
<1>2. Door' /\ Shaft' /\ Current'
  BY <1>1, NextHandles DEF Next
<1>3. Open(elevator) /\ elevator \in ElevatorState /\ reported = elevator
  BY <1>1 DEF Typed, ElevatorOK, Door, OpenDoorHasTimer, Open, DoorTimeout, Shaft, TypeOK, Current
<1>4. Serves(elevator, elevator) /\ (opened => reported' = elevator')
  <2>1. CASE ~opened
    BY <1>1, <1>3, <2>1 DEF DoorTimeout, Serves
  <2>2. CASE opened
    <3>1. openDoorAndClearCurrentFloor(elevator) \/ executeMovementPlan(elevator, elevator)
      BY <1>1, <1>3, <2>2 DEF DoorTimeout
    <3>2. Serves(elevator, elevator)
      BY <1>3, <3>1, OpenDoorServes, PlanServes
    <3> QED BY <3>2 DEF Serves
  <2> QED BY <2>1, <2>2
<1>5. Handles(elevator, {})
  BY <1>1, <1>3, <1>4 DEF Handles, Serves, Sent
<1>6. opened \in BOOLEAN /\ UNCHANGED position
  BY <1>1 DEF DoorTimeout
<1>7. Takes({})
  BY <1>1 DEF Takes
<1> QED BY <1>1, <1>2, <1>4, <1>5, <1>6, <1>7, NoneAdded, ReportsHandle

LEMMA TickHandles ==
  ASSUME Typed, Where, Tick
  PROVE  Handler(TickedState, {})
<1> DEFINE e == TickedState
<1>1. FloorTick /\ Reports(e, FALSE) /\ toFSM' = toFSM
  BY DEF Tick
<1>2. Door' /\ Shaft' /\ Current'
  BY <1>1, NextHandles DEF Next
<1>3. elevator \in ElevatorState
  BY DEF Typed, ElevatorOK, Shaft, TypeOK
<1>4. /\ e \in ElevatorState /\ e.Floor = elevator.Floor
      /\ e.Requests = elevator.Requests /\ e.Behaviour = elevator.Behaviour
  BY <1>3 DEF ElevatorState, TickedState, updateErrorState
<1>5. /\ IF elevatorCanMove(e) THEN executeMovementPlan(e, Sent(e))
         ELSE Store(e, Sent(e)) /\ UNCHANGED <<motor, doorTimer>>
      /\ UNCHANGED position
  BY <1>1 DEF FloorTick
<1> HIDE DEF e
<1>6. Serves(e, Sent(e)) /\ (Open(elevator) => elevator' = e)
  BY <1>4, <1>5, PlanServes, StoreServes DEF elevatorCanMove, Open
<1>7. Handles(e, {})
  BY <1>4, <1>6 DEF Handles, Serves, Open
<1>8. Takes({})
  BY <1>1 DEF Takes
<1> QED BY <1>1, <1>2, <1>5, <1>7, <1>8, NoneAdded, ReportsHandle DEF e

LEMMA ArriveHandles ==
  ASSUME Typed, Where, Arrive
  PROVE  Handler(updateFloor(GetFloor, elevator), {})
<1>1. \A f \in sensor : f = GetFloor /\ f \in Floor
  BY DEF Typed, ElevatorOK, Shaft, TypeOK
<1> DEFINE e == updateFloor(GetFloor, elevator)
<1>2. FloorSensor /\ Reports(e, FALSE) /\ toFSM' = toFSM /\ GetFloor \in Floor
  BY <1>1 DEF Arrive
<1>3. Door' /\ Shaft' /\ Current'
  BY <1>2, NextHandles DEF Next
<1>4. elevator \in ElevatorState /\ (Open(elevator) => doorTimer)
  BY DEF Typed, ElevatorOK, Shaft, TypeOK, Door, OpenDoorHasTimer, Open
<1>5. /\ e \in ElevatorState /\ e.Floor = GetFloor
      /\ e.Requests = elevator.Requests /\ e.Behaviour = elevator.Behaviour
  BY <1>2, <1>4 DEF ElevatorState, updateFloor, Direction
<1>6. /\ IF /\ ~doorTimer /\ e.Behaviour = "Moving"
            /\ shouldServeCurrentFloor(e) /\ ~e.Error
         THEN openDoorAndClearCurrentFloor(e)
         ELSE IF elevatorCanMove(e) THEN executeMovementPlan(e, Sent(e))
         ELSE Store(e, Sent(e))
      /\ UNCHANGED position
  BY <1>1, <1>2 DEF FloorSensor
<1> HIDE DEF e
<1>7. Serves(e, Sent(e)) /\ (Open(elevator) => elevator' = e)
  BY <1>4, <1>5, <1>6, OpenDoorServes, PlanServes, StoreServes DEF elevatorCanMove, Open
<1>8. Handles(e, {})
  BY <1>5, <1>7 DEF Handles, Serves, Open, Where
<1>9. Takes({})
  BY <1>2 DEF Takes
<1> QED BY <1>2, <1>3, <1>6, <1>8, <1>9, NoneAdded, ReportsHandle DEF e

\* The obstruction switch and the error timer change the error alone.
LEMMA ErrorHandles ==
  ASSUME Typed, (\E on \in BOOLEAN : Obstruct(on)) \/ Fail
  PROVE  Handler(elevator, {})
<1>1. PICK e \in {elevator, updateErrorState(FALSE, elevator), updateErrorState(TRUE, elevator)} : Store(e, Sent(e))
  BY DEF Obstruct, ObstructionSwitch, Fail, ErrorTimeout
<1>2. Reports(elevator, FALSE) /\ toFSM' = toFSM /\ UNCHANGED position /\ [Next]_vars
  BY DEF Obstruct, ObstructionSwitch, Fail, ErrorTimeout, Next, car
<1>3. Door' /\ Shaft' /\ Current'
  BY <1>2, NextHandles
<1>4. elevator \in ElevatorState
  BY DEF Typed, ElevatorOK, Shaft, TypeOK
<1>5. e.Floor = elevator.Floor /\ e.Requests = elevator.Requests /\ e.Behaviour = elevator.Behaviour
  BY <1>1, <1>4 DEF ElevatorState, updateErrorState
<1>6. elevator' = e /\ (reported' = elevator' \/ reported' = Sent(elevator))
  BY <1>1 DEF Store, Sent
<1>7. Handles(elevator, {})
  BY <1>4, <1>5, <1>6 DEF Handles, Open
<1>8. Takes({})
  BY <1>2 DEF Takes
<1> QED BY <1>2, <1>3, <1>7, <1>8, NoneAdded, ReportsHandle

ElevatorMoves == TakeWorldview \/ CloseDoor \/ Tick \/ Arrive \/ (\E on \in BOOLEAN : Obstruct(on)) \/ Fail

\* Every case of the elevator is a handler.
LEMMA ElevatorHandles ==
  ASSUME Typed, Where, ElevatorMoves
  PROVE  \E e, added : Handler(e, added)
  BY TakeWorldviewHandles, CloseDoorHandles, TickHandles, ArriveHandles, ErrorHandles DEF ElevatorMoves

-----------------------------------------------------------------------------
(* Types. *)

LEMMA ReportTyped == ASSUME NEW e \in ElevatorState PROVE ReportOf(e) \in Report
  BY DEF ElevatorState, Report, ReportOf

LEMMA CabinInitTyped == CabinInit => Typed
<1> SUFFICES ASSUME CabinInit PROVE Typed
  OBVIOUS
<1>1. Door /\ Shaft /\ Current
  BY DoorInit, ShaftInit, CurrentInit DEF CabinInit
<1>2. elevator \in ElevatorState
  BY <1>1 DEF Shaft, TypeOK
<1>3. state \in Report
  <2>1. 0 \in Floor
    BY FloorInt DEF Floor
  <2> QED BY <2>1 DEF CabinInit, Report, Behaviour
<1>4. Holds(toWorldview, Report) /\ Holds(unsent, Report)
  BY <1>2, ReportTyped, HoldsOne DEF CabinInit, Holds
<1>5. hall \in CellOrders
  BY GoodOrders DEF CabinInit, CellOrders
<1>6. OrdersOK /\ AssignerOK /\ OneResult /\ HistoryOK
  BY <1>5 DEF CabinInit, OrdersOK, AssignerOK, OneResult, HistoryOK, Holds, Results
<1> QED BY <1>1, <1>3, <1>4, <1>6 DEF Typed, ElevatorOK

LEMMA PressedTyped == ASSUME Typed PROVE Pressed \in Results
  BY DEF Typed, OrdersOK, Pressed, Results, CabRequest

LEMMA TakesOne ==
  ASSUME OneResult, NEW added, Takes(added), fromAssigner' = fromAssigner
  PROVE  /\ OneResult' /\ (toFSM = <<>> => added = {} /\ toFSM' = <<>>)
         /\ (added = {} /\ toFSM' = toFSM) \/ (toFSM = <<added>> /\ toFSM' = <<>>)
<1>1. CASE toFSM = <<>>
  BY <1>1 DEF Takes, OneResult
<1>2. CASE toFSM # <<>>
  <2>1. PICK q \in Results : toFSM = <<q>> /\ fromAssigner = {}
    BY <1>2 DEF OneResult
  <2>2. Head(toFSM) = q /\ Tail(toFSM) = <<>>
    BY <2>1
  <2> QED BY <1>2, <2>1, <2>2 DEF Takes, OneResult
<1> QED BY <1>1, <1>2

LEMMA HandlerTyped ==
  ASSUME Typed, NEW e, NEW added, Handler(e, added)
  PROVE  Typed'
<1>1. Door' /\ Shaft' /\ Current'
  BY DEF Handler
<1>2. elevator' \in ElevatorState /\ reported' \in ElevatorState /\ e \in ElevatorState
  BY <1>1 DEF Shaft, TypeOK, Handler, Handles
<1>3. ElevatorOK'
  <2>1. state' = state /\ unsent = {}
    BY DEF Handler, orders
  <2>2. Holds(toWorldview', Report) /\ Holds(unsent', Report)
    <3>1. Posts(e)
      BY DEF Handler
    <3>2. CASE UNCHANGED <<toWorldview, unsent, reported>>
      BY <3>2 DEF Typed, ElevatorOK
    <3>3. CASE toWorldview' = {ReportOf(reported')} /\ unsent' = {}
      BY <1>2, <3>3, ReportTyped, HoldsOne
    <3>4. CASE toWorldview' = {ReportOf(e)} /\ unsent' = {ReportOf(elevator')}
      BY <1>2, <3>4, ReportTyped, HoldsOne
    <3> QED BY <3>1, <3>2, <3>3, <3>4 DEF Posts
  <2> QED BY <1>1, <2>1, <2>2 DEF Typed, ElevatorOK
<1>4. OrdersOK' /\ AssignerOK'
  BY DEF Typed, OrdersOK, AssignerOK, Handler, orders, sync, assigner
<1>5. OneResult'
  BY TakesOne DEF Typed, Handler, assigner
<1>6. HistoryOK'
  <2>1. Meets(elevator', Pressed) \in Results
    BY PressedTyped DEF Meets, Results
  <2>2. /\ met' = met \cup Meets(elevator', Pressed)
        /\ astray' = (astray \/ (elevator'.Behaviour = "DoorOpen" /\ elevator'.Floor # GetFloor))
    BY DEF Handler
  <2> QED BY <2>1, <2>2 DEF Typed, HistoryOK, Results
<1> QED BY <1>3, <1>4, <1>5, <1>6 DEF Typed

\* The elevator while the other goroutines run.
LEMMA ElevatorRests ==
  ASSUME Typed, UNCHANGED <<car, poll, cabin>>, budget' \in [{"press", "obstruct", "error"} -> Nat]
  PROVE  Door' /\ Shaft' /\ Current'
<1>1. UNCHANGED <<position, motor, prev, sensor, elevator, reported, doorTimer, errorTimer, obstruct>>
  BY DEF car, poll, cabin
<1>2. GetFloor' = GetFloor
  BY <1>1 DEF GetFloor
<1>3. Door'
  BY <1>1, <1>2 DEF Typed, ElevatorOK, Door, Shape, OpenDoorHasTimer, OpenDoorStandsStill
<1>4. Shaft'
  BY <1>1, <1>2 DEF Typed, ElevatorOK, Shaft, TypeOK
<1>5. Current'
  BY <1>1 DEF Typed, ElevatorOK, Current
<1> QED BY <1>3, <1>4, <1>5

LEMMA VarsRest ==
  ASSUME Typed, UNCHANGED vars
  PROVE  Door' /\ Shaft' /\ Current' /\ UNCHANGED <<car, poll, cabin, budget>>
<1>1. Door' /\ Shaft' /\ Current'
  BY NextHandles
<1> QED BY <1>1 DEF vars, car, poll, cabin

\* Both buttons.
ButtonPress(r) ==
    /\ Press(r) /\ r \in HallCell \cup CabRequest(CabFloor)
    /\ hall' \in CellOrders /\ cab' \subseteq CabFloor
    /\ \A c \in HallCell : c # r => hall'[c] = hall[c]
    /\ r \in HallCell => /\ hall[r] = NoOrder
                       /\ hall'[r].SyncState = Unconfirmed /\ hall'[r].OwnerID = NoOwner

LEMMA HallButtonPresses ==
  ASSUME Typed, NEW c \in HallCell, HallButton(c) PROVE ButtonPress(c)
<1>1. hall[c] = NoOrder /\ hall' = [hall EXCEPT ![c] = addNewHallOrder(NoOrder)] /\ cab' = cab /\ Press(c)
  BY DEF HallButton
<1>2. hall \in CellOrders /\ cab \subseteq CabFloor
  BY DEF Typed, OrdersOK
<1>3. /\ hall' \in CellOrders /\ hall'[c].SyncState = Unconfirmed /\ hall'[c].OwnerID = NoOwner
      /\ \A d \in HallCell : d # c => hall'[d] = hall[d]
  BY <1>1, <1>2, PressedOrder DEF CellOrders
<1> QED BY <1>1, <1>2, <1>3 DEF ButtonPress

LEMMA CabButtonPresses ==
  ASSUME Typed, NEW f \in CabFloor, CabButton(f) PROVE ButtonPress(<<f, "Cab">>)
<1>1. <<f, "Cab">> \in CabRequest(CabFloor)
  BY DEF CabRequest
<1>2. <<f, "Cab">> \notin HallCell
  BY CabinConstants
<1>3. hall \in CellOrders /\ cab \subseteq CabFloor
  BY DEF Typed, OrdersOK
<1> QED BY <1>1, <1>2, <1>3 DEF CabButton, ButtonPress

LEMMA ButtonTyped ==
  ASSUME Typed, NEW r, ButtonPress(r)
  PROVE  Typed'
<1>1. Press(r)
  BY DEF ButtonPress
<1>2. /\ UNCHANGED <<car, poll, cabin, toWorldview, unsent, state, fromSync, toAssigner, assigner, toFSM, astray>>
      /\ toSync' = {hall'}
      /\ met' = (met \ {r}) \cup Meets(elevator, {r})
  BY <1>1 DEF Press, sendLatestToSync
<1>3. budget' \in [{"press", "obstruct", "error"} -> Nat]
  BY <1>1, SpendTyped DEF Press, Typed, ElevatorOK
<1>4. ElevatorOK'
  BY <1>2, <1>3, ElevatorRests DEF Typed, ElevatorOK
<1>5. OrdersOK'
  BY <1>2, HoldsOne DEF ButtonPress, Typed, OrdersOK
<1>6. AssignerOK' /\ OneResult'
  BY <1>2 DEF Typed, AssignerOK, OneResult, assigner
<1>7. HistoryOK'
  BY <1>2 DEF Typed, HistoryOK, Results, ButtonPress, Meets
<1> QED BY <1>4, <1>5, <1>6, <1>7 DEF Typed

\* What the cases of the worldview make of the orders.
ServedBy(c, report) ==
    /\ c[1] = CheckedFloor(report) /\ c \notin report.Requests
    /\ c \in state.Requests \/ hall[c].OwnerID = Me

TakesReport(report) ==
    /\ report \in Report /\ toWorldview = {report} /\ toWorldview' = {} /\ state' = report
    /\ hall' \in CellOrders /\ cab' \subseteq CabFloor /\ toSync' = {hall'}
    /\ \A c \in HallCell :
          \/ hall'[c] = hall[c]
          \/ hall[c].SyncState = Confirmed /\ hall'[c] = LostOrder
          \/ /\ hall[c].SyncState = Confirmed /\ hall'[c].SyncState = DeleteProposed
             /\ hall'[c].OwnerID = hall[c].OwnerID /\ ServedBy(c, report)

TakesSync(synced) ==
    /\ synced \in CellOrders /\ fromSync = {synced} /\ fromSync' = {}
    /\ hall' \in CellOrders /\ Holds(toAssigner', Input)
    /\ \A c \in HallCell : hall'[c] = MergeSyncOrder(hall[c], synced[c])

TakesResult(result) ==
    /\ result \in Result /\ fromAssigner = {result} /\ fromAssigner' = {} /\ hall' \in CellOrders
    /\ \A c \in HallCell :
          \/ hall'[c] = hall[c]
          \/ hall[c].SyncState = Confirmed /\ hall'[c] = [SyncState |-> Confirmed, OwnerID |-> Me]
    /\ toFSM = <<>> /\ toFSM' = <<RequestsOf(hall', cab)>> /\ RequestsOf(hall', cab) \in Results

LEMMA ReportTakes ==
  ASSUME Typed, ElevatorReport
  PROVE  \E report : TakesReport(report)
<1>1. PICK report \in toWorldview :
        LET done == updateWorldviewWithElevatorState(report)
        IN  /\ toWorldview' = {} /\ state' = report
            /\ hall' = IF report.Error THEN [c \in HallCell |-> markPeerDead(done[c], Me)] ELSE done
            /\ cab' = cab \ {report.Floor} /\ toSync' = {hall'}
  BY DEF ElevatorReport, sendLatestToSync
<1>2. report \in Report /\ toWorldview = {report}
  BY HeldOne DEF Typed, ElevatorOK
<1> DEFINE done == updateWorldviewWithElevatorState(report)
<1>3. hall \in CellOrders /\ cab \subseteq CabFloor
  BY DEF Typed, OrdersOK
<1>4. ASSUME NEW c \in HallCell
      PROVE  /\ done[c] \in GoodOrder
             /\ \/ done[c] = hall[c]
                \/ /\ hall[c].SyncState = Confirmed /\ done[c].SyncState = DeleteProposed
                   /\ done[c].OwnerID = hall[c].OwnerID /\ ServedBy(c, report)
  <2>1. hall[c] \in GoodOrder
    BY <1>3 DEF CellOrders
  <2> DEFINE before == c \in state.Requests
             now    == c \in report.Requests
  <2>2. before \in BOOLEAN /\ now \in BOOLEAN
    OBVIOUS
  <2>3. done[c] = IF c[1] = CheckedFloor(report) THEN CompleteServed(hall[c], before, now, Me) ELSE hall[c]
    BY DEF updateWorldviewWithElevatorState
  <2>4. CompleteServed(hall[c], before, now, Me) # hall[c] => ~now /\ (before \/ hall[c].OwnerID = Me)
    BY DEF CompleteServed
  <2> HIDE DEF before, now, done
  <2>5. /\ CompleteServed(hall[c], before, now, Me) \in GoodOrder
        /\ CompleteServed(hall[c], before, now, Me).OwnerID = hall[c].OwnerID
        /\ \/ CompleteServed(hall[c], before, now, Me) = hall[c]
           \/ /\ hall[c].SyncState = Confirmed
              /\ CompleteServed(hall[c], before, now, Me).SyncState = DeleteProposed
    BY <2>1, <2>2, CompletedOrder
  <2> QED BY <2>1, <2>3, <2>4, <2>5 DEF ServedBy, before, now
<1>5. done \in CellOrders
  BY <1>4 DEF CellOrders, updateWorldviewWithElevatorState
<1> HIDE DEF done
<1>6. hall' = IF report.Error THEN [c \in HallCell |-> markPeerDead(done[c], Me)] ELSE done
  BY <1>1 DEF done
<1>7. ASSUME NEW c \in HallCell
      PROVE  /\ hall'[c] \in GoodOrder
             /\ hall'[c] = done[c] \/ (hall'[c] = LostOrder /\ done[c].SyncState = Confirmed)
  BY <1>4, <1>6, DeadOrder
<1>8. hall' \in CellOrders
  <2>1. CASE report.Error
    BY <1>6, <1>7, <2>1 DEF CellOrders
  <2>2. CASE ~report.Error
    BY <1>5, <1>6, <2>2
  <2> QED BY <2>1, <2>2
<1>9. ASSUME NEW c \in HallCell
      PROVE  \/ hall'[c] = hall[c]
             \/ hall[c].SyncState = Confirmed /\ hall'[c] = LostOrder
             \/ /\ hall[c].SyncState = Confirmed /\ hall'[c].SyncState = DeleteProposed
                /\ hall'[c].OwnerID = hall[c].OwnerID /\ ServedBy(c, report)
  BY <1>4, <1>7 DEF Confirmed, DeleteProposed
<1> QED BY <1>1, <1>2, <1>3, <1>8, <1>9 DEF TakesReport

LEMMA SyncTakes ==
  ASSUME Typed, SyncResult
  PROVE  \E synced : TakesSync(synced)
<1>1. PICK synced \in fromSync :
        /\ fromSync' = {} /\ hall' = [c \in HallCell |-> MergeSyncOrder(hall[c], synced[c])]
        /\ toAssigner' = {AssignerInput}
  BY DEF SyncResult
<1>2. synced \in CellOrders /\ fromSync = {synced}
  BY HeldOne DEF Typed, OrdersOK
<1>3. hall' \in CellOrders
  <2>1. hall \in CellOrders
    BY DEF Typed, OrdersOK
  <2>2. \A c \in HallCell : MergeSyncOrder(hall[c], synced[c]) \in GoodOrder
    BY <1>2, <2>1, MergedOrder DEF CellOrders
  <2> QED BY <1>1, <2>2 DEF CellOrders
<1>4. AssignerInput \in Input
  BY DEF Typed, OrdersOK, AssignerInput, Input
<1> QED BY <1>1, <1>2, <1>3, <1>4, HoldsOne DEF TakesSync

LEMMA ResultTakes ==
  ASSUME Typed, Assignment
  PROVE  \E result : TakesResult(result)
<1>1. PICK result \in fromAssigner :
        /\ fromAssigner' = {}
        /\ hall' = [c \in HallCell |-> IF c \in result /\ NeedsOwner(hall[c])
                                       THEN [hall[c] EXCEPT !.OwnerID = Me] ELSE hall[c]]
        /\ toFSM' = Append(IF Len(toFSM) = FSMChCap THEN Tail(toFSM) ELSE toFSM, RequestsOf(hall', cab))
  BY DEF Assignment, sendLatestWorldviewToFSM
<1>2. result \in Result /\ fromAssigner = {result}
  BY HeldOne DEF Typed, AssignerOK
<1>3. hall \in CellOrders /\ cab \subseteq CabFloor
  BY DEF Typed, OrdersOK
<1>4. ASSUME NEW c \in HallCell
      PROVE  /\ hall'[c] \in GoodOrder
             /\ \/ hall'[c] = hall[c]
                \/ hall[c].SyncState = Confirmed /\ hall'[c] = [SyncState |-> Confirmed, OwnerID |-> Me]
  <2>1. hall[c] \in GoodOrder
    BY <1>3 DEF CellOrders
  <2>2. CASE c \in result /\ NeedsOwner(hall[c])
    <3>1. hall'[c] = [hall[c] EXCEPT !.OwnerID = Me] /\ hall[c].SyncState = Confirmed
      BY <1>1, <2>2 DEF NeedsOwner
    <3>2. [hall[c] EXCEPT !.OwnerID = Me] = [SyncState |-> Confirmed, OwnerID |-> Me]
      BY <2>1, <3>1 DEF GoodOrder, Order
    <3>3. [SyncState |-> Confirmed, OwnerID |-> Me] \in GoodOrder
      BY NodeOwners DEF GoodOrder, Order, WellFormed, OrderSyncState, None, Confirmed, DeleteProposed, Unconfirmed
    <3> QED BY <3>1, <3>2, <3>3
  <2>3. CASE ~(c \in result /\ NeedsOwner(hall[c]))
    BY <1>1, <2>1, <2>3
  <2> QED BY <2>2, <2>3
<1>5. hall' \in CellOrders
  BY <1>1, <1>4 DEF CellOrders
<1>6. RequestsOf(hall', cab) \in Results
  BY <1>3 DEF RequestsOf, Results, CabRequest
<1>7. toFSM = <<>>
  BY <1>2 DEF Typed, OneResult
<1>8. toFSM' = <<RequestsOf(hall', cab)>>
  BY <1>1, <1>7, CabinConstants
<1> QED BY <1>1, <1>2, <1>4, <1>5, <1>6, <1>7, <1>8 DEF TakesResult

LEMMA SynchronizeTakes ==
  ASSUME Typed, Synchronize
  PROVE  \E snapshot \in CellOrders :
           /\ toSync = {snapshot} /\ toSync' = {}
           /\ fromSync' = {[c \in HallCell |-> SyncCell(snapshot[c])]}
           /\ Holds(fromSync', CellOrders)
<1>1. PICK snapshot \in toSync : toSync' = {} /\ fromSync' = {[c \in HallCell |-> SyncCell(snapshot[c])]}
  BY DEF Synchronize
<1>2. snapshot \in CellOrders /\ toSync = {snapshot}
  BY HeldOne DEF Typed, OrdersOK
<1>3. [c \in HallCell |-> SyncCell(snapshot[c])] \in CellOrders
  BY <1>2, SyncedOrder DEF CellOrders
<1> QED BY <1>1, <1>2, <1>3, HoldsOne

LEMMA AssignTyped == ASSUME Typed, Assign PROVE AssignerOK'
<1>1. PICK input \in toAssigner :
        /\ toAssigner' = {}
        /\ assigning' = {input.hallRequests : n \in input.states}
        /\ UNCHANGED <<lastResult, fromAssigner>>
  BY DEF Assign
<1>2. input \in Input
  BY HeldOne DEF Typed, AssignerOK
<1>3. input.hallRequests \in Result
  BY <1>2 DEF Input, Result
<1>4. input.states = {} \/ input.states = {Me}
  BY <1>2 DEF Input
<1>5. assigning' = {} \/ assigning' = {input.hallRequests}
  BY <1>1, <1>4
<1> QED BY <1>1, <1>3, <1>5 DEF Typed, AssignerOK, Holds

LEMMA SendResultTyped == ASSUME Typed, SendResult PROVE AssignerOK' /\ OneResult'
<1>1. /\ toFSM = <<>> /\ toFSM' = toFSM /\ toAssigner' = toAssigner
      /\ assigning' = {}
      /\ \/ UNCHANGED <<lastResult, fromAssigner>>
         \/ fromAssigner' = assigning /\ lastResult' = assigning
  BY DEF SendResult, Handled
<1> QED BY <1>1 DEF Typed, AssignerOK, OneResult, Holds

LEMMA TypedNext == ASSUME Typed, Where, [CabinNext]_all PROVE Typed'
<1>1. CASE ElevatorMoves
  BY <1>1, ElevatorHandles, HandlerTyped
<1>2. ASSUME NEW c \in HallCell, HallButton(c) PROVE Typed'
  BY <1>2, HallButtonPresses, ButtonTyped
<1>3. ASSUME NEW f \in CabFloor, CabButton(f) PROVE Typed'
  BY <1>3, CabButtonPresses, ButtonTyped
<1>4. CASE ElevatorReport
  <2>1. PICK report : TakesReport(report)
    BY <1>4, ReportTakes
  <2>2. UNCHANGED <<vars, unsent, fromSync, toAssigner, assigner, toFSM, history>>
    BY <1>4 DEF ElevatorReport
  <2>3. ElevatorOK'
    BY <2>1, <2>2, VarsRest, HoldsOne DEF TakesReport, Typed, ElevatorOK
  <2>4. OrdersOK'
    BY <2>1, <2>2, HoldsOne DEF TakesReport, Typed, OrdersOK
  <2> QED BY <2>2, <2>3, <2>4 DEF Typed, AssignerOK, OneResult, HistoryOK, assigner, history
<1>5. CASE SyncResult
  <2>1. PICK synced : TakesSync(synced)
    BY <1>5, SyncTakes
  <2>2. UNCHANGED <<vars, toWorldview, unsent, state, cab, toSync, assigner, toFSM, history>>
    BY <1>5 DEF SyncResult
  <2>3. ElevatorOK'
    BY <2>2, VarsRest DEF Typed, ElevatorOK
  <2>4. OrdersOK' /\ AssignerOK'
    BY <2>1, <2>2, HoldsOne DEF TakesSync, Typed, OrdersOK, AssignerOK, assigner
  <2> QED BY <2>2, <2>3, <2>4 DEF Typed, OneResult, HistoryOK, assigner, history
<1>6. CASE Assignment
  <2>1. PICK result : TakesResult(result)
    BY <1>6, ResultTakes
  <2>2. UNCHANGED <<vars, toWorldview, unsent, state, cab, sync, toAssigner, assigning, lastResult, history>>
    BY <1>6 DEF Assignment
  <2>3. ElevatorOK'
    BY <2>2, VarsRest DEF Typed, ElevatorOK
  <2>4. OrdersOK' /\ AssignerOK' /\ OneResult'
    BY <2>1, <2>2, HoldsOne DEF TakesResult, Typed, OrdersOK, AssignerOK, OneResult, sync
  <2> QED BY <2>2, <2>3, <2>4 DEF Typed, HistoryOK, history
<1>7. CASE Synchronize
  <2>1. UNCHANGED <<vars, toWorldview, unsent, orders, toAssigner, assigner, toFSM, history>>
    BY <1>7 DEF Synchronize
  <2>2. ElevatorOK'
    BY <2>1, VarsRest DEF Typed, ElevatorOK, orders
  <2>3. OrdersOK'
    BY <1>7, <2>1, SynchronizeTakes, HoldsOne DEF Typed, OrdersOK, orders, Holds
  <2> QED BY <2>1, <2>2, <2>3 DEF Typed, AssignerOK, OneResult, HistoryOK, assigner, history
<1>8. CASE Assign
  <2>1. UNCHANGED <<vars, toWorldview, unsent, orders, sync, lastResult, fromAssigner, toFSM, history>>
    BY <1>8 DEF Assign
  <2>2. ElevatorOK'
    BY <2>1, VarsRest DEF Typed, ElevatorOK, orders
  <2> QED BY <1>8, <2>1, <2>2, AssignTyped DEF Typed, OrdersOK, OneResult, HistoryOK, orders, sync, history
<1>9. CASE SendResult
  <2>1. UNCHANGED <<vars, toWorldview, unsent, orders, sync, toAssigner, toFSM, history>>
    BY <1>9 DEF SendResult
  <2>2. ElevatorOK'
    BY <2>1, VarsRest DEF Typed, ElevatorOK, orders
  <2> QED BY <1>9, <2>1, <2>2, SendResultTyped DEF Typed, OrdersOK, HistoryOK, orders, sync, history
<1>10. CASE SendReport
  <2>1. /\ toWorldview' = unsent /\ unsent' = {}
        /\ UNCHANGED <<vars, orders, sync, toAssigner, assigner, toFSM, history>>
    BY <1>10 DEF SendReport
  <2>2. ElevatorOK'
    BY <2>1, VarsRest DEF Typed, ElevatorOK, orders, Holds
  <2> QED BY <2>1, <2>2 DEF Typed, OrdersOK, AssignerOK, OneResult, HistoryOK, orders, sync, assigner, history
<1>11. CASE Travel
  <2>1. /\ [Next]_vars
        /\ UNCHANGED <<toWorldview, unsent, orders, sync, toAssigner, assigner, toFSM, history>>
    BY <1>11 DEF Travel, Next
  <2>2. ElevatorOK'
    BY <2>1, NextHandles DEF Typed, ElevatorOK, orders
  <2> QED BY <2>1, <2>2 DEF Typed, OrdersOK, AssignerOK, OneResult, HistoryOK, orders, sync, assigner, history
<1>12. CASE UNCHANGED all
  <2>1. UNCHANGED <<vars, toWorldview, unsent, orders, sync, toAssigner, assigner, toFSM, history>>
    BY <1>12 DEF all
  <2>2. ElevatorOK'
    BY <2>1, VarsRest DEF Typed, ElevatorOK, orders
  <2> QED BY <2>1, <2>2 DEF Typed, OrdersOK, AssignerOK, OneResult, HistoryOK, orders, sync, assigner, history
<1> QED BY <1>1, <1>2, <1>3, <1>4, <1>5, <1>6, <1>7, <1>8, <1>9, <1>10, <1>11, <1>12 DEF CabinNext, ElevatorMoves

LEMMA TypedMeansTypes == ASSUME Typed PROVE CabinTypeOK
<1>1. TypeOK
  BY DEF Typed, ElevatorOK, Shaft
<1>2. /\ Cardinality(toWorldview) <= 1 /\ toWorldview \subseteq Report
      /\ Cardinality(unsent) <= 1 /\ unsent \subseteq Report
      /\ Cardinality(toSync) <= 1 /\ toSync \subseteq CellOrders
      /\ Cardinality(fromSync) <= 1 /\ fromSync \subseteq CellOrders
      /\ Cardinality(toAssigner) <= 1 /\ toAssigner \subseteq Input
      /\ Cardinality(assigning) <= 1 /\ assigning \subseteq Result
      /\ Cardinality(lastResult) <= 1 /\ lastResult \subseteq Result
      /\ Cardinality(fromAssigner) <= 1 /\ fromAssigner \subseteq Result
  BY HeldIsFew DEF Typed, ElevatorOK, OrdersOK, AssignerOK
<1>3. Len(toFSM) <= FSMChCap /\ \A i \in DOMAIN toFSM : toFSM[i] \in Results
  <2>1. CASE toFSM = <<>>
    BY <2>1, CabinConstants
  <2>2. ASSUME NEW q \in Results, toFSM = <<q>>
        PROVE  Len(toFSM) <= FSMChCap /\ \A i \in DOMAIN toFSM : toFSM[i] \in Results
    BY <2>2, CabinConstants
  <2> QED BY <2>1, <2>2 DEF Typed, OneResult
<1>4. \A input \in toAssigner : input.hallRequests \subseteq HallCell
  BY <1>2 DEF Input
<1>5. state \in Report /\ hall \in CellOrders /\ cab \subseteq CabFloor /\ HistoryOK
  BY DEF Typed, ElevatorOK, OrdersOK
<1> QED BY <1>1, <1>2, <1>3, <1>4, <1>5 DEF CabinTypeOK, Report, CellOrders, GoodOrder, Result, Results, HistoryOK

-----------------------------------------------------------------------------
(* The steps of the program, as the invariants see them: which goroutine  *)
(* works, on what, and what it leaves alone.                              *)

WorldviewHandlesReport(report) ==
    /\ TakesReport(report)
    /\ UNCHANGED <<elevator, reported, position, unsent, fromSync, fromAssigner, toFSM, met, astray>>

WorldviewHandlesSync(synced) ==
    /\ TakesSync(synced)
    /\ UNCHANGED <<elevator, reported, position, toWorldview, unsent, state, cab, toSync,
                   fromAssigner, toFSM, met, astray>>

WorldviewHandlesResult(result) ==
    /\ TakesResult(result)
    /\ UNCHANGED <<elevator, reported, position, toWorldview, unsent, state, cab, toSync, fromSync,
                   met, astray>>

SyncHandles(snapshot) ==
    /\ snapshot \in CellOrders /\ toSync = {snapshot} /\ toSync' = {}
    /\ fromSync' = {[c \in HallCell |-> SyncCell(snapshot[c])]}
    /\ UNCHANGED <<elevator, reported, position, toWorldview, unsent, state, hall, cab,
                   fromAssigner, toFSM, met, astray>>

AssignerHandles ==
    /\ fromAssigner' = fromAssigner \/ Handled
    /\ UNCHANGED <<elevator, reported, position, toWorldview, unsent, state, hall, cab, toSync, fromSync,
                   toFSM, met, astray>>

ReportFollows ==
    /\ unsent # {} /\ toWorldview' = unsent /\ unsent' = {}
    /\ UNCHANGED <<elevator, reported, position, state, hall, cab, toSync, fromSync, fromAssigner, toFSM,
                   met, astray>>

\* Only the car may move, and not with an open door.
CarOnly ==
    /\ Open(elevator) => GetFloor' = GetFloor
    /\ UNCHANGED <<elevator, reported, toWorldview, unsent, state, hall, cab, toSync, fromSync, fromAssigner,
                   toFSM, met, astray>>

Step ==
    \/ \E e, added : Handler(e, added)
    \/ \E r : ButtonPress(r)
    \/ \E report : WorldviewHandlesReport(report)
    \/ \E synced : WorldviewHandlesSync(synced)
    \/ \E result : WorldviewHandlesResult(result)
    \/ \E snapshot : SyncHandles(snapshot)
    \/ AssignerHandles
    \/ ReportFollows
    \/ CarOnly

LEMMA CabinStep == ASSUME Typed, Where, [CabinNext]_all PROVE Step
<1>1. CASE ElevatorMoves
  BY <1>1, ElevatorHandles DEF Step
<1>2. CASE (\E c \in HallCell : HallButton(c)) \/ \E f \in CabFloor : CabButton(f)
  BY <1>2, HallButtonPresses, CabButtonPresses DEF Step
<1>3. CASE ElevatorReport
  BY <1>3, ReportTakes DEF Step, WorldviewHandlesReport, ElevatorReport, vars, car, assigner, history
<1>4. CASE SyncResult
  BY <1>4, SyncTakes DEF Step, WorldviewHandlesSync, SyncResult, vars, car, assigner, history
<1>5. CASE Assignment
  BY <1>5, ResultTakes DEF Step, WorldviewHandlesResult, Assignment, vars, car, sync, history
<1>6. CASE Synchronize
  BY <1>6, SynchronizeTakes DEF Step, SyncHandles, Synchronize, vars, car, orders, assigner, history
<1>7. CASE Assign
  BY <1>7 DEF Step, AssignerHandles, Assign, vars, car, orders, sync, history
<1>8. CASE SendResult
  BY <1>8 DEF Step, AssignerHandles, SendResult, vars, car, orders, sync, history
<1>9. CASE SendReport
  BY <1>9 DEF Step, ReportFollows, SendReport, vars, car, orders, sync, assigner, history
<1>10. CASE Travel
  <2>1. /\ PollFloorSensor \/ CarMoves
        /\ UNCHANGED <<toWorldview, unsent, orders, sync, toAssigner, assigner, toFSM, history>>
    BY <1>10 DEF Travel
  <2>2. Open(elevator) => motor = D_Stop
    BY DEF Typed, ElevatorOK, Door, OpenDoorStandsStill, Open
  <2>3. Open(elevator) => GetFloor' = GetFloor
    BY <2>1, <2>2 DEF PollFloorSensor, CarMoves, car, GetFloor
  <2>4. UNCHANGED <<elevator, reported>>
    BY <2>1 DEF PollFloorSensor, CarMoves
  <2> QED BY <2>1, <2>3, <2>4 DEF Step, CarOnly, orders, sync, assigner, history
<1>11. CASE UNCHANGED all
  <2>1. UNCHANGED <<vars, toWorldview, unsent, orders, sync, assigner, toFSM, history>>
    BY <1>11 DEF all
  <2>2. GetFloor' = GetFloor
    BY <2>1 DEF vars, car, GetFloor
  <2> QED BY <2>1, <2>2 DEF Step, CarOnly, vars, orders, sync, assigner, history
<1> QED BY <1>1, <1>2, <1>3, <1>4, <1>5, <1>6, <1>7, <1>8, <1>9, <1>10, <1>11 DEF CabinNext, ElevatorMoves

\* A button, in its variables.
LEMMA ButtonChanges ==
  ASSUME NEW r, ButtonPress(r)
  PROVE  /\ toSync' = {hall'}
         /\ met' = (met \ {r}) \cup Meets(elevator, {r})
         /\ UNCHANGED <<elevator, reported, position, toWorldview, unsent, state, fromSync, fromAssigner,
                        toFSM, astray>>
  BY DEF ButtonPress, Press, sendLatestToSync, car, cabin, assigner

\* A handler of the elevator leaves the worldview's variables alone.
LEMMA HandlerLeaves ==
  ASSUME NEW e, NEW added, Handler(e, added)
  PROVE  UNCHANGED <<state, hall, cab, toSync, fromSync, fromAssigner>>
  BY DEF Handler, orders, sync, assigner

-----------------------------------------------------------------------------
(* The sync goroutine's results: no order is removed by it before it was    *)
(* served, and a removed one does not come back.                            *)

SyncSound(c) ==
    /\ \A s \in fromSync : s[c].SyncState # DeleteProposed
    /\ hall[c] = NoOrder => /\ \A s \in toSync : s[c].SyncState \in {None, DeleteProposed}
                            /\ \A s \in fromSync : s[c] = NoOrder
    /\ hall[c].SyncState = DeleteProposed =>
          \/ \E s \in toSync : s[c].SyncState = DeleteProposed
          \/ toSync = {} /\ \E s \in fromSync : s[c].SyncState = None

LEMMA SyncSoundNext ==
  ASSUME Typed, NEW c \in HallCell, SyncSound(c), Step
  PROVE  SyncSound(c)'
<1>1. hall \in CellOrders /\ hall[c] \in GoodOrder
  BY DEF Typed, OrdersOK, CellOrders
<1>2. NoOrder.SyncState = None /\ LostOrder.SyncState = Unconfirmed
  BY DEF NoOrder, LostOrder
<1>3. ASSUME UNCHANGED <<hall, toSync, fromSync>> PROVE SyncSound(c)'
  BY <1>3 DEF SyncSound
<1>4. ASSUME NEW r, ButtonPress(r) PROVE SyncSound(c)'
  <2>1. toSync' = {hall'} /\ fromSync' = fromSync
    BY <1>4, ButtonChanges
  <2>2. hall'[c] = hall[c] \/ (hall'[c].SyncState = Unconfirmed)
    BY <1>4 DEF ButtonPress
  <2> QED BY <1>2, <2>1, <2>2 DEF SyncSound, None, Unconfirmed, DeleteProposed
<1>5. ASSUME NEW report, WorldviewHandlesReport(report) PROVE SyncSound(c)'
  <2>1. toSync' = {hall'} /\ fromSync' = fromSync
    BY <1>5 DEF WorldviewHandlesReport, TakesReport
  <2>2. hall'[c] = hall[c] \/ hall'[c] = LostOrder \/ hall'[c].SyncState = DeleteProposed
    BY <1>5 DEF WorldviewHandlesReport, TakesReport
  <2> QED BY <1>2, <2>1, <2>2 DEF SyncSound, None, Unconfirmed, DeleteProposed
<1>6. ASSUME NEW synced, WorldviewHandlesSync(synced) PROVE SyncSound(c)'
  <2>1. /\ synced[c] \in GoodOrder /\ fromSync = {synced} /\ fromSync' = {} /\ toSync' = toSync
        /\ hall'[c] = MergeSyncOrder(hall[c], synced[c])
    BY <1>6 DEF WorldviewHandlesSync, TakesSync, CellOrders
  <2>2. hall'[c] \in {hall[c], synced[c]} /\ synced[c].SyncState # DeleteProposed
    BY <1>1, <2>1, MergedOrder DEF SyncSound
  <2>3. ASSUME hall'[c] = NoOrder PROVE \A s \in toSync' : s[c].SyncState \in {None, DeleteProposed}
    <3>1. CASE hall[c] = NoOrder
      BY <2>1, <3>1 DEF SyncSound
    <3>2. CASE hall[c] # NoOrder
      <4>1. hall[c].SyncState = DeleteProposed
        BY <1>1, <2>1, <2>3, <3>2, MergedState
      <4>2. toSync = {} \/ \E s \in toSync : s[c].SyncState = DeleteProposed
        BY <4>1 DEF SyncSound
      <4> QED BY <2>1, <4>2, HeldOne DEF Typed, OrdersOK, Holds
    <3> QED BY <3>1, <3>2
  <2>4. ASSUME hall'[c].SyncState = DeleteProposed PROVE \E s \in toSync' : s[c].SyncState = DeleteProposed
    <3>1. hall'[c] = hall[c] /\ hall[c].SyncState = DeleteProposed
      BY <2>2, <2>4
    <3>2. synced[c].SyncState # None
      BY <1>1, <2>1, <2>2, <2>4, MergedOrder, <3>1 DEF None, DeleteProposed
    <3> QED BY <2>1, <3>1, <3>2 DEF SyncSound
  <2> QED BY <2>1, <2>3, <2>4 DEF SyncSound
<1>7. ASSUME NEW result, WorldviewHandlesResult(result) PROVE SyncSound(c)'
  <2>1. UNCHANGED <<toSync, fromSync>>
    BY <1>7 DEF WorldviewHandlesResult
  <2>2. hall'[c] = hall[c] \/ hall'[c].SyncState = Confirmed
    BY <1>7 DEF WorldviewHandlesResult, TakesResult
  <2> QED BY <1>2, <2>1, <2>2 DEF SyncSound, None, Confirmed, DeleteProposed
<1>8. ASSUME NEW snapshot, SyncHandles(snapshot) PROVE SyncSound(c)'
  <2>1. /\ toSync = {snapshot} /\ toSync' = {} /\ hall' = hall /\ snapshot[c] \in GoodOrder
        /\ \A s \in fromSync' : s[c] = SyncCell(snapshot[c])
        /\ \E s \in fromSync' : s[c] = SyncCell(snapshot[c])
    BY <1>8 DEF SyncHandles, CellOrders
  <2>2. /\ SyncCell(snapshot[c]).SyncState # DeleteProposed
        /\ snapshot[c].SyncState \in {None, DeleteProposed} => SyncCell(snapshot[c]) = NoOrder
    BY <2>1, SyncedOrder
  <2> QED BY <1>2, <2>1, <2>2 DEF SyncSound
<1> QED BY <1>3, <1>4, <1>5, <1>6, <1>7, <1>8, HandlerLeaves DEF Step, AssignerHandles, ReportFollows, CarOnly

-----------------------------------------------------------------------------
(* The reports: the last one sent is the elevator's, and one that tells of *)
(* a closed door does not follow one of an open door that waits.           *)

Transit == toWorldview \cup unsent

LastReport == IF unsent # {} THEN unsent ELSE IF toWorldview # {} THEN toWorldview ELSE {state}

ToldLast == LastReport = {ReportOf(reported)}

ClosedFirst == (\E r \in unsent : ~Open(r)) => \A r \in toWorldview : ~Open(r)

LEMMA OpenReport == ASSUME NEW e PROVE Open(ReportOf(e)) <=> Open(e)
  BY DEF Open, ReportOf

LEMMA ToldNext == ASSUME ToldLast, Step PROVE ToldLast'
<1>1. ASSUME NEW e, NEW added, Handler(e, added) PROVE ToldLast'
  <2>1. Posts(e) /\ state' = state /\ unsent = {}
    BY <1>1, HandlerLeaves DEF Handler
  <2> QED BY <2>1 DEF Posts, ToldLast, LastReport
<1>2. ASSUME NEW r, ButtonPress(r) PROVE ToldLast'
  BY <1>2, ButtonChanges DEF ToldLast, LastReport
<1>3. ASSUME NEW report, WorldviewHandlesReport(report) PROVE ToldLast'
  BY <1>3 DEF WorldviewHandlesReport, TakesReport, ToldLast, LastReport
<1>4. CASE ReportFollows
  BY <1>4 DEF ReportFollows, ToldLast, LastReport
<1>5. ASSUME UNCHANGED <<reported, toWorldview, unsent, state>> PROVE ToldLast'
  BY <1>5 DEF ToldLast, LastReport
<1> QED BY <1>1, <1>2, <1>3, <1>4, <1>5 DEF Step, WorldviewHandlesSync, WorldviewHandlesResult, SyncHandles,
                                            AssignerHandles, CarOnly

LEMMA ClosedFirstNext == ASSUME ClosedFirst, Step PROVE ClosedFirst'
<1>1. ASSUME NEW e, NEW added, Handler(e, added) PROVE ClosedFirst'
  <2>1. Posts(e) /\ unsent = {} /\ Handles(e, added)
    BY <1>1 DEF Handler
  <2>2. CASE unsent' = {}
    BY <2>2 DEF ClosedFirst
  <2>3. CASE e # elevator /\ toWorldview' = {ReportOf(e)} /\ unsent' = {ReportOf(elevator')}
    <3>1. Open(e) => Open(elevator')
      BY <2>1, <2>3 DEF Handles, Open
    <3> QED BY <2>3, <3>1, OpenReport DEF ClosedFirst
  <2> QED BY <2>1, <2>2, <2>3 DEF Posts
<1>2. ASSUME NEW r, ButtonPress(r) PROVE ClosedFirst'
  BY <1>2, ButtonChanges DEF ClosedFirst
<1>3. ASSUME NEW report, WorldviewHandlesReport(report) PROVE ClosedFirst'
  BY <1>3 DEF WorldviewHandlesReport, TakesReport, ClosedFirst
<1>4. CASE ReportFollows
  BY <1>4 DEF ReportFollows, ClosedFirst
<1>5. ASSUME UNCHANGED <<toWorldview, unsent>> PROVE ClosedFirst'
  BY <1>5 DEF ClosedFirst
<1> QED BY <1>1, <1>2, <1>3, <1>4, <1>5 DEF Step, WorldviewHandlesSync, WorldviewHandlesResult, SyncHandles,
                                            AssignerHandles, CarOnly

LEMMA WhereNext == ASSUME Typed, Where, Step PROVE Where'
<1>1. ASSUME NEW e, NEW added, Handler(e, added) PROVE Where'
  BY <1>1 DEF Handler, Where, GetFloor, Open
<1>2. ASSUME UNCHANGED <<elevator, position, astray>> PROVE Where'
  BY <1>2 DEF Where, GetFloor
<1>3. CASE CarOnly
  BY <1>3 DEF CarOnly, Where
<1> QED BY <1>1, <1>2, <1>3, ButtonChanges DEF Step, WorldviewHandlesReport, WorldviewHandlesSync,
                     WorldviewHandlesResult, SyncHandles, AssignerHandles, ReportFollows

\* Where a closed door will be reported after an open one, nothing is on its way
\* to the elevator: it has no request that this report lacks.
NothingUnderway ==
    \A r \in Transit : Open(state) /\ ~Open(r)
        => toFSM = <<>> /\ fromAssigner = {} /\ elevator.Requests \subseteq r.Requests

\* The elevator's behaviour is the one last sent.
LEMMA ToldBehaviour ==
  ASSUME Typed, ToldLast, NEW r, LastReport = {r}
  PROVE  Open(r) <=> Open(elevator)
<1>1. reported.Behaviour = elevator.Behaviour
  <2>1. reported \in ElevatorState /\ [reported EXCEPT !.Requests = elevator.Requests] = elevator
    BY DEF Typed, ElevatorOK, Shaft, TypeOK, Current, Agrees
  <2> QED BY <2>1 DEF ElevatorState
<1>2. r = ReportOf(reported)
  BY DEF ToldLast
<1> QED BY <1>1, <1>2 DEF Open, ReportOf

LEMMA NothingUnderwayNext ==
  ASSUME Typed, ToldLast, ClosedFirst, NothingUnderway, Step
  PROVE  NothingUnderway'
<1>1. ASSUME NEW e, NEW added, Handler(e, added) PROVE NothingUnderway'
  <2>1. /\ Posts(e) /\ unsent = {} /\ Handles(e, added) /\ state' = state /\ fromAssigner' = fromAssigner
        /\ Takes(added)
    BY <1>1, HandlerLeaves DEF Handler
  <2>2. toFSM = <<>> => added = {} /\ toFSM' = <<>>
    BY <2>1, TakesOne DEF Typed
  <2>3. added = {} => elevator'.Requests \subseteq elevator.Requests /\ e.Requests = elevator.Requests
    BY <2>1 DEF Handles
  <2>4. ASSUME NEW r \in Transit', Open(state), ~Open(r)
        PROVE  toFSM' = <<>> /\ fromAssigner' = {} /\ elevator'.Requests \subseteq r.Requests
    <3>1. r \in toWorldview \/ r = ReportOf(e) \/ r = ReportOf(elevator')
      BY <2>1 DEF Posts, Transit
    <3>2. ReportOf(e).Requests = e.Requests /\ ReportOf(elevator').Requests = elevator'.Requests
      BY DEF ReportOf
    <3>3. CASE \E r0 \in toWorldview : ~Open(r0)
      <4>1. PICK r0 \in toWorldview : ~Open(r0)
        BY <3>3
      <4>2. toWorldview = {r0}
        BY HeldOne DEF Typed, ElevatorOK
      <4>3. toFSM = <<>> /\ fromAssigner = {} /\ elevator.Requests \subseteq r0.Requests
        BY <2>4, <4>1 DEF NothingUnderway, Transit
      <4> QED BY <2>1, <2>2, <2>3, <3>1, <3>2, <4>2, <4>3
    <3>4. CASE \A r0 \in toWorldview : Open(r0)
      <4>1. Open(elevator)
        <5>1. CASE toWorldview = {}
          BY <2>1, <2>4, <5>1, ToldBehaviour DEF LastReport
        <5>2. ASSUME NEW r0 \in toWorldview PROVE Open(elevator)
          <6>1. toWorldview = {r0}
            BY HeldOne DEF Typed, ElevatorOK
          <6> QED BY <2>1, <3>4, <5>2, <6>1, ToldBehaviour DEF LastReport
        <5> QED BY <5>1, <5>2
      <4>2. Open(e)
        BY <2>1, <4>1 DEF Handles, Open
      <4>3. r = ReportOf(elevator') /\ ~Open(elevator')
        BY <2>4, <3>1, <3>4, <4>2, OpenReport
      <4>4. Quiet
        BY <2>1, <4>1, <4>3 DEF Handles
      <4> QED BY <2>1, <2>2, <3>2, <4>3, <4>4 DEF Quiet, Handled
    <3> QED BY <3>3, <3>4
  <2> QED BY <2>1, <2>4 DEF NothingUnderway
<1>2. ASSUME NEW r, ButtonPress(r) PROVE NothingUnderway'
  BY <1>2, ButtonChanges DEF NothingUnderway, Transit
<1>3. ASSUME NEW report, WorldviewHandlesReport(report) PROVE NothingUnderway'
  BY <1>3 DEF WorldviewHandlesReport, TakesReport, NothingUnderway, Transit, ClosedFirst
<1>4. ASSUME NEW result, WorldviewHandlesResult(result) PROVE NothingUnderway'
  <2>1. fromAssigner # {}
    BY <1>4 DEF WorldviewHandlesResult, TakesResult
  <2> QED BY <1>4, <2>1 DEF WorldviewHandlesResult, NothingUnderway, Transit
<1>5. CASE AssignerHandles
  BY <1>5 DEF AssignerHandles, Handled, NothingUnderway, Transit
<1>6. CASE ReportFollows
  BY <1>6 DEF ReportFollows, NothingUnderway, Transit
<1>7. ASSUME UNCHANGED <<elevator, toWorldview, unsent, state, fromAssigner, toFSM>> PROVE NothingUnderway'
  BY <1>7 DEF NothingUnderway, Transit
<1> QED BY <1>1, <1>2, <1>3, <1>4, <1>5, <1>6, <1>7 DEF Step, WorldviewHandlesSync, SyncHandles, CarOnly

\* The door whose opening is still to be taken in by the worldview is open, and the
\* elevator has been given no request since.
StillOpen ==
    \A r \in Transit : Open(r) =>
        \/ astray
        \/ Open(elevator) /\ elevator.Floor = r.Floor /\ elevator.Requests \subseteq r.Requests

LEMMA StillOpenNext ==
  ASSUME Typed, StillOpen, Step
  PROVE  StillOpen'
<1>1. ASSUME NEW e, NEW added, Handler(e, added) PROVE StillOpen'
  <2>1. Posts(e) /\ unsent = {} /\ Handles(e, added) /\ (astray => astray') /\ Current /\ Current'
    BY <1>1 DEF Handler, Typed, ElevatorOK
  <2>2. ASSUME NEW r \in Transit', Open(r), ~astray
        PROVE  Open(elevator') /\ elevator'.Floor = r.Floor /\ elevator'.Requests \subseteq r.Requests
    <3>1. \/ r \in toWorldview /\ reported' = reported
          \/ r = ReportOf(elevator')
          \/ e # elevator /\ r = ReportOf(e)
      BY <2>1 DEF Posts, Transit
    <3>2. CASE r \in toWorldview /\ reported' = reported
      <4>1. Open(elevator) /\ elevator.Floor = r.Floor /\ elevator.Requests \subseteq r.Requests
        BY <2>2, <3>2 DEF StillOpen, Transit
      <4>2. ~Quiet
        BY <3>2 DEF Quiet, Handled
      <4>3. Open(elevator') /\ elevator'.Floor = r.Floor
        BY <2>1, <2>2, <4>1, <4>2 DEF Handles
      <4>4. reported = elevator /\ reported' = elevator'
        BY <2>1, <4>1, <4>3 DEF Current, Open
      <4> QED BY <3>2, <4>1, <4>3, <4>4
    <3>3. CASE r = ReportOf(elevator')
      BY <2>2, <3>3 DEF Open, ReportOf
    <3>4. CASE e # elevator /\ r = ReportOf(e)
      <4>1. Open(e) /\ r.Floor = e.Floor /\ r.Requests = e.Requests
        BY <2>2, <3>4 DEF Open, ReportOf
      <4>2. elevator'.Requests \subseteq e.Requests
        BY <2>1, <3>4 DEF Handles
      <4> QED BY <2>1, <2>2, <3>4, <4>1, <4>2 DEF Handles, Open
    <3> QED BY <3>1, <3>2, <3>3, <3>4
  <2> QED BY <2>1, <2>2 DEF StillOpen
<1>2. ASSUME UNCHANGED <<elevator, astray>>, Transit' \subseteq Transit PROVE StillOpen'
  BY <1>2 DEF StillOpen
<1>3. ASSUME NEW r, ButtonPress(r) PROVE StillOpen'
  <2>1. UNCHANGED <<elevator, astray>> /\ Transit' \subseteq Transit
    BY <1>3, ButtonChanges DEF Transit
  <2> QED BY <1>2, <2>1
<1> QED BY <1>1, <1>2, <1>3 DEF Step, WorldviewHandlesReport, TakesReport, WorldviewHandlesSync,
               WorldviewHandlesResult, SyncHandles, AssignerHandles, ReportFollows, CarOnly, Transit

-----------------------------------------------------------------------------
(* The passengers. *)

\* The open door of e has met the passengers of c, unless e still has their request.
MetBy(e, c) == c[1] = e.Floor /\ c \notin e.Requests /\ hall[c] # NoOrder => Excused(c)

PassengersMet(c) ==
    /\ Open(elevator) => MetBy(elevator, c)
    /\ \A r \in Transit : Open(r) => MetBy(r, c)

Underway(c) == \E i \in DOMAIN toFSM : c \in toFSM[i]

\* A request the worldview knows or will hear of is the elevator's, or the door is
\* open at its floor.
Reported(c) == c \in state.Requests \/ \E r \in Transit : c \in r.Requests

Reached(c) == c \in elevator.Requests \/ (Open(elevator) /\ c[1] = elevator.Floor) \/ astray

ReportedIsReached(c) == Reported(c) => Reached(c)

\* Somebody has the order as this elevator's own.
Asked(c) ==
    \/ hall[c].OwnerID = Me
    \/ \E s \in toSync \cup fromSync : s[c].OwnerID = Me
    \/ Reported(c)

Delivered(c) == c \in elevator.Requests \/ Underway(c) \/ Excused(c)

AskedIsDelivered(c) == hall[c] # NoOrder /\ Asked(c) => Delivered(c)

LEMMA NothingIsUnderway == ASSUME NEW c, toFSM = <<>> PROVE ~Underway(c)
  BY DEF Underway

LEMMA UnderwayIsHead == ASSUME NEW c, NEW q, toFSM = <<q>> PROVE Underway(c) <=> c \in q
  BY DEF Underway

LEMMA NewUnderway == ASSUME NEW c, NEW q, toFSM' = <<q>> PROVE Underway(c)' <=> c \in q
  BY DEF Underway

LEMMA NoneUnderwayNext == ASSUME NEW c, toFSM' = <<>> PROVE ~Underway(c)'
  BY DEF Underway

LEMMA NoneConfirmed == NoOrder.SyncState # Confirmed
  BY DEF NoOrder, None, Confirmed

\* A result of the sync goroutine makes no order.
LEMMA SyncedNothing ==
  ASSUME Typed, NEW c \in HallCell, SyncSound(c), NEW synced, WorldviewHandlesSync(synced)
  PROVE  hall[c] = NoOrder => hall'[c] = NoOrder
<1>1. /\ hall[c] \in GoodOrder /\ synced[c] \in GoodOrder /\ fromSync = {synced}
      /\ hall'[c] = MergeSyncOrder(hall[c], synced[c])
  BY DEF WorldviewHandlesSync, TakesSync, CellOrders, Typed, OrdersOK
<1> QED BY <1>1, MergedOrder DEF SyncSound

\* Orders are made by buttons only.
LEMMA OrdersRemain ==
  ASSUME Typed, NEW c \in HallCell, SyncSound(c), Step, ~ \E r : ButtonPress(r)
  PROVE  hall'[c] # NoOrder => hall[c] # NoOrder
<1>2. ASSUME NEW report, WorldviewHandlesReport(report) PROVE hall'[c] # NoOrder => hall[c] # NoOrder
  BY <1>2, NoneConfirmed DEF WorldviewHandlesReport, TakesReport
<1>3. ASSUME NEW synced, WorldviewHandlesSync(synced) PROVE hall'[c] # NoOrder => hall[c] # NoOrder
  BY <1>3, SyncedNothing
<1>4. ASSUME NEW result, WorldviewHandlesResult(result) PROVE hall'[c] # NoOrder => hall[c] # NoOrder
  BY <1>4, NoneConfirmed DEF WorldviewHandlesResult, TakesResult
<1>5. ASSUME NEW e, NEW added, Handler(e, added) PROVE hall'[c] # NoOrder => hall[c] # NoOrder
  BY <1>5, HandlerLeaves
<1> QED BY <1>2, <1>3, <1>4, <1>5 DEF Step, SyncHandles, AssignerHandles, ReportFollows, CarOnly

LEMMA HandlerExcuses ==
  ASSUME NEW e, NEW added, Handler(e, added), NEW c
  PROVE  Excused(c) => Excused(c)'
  BY DEF Handler, Excused

\* Whom the elevator's open door has not met, it has on its list.
LEMMA HandlerMeets ==
  ASSUME NEW e, NEW added, Handler(e, added), NEW c \in HallCell, hall[c] # NoOrder,
         Open(elevator'), c[1] = elevator'.Floor, c \notin elevator'.Requests
  PROVE  Excused(c)'
<1>1. c \in Pressed
  BY DEF Pressed
<1>2. CASE elevator'.Floor = GetFloor
  <2>1. c \in Meets(elevator', Pressed)
    BY <1>1, <1>2 DEF Meets, Open
  <2> QED BY <2>1 DEF Handler, Excused
<1>3. CASE elevator'.Floor # GetFloor
  BY <1>3 DEF Handler, Excused, Open
<1> QED BY <1>2, <1>3

LEMMA ButtonExcuses ==
  ASSUME NEW r, ButtonPress(r), NEW c, c # r
  PROVE  Excused(c) => Excused(c)'
<1>1. met' = (met \ {r}) \cup Meets(elevator, {r}) /\ astray' = astray
  BY ButtonChanges
<1> QED BY <1>1 DEF Excused

LEMMA ButtonMeets ==
  ASSUME Where, NEW r, ButtonPress(r), Open(elevator), r[1] = elevator.Floor, r \notin elevator.Requests
  PROVE  Excused(r)'
<1>1. CASE GetFloor = elevator.Floor
  <2>1. r \in Meets(elevator, {r})
    BY <1>1 DEF Meets, Open
  <2> QED BY <2>1, ButtonChanges DEF Excused
<1>2. CASE astray
  BY <1>2, ButtonChanges DEF Excused
<1> QED BY <1>1, <1>2 DEF Where

LEMMA PassengersMetNext ==
  ASSUME Typed, Where, StillOpen, NEW c \in HallCell, SyncSound(c), PassengersMet(c), Step
  PROVE  PassengersMet(c)'
<1>1. ASSUME NEW e, NEW added, Handler(e, added) PROVE PassengersMet(c)'
  <2>1. Posts(e) /\ unsent = {} /\ Handles(e, added) /\ hall' = hall
    BY <1>1, HandlerLeaves DEF Handler
  <2>2. ASSUME Open(elevator'), c[1] = elevator'.Floor, c \notin elevator'.Requests, hall[c] # NoOrder
        PROVE  Excused(c)'
    BY <1>1, <2>2, HandlerMeets
  <2>3. ASSUME NEW r \in Transit', Open(r), c[1] = r.Floor, c \notin r.Requests, hall[c] # NoOrder
        PROVE  Excused(c)'
    <3>1. \/ r \in Transit
          \/ r = ReportOf(elevator')
          \/ e # elevator /\ r = ReportOf(e)
      BY <2>1 DEF Posts, Transit
    <3>2. CASE r \in Transit
      <4>1. Excused(c)
        BY <2>3, <3>2 DEF PassengersMet, MetBy
      <4> QED BY <1>1, <4>1, HandlerExcuses
    <3>3. CASE r = ReportOf(elevator')
      BY <2>2, <2>3, <3>3 DEF Open, ReportOf
    <3>4. CASE e # elevator /\ r = ReportOf(e)
      <4>1. Open(elevator) /\ c[1] = e.Floor /\ c \notin elevator.Requests
        BY <2>1, <2>3, <3>4 DEF Handles, Open, ReportOf
      <4>2. e.Floor = elevator.Floor \/ astray
        BY <2>1, <4>1 DEF Handles, Open
      <4>3. Excused(c)
        BY <2>3, <4>1, <4>2 DEF PassengersMet, MetBy, Excused
      <4> QED BY <1>1, <4>3, HandlerExcuses
    <3> QED BY <3>1, <3>2, <3>3, <3>4
  <2> QED BY <2>1, <2>2, <2>3 DEF PassengersMet, MetBy
<1>2. ASSUME NEW b, ButtonPress(b) PROVE PassengersMet(c)'
  <2>1. elevator' = elevator /\ Transit' = Transit
    BY <1>2, ButtonChanges DEF Transit
  <2>2. CASE c # b
    <3>1. hall'[c] = hall[c] /\ (Excused(c) => Excused(c)')
      BY <1>2, <2>2, ButtonExcuses DEF ButtonPress
    <3> QED BY <2>1, <3>1 DEF PassengersMet, MetBy
  <2>3. CASE c = b
    <3>1. Open(elevator) /\ c[1] = elevator.Floor /\ c \notin elevator.Requests => Excused(c)'
      BY <1>2, <2>3, ButtonMeets
    <3>2. ASSUME NEW r \in Transit, Open(r), c[1] = r.Floor, c \notin r.Requests PROVE Excused(c)'
      <4>1. CASE astray
        BY <1>2, <4>1, ButtonChanges DEF Excused
      <4>2. CASE ~astray
        <5>1. Open(elevator) /\ elevator.Floor = r.Floor /\ c \notin elevator.Requests
          BY <3>2, <4>2 DEF StillOpen
        <5> QED BY <3>1, <3>2, <5>1
      <4> QED BY <4>1, <4>2
    <3> QED BY <2>1, <3>1, <3>2 DEF PassengersMet, MetBy
  <2> QED BY <2>2, <2>3
<1>3. CASE (~ \E e, added : Handler(e, added)) /\ ~ \E b : ButtonPress(b)
  <2>1. hall'[c] # NoOrder => hall[c] # NoOrder
    BY <1>3, OrdersRemain
  <2>2. UNCHANGED <<elevator, met, astray>> /\ Transit' \subseteq Transit
    BY <1>3 DEF Step, WorldviewHandlesReport, TakesReport, WorldviewHandlesSync, WorldviewHandlesResult,
                SyncHandles, AssignerHandles, ReportFollows, CarOnly, Transit
  <2> QED BY <2>1, <2>2 DEF PassengersMet, MetBy, Excused
<1> QED BY <1>1, <1>2, <1>3

LEMMA HandlerAdds ==
  ASSUME Typed, NEW e, NEW added, Handler(e, added), NEW c
  PROVE  /\ c \in added => Underway(c)
         /\ Underway(c) => Underway(c)' \/ c \in added
         /\ Underway(c)' => Underway(c)
         /\ \A r \in Transit' : c \in r.Requests =>
               c \in elevator.Requests \/ c \in elevator'.Requests \/ \E r0 \in Transit : c \in r0.Requests
<1>1. (added = {} /\ toFSM' = toFSM) \/ (toFSM = <<added>> /\ toFSM' = <<>>)
  BY TakesOne DEF Typed, Handler, assigner
<1>2. Posts(e) /\ unsent = {} /\ e.Requests = elevator.Requests
  BY DEF Handler, Handles
<1>3. \A r \in Transit' : r \in Transit \/ r.Requests = elevator.Requests \/ r.Requests = elevator'.Requests
  BY <1>2 DEF Posts, Transit, ReportOf
<1>4. CASE added = {} /\ toFSM' = toFSM
  BY <1>3, <1>4 DEF Underway
<1>5. CASE toFSM = <<added>> /\ toFSM' = <<>>
  BY <1>3, <1>5, UnderwayIsHead, NoneUnderwayNext
<1> QED BY <1>1, <1>4, <1>5

\* A request leaves the elevator's list where the door is opened, and the door does
\* not close before the worldview has heard of it.
LEMMA ReportedIsReachedNext ==
  ASSUME Typed, ToldLast, NEW c, ReportedIsReached(c), Step
  PROVE  ReportedIsReached(c)'
<1>1. ASSUME NEW e, NEW added, Handler(e, added) PROVE ReportedIsReached(c)'
  <2>1. Handles(e, added) /\ state' = state /\ (astray => astray')
    BY <1>1, HandlerLeaves DEF Handler
  <2>2. ASSUME Reported(c)' PROVE Reached(c)'
    <3>1. c \in elevator.Requests \/ c \in elevator'.Requests \/ Reported(c)
      BY <1>1, <2>1, <2>2, HandlerAdds DEF Reported
    <3>2. CASE c \in elevator'.Requests \/ astray
      BY <2>1, <3>2 DEF Reached
    <3>3. CASE c \in elevator.Requests \ elevator'.Requests
      BY <2>1, <3>3 DEF Handles, Reached
    <3>4. CASE Reported(c) /\ c \notin elevator.Requests /\ ~astray
      <4>1. Open(elevator) /\ c[1] = elevator.Floor
        BY <3>4 DEF ReportedIsReached, Reached
      <4>2. CASE Open(elevator')
        BY <2>1, <3>4, <4>1, <4>2 DEF Handles, Reached
      <4>3. CASE ~Open(elevator')
        <5>1. Transit = {} /\ toWorldview = {} /\ unsent = {}
          BY <2>1, <4>1, <4>3 DEF Handles, Quiet, Handled, Transit
        <5>2. state = ReportOf(reported)
          BY <5>1 DEF ToldLast, LastReport
        <5>3. state.Requests \subseteq elevator.Requests
          BY <5>2 DEF ReportOf, Typed, ElevatorOK, Current, Agrees
        <5> QED BY <3>4, <5>1, <5>3 DEF Reported
      <4> QED BY <4>2, <4>3
    <3> QED BY <3>1, <3>2, <3>3, <3>4
  <2> QED BY <2>2 DEF ReportedIsReached
<1>2. ASSUME NEW b, ButtonPress(b) PROVE ReportedIsReached(c)'
  BY <1>2, ButtonChanges DEF ReportedIsReached, Reported, Reached, Transit
<1>3. ASSUME NEW report, WorldviewHandlesReport(report) PROVE ReportedIsReached(c)'
  BY <1>3 DEF WorldviewHandlesReport, TakesReport, ReportedIsReached, Reported, Reached, Transit
<1>4. ASSUME UNCHANGED <<elevator, state, astray>>, Transit' \subseteq Transit PROVE ReportedIsReached(c)'
  BY <1>4 DEF ReportedIsReached, Reported, Reached
<1> QED BY <1>1, <1>2, <1>3, <1>4 DEF Step, WorldviewHandlesSync, WorldviewHandlesResult, SyncHandles,
                                      AssignerHandles, ReportFollows, CarOnly, Transit

LEMMA AskedNext ==
  ASSUME Typed, Where, NEW c \in HallCell, SyncSound(c), ReportedIsReached(c), AskedIsDelivered(c), Step
  PROVE  AskedIsDelivered(c)'
<1>0. LostOrder.OwnerID # Me /\ NoOrder.OwnerID # Me /\ NoOwner # Me
  BY NodeOwners DEF LostOrder, NoOrder
<1>1. ASSUME NEW e, NEW added, Handler(e, added) PROVE AskedIsDelivered(c)'
  <2>1. UNCHANGED <<state, hall, toSync, fromSync>>
    BY <1>1, HandlerLeaves
  <2>2. \A r \in (elevator.Requests \cup added) \ elevator'.Requests : Open(elevator') /\ r[1] = elevator'.Floor
    BY <1>1 DEF Handler, Handles
  <2>3. /\ Underway(c) => Underway(c)' \/ c \in added
        /\ \A r \in Transit' : c \in r.Requests =>
               c \in elevator.Requests \/ c \in elevator'.Requests \/ \E r0 \in Transit : c \in r0.Requests
    BY <1>1, HandlerAdds
  <2>4. ASSUME hall[c] # NoOrder, Asked(c)' PROVE Delivered(c)'
    <3>1. Asked(c) \/ c \in elevator.Requests \/ c \in elevator'.Requests
      BY <2>1, <2>3, <2>4 DEF Asked, Reported
    <3>2. \/ c \in elevator'.Requests \/ Underway(c)' \/ Excused(c)
          \/ c \in (elevator.Requests \cup added) \ elevator'.Requests
      BY <2>3, <2>4, <3>1 DEF AskedIsDelivered, Delivered
    <3>3. CASE c \in (elevator.Requests \cup added) \ elevator'.Requests
      BY <1>1, <2>2, <2>4, <3>3, HandlerMeets DEF Delivered
    <3>4. CASE Excused(c)
      BY <1>1, <3>4, HandlerExcuses DEF Delivered
    <3> QED BY <3>2, <3>3, <3>4 DEF Delivered
  <2> QED BY <2>1, <2>4 DEF AskedIsDelivered
<1>2. ASSUME NEW b, ButtonPress(b) PROVE AskedIsDelivered(c)'
  <2>1. /\ UNCHANGED <<elevator, reported, state, fromSync, toFSM>> /\ toSync' = {hall'} /\ Transit' = Transit
    BY <1>2, ButtonChanges DEF Transit
  <2>2. CASE c # b
    <3>1. hall'[c] = hall[c] /\ (Excused(c) => Excused(c)')
      BY <1>2, <2>2, ButtonExcuses DEF ButtonPress
    <3> QED BY <2>1, <3>1 DEF AskedIsDelivered, Asked, Reported, Delivered, Underway
  <2>3. CASE c = b
    <3>1. hall[c] = NoOrder /\ hall'[c].OwnerID = NoOwner
      BY <1>2, <2>3 DEF ButtonPress
    <3>2. \A s \in toSync' \cup fromSync' : s[c].OwnerID # Me
      BY <1>0, <2>1, <3>1 DEF SyncSound
    <3>3. ASSUME Asked(c)' PROVE Delivered(c)'
      <4>1. Reported(c)
        BY <1>0, <2>1, <3>1, <3>2, <3>3 DEF Asked, Reported
      <4>2. CASE c \in elevator.Requests \/ astray
        BY <1>2, <2>1, <4>2, ButtonChanges DEF Delivered, Excused
      <4>3. CASE Open(elevator) /\ c[1] = elevator.Floor /\ c \notin elevator.Requests
        BY <1>2, <2>3, <4>3, ButtonMeets DEF Delivered
      <4> QED BY <4>1, <4>2, <4>3 DEF ReportedIsReached, Reached
    <3> QED BY <3>3 DEF AskedIsDelivered
  <2> QED BY <2>2, <2>3
<1>3. ASSUME NEW report, WorldviewHandlesReport(report) PROVE AskedIsDelivered(c)'
  <2>1. /\ UNCHANGED <<elevator, unsent, fromSync, toFSM, met, astray>> /\ toSync' = {hall'}
        /\ state' = report /\ report \in Transit /\ toWorldview' = {}
    BY <1>3 DEF WorldviewHandlesReport, TakesReport, Transit
  <2>2. /\ hall'[c] # NoOrder => hall[c] # NoOrder
        /\ hall'[c].OwnerID = Me => hall[c].OwnerID = Me
    BY <1>0, <1>3, NoneConfirmed DEF WorldviewHandlesReport, TakesReport
  <2>3. Asked(c)' => Asked(c)
    BY <2>1, <2>2 DEF Asked, Reported, Transit
  <2> QED BY <2>1, <2>2, <2>3 DEF AskedIsDelivered, Delivered, Underway, Excused
<1>4. ASSUME NEW synced, WorldviewHandlesSync(synced) PROVE AskedIsDelivered(c)'
  <2>1. /\ UNCHANGED <<elevator, state, toWorldview, unsent, toSync, toFSM, met, astray>>
        /\ fromSync = {synced} /\ fromSync' = {}
    BY <1>4 DEF WorldviewHandlesSync, TakesSync
  <2>2. hall[c] = NoOrder => hall'[c] = NoOrder
    BY <1>4, SyncedNothing
  <2>3. hall'[c] \in {hall[c], synced[c]}
    BY <1>4, MergedOrder DEF WorldviewHandlesSync, TakesSync, CellOrders, Typed, OrdersOK
  <2>4. Asked(c)' => Asked(c)
    BY <2>1, <2>3 DEF Asked, Reported, Transit
  <2> QED BY <2>1, <2>2, <2>4 DEF AskedIsDelivered, Delivered, Underway, Excused
<1>5. ASSUME NEW result, WorldviewHandlesResult(result) PROVE AskedIsDelivered(c)'
  <2>1. /\ UNCHANGED <<elevator, state, toWorldview, unsent, toSync, fromSync, met, astray>>
        /\ toFSM = <<>> /\ toFSM' = <<RequestsOf(hall', cab)>>
    BY <1>5 DEF WorldviewHandlesResult, TakesResult
  <2>2. CASE hall'[c] = hall[c]
    <3>1. Asked(c)' => Asked(c)
      BY <2>1, <2>2 DEF Asked, Reported, Transit
    <3> QED BY <2>1, <2>2, <3>1, NothingIsUnderway DEF AskedIsDelivered, Delivered, Excused
  <2>3. CASE hall'[c] = [SyncState |-> Confirmed, OwnerID |-> Me]
    <3>1. c \in RequestsOf(hall', cab)
      BY <2>3 DEF RequestsOf
    <3> QED BY <2>1, <3>1, NewUnderway DEF AskedIsDelivered, Delivered
  <2> QED BY <1>5, <2>2, <2>3 DEF WorldviewHandlesResult, TakesResult
<1>6. ASSUME NEW snapshot, SyncHandles(snapshot) PROVE AskedIsDelivered(c)'
  <2>1. /\ UNCHANGED <<elevator, state, hall, toWorldview, unsent, toFSM, met, astray>>
        /\ toSync = {snapshot} /\ toSync' = {} /\ snapshot[c] \in GoodOrder
        /\ \A s \in fromSync' : s[c] = SyncCell(snapshot[c])
    BY <1>6 DEF SyncHandles, CellOrders
  <2>2. SyncCell(snapshot[c]).OwnerID \in {snapshot[c].OwnerID, NoOwner}
    BY <2>1, SyncedOrder
  <2>3. Asked(c)' => Asked(c)
    BY <1>0, <2>1, <2>2 DEF Asked, Reported, Transit
  <2> QED BY <2>1, <2>3 DEF AskedIsDelivered, Delivered, Underway, Excused
<1>7. ASSUME UNCHANGED <<elevator, state, hall, toSync, fromSync, toFSM, met, astray>>, Transit' \subseteq Transit
      PROVE  AskedIsDelivered(c)'
  <2>1. Asked(c)' => Asked(c)
    BY <1>7 DEF Asked, Reported
  <2> QED BY <1>7, <2>1 DEF AskedIsDelivered, Delivered, Underway, Excused
<1> QED BY <1>1, <1>2, <1>3, <1>4, <1>5, <1>6, <1>7 DEF Step, AssignerHandles, ReportFollows, CarOnly, Transit

-----------------------------------------------------------------------------
(* The theorems. *)

CellSound(c) == SyncSound(c) /\ ReportedIsReached(c) /\ PassengersMet(c) /\ AskedIsDelivered(c)

Sound ==
    /\ Typed /\ Where /\ ToldLast /\ ClosedFirst /\ NothingUnderway /\ StillOpen
    /\ \A c \in HallCell : CellSound(c)

LEMMA SoundInit == CabinInit => Sound
<1> SUFFICES ASSUME CabinInit PROVE Sound
  OBVIOUS
<1>1. Typed
  BY CabinInitTyped
<1>2. /\ toWorldview = {ReportOf(elevator)} /\ reported = elevator /\ unsent = {}
      /\ elevator.Behaviour = "Idle" /\ elevator.Requests = {}
      /\ state.Behaviour = "Idle" /\ state.Requests = {}
      /\ toFSM = <<>> /\ toSync = {} /\ fromSync = {}
  BY DEF CabinInit, Init
<1>3. ReportOf(elevator).Behaviour = "Idle" /\ ReportOf(elevator).Requests = {}
  BY <1>2 DEF ReportOf
<1>4. Where /\ ToldLast /\ ClosedFirst /\ NothingUnderway /\ StillOpen
  BY <1>2, <1>3 DEF Where, ToldLast, LastReport, ClosedFirst, NothingUnderway, StillOpen, Transit, Open
<1>5. ASSUME NEW c \in HallCell PROVE CellSound(c)
  <2>1. hall[c] = NoOrder
    BY DEF CabinInit
  <2>2. NoOrder.SyncState # DeleteProposed
    BY DEF NoOrder, None, DeleteProposed
  <2> QED BY <1>2, <1>3, <2>1, <2>2 DEF CellSound, SyncSound, ReportedIsReached, Reported, PassengersMet,
                                        Transit, Open, AskedIsDelivered
<1> QED BY <1>4, <1>1, <1>5 DEF Sound

LEMMA SoundNext == Sound /\ [CabinNext]_all => Sound'
<1> SUFFICES ASSUME Sound, [CabinNext]_all PROVE Sound'
  OBVIOUS
<1>1. Typed' /\ Step
  BY TypedNext, CabinStep DEF Sound
<1>2. Where' /\ ToldLast' /\ ClosedFirst' /\ NothingUnderway' /\ StillOpen'
  BY <1>1, WhereNext, ToldNext, ClosedFirstNext, NothingUnderwayNext, StillOpenNext DEF Sound
<1>3. ASSUME NEW c \in HallCell PROVE CellSound(c)'
  BY <1>1, SyncSoundNext, ReportedIsReachedNext, PassengersMetNext, AskedNext DEF Sound, CellSound
<1> QED BY <1>1, <1>2, <1>3 DEF Sound

LEMMA AlwaysSound == CabinSpec => []Sound
  BY SoundInit, SoundNext, PTL DEF CabinSpec

\* CabinTypeOK for every number of floors and buttons: no mailbox ever holds two
\* values, the queue to the elevator never overflows, the car stays in its shaft.
THEOREM CabinTypes == CabinSpec => []CabinTypeOK
<1>1. Sound => CabinTypeOK
  BY TypedMeansTypes DEF Sound
<1> QED BY <1>1, AlwaysSound, PTL

\* What ElevatorFSM promises of the door and of the reports holds of the elevator
\* in the whole program, where the assigner's results are all the requests it gets.
THEOREM DoorIsSafeInCabin == CabinSpec => [](OpenDoorHasTimer /\ OpenDoorStandsStill /\ ReportIsCurrent)
<1>1. Sound => OpenDoorHasTimer /\ OpenDoorStandsStill /\ ReportIsCurrent
  BY DEF Sound, Typed, ElevatorOK, Door, Current, Agrees, Open, ReportIsCurrent
<1> QED BY <1>1, AlwaysSound, PTL

\* An order is taken as served from a report of an open door, or of one that is
\* closed where the report before told of an open one.
LEMMA ServedIsMet ==
  ASSUME Sound, NEW c \in HallCell, NEW report, WorldviewHandlesReport(report),
         hall[c].SyncState = Confirmed, hall'[c].SyncState = DeleteProposed
  PROVE  Excused(c)
<1>1. hall[c] # NoOrder /\ LostOrder.SyncState # DeleteProposed
  BY DEF NoOrder, LostOrder, None, Unconfirmed, Confirmed, DeleteProposed
<1>2. ServedBy(c, report) /\ report \in Transit
  BY <1>1 DEF WorldviewHandlesReport, TakesReport, Transit, Confirmed, DeleteProposed
<1>3. c[1] \in Floor /\ c[1] # Between
  BY CabinConstants, FloorInt DEF Floor, Between
<1>4. CASE Open(report)
  <2>1. c[1] = report.Floor /\ c \notin report.Requests
    BY <1>2, <1>4 DEF ServedBy, CheckedFloor, Open
  <2> QED BY <1>1, <1>2, <1>4, <2>1 DEF Sound, CellSound, PassengersMet, MetBy
<1>5. CASE ~Open(report)
  <2>1. Open(state)
    BY <1>2, <1>3, <1>5 DEF ServedBy, CheckedFloor, Open
  <2>2. toFSM = <<>> /\ c \notin elevator.Requests
    BY <1>2, <1>5, <2>1 DEF Sound, NothingUnderway, ServedBy
  <2>3. Delivered(c)
    BY <1>1, <1>2 DEF ServedBy, Asked, Reported, Sound, CellSound, AskedIsDelivered
  <2> QED BY <2>2, <2>3, NothingIsUnderway DEF Delivered
<1> QED BY <1>4, <1>5

\* NotForgotten for every number of floors and buttons: whatever copies the five
\* goroutines work on, an order is only taken as served whose passengers have met
\* an open door since they pressed, unless the door was opened with a stale floor.
THEOREM PassengersNotForgotten == CabinSpec => NotForgotten
<1>1. ASSUME Sound, [CabinNext]_all, NEW c \in HallCell,
             hall[c].SyncState = Confirmed, hall'[c].SyncState = DeleteProposed
      PROVE  c \in met \/ astray
  <2>1. Typed /\ Step /\ SyncSound(c) /\ hall[c] \in GoodOrder
    BY <1>1, CabinStep DEF Sound, CellSound, Typed, OrdersOK, CellOrders
  <2>2. Confirmed # DeleteProposed /\ Unconfirmed # DeleteProposed
    BY DEF Unconfirmed, Confirmed, DeleteProposed
  <2>3. ASSUME NEW report, WorldviewHandlesReport(report) PROVE c \in met \/ astray
    BY <1>1, <2>3, ServedIsMet DEF Excused
  <2>4. ASSUME NEW b, ButtonPress(b) PROVE FALSE
    BY <1>1, <2>2, <2>4 DEF ButtonPress
  <2>5. ASSUME NEW synced, WorldviewHandlesSync(synced) PROVE FALSE
    <3>1. synced \in fromSync /\ synced[c] \in GoodOrder /\ hall'[c] = MergeSyncOrder(hall[c], synced[c])
      BY <2>5 DEF WorldviewHandlesSync, TakesSync, CellOrders
    <3>2. hall'[c] \in {hall[c], synced[c]} /\ synced[c].SyncState # DeleteProposed
      BY <2>1, <3>1, MergedOrder DEF SyncSound
    <3> QED BY <1>1, <2>2, <3>2
  <2>6. ASSUME NEW result, WorldviewHandlesResult(result) PROVE FALSE
    BY <1>1, <2>2, <2>6 DEF WorldviewHandlesResult, TakesResult
  <2>7. ASSUME hall' = hall PROVE FALSE
    BY <1>1, <2>2, <2>7
  <2> QED BY <2>1, <2>3, <2>4, <2>5, <2>6, <2>7, HandlerLeaves
             DEF Step, SyncHandles, AssignerHandles, ReportFollows, CarOnly
<1>2. Sound /\ [CabinNext]_all =>
        [\A c \in HallCell : hall[c].SyncState = Confirmed /\ hall'[c].SyncState = DeleteProposed
                             => c \in met \/ astray]_all
  BY <1>1
<1> QED BY <1>2, AlwaysSound, PTL DEF CabinSpec, NotForgotten
=============================================================================

-------------------------------- MODULE Cabin --------------------------------
(***************************************************************************)
(* The program of one elevator that is alone on its network: its worldview *)
(* goroutine, its sync goroutine, its assigner and, from ElevatorFSM, its  *)
(* elevator and car.  An order goes round: pressed, confirmed, assigned,   *)
(* given to the elevator, served, reported, removed.  Each goroutine works *)
(* on a copy of what it was sent, which may be old by then.                *)
(*                                                                         *)
(* Time: a goroutine handles what waits for it in microseconds, the        *)
(* assigner's process takes milliseconds, the car and the timers tenths of *)
(* a second.  What is slower finds what is faster done; buttons, ticks and *)
(* the sensor come at any moment.  A mailbox is the set of what it holds.  *)
(***************************************************************************)
EXTENDS ElevatorFSM, HallOrder, Sequences

CONSTANTS
    Me,
    HallCell,     \* the hall buttons
    CabFloor,     \* the floors with a cab button
    FSMChCap      \* capacity of worldviewToFSMCh (16)

ASSUME CabinConstants ==
    /\ Me \in Node
    /\ HallCell \subseteq Floor \X {"HallUp", "HallDown"}
    /\ CabFloor \subseteq Floor
    /\ FSMChCap \in Nat \ {0}

VARIABLES
    toWorldview,   \* elevatorToWorldviewCh
    unsent,        \* the state a handler of the elevator sends next, if any
    state,         \* State of the worldview: the last report it handled
    hall,          \* HallOrders of the worldview
    cab,           \* the floors with a cab order
    toSync,        \* worldviewToSyncCh
    fromSync,      \* syncToWorldviewCh
    toAssigner,    \* worldviewToAssignerCh: what the assigner reads of it
    assigning,     \* the result the assigner has computed, if any
    lastResult,    \* {lastResult}, or {} if it is nil
    fromAssigner,  \* assignerToWorldviewCh
    toFSM,         \* worldviewToFSMCh: the requests each worldview tells of
    met,           \* history: buttons whose passengers have met an open door
    astray         \* history: the door was opened where the elevator was not thought to be

orders   == <<state, hall, cab>>
sync     == <<toSync, fromSync>>
assigner == <<assigning, lastResult, fromAssigner>>
cabin    == <<elevator, reported, doorTimer, errorTimer, obstruct>>
history  == <<met, astray>>
all      == <<vars, toWorldview, unsent, orders, sync, toAssigner, assigner, toFSM, history>>

CabRequest(floors) == floors \X {"Cab"}

ReportOf(e) == [Floor |-> e.Floor, Behaviour |-> e.Behaviour, Requests |-> e.Requests, Error |-> e.Error]

\* InitElevator has sent its state.
CabinInit ==
    /\ Init
    /\ toWorldview  = {ReportOf(elevator)}
    /\ unsent       = {}
    /\ state        = [Floor |-> 0, Behaviour |-> "Idle", Requests |-> {}, Error |-> FALSE]
    /\ hall         = [c \in HallCell |-> NoOrder]
    /\ cab          = {}
    /\ toSync       = {}
    /\ fromSync     = {}
    /\ toAssigner   = {}
    /\ assigning    = {}
    /\ lastResult   = {}
    /\ fromAssigner = {}
    /\ toFSM        = <<>>
    /\ met          = {}
    /\ astray       = FALSE

\* Nothing waits for a goroutine; nothing waits for the assigner either.
Handled == toWorldview = {} /\ unsent = {} /\ toSync = {} /\ fromSync = {} /\ toFSM = <<>>
Quiet   == Handled /\ toAssigner = {} /\ assigning = {} /\ fromAssigner = {}

-----------------------------------------------------------------------------
(* The passengers' buttons, and what the cases of the worldview send. *)

sendLatestToSync == toSync' = {hall'}

\* Those of the passengers' requests that the elevator's open door serves.
Meets(e, requests) ==
    IF e.Behaviour = "DoorOpen" THEN {r \in requests : r[1] = GetFloor} \ e.Requests ELSE {}

Pressed == {c \in HallCell : hall[c] # NoOrder} \cup CabRequest(cab)

Press(r) ==
    /\ Spend("press")
    /\ met' = (met \ {r}) \cup Meets(elevator, {r})
    /\ sendLatestToSync
    /\ UNCHANGED <<car, poll, cabin, toWorldview, unsent, state, fromSync, toAssigner, assigner, toFSM, astray>>

HallButton(c) ==
    /\ hall[c] = NoOrder
    /\ hall' = [hall EXCEPT ![c] = addNewHallOrder(@)]
    /\ UNCHANGED cab
    /\ Press(c)

CabButton(f) ==
    /\ f \notin cab
    /\ cab' = cab \cup {f}
    /\ UNCHANGED hall
    /\ Press(<<f, "Cab">>)

-----------------------------------------------------------------------------
(* The other cases of GoroutineForWorldview. *)

\* Mutant: it is not asked whether the door was open.
PassedFloor(report) == report.Floor

\* The floor a report is checked for served orders: where the door is open, or
\* was until this report.
CheckedFloor(report) ==
    IF report.Behaviour = "DoorOpen" THEN report.Floor
    ELSE IF state.Behaviour = "DoorOpen" THEN state.Floor
    ELSE Between

updateWorldviewWithElevatorState(report) ==
    [c \in HallCell |->
        IF c[1] = CheckedFloor(report)
        THEN CompleteServed(hall[c], c \in state.Requests, c \in report.Requests, Me)
        ELSE hall[c]]

ElevatorReport == \E report \in toWorldview :
    LET done == updateWorldviewWithElevatorState(report)
    IN  /\ toWorldview' = {}
        /\ state' = report
        /\ hall'  = IF report.Error THEN [c \in HallCell |-> markPeerDead(done[c], Me)] ELSE done
        /\ cab'   = cab \ {report.Floor}
        /\ sendLatestToSync
        /\ UNCHANGED <<vars, unsent, fromSync, toAssigner, assigner, toFSM, history>>

\* buildAssignerInput: an elevator in error is left out, and there is no other.  The
\* car and the cab orders only decide which elevator is given an order.
AssignerInput ==
    [hallRequests |-> {c \in HallCell : NeedsOwner(hall'[c])},
     states       |-> IF state.Error THEN {} ELSE {Me}]

SyncResult == \E synced \in fromSync :
    /\ fromSync' = {}
    /\ hall' = [c \in HallCell |-> MergeSyncOrder(hall[c], synced[c])]
    /\ toAssigner' = {AssignerInput}
    /\ UNCHANGED <<vars, toWorldview, unsent, state, cab, toSync, assigner, toFSM, history>>

\* Mutant: the cab orders are left out.
HallRequestsOf(hallOrders, cabOrders) ==
    {c \in HallCell : hallOrders[c] = [SyncState |-> Confirmed, OwnerID |-> Me]}

\* mergeRequestsFromWorldview: what a worldview asks the elevator for.
RequestsOf(hallOrders, cabOrders) ==
    {c \in HallCell : hallOrders[c] = [SyncState |-> Confirmed, OwnerID |-> Me]} \cup CabRequest(cabOrders)

sendLatestWorldviewToFSM ==
    toFSM' = Append(IF Len(toFSM) = FSMChCap THEN Tail(toFSM) ELSE toFSM, RequestsOf(hall', cab))

Assignment == \E result \in fromAssigner :
    /\ fromAssigner' = {}
    /\ hall' = [c \in HallCell |-> IF c \in result /\ NeedsOwner(hall[c])
                                   THEN [hall[c] EXCEPT !.OwnerID = Me] ELSE hall[c]]
    /\ sendLatestWorldviewToFSM
    /\ UNCHANGED <<vars, toWorldview, unsent, state, cab, sync, toAssigner, assigning, lastResult, history>>

-----------------------------------------------------------------------------
(* GoroutineSync and RunHallRequestAssigner. *)

\* syncHallOrders with no other worldview than one's own.
SyncCell(order) == Normalise(Consensus(order, order.SyncState, {order.SyncState}))

Synchronize == \E snapshot \in toSync :
    /\ toSync' = {}
    /\ fromSync' = {[c \in HallCell |-> SyncCell(snapshot[c])]}
    /\ UNCHANGED <<vars, toWorldview, unsent, orders, toAssigner, assigner, toFSM, history>>

\* Without an elevator that works there is no result.  The assigner is run without
\* --includeCab, so its answer tells of hall orders only.
Assign == \E input \in toAssigner :
    /\ assigning = {}
    /\ toAssigner' = {}
    /\ assigning' = {input.hallRequests : n \in input.states}
    /\ UNCHANGED <<vars, toWorldview, unsent, orders, sync, lastResult, fromAssigner, toFSM, history>>

\* The assigner's process has ended, milliseconds later.  A result that equals
\* the last one sent is not sent.
SendResult ==
    /\ Handled
    /\ assigning # {}
    /\ assigning' = {}
    /\ \/ assigning = lastResult /\ UNCHANGED <<lastResult, fromAssigner>>
       \/ /\ assigning # lastResult
          /\ fromAssigner = {}
          /\ fromAssigner' = assigning
          /\ lastResult' = assigning
    /\ UNCHANGED <<vars, toWorldview, unsent, orders, sync, toAssigner, toFSM, history>>

-----------------------------------------------------------------------------
(* The elevator.  A handler whose state was e when it first might have sent it *)
(* sends that, and its last one if it is another or the door was opened.       *)

Reports(e, opened) ==
    LET first == IF e = elevator THEN {} ELSE {e}
        last  == IF opened \/ reported' # Sent(e) THEN {reported'} ELSE {}
        sends == IF first = {} THEN last ELSE first
    IN  /\ unsent = {}
        /\ toWorldview' = IF sends = {} THEN toWorldview ELSE {ReportOf(s) : s \in sends}
        /\ unsent' = IF first = {} THEN {} ELSE {ReportOf(s) : s \in last}
        /\ met' = met \cup Meets(elevator', Pressed)
        /\ astray' = (astray \/ (elevator'.Behaviour = "DoorOpen" /\ elevator'.Floor # GetFloor))
        /\ UNCHANGED <<orders, sync, toAssigner, assigner>>

SendReport ==
    /\ unsent # {}
    /\ toWorldview' = unsent
    /\ unsent' = {}
    /\ UNCHANGED <<vars, orders, sync, toAssigner, assigner, toFSM, history>>

TakeWorldview ==
    /\ toFSM # <<>>
    /\ toFSM' = Tail(toFSM)
    /\ TakeRequests(Head(toFSM))
    /\ Reports(elevator, shouldServeCurrentFloor([elevator EXCEPT !.Requests = @ \cup Head(toFSM)]))
    /\ UNCHANGED budget

CloseDoor ==
    /\ Quiet
    /\ DoorTimeout
    /\ Reports(elevator, ~obstruct /\ ~elevator.Error)
    /\ UNCHANGED toFSM

\* The error timer is late five seconds after a tick that reset it, so one of the
\* ticks between found the goroutines at rest; it may fire at any moment then.
Tick == (Healthy \/ Quiet) /\ FloorTick /\ Reports(TickedState, FALSE) /\ UNCHANGED toFSM

Arrive == \E f \in sensor : FloorSensor /\ Reports(updateFloor(f, elevator), FALSE) /\ UNCHANGED toFSM

Obstruct(on) == ObstructionSwitch(on) /\ Reports(elevator, FALSE) /\ UNCHANGED toFSM

Fail == ErrorTimeout /\ Reports(elevator, FALSE) /\ UNCHANGED toFSM

Travel ==
    /\ PollFloorSensor \/ (Quiet /\ CarMoves)
    /\ UNCHANGED <<toWorldview, unsent, orders, sync, toAssigner, assigner, toFSM, history>>

CabinNext ==
    \/ \E c \in HallCell : HallButton(c)
    \/ \E f \in CabFloor : CabButton(f)
    \/ ElevatorReport
    \/ SyncResult
    \/ Assignment
    \/ Synchronize
    \/ Assign
    \/ SendResult
    \/ SendReport
    \/ TakeWorldview
    \/ CloseDoor
    \/ Tick
    \/ Arrive
    \/ \E on \in BOOLEAN : Obstruct(on)
    \/ Fail
    \/ Travel

\* The goroutines run and what ElevatorFSM assumes of the timers and the car.
CabinFairness ==
    /\ WF_all(ElevatorReport) /\ WF_all(SyncResult) /\ WF_all(Assignment)
    /\ WF_all(Synchronize) /\ WF_all(Assign) /\ WF_all(SendResult)
    /\ WF_all(SendReport) /\ WF_all(TakeWorldview)
    /\ SF_all(CloseDoor) /\ WF_all(Tick) /\ WF_all(Arrive)
    /\ WF_all(Obstruct(FALSE)) /\ SF_all(Travel)

CabinSpec     == CabinInit /\ [][CabinNext]_all
CabinLiveSpec == CabinSpec /\ CabinFairness

-----------------------------------------------------------------------------
(* Properties.  The worldview may be told of an open door where it was not: the *)
(* handler of a worldview that arrives before the sensor's event opens the door *)
(* and believes the elevator at the floor before.  astray excuses what follows. *)

\* The type invariant.
CabinTypeOK ==
    LET Report    == [Floor : Floor, Behaviour : Behaviour, Requests : SUBSET Request, Error : BOOLEAN]
        AtMostOne(mailbox, values) == Cardinality(mailbox) <= 1 /\ mailbox \subseteq values
        CellOrders == [HallCell -> {order \in Order : WellFormed(order)}]
        Results   == SUBSET (HallCell \cup CabRequest(CabFloor))
    IN  /\ TypeOK
        /\ AtMostOne(toWorldview, Report) /\ AtMostOne(unsent, Report)
        /\ state \in Report /\ hall \in CellOrders /\ cab \subseteq CabFloor
        /\ AtMostOne(toSync, CellOrders) /\ AtMostOne(fromSync, CellOrders)
        /\ Cardinality(toAssigner) <= 1
        /\ \A input \in toAssigner : input.hallRequests \subseteq HallCell
        /\ \A mailbox \in {assigning, lastResult, fromAssigner} : AtMostOne(mailbox, SUBSET HallCell)
        /\ Len(toFSM) <= FSMChCap /\ \A i \in DOMAIN toFSM : toFSM[i] \in Results
        /\ met \in Results /\ astray \in BOOLEAN

\* An order is taken as served only if its passengers have met an open door since
\* they pressed: updateWorldviewWithElevatorState concludes it from a report that
\* may be older than the order or its owner, or be sent in passing.
NotForgotten ==
    [][\A c \in HallCell : hall[c].SyncState = Confirmed /\ hall'[c].SyncState = DeleteProposed
                           => c \in met \/ astray]_all

\* An order goes round and is removed, though the elevator may have been in error;
\* unless it waits for ever without an owner and the last result the assigner sent
\* gives it to this elevator already: the assigner does not repeat it.
OrdersServed == \A c \in HallCell :
    \/ []<>(hall[c] = NoOrder)
    \/ <>astray
    \/ <>[](NeedsOwner(hall[c]) /\ \E result \in lastResult : c \in result)

\* A cab order is removed once a result of the assigner comes after its press: the
\* worldview then tells the elevator of it.  (Without one: CabOrdersReach.)
CabOrdersServed == \A f \in CabFloor : f \in cab /\ fromAssigner # {} ~> f \notin cab \/ astray

\* "Inkluderer alle Confirmed hall-ordrer denne heisen eier, og alle cab-ordrer"
\* (FSM.go): a cab order becomes a request of the elevator, or is gone before.
CabOrdersReach == \A f \in CabFloor : f \in cab ~> f \notin cab \/ <<f, "Cab">> \in elevator.Requests
=============================================================================

# Distributed elevators: the verification project

The program under `src/Project` runs on every elevator of a group of (usually
three) elevators with four floors.  The programs broadcast what they know over
UDP, agree on the hall orders, divide them among the elevators and drive one
elevator each.  This directory holds TLA+ models of that program, TLC runs that
check them on small instances, and TLAPS proofs for every instance.  `src/Heis_go`
is the first version of the elevator, a program of its own; it is modelled too.

A hall order is a button press on a floor.  Its life is
`None -> Unconfirmed -> Confirmed -> DeleteProposed -> None`; its lamp is lit
while it is Confirmed.  The promise to the passenger is: a lit lamp means that
some elevator will come.

## Inventory

### The parts of the program

| part (under `src/Project`) | state it keeps | operations | talks to |
|---|---|---|---|
| `worldview/worldview.go` | `worldviewsMap` (what it holds about every elevator), `hasNetwork` | eight event cases: elevator report, sync result, peer's worldview, New, Lost, hall button, cab button, assignment | all others, by channels of capacity 1 |
| `synchronization/synchronization.go` | none between rounds | `syncHallOrders` in four steps (0 to 3) over a snapshot | takes snapshots from, returns orders to the worldview |
| `assignment/assignment.go` | `lastResult` | ask the external assigner for owners of unowned Confirmed orders | takes snapshots from, returns owners to the worldview |
| `FSM/*.go` | `ElevatorState`, door timer, error timer, obstruction | cases for worldview, door timer, 200 ms ticker, floor sensor, stop button, obstruction, error timer | worldview (both ways), elevator hardware |
| `Network/setup`, `Network/bcast` | the latest worldview | broadcast it every 100 ms, forward what arrives | worldview |
| `Network/peers` | `lastSeen` | heartbeats, 500 ms timeout, New and Lost notifications | worldview, through two separate channels |
| `Driver`, `Hardware` | last values of polled inputs | buttons, floor sensor, lamps, motor | FSM, worldview |
| `main.go`, `types` | the channels | creates everything | |
| `src/Heis_go` | `Elevator`, timer, last values of the inputs | one polling loop: stop button, obstruction, buttons, floor sensor, timer | elevator hardware |

Every mailbox is a channel of capacity 1 with "drop the old value, send the new
one", so a goroutine works on the latest value, but between reading it and
returning a result the world moves on.

### What is hard here

- Two goroutines change the same hall orders: sync from a snapshot, worldview
  from events.  `shouldAcceptSyncOrder` must tell progress from stale results.
- The order states form a cycle, so "behind" and "ahead" are ambiguous: a peer in
  None has either not heard of an order or has already removed it.
- Broadcasts are delayed, lost and overtaken; a peer may be declared lost while
  it is alive and serving; programs crash and start again from what they hear.
- An order that loses its owner goes back from Confirmed to
  `{Unconfirmed, peerDied}`, against the normal direction.
- The program of one node is a circle of goroutines, each of which works on what it
  was last sent: an order is pressed, confirmed, assigned, given to the elevator,
  served, reported and removed, and a report, a result or a worldview of the round
  before may arrive in the next one.
- "New" and "Lost" about a peer, and its worldviews, come through three channels and
  may be handled in another order than they happened.
- Button presses wait in bounded channels; lamps have two writers each.
- The elevator's handlers use the floor of the last sensor event together with
  the sensor's present value, and five of them assign the door timer.

`PROJECT.json` lists these at their lines under `hazards`, with the property that
watches each of them or the reason why none does.

### What makes each part correct

| part | properties |
|---|---|
| sync and worldview | no order is confirmed before all have it; none is removed unserved or without agreement; none is repeated without a press; a press is answered, a served order removed, an order of a lost node given on |
| elevator | the door is open only at a floor, standing still, with a timer running; obstruction holds it; requests are served, and where the car is; the worldview is told the truth |
| one node as a whole | a hall order is taken as served only if its passengers met an open door; every order is assigned, served and removed at last |
| peer discovery | no notification is lost; the node knows at last whether it has a network and which peers are there |
| buttons, lamps, channels | no press is forgotten; each lamp settles on its order; a reader always gets the newest value |
| first version | the motor obeys the elevator; an open door is safe and closes; requests are served |

## Modules

    HallOrder            the rules of one hall order (pure functions)
      OrderLife            abstract: what a node promises about its own orders
      OrderSync            the protocol: worldview and sync goroutines, network, crashes
        OrderHistory         OrderSync + history variables, fairness, the properties
          MCOrderSync          instances for TLC
          OrderHistory_proofs  theorems about what a passenger sees
        OrderSync_proofs     theorems about OrderSync
    ElevatorFSM          one elevator: RunElevator, poller, car
      MCElevatorFSM        instances for TLC
      ElevatorFSM_proofs   the door, the reports, the car and its shaft
    Cabin                ElevatorFSM and HallOrder composed: the program of one node
      MCCabin
      Cabin_proofs         theorems, on top of those of ElevatorFSM_proofs
    PeerDiscovery        heartbeats, their timeout, and what becomes of New and Lost
      MCPeerDiscovery, PeerDiscovery_proofs
    LatestValue          abstract: a register that holds the newest value only
      Mailbox              a channel of capacity one as the goroutines use it
        Mailbox_proofs
        Panel                buttons and lamps; one of its channels is a Mailbox
          MCPanel, Panel_proofs
    SingleElevator       the first version
      MCSingleElevator, SingleElevator_proofs

### HallOrder

The functions of `synchronization.go` and `worldview.go` on one cell of the
`HallOrders` matrix; all loops of the program over floors and directions touch
each cell alone.  `PropagatePeerDied`, `FollowPeers`, `Consensus`, `Normalise` are
the Steps 0 to 3 of `syncHallOrders`; Step 1 depends on the order in which Go
ranges over a map, so it follows the peers in a given sequence.
`MergeSyncOrder` is `updateWorldviewFromSync`; `markPeerDead`, `CompleteServed`,
`NeedsOwner` and `addNewHallOrder` are the other writers.  The operators marked
as mutants, here and in the other modules, are variants with a plausible bug, used
to see that each property can fail.

### OrderSync, OrderLife, OrderHistory

Per node: `worldviewsMap`, `hasNetwork`, the mailboxes `toSync`, `fromSync`,
`outbox` (empty or one value), `syncing` (a result computed and not yet sent),
`requests` (what its elevator has), and the network `wire`.  One action per case
of `GoroutineForWorldview` (`ElevatorReport`, `SyncResult`, `ReceiveWorldview`,
`SelfNew`, `SelfLost`, `LostPeer`, `HallButton`, `Assignment`), `SyncTake` and
`SyncPut` for `GoroutineSync`, `Transmit`, `Crash` and `Restart`.  The elevator and
the assigner are environment: a report says that any of the requests were served
and whether the elevator is in error; an assignment gives any of the unowned
orders to any known elevators, since it may be older than the map.  Notifications
about peers come whether they are true or not.

Two constants choose the grain.  `SplitSync = FALSE` makes computing and sending a
sync result one step.  `MaxInFlight = 0` makes a broadcast arrive at the moment the
receiver takes it from the sender's `outbox` (it may still be lost: nobody has to
take it); `MaxInFlight = 1` puts it on the wire first.

`OrderLife` says what an observer at one node's lamps may see: an order moves
forward in its life, may skip states but not go back, except that a Confirmed
order is degraded when its owner is lost, and a degraded one comes back without
an owner; a removed order passes through DeleteProposed or starts a new life.
Exceptions are a reconnect and a restart, where another node's orders are taken
over.  `OrderSync` implements it with `orders <- [n |-> hall(n)]` and
`reconnects <- budget.selfNew` (property `OrderLifeSpec`).

`OrderHistory` adds `served` (cells reported served since they were last pressed),
`completions` (how often each node removed an order) and `pressed` (cells in which a
button has started an order at any time), which never influence the protocol, and the bound `MaxFaults` on all faults together.  `JoinedSpec` starts
with nodes that have heard of each other, `LiveSpec` adds fairness.

### ElevatorFSM

`elevator` is `ElevatorState`, `position` and `motor` the car (even positions are
floors), `prev` and `sensor` the goroutine `PollFloorSensor` and its unbuffered
channel, `reported` the last state sent to the worldview.  One action per case of
`RunElevator`.  Handlers are atomic.  Two assumptions on time: the car does not leave
a floor, nor reach the next one, before the poller has seen and handed over where
it is (20 ms against seconds), and the error timer expires only after a tick that
did not reset it (200 ms against 5 s).

### Cabin

The program of one node that is alone on its network, with the elevator of
`ElevatorFSM` and the rules of `HallOrder`.  `state`, `hall` and `cab` are what the
worldview goroutine holds, `toWorldview`, `toSync`, `fromSync`, `toAssigner`,
`fromAssigner` the mailboxes of capacity one (sets of at most one value), `toFSM` the
queue of sixteen.  A handler of the elevator may send two reports; the second is
`unsent` until `SendReport`, and the worldview goroutine may run between the two.
`Assign` and `SendResult` are `RunHallRequestAssigner` before and after its process
has run; with a single elevator every order is assigned to it, and without a
working one there is no result.

Time: messages between goroutines are handled in microseconds, the assigner takes
milliseconds, the car and the timers tenths of a second and more.  So the assigner
answers when the goroutines have handled what waits for them (`Handled`), and the
door timer and the car move when the assigner is done too (`Quiet`).  Buttons, the
sensor, the obstruction and the error timer may come at any moment between, and the
200 ms tick too as long as it resets the error timer (`Healthy`); a tick that finds
the elevator late comes at a quiet moment, as one of the twenty-five in the five
seconds before the error timer does.

The assigner is run without `--includeCab` (`assignment.go:101`), so its answer tells
of hall orders only; the option is off by default
(`src/Test/cost_fns/hall_request_assigner/README.md:90`).  The worldview goroutine
tells the elevator of its orders, cab orders included, when a result arrives
(`Assignment`), at no other time.  What follows for cab orders is said under "Runs".

`met` (the buttons whose passengers have met an open door since they pressed) and
`astray` (the door was opened at another floor than the elevator believed) are
history.

### PeerDiscovery

What one node, `Me`, learns about each peer.  `reachable` and `stale` are the network
(a heartbeat of a peer that is gone may still lie in the socket), `lastSeen` and
`overdue` the receiver's table and those of its entries that are older than 500 ms,
`update` the value it is about to send, then `peerUpdateCh`, the forwarder
(`forwarding`) and its two channels, and the parts of the worldview that depend on
them: `hasNetwork` and, per peer, `entry`.  Every channel has capacity one and every
send waits, so a worldview goroutine that has not started holds up the receiver,
which then reads no heartbeats: `Stuck` lets peers become overdue at no cost.

### LatestValue, Mailbox, Panel

`Mailbox` is the idiom "try to send; if the channel is full, receive the old value;
send" in its three steps, with the receiver between any two of them.  Elsewhere it
is one step, "replace the value"; that this is right is `KeepsLatest`: `Mailbox`
implements `LatestValue`, with a value counted as put when the old one is out of the
way.  `Panel` uses it for `lightsCh` (property `LightsAreLatest`).

`Panel` follows a press from the finger through `PollButtons`, `ButtonsListener` and
the two channels to the worldview goroutine, and an order from there to its lamp.
Lamps are written one call at a time by `ButtonLightsListener` and, at the start, by
`TurnOffAllLights` in another goroutine; the stop lamp by `ErrorLight` and by the
poller of the stop button.  How orders are confirmed and completed is left open.

### SingleElevator

`src/Heis_go`: the loop of `main.go` as one action per poll, `phase` being the poll
that is next; while the stop button is held only the stop button is polled.  The
car (`position`, as in `ElevatorFSM`) and the time of the timer go on between the polls.
`FsmOnRequestButtonPress`, `FsmOnFloorArrival`, `FsmOnDoorTimeout` and the rules of
`requests.go` keep their names.  A request pressed before the first floor poll finds
an idle elevator at floor -1 and stops the program; the phase is then `panic` and
nothing more happens, which is why the run does not check for deadlock.

## Runs

Passing runs:

| run | instance | shows |
|---|---|---|
| `in_flight` | 2 nodes, 1 press, worldviews on the wire, overtaken sync | with stale copies and two results under way a lit order is backed up, served before it is removed, never repeated |
| `three_nodes` | 3 nodes, 1 press, a network loss; confirmation only | Steps 1 and 2 with several peers met in every order; OrderLife |
| `faults` | 2 nodes, 1 press, any one of: peer lost, network lost, network back, error, crash and restart | types, well-formed orders; a lit order is served before it is removed; OrderLife |
| `answered` | 2 nodes, fair | every press is confirmed, every served order is removed |
| `elevator` | 4 floors, 2 requests, 1 obstruction, 1 error | the door, the motor and the reports; requests cleared where the car is; every request is served |
| `cabin` | 3 floors, one hall and one cab button, 2 presses, 1 obstruction, 1 error | a hall order is taken as served only when its passengers met an open door, and is removed at last unless the assigner's last result names it already; a cab order is removed once a result comes after its press |
| `discovery` | me and a peer, 2 changes of the network | no notification is lost; the node knows at last whether it has a network and who is there |
| `panel` | a hall and a cab button, channels of one, 2 events | presses, lamps, the stop lamp and the channel between worldview and lamps |
| `single` | 4 floors, 2 presses, 1 stop, 1 obstruction | motor, door and requests of the first version |

Runs in which TLC finds a counterexample to what a comment of the program says:

| run | what happens |
|---|---|
| `laggard` | n1 and n2 confirm an order n3 has told n2 about; n1 still holds n3's old None.  After n1 has served it, Step 1 takes that None for "already removed" and n1 removes the order while n2 is Confirmed.  n2 leads n1 back into it. |
| `lost_order` | n2 wrongly loses n1, degrades its order; n1 serves it.  n2 stays `{Unconfirmed, peerDied}`, n1 stays DeleteProposed, for ever. |
| `cab_waits` | The assigner has sent its first result, which names no order.  A button in the car is pressed: the result is the same, so it is not sent, and the elevator, which is told of its orders only when a result arrives, never hears of it. |

`cab_waits` holds for any floor, until a hall order is confirmed and changes the result;
two floors and one button show it.

### What the checks found besides

Things the code does that no comment or test speaks about, so no run claims
otherwise.  The passing properties name them as exceptions or bounds, so they do not
watch them: `hazards` lists them without a property.

- A button pressed again before the other node has removed the previous order: Step 1
  follows two steps ahead, so the new order goes straight to DeleteProposed and is
  removed unserved (`LitUntilServed` with `MaxPress = 2`).
- A worldview that arrives when the car has reached a floor and its sensor event is
  still under way opens the door there and clears the requests of the floor before
  (the exception in `ServedWhereTheCarIs`; `astray` in `Cabin`).
- New and Lost of the own node that wait together may be handled in either order, so
  `hasNetwork` may end up false (`raced`, excused by `NetworkKnown`); a worldview of a
  peer handled after its Lost makes the peer live again (`revived`, excused by
  `PeersKnown`); a node whose network is back takes over another's orders
  (`OrderLife` allows any).
- A result that equals the last one is not sent (`assignment.go:132`), for hall orders
  too.  The hall button of the floor where the car stands is pressed; the order is
  confirmed, assigned and served at once.  While the assigner has not yet read the
  worldview in which it is gone, the button is pressed again, and the new worldview
  replaces that one in the assigner's channel.  The result is the same: the order is
  lit and has no owner until another button changes the result.  (`OrdersServed`
  without its last case is violated so with two floors and two presses.)
- A report of any behaviour removes the cab order of its floor, served or not: one
  pressed before the report of the start is read, or while the report of a car that
  leaves the floor is under way.  `CabOrdersServed` asks only that cab orders are removed.
- The first version opens its door between two floors when the stop button is
  released there (`OpenDoorIsSafe` asks for a floor only until then).
- A worldview that overtakes an older one of the same node (`MaxInFlight = 2`): the
  old one leads the receiver back, for nothing in a worldview tells its age.  Two nodes
  and one press suffice for an order lit at one node and unknown at the other, removed
  twice, back as DeleteProposed, or removed while the other is Confirmed
  (`LitIsBackedUp`, `CompletionsArePressed`, `RemovedStaysRemoved`,
  `RemovedByAgreement`).  `LitUntilServed` holds even then.

### Bounds, and why they are enough

Two nodes show every pairwise race between two mailboxes, two maps and the
network.  A third node matters where a node combines what two others say: the
confirmation phase is checked in full (`three_nodes`, nobody takes orders), the
removal phase is where it goes wrong (`laggard`).  So the passing two-node results
about removal do not carry over to three nodes, and this is stated as a finding.
One cell is enough because no rule looks at two cells; only the elevator models
relate floors.  One press is the scope of the guarantees `LitUntilServed`,
`CompletionsArePressed`, `RemovedStaysRemoved`, as said above; the first holds for
every number of nodes, also with many presses, until a button is pressed whose order
was served before (`FirstOrdersStayLit`); the other two for two nodes only, as
`laggard` shows, but then for any number of presses that are far enough apart
(`TwoNodesCount`, `TwoNodesKeepRemoved`).  `LitIsBackedUp` holds as long as no node is
lost, restarts or starts up alone: then a node confirms by itself, as it is meant to.
With three nodes it also needs that no order was removed yet (`BackedUpUntilLost`),
with two it does not (`TwoNodesBackUp`).  `MaxInFlight = 1` lets a worldview be late
or lost but not overtaken by a newer one of the same node; what overtaking does is said
above.  `Takers = {n1}` lets one elevator take orders (the
other nodes still press, confirm and remove), which breaks the symmetry of the
nodes and halves the work.  `faults` lets any one fault happen at any moment
(`MaxFaults = 1`); two of them in one behaviour are beyond the time of a run.  Its
`VIEW` leaves out `completions`, which none of its properties reads, and which of the
bounded events the one fault was, unless it was a reconnection.  In the
three-node runs the nodes outside `Takers` are exchangeable (`SYMMETRY`); no run with
liveness uses symmetry.  `CompletionCap` stops a history counter one above what
violates the property.

For `elevator`, four floors are the program's own number; two requests allow one
ahead and one behind the car; one error and one obstruction allow each recovery.
`cabin` has three floors, so that the buttons' floor can be passed in both directions,
and both its buttons on the middle one.  Two presses can be of the two buttons or
of one of them twice, and the error may come at any moment, so that an order is degraded
before, while or after it is assigned.  `OrdersServed` leaves out the orders that end
without an owner, named in the last result sent, as said above.
`CabOrdersServed` speaks of cab orders after whose press a result arrives; the others
wait (`cab_waits`).  In `discovery` two
changes allow a peer to come and go, to go and come back, and a false timeout of
one while the other changes.  In `panel` a capacity of one is full at once, where the
program's eight needs nine presses in a second; one button of each kind suffices,
since lamps and orders of different buttons share only the channels.

### Fairness

`OrderHistory!Fairness`: sync and worldview goroutines loop for ever on ready
channels and Go's `select` picks a ready case at random, so each handler runs
eventually; the transmitter repeats the latest worldview every 100 ms, so one that
stays the same gets through eventually (`ReceiveWorldview`, `Transmit`).  Nothing is
assumed about buttons, elevators, the assigner or notifications.
`ElevatorFSM!Fairness`: tickers, timers and the poller are periodic, the motor turns
when switched on and somebody removes an obstruction.  Errors are finitely many by
their bound: a motor that always takes longer than five seconds does not serve
everybody.  `Cabin` assumes the same and that each goroutine takes what waits for it;
the door timer and the car, which wait for quiet moments, are strongly fair, as a
timer that has expired stays ready.  `PeerDiscovery`: the goroutines run, heartbeats
and worldviews of a reachable peer get through, and half a second of silence passes.
`Panel`: the goroutines run; the cases of the worldview goroutine are strongly fair,
because `select` does not pass over a ready case for ever.  `SingleElevator`: the loop
and the clock run, and nobody holds the stop button or blocks the door for ever.

## Proofs

All are checked by `tlapm` for every value of the constants, from the named
assumptions: `OwnerMarkers` and `NodeFinite` (HallOrder), `TakersAreNodes` and
`Bounds` (OrderSync), `FloorsAndBounds` (ElevatorFSM), `CabinConstants` (Cabin),
`DiscoveryBound` (PeerDiscovery), `PanelBounds` (Panel), `LoopConstants`
(SingleElevator).  They say that the markers
`noOwner` and `peerDied` are no node ids, that there are at least two floors, that
buttons are on floors, that channels have room for a value and that bounds are
numbers.

**OrderSync_proofs.**  `TypeCorrect` (`TypeOK`), `OrdersWellFormed`
(`WellFormedOrders`), `Implements` (`OrderLifeSpec`).  The inductive invariant
`Good` is the type invariant with every order in every place restricted to
`GoodOrder`, the well-formed orders.  Type correctness alone is not inductive for
the other two: a node copies orders from messages, snapshots and sync results, so
all of them must be well-formed together.  The lemmas follow the program: one per
rule on a single order (`MergeGood`, `MarkDeadGood`, `CompleteGood`, ...), `SyncGood`
for `syncHallOrders` through its four steps, one per action (`...Good`), and for the
refinement one per rule (`...May`: the rule takes an order only where `MayBecome`
lets it) and per action (`...Life`: the action is a step of `OrderLife`).  The case
that makes the refinement interesting is `SyncResult`: the result may be any
well-formed matrix, however old, and `shouldAcceptSyncOrder` alone keeps the promise
(`MergeMay`); replaced by "accept always" or without its peerDied guard it fails, as
the mutants of `three_nodes` and `faults` show.

**OrderHistory_proofs.**  What a passenger sees.  `Copies(F, R)` says that every copy
of m's orders, in a map, a mailbox, a snapshot or a message, is in a set `F[m]` and
every sync result in `R`; `NextCopies` shows once and for all that a step keeps it if
the changed orders of the node that acts are in its set.  Each guarantee is then an
instance.

- `FreshPressesStayLit` (`LitUntilServed`): if a cell was not served since its press,
  no copy of it is DeleteProposed anywhere (`DeletedAreServed`).  No rule but
  `completeOrderLocally` makes a DeleteProposed order from others
  (`OrdersInClosed`), and Step 1 finds nobody to follow into it.  A second press can
  find copies of the previous order that are still being deleted, which is the case
  described above; so the theorem assumes `PressesAreFresh`, that a button starts an
  order only when there are none.
- `FirstPressIsFresh`: the first press of each button to start an order finds no order
  of it in any copy, however often other buttons were pressed and whatever failed.
  The invariant `UnpressedAreNone` says that every copy of the order of a button that
  has started none is None without an owner, in every sync result too; no rule makes
  an order out of such copies.
- `FirstOrdersStayLit`: `LitUntilServed` for any nodes, buttons, faults and delays and
  any number of presses, provided that a button which starts an order does so for the
  first time or before its order was served (`PressesPrecedeService`).  Such presses are
  fresh: the first ones by `UnpressedAreNone`, the others by `DeletedAreServed`.
- `BackedUpUntilLost` (`LitIsBackedUp`): as long as some node has not heard of an
  order, every copy of it is None or Unconfirmed, and every copy of that node's own
  view is None (`HeardFrom`).  So `allPeersInAcceptableState` cannot hold in any
  snapshot, however old.  It ends when a node is lost, comes back or restarts, or when
  somebody has removed the order: None is then ambiguous.

- `TwoNodesCount` (`CompletionsArePressed`), `TwoNodesBackUp` (`LitIsBackedUp`),
  `TwoNodesKeepRemoved` (`RemovedStaysRemoved`), `TwoNodesAgree` (`RemovedByAgreement`):
  the whole cycle of an order between two nodes, for any buttons and any delay and
  loss.  TLC finds each of the four violated with three nodes or without one of the
  hypotheses: that no worldview is overtaken (`MaxInFlight <= 1`), that no node is lost,
  comes back or restarts (`Calm`), that a button is not pressed anew while copies of the
  removed order are left (`PressesAreSpaced`: then there are none, or the node has not
  removed it yet).  `Calm` also excludes elevators in error, because a degraded order
  goes back, which the argument below does not allow; for this one no counterexample
  is known.
  `TwoNodesOnePress` has all four without the last hypothesis, when each button starts at
  most one order (`PressesAreFirst`), for any number of buttons; with a single button
  that is the scope of the run `in_flight`.

  The difficulty is that None means both "not heard of yet" and "removed".  `Done`
  tells which, from the history: n is through with its order if there is none anywhere or
  if n has counted one removal more than the other.  With it `Stage` unrolls the cycle
  into None, Unconfirmed, Confirmed, DeleteProposed, `Removed`, along which an order only
  moves on.  The invariant `InStep` relates the stages of every copy of an order at two
  nodes: what a node has heard and what is under way is not ahead of the sender and
  comes in order; who is Confirmed or further needs the other, its own snapshots and
  its unread results to have heard of the order, and who has removed it needs them to
  have reached DeleteProposed (`Needs`); once it is removed, every result still unread
  says so as well.  The last part is what makes `shouldAcceptSyncOrder` safe: a result
  None removes a DeleteProposed order, and no older result can follow it.  `Counted`
  ties the stages to `completions`.  `CalmNext` lists what the thirteen actions can do to
  the states of orders in these circumstances; the lemmas `Node...` say that each of
  these moves keeps `InStep`, in numbers alone; `...InStep` translates them to the
  actions.  The case that decides is the removal: with `RemovalIsHeard` no copy of the
  order is None any more when `Done` becomes true, so that none changes its meaning.
  TLC checked the invariant with one press, and with two under `PressesAreSpaced`,
  before it was proved.

Step 1 follows peers in a sequence of any length, by a recursive function: it keeps a
closed set of states (`FollowStaysAmong`) by the least number of a set at which it
would not (`SetInduction`, from the well-foundedness of Nat), since the library's
induction needs an operator as parameter.

**ElevatorFSM_proofs.**  `DoorTimerRuns` (`OpenDoorHasTimer`) and `OpenDoorIsSafe`
(`OpenDoorStandsStill`).  `Door` is the conjunction of both with the few type facts
needed.  They are needed together: when the timer fires, the handler moves or
opens the door again without looking at the sensor, and it is because the door was
open, hence the car at a floor, that this is safe.  `WorldviewIsToldTheTruth`
(`ReportIsCurrent`): `applyDecision` sends nothing when direction and behaviour stay,
so the invariant `Current` says that an open door is always reported in full, which
makes the next decision differ from it.  `ObstructionHoldsTheDoor`
(`ObstructedStaysOpen`) follows from the same facts.  `CarStaysInShaft` (`TypeOK`) and
`ServedAtTheCarsFloor` (`ServedWhereTheCarIs`): that the car stays between the first
and the last floor is not inductive, because the motor is set from the floor the
elevator believes in.  `Shaft` ties the two together: a running motor leads from the
believed floor to an existing one; a polled event is the floor where the car is;
without one the car is at the believed floor or between it and the next in the
motor's direction.

**Cabin_proofs.**  `PassengersNotForgotten` (`NotForgotten`), `CabinTypes`
(`CabinTypeOK`), and `DoorIsSafeInCabin`: what ElevatorFSM promises of its door and its
reports holds in the whole program.  The worldview removes an order on the evidence of
two old copies of the elevator's state and of the order's owner.  The invariant
`Sound` says why that is enough.  First `Typed`, which contains the invariants of
ElevatorFSM_proofs, so that the lemmas about its handlers can be used again, and `Step`, in
which each action is one of nine kinds that change few variables.  Then:

- `Where`: an open door is at the floor the elevator believes in, or `astray`.
- `ToldLast`, `ClosedFirst`: the newest report sent is the elevator's state, and of two
  reports under way the second does not tell of a door that closed after the first.
- `SyncSound`: a sync result never marks an order as served, and an order that was
  removed does not come back from an old snapshot.
- `PassengersMet`: where an open door, or a report of one, has no request for an order
  of its floor, the passengers of that order have met the door.
- `ReportedIsReached`: a request that the worldview has been told of is still the
  elevator's, or its door is open at that floor.
- `AskedIsDelivered`: an order that anybody has as this elevator's own is in the
  elevator's requests, on its way there, or met already.
- `StillOpen`, `NothingUnderway`: a door reported open has not closed again before the
  report is read, nor was the elevator given a request since; when a report of the
  closed door comes after it, nothing is under way to the elevator that this report
  lacks.

An order is removed by a report of an open door, where `PassengersMet` applies, or by
the one after it, where `AskedIsDelivered` and `NothingUnderway` leave only that it was
met.  `NothingUnderway` rests on the assigner being slower than the goroutines (the
`Handled` of `SendResult`): without it TLC finds both it and `NotForgotten` violated.
Buttons may be pressed at any moment.  The invariant was model-checked, with two hall
buttons and up to four presses, before it was proved.

**PeerDiscovery_proofs.**  `EveryNotificationArrives` (`NotificationsAddUp`).  The sum
is preserved by each step only if no send overwrites a value and each round of the
receiver brings at most one new peer: `Sound` says so of all the channels, and with it
`DiscoveryTypes` (`TypeOK`) that every channel stays within its capacity.

**Mailbox_proofs.**  `SendNeverBlocks` (`SenderNeverWaits`) and `MailboxIsRegister`
(`KeepsLatest`), for every set of values.  `Holds` says what the channel can contain at
each step of the sender: nothing newer than what `Drain` is about to throw away.

**Panel_proofs.**  `PanelTypes` (`TypeOK`).  `PressesNotForgotten`
(`NoPressForgotten`): the invariant `Kept` adds that poller and listener hold one event
each; a listener with two would drop one.  `LightsTakeNewest` (`LightsAreLatest`):
every step of Panel is a step of `Mailbox` on `lightsCh` or leaves it alone, so
`MailboxIsRegister` applies: the channel between worldview and lamps implements the
register for every set of buttons.

**SingleElevator_proofs.**  `MotorFollowsElevator` (`MotorObeys`), `DoorIsSafe`
(`OpenDoorIsSafe`) and `CarStaysInTheShaft` (`TypeOK`), for every number of floors.  `Safe` adds to the two that the lamp
of the door and the behaviour DoorOpen are the same, that a moving elevator has a
direction unless the stop button is held, and that an elevator which does not move
stands at a floor unless the stop button was used; the stop button, which resets the
direction and not the behaviour, makes each of these conditional.  `Handled` is what
the three events of `fsm.go` have in common.  `Shaft`, for the third, says how far the
car can be from the floor of the last arrival, that a moving elevator has a request
ahead, and that one which has seen no floor yet only goes down.

Model-checked only:

- `LitUntilServed` for presses that are not fresh, and what the four theorems about two
  nodes leave out (elevators in error, a node lost), within the bounds of the runs.
- All liveness: `PressIsConfirmed`, `CompletedIsRemoved`, both `RequestsServed`,
  `OrdersServed`, `CabOrdersServed`, `NetworkKnown`, `PeersKnown`, `PressShows`, `LampsSettle`,
  `ErrorLampSettles`.  It rests on fairness, which is out of the prover's reach.

## Not modelled

Sockets, JSON and the 1024-byte limit, the driver's TCP protocol and debug printing
are input and output.  The external assigner's cost search (`src/Test/cost_fns`) is a
numeric simulation; the models leave open which elevator gets an order.  A node's
copies of the cab orders of others, taken over by a restarted node, are not followed:
they are read nowhere else.  `Cabin` has one node; with several, the assigner and the
elevator of each are environment of `OrderSync`.  Test programs and course exercises
share no code with the program; `src/Test/Heis_go` is a copy of `src/Heis_go`.

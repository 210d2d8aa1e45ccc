------------------------------ MODULE OrderSync ------------------------------
(***************************************************************************)
(* The hall-order protocol.  Every node runs a worldview goroutine, which  *)
(* owns the node's map of worldviews, and a sync goroutine, which turns    *)
(* snapshots of that map into new hall orders; the nodes broadcast their   *)
(* worldviews on a network that delays, loses and reorders them.           *)
(*                                                                         *)
(* The node's assigner and elevator are its environment here: an           *)
(* assignment gives unowned orders to any elevators the node knows of, a   *)
(* report tells that some requests were served.  A mailbox of capacity one *)
(* is the set of what it holds, {} or {x}; sendLatest* (drop the old value *)
(* if there is one, put the new one) makes it {x}.                         *)
(***************************************************************************)
EXTENDS HallOrder

CONSTANTS
    Cell,            \* the hall buttons: a floor and a direction each
    SplitSync,       \* grain: computing and sending a sync result are two steps
    Takers,          \* bound: the elevators an assignment may name
    MaxInFlight,     \* bound: worldviews of one node under way to another;
                     \*        0: a broadcast arrives when it is sent or never
    MaxPress,        \* bound: hall button presses
    MaxLost,         \* bound: Lost notifications about other nodes
    MaxSelfLost,     \* bound: Lost notifications of a node about itself
    MaxSelfNew,      \* bound: New notifications of a node about itself
    MaxError,        \* bound: reports that an elevator enters the error state
    MaxCrash         \* bound: crashes of the program

ASSUME Grain == SplitSync \in BOOLEAN
ASSUME TakersAreNodes == Takers \subseteq Node
ASSUME Bounds == {MaxInFlight, MaxPress, MaxLost, MaxSelfLost, MaxSelfNew, MaxError, MaxCrash} \subseteq Nat

VARIABLES
    up,             \* up[n]: the program of n runs
    hasNetwork,     \* hasNetwork of the worldview goroutine
    worldviewsMap,  \* worldviewsMap[n][m]: what n holds about m
    requests,       \* hall requests n's elevator was given and has not reported served
    toSync,         \* worldviewToSyncCh
    syncing,        \* the result GoroutineSync has computed and not yet sent
    fromSync,       \* syncToWorldviewCh
    outbox,         \* worldviewToNetworkCh, then currentMsg of the transmitter
    wire,           \* wire[n][m]: worldviews of m under way to n
    budget          \* how often each bounded event may still happen

nodeVars == <<up, hasNetwork, worldviewsMap, requests>>
syncVars == <<toSync, syncing, fromSync>>
vars     == <<nodeVars, syncVars, outbox, wire, budget>>

HallOrders == [Cell -> Order]
Entry      == [known : BOOLEAN, hall : HallOrders, err : BOOLEAN, dead : BOOLEAN]
Snapshot   == [Node -> [hall : HallOrders, live : BOOLEAN]]
Message    == [hall : HallOrders, err : BOOLEAN]
Events     == {"press", "lost", "selfLost", "selfNew", "error", "crash"}

NoOrders    == [c \in Cell |-> NoOrder]
NoEntry     == [known |-> FALSE, hall |-> NoOrders, err |-> FALSE, dead |-> FALSE]
OnlySelf(n) == [m \in Node |-> [NoEntry EXCEPT !.known = (m = n)]]

hall(n) == worldviewsMap[n][n].hall
Live(entry) == entry.known /\ ~entry.dead

Init ==
    /\ up            = [n \in Node |-> TRUE]
    /\ hasNetwork    = [n \in Node |-> TRUE]
    /\ worldviewsMap = [n \in Node |-> OnlySelf(n)]
    /\ requests      = [n \in Node |-> {}]
    /\ toSync        = [n \in Node |-> {}]
    /\ syncing       = [n \in Node |-> {}]
    /\ fromSync      = [n \in Node |-> {}]
    /\ outbox        = [n \in Node |-> {}]
    /\ wire          = [n \in Node |-> [m \in Node |-> {}]]
    /\ budget        = [press |-> MaxPress, lost |-> MaxLost, selfLost |-> MaxSelfLost,
                        selfNew |-> MaxSelfNew, error |-> MaxError, crash |-> MaxCrash]

Spend(event) == /\ budget[event] > 0
                /\ budget' = [budget EXCEPT ![event] = @ - 1]

-----------------------------------------------------------------------------
(* What the worldview goroutine sends, given its new map. *)

sendLatestToNetwork(n, views) ==
    outbox' = [outbox EXCEPT ![n] = {[hall |-> views[n].hall, err |-> views[n].err]}]

sendLatestToSync(n, views) ==
    toSync' = [toSync EXCEPT ![n] =
                  {[m \in Node |-> [hall |-> views[m].hall, live |-> Live(views[m])]]}]

\* The ending of most cases: store the map, send it to the network and to sync.
Update(n, views) == /\ worldviewsMap' = [worldviewsMap EXCEPT ![n] = views]
                    /\ sendLatestToNetwork(n, views)
                    /\ sendLatestToSync(n, views)

markPeerDeadInHallOrders(orders, lostId) == [c \in Cell |-> markPeerDead(orders[c], lostId)]

-----------------------------------------------------------------------------
(* The cases of GoroutineForWorldview. *)

\* A report of the elevator.  served are requests at the floor whose door is
\* open, or was until this report, that the report no longer holds.
ElevatorReport(n) == \E served \in SUBSET Cell, error \in BOOLEAN :
    LET mine      == worldviewsMap[n][n]
        completed == [c \in Cell |-> IF c \in served
                                     THEN CompleteServed(mine.hall[c], c \in requests[n], FALSE, n)
                                     ELSE mine.hall[c]]
    IN  /\ up[n]
        /\ IF error /\ ~mine.err THEN Spend("error") ELSE UNCHANGED budget
        /\ requests' = [requests EXCEPT ![n] = @ \ served]
        /\ Update(n, [worldviewsMap[n] EXCEPT
                        ![n].hall = IF error THEN markPeerDeadInHallOrders(completed, n)
                                             ELSE completed,
                        ![n].err  = error])
        /\ UNCHANGED <<up, hasNetwork, syncing, fromSync, wire>>

\* A result of the sync goroutine; the next snapshot is not sent to it from here.
SyncResult(n) == \E synced \in fromSync[n] :
    LET views == [worldviewsMap[n] EXCEPT
                    ![n].hall = [c \in Cell |-> MergeSyncOrder(hall(n)[c], synced[c])]]
    IN  /\ up[n]
        /\ fromSync'      = [fromSync EXCEPT ![n] = {}]
        /\ worldviewsMap' = [worldviewsMap EXCEPT ![n] = views]
        /\ sendLatestToNetwork(n, views)
        /\ UNCHANGED <<up, hasNetwork, requests, toSync, syncing, wire, budget>>

Arriving(n, m) == IF MaxInFlight > 0 THEN wire[n][m] ELSE outbox[m]

\* A worldview of m arrives; it replaces all that n knew of m, Dead included.
ReceiveWorldview(n, m) == \E msg \in Arriving(n, m) :
    /\ up[n]
    /\ m # n
    /\ wire' = [wire EXCEPT ![n][m] = @ \ {msg}]
    /\ Update(n, [worldviewsMap[n] EXCEPT
                    ![m] = [known |-> TRUE, hall |-> msg.hall, err |-> msg.err, dead |-> FALSE],
                    ![n].hall = IF msg.err THEN markPeerDeadInHallOrders(hall(n), m) ELSE hall(n)])
    /\ UNCHANGED <<up, hasNetwork, requests, syncing, fromSync, budget>>

\* New notification about n itself: adopt the orders of an arbitrary map entry.
\* Nothing is sent.  (A New notification about another node is only logged.)
SelfNew(n) ==
    LET others == {m \in Node \ {n} : worldviewsMap[n][m].known}
    IN  /\ up[n]
        /\ Spend("selfNew")
        /\ hasNetwork' = [hasNetwork EXCEPT ![n] = TRUE]
        /\ \/ others = {} /\ UNCHANGED worldviewsMap
           \/ \E m \in others :
                 worldviewsMap' = [worldviewsMap EXCEPT ![n][n].hall = worldviewsMap[n][m].hall]
        /\ UNCHANGED <<up, requests, syncVars, outbox, wire>>

\* Lost notification about n itself: handleLostPeer returns early.
SelfLost(n) ==
    /\ up[n]
    /\ Spend("selfLost")
    /\ hasNetwork' = [hasNetwork EXCEPT ![n] = FALSE]
    /\ Update(n, worldviewsMap[n])
    /\ UNCHANGED <<up, requests, syncing, fromSync, wire>>

\* handleLostPeer: the entry of m (a zero one if there was none) is marked Dead.
LostPeer(n, m) ==
    /\ up[n]
    /\ m # n
    /\ Spend("lost")
    /\ Update(n, [worldviewsMap[n] EXCEPT
                    ![m].known = TRUE,
                    ![m].dead  = TRUE,
                    ![n].hall  = markPeerDeadInHallOrders(hall(n), m)])
    /\ UNCHANGED <<up, hasNetwork, requests, syncing, fromSync, wire>>

HallButton(n, c) ==
    /\ up[n]
    /\ hasNetwork[n]
    /\ Spend("press")
    /\ Update(n, [worldviewsMap[n] EXCEPT ![n].hall[c] = addNewHallOrder(@)])
    /\ UNCHANGED <<up, hasNetwork, requests, syncing, fromSync, wire>>

\* updateOwnerIDsFromAssignment, then the worldview goes to the elevator, which
\* takes the Confirmed orders it owns.  The assignment may be older than any
\* entry of the map, so whom it names may be dead or in error by now.
Assignment(n) == \E given \in SUBSET {c \in Cell : NeedsOwner(hall(n)[c])} :
    \E owner \in [given -> {m \in Takers : worldviewsMap[n][m].known}] :
        LET orders == [c \in Cell |-> IF c \in given THEN [hall(n)[c] EXCEPT !.OwnerID = owner[c]]
                                                     ELSE hall(n)[c]]
            views  == [worldviewsMap[n] EXCEPT ![n].hall = orders]
        IN  /\ up[n]
            /\ worldviewsMap' = [worldviewsMap EXCEPT ![n] = views]
            /\ requests' = [requests EXCEPT ![n] = @ \cup
                  {c \in Cell : orders[c] = [SyncState |-> Confirmed, OwnerID |-> n]}]
            /\ sendLatestToNetwork(n, views)
            /\ UNCHANGED <<up, hasNetwork, syncVars, wire, budget>>

-----------------------------------------------------------------------------
(* GoroutineSync: take the latest snapshot, compute, send the result. *)

\* The orders in which the range loop over the map may meet the peers it follows.
VisitOrders(peers) ==
    {visit \in [1..Cardinality(peers) -> peers] :
        \A i, j \in 1..Cardinality(peers) : visit[i] = visit[j] => i = j}

\* syncHallOrders, one cell, as the set of its possible results.
SyncCell(snap, myID, c, live, visit) ==
    LET mine   == snap[myID].hall[c]
        orders == {snap[m].hall[c] : m \in live}
        states == {snap[m].hall[c].SyncState : m \in live}
        seen   == [i \in DOMAIN visit |-> snap[visit[i]].hall[c].SyncState]
    IN  {Normalise(Consensus(o, mine.SyncState, states)) :
            o \in FollowPeers(PropagatePeerDied(mine, orders), seen, Cardinality(live \ {myID}))}

\* syncHallOrders, all cells: the peers are met in the same order for each of them.
syncHallOrders(snap, myID) ==
    LET live == {m \in Node : snap[m].live}
    IN  UNION {LET results == [c \in Cell |-> SyncCell(snap, myID, c, live, visit)]
               IN  {h \in [Cell -> UNION {results[c] : c \in Cell}] : \A c \in Cell : h[c] \in results[c]} :
               visit \in VisitOrders(live \ {myID})}

\* The goroutine may be overtaken between computing a result and sending it.
SyncTake(n) ==
    /\ up[n]
    /\ syncing[n] = {}
    /\ \E snap \in toSync[n] : \E synced \in syncHallOrders(snap, n) :
          IF SplitSync
          THEN syncing' = [syncing EXCEPT ![n] = {synced}] /\ UNCHANGED fromSync
          ELSE fromSync' = [fromSync EXCEPT ![n] = {synced}] /\ UNCHANGED syncing
    /\ toSync' = [toSync EXCEPT ![n] = {}]
    /\ UNCHANGED <<nodeVars, outbox, wire, budget>>

SyncPut(n) ==
    /\ up[n]
    /\ syncing[n] # {}
    /\ fromSync' = [fromSync EXCEPT ![n] = syncing[n]]
    /\ syncing'  = [syncing EXCEPT ![n] = {}]
    /\ UNCHANGED <<nodeVars, toSync, outbox, wire, budget>>

-----------------------------------------------------------------------------
(* The network and the program's life. *)

\* The periodic broadcast of n's latest worldview reaches m's socket.  A lost
\* broadcast is one for which this step is not taken.
Transmit(n, m) == \E msg \in outbox[n] :
    /\ up[n]
    /\ up[m]
    /\ m # n
    /\ Cardinality(wire[m][n] \cup {msg}) <= MaxInFlight
    /\ wire' = [wire EXCEPT ![m][n] = @ \cup {msg}]
    /\ UNCHANGED <<nodeVars, syncVars, outbox, budget>>

\* Everything the program holds is in memory.  Worldviews it sent may still arrive.
Crash(n) ==
    /\ up[n]
    /\ Spend("crash")
    /\ up'            = [up EXCEPT ![n] = FALSE]
    /\ hasNetwork'    = [hasNetwork EXCEPT ![n] = TRUE]
    /\ worldviewsMap' = [worldviewsMap EXCEPT ![n] = OnlySelf(n)]
    /\ requests'      = [requests EXCEPT ![n] = {}]
    /\ toSync'        = [toSync EXCEPT ![n] = {}]
    /\ syncing'       = [syncing EXCEPT ![n] = {}]
    /\ fromSync'      = [fromSync EXCEPT ![n] = {}]
    /\ outbox'        = [outbox EXCEPT ![n] = {}]
    /\ wire'          = [wire EXCEPT ![n] = [m \in Node |-> {}]]

\* worldviewInit: start from the hall orders of the first worldview another
\* node sends within a second, or from none.
Restart(n) ==
    /\ ~up[n]
    /\ up' = [up EXCEPT ![n] = TRUE]
    /\ \/ UNCHANGED worldviewsMap
       \/ \E m \in Node \ {n} : \E msg \in outbox[m] :
              worldviewsMap' = [worldviewsMap EXCEPT ![n][n].hall = msg.hall]
    /\ UNCHANGED <<hasNetwork, requests, syncVars, outbox, wire, budget>>

Next == \E n \in Node :
    \/ ElevatorReport(n)
    \/ SyncResult(n)
    \/ \E m \in Node : ReceiveWorldview(n, m)
    \/ SelfNew(n)
    \/ SelfLost(n)
    \/ \E m \in Node : LostPeer(n, m)
    \/ \E c \in Cell : HallButton(n, c)
    \/ Assignment(n)
    \/ SyncTake(n)
    \/ SyncPut(n)
    \/ \E m \in Node : Transmit(n, m)
    \/ Crash(n)
    \/ Restart(n)

Spec == Init /\ [][Next]_vars

-----------------------------------------------------------------------------
\* The type invariant.
TypeOK ==
    /\ up            \in [Node -> BOOLEAN]
    /\ hasNetwork    \in [Node -> BOOLEAN]
    /\ worldviewsMap \in [Node -> [Node -> Entry]]
    /\ requests      \in [Node -> SUBSET Cell]
    /\ toSync        \in [Node -> SUBSET Snapshot]
    /\ syncing       \in [Node -> SUBSET HallOrders]
    /\ fromSync      \in [Node -> SUBSET HallOrders]
    /\ outbox        \in [Node -> SUBSET Message]
    /\ wire          \in [Node -> [Node -> SUBSET Message]]
    /\ budget        \in [Events -> Nat]

AllWellFormed(orders) == \A c \in Cell : WellFormed(orders[c])

\* Wherever an order is kept or under way, however old the copy, None has no
\* owner (Steg 3, addNewHallOrder) and peerDied marks Unconfirmed orders only,
\* though four places write one field of an order without the other.
WellFormedOrders ==
    \A n \in Node :
        /\ \A m \in Node : /\ AllWellFormed(worldviewsMap[n][m].hall)
                           /\ \A msg \in wire[n][m] : AllWellFormed(msg.hall)
        /\ \A msg \in outbox[n] : AllWellFormed(msg.hall)
        /\ \A snap \in toSync[n], m \in Node : AllWellFormed(snap[m].hall)
        /\ \A synced \in syncing[n] \cup fromSync[n] : AllWellFormed(synced)

Life == INSTANCE OrderLife WITH orders <- [n \in Node |-> hall(n)], reconnects <- budget.selfNew

\* Each node keeps the promises of OrderLife about its own orders, though results
\* of the sync goroutine are stale and peers' views are delayed, lost and reordered.
OrderLifeSpec == Life!Spec
=============================================================================

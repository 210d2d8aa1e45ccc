----------------------------- MODULE HallOrder -----------------------------
(***************************************************************************)
(* The rules one hall order obeys: the pure functions of the packages      *)
(* synchronization and worldview, for one cell of the HallOrders matrix.   *)
(* Every one of those functions runs a double loop "for each floor, for    *)
(* each direction" whose body touches only its own cell, so a function on  *)
(* a matrix is the function on a cell applied to each cell.                *)
(***************************************************************************)
EXTENDS Naturals, FiniteSets

CONSTANTS
    Node,       \* ids of the elevators
    NoOwner,    \* OwnerID "": nobody is assigned
    PeerDied    \* OwnerID "peerDied": the owner was lost

ASSUME OwnerMarkers == NoOwner \notin Node /\ PeerDied \notin Node /\ NoOwner # PeerDied
ASSUME NodeFinite == IsFiniteSet(Node)

None           == 0
Unconfirmed    == 1
Confirmed      == 2
DeleteProposed == 3

OrderSyncState == None .. DeleteProposed
OwnerID        == Node \cup {NoOwner, PeerDied}
Order          == [SyncState : OrderSyncState, OwnerID : OwnerID]

NoOrder   == [SyncState |-> None, OwnerID |-> NoOwner]
LostOrder == [SyncState |-> Unconfirmed, OwnerID |-> PeerDied]

\* "None-ordrer skal aldri ha owner"; PeerDied is only ever set on an Unconfirmed order.
WellFormed(order) == /\ order.SyncState = None => order.OwnerID = NoOwner
                     /\ order.OwnerID = PeerDied => order.SyncState = Unconfirmed

-----------------------------------------------------------------------------
(* synchronization.go *)

nextOrderState(s) == IF s = DeleteProposed THEN None ELSE s + 1

secondToNextOrderState(s) == IF s \in {None, Unconfirmed} THEN s + 2 ELSE None

\* Steg 0: a live peer holds {Unconfirmed, peerDied}, a Confirmed order follows it down.
PropagatePeerDied(order, liveOrders) ==
    IF order.SyncState = Confirmed /\ LostOrder \in liveOrders THEN LostOrder ELSE order

\* Mutant: only a peer one step ahead is followed.
FollowOneStep(s, peerState) == IF peerState = nextOrderState(s) THEN peerState ELSE s

\* Steg 1, one peer: move to its state if that is one or two steps ahead.
FollowState(s, peerState) ==
    IF peerState \in {nextOrderState(s), secondToNextOrderState(s)} THEN peerState ELSE s

\* Steg 1, all peers: where the state can be after each of them was looked at in turn.
FollowChains(s, peerStates, count) ==
    {chain \in [0..count -> OrderSyncState] :
        /\ chain[0] = s
        /\ \A i \in 1..count : chain[i] = FollowState(chain[i - 1], peerStates[i])}

\* The owner does not change in Steg 1, so its guard is the same for every peer.
FollowPeers(order, peerStates, count) ==
    IF order.OwnerID = PeerDied
    THEN {order}
    ELSE {[order EXCEPT !.SyncState = chain[count]] :
              chain \in FollowChains(order.SyncState, peerStates, count)}

\* Mutants: nobody else is asked; the state is incremented without wrapping round;
\* a removal does not wait for a peer that is behind at Unconfirmed; nothing is removed.
ConsensusAlone(order, broadcast, liveStates) ==
    CASE order.SyncState = Unconfirmed    -> [SyncState |-> Confirmed, OwnerID |-> NoOwner]
      [] order.SyncState = DeleteProposed -> NoOrder
      [] OTHER                            -> order

ConsensusIncrements(order, broadcast, liveStates) ==
    IF order.SyncState \in {Unconfirmed, DeleteProposed} /\ liveStates \subseteq {order.SyncState}
    THEN [order EXCEPT !.SyncState = @ + 1]
    ELSE order

ConsensusForgetsLaggards(order, broadcast, liveStates) ==
    CASE order.SyncState = Unconfirmed /\ liveStates \subseteq {Unconfirmed, Confirmed}
           -> [SyncState |-> Confirmed, OwnerID |-> NoOwner]
      [] order.SyncState = DeleteProposed /\ Confirmed \notin liveStates
           -> NoOrder
      [] OTHER -> order

ConsensusSkipsDelete(order, broadcast, liveStates) ==
    CASE order.SyncState = Unconfirmed /\ liveStates \subseteq {Unconfirmed, Confirmed}
           -> [SyncState |-> Confirmed, OwnerID |-> NoOwner]
      [] OTHER -> order

\* Steg 2: advance when every live worldview (one's own snapshot included) agrees.
\* broadcast is this node's own state in the snapshot, before Steg 0 and Steg 1.
Consensus(order, broadcast, liveStates) ==
    CASE /\ order.SyncState = Unconfirmed
         /\ broadcast = Unconfirmed
         /\ liveStates \subseteq {Unconfirmed, Confirmed}
           -> [SyncState |-> Confirmed,
               OwnerID   |-> IF order.OwnerID = PeerDied THEN NoOwner ELSE order.OwnerID]
      [] /\ order.SyncState = DeleteProposed
         /\ liveStates \subseteq {DeleteProposed, None}
           -> NoOrder
      [] OTHER -> order

\* Mutant: a removed order keeps its owner.
NormaliseNothing(order) == order

\* Steg 3: an order in state None has no owner.
Normalise(order) == IF order.SyncState = None THEN NoOrder ELSE order

-----------------------------------------------------------------------------
(* worldview.go *)

\* Mutants: every result is taken; the guard for lost owners is missing.
AcceptAlways(localOrder, syncOrder) == TRUE

AcceptForward(localOrder, syncOrder) ==
    \/ syncOrder.SyncState >= localOrder.SyncState
    \/ localOrder.SyncState = DeleteProposed /\ syncOrder.SyncState = None
    \/ localOrder.SyncState = Confirmed /\ syncOrder = LostOrder

\* shouldAcceptSyncOrder: is a result of the sync goroutine progress, or stale?
shouldAcceptSyncOrder(localOrder, syncOrder) ==
    /\ ~ /\ localOrder = LostOrder
         /\ syncOrder.SyncState = Confirmed
         /\ syncOrder.OwnerID # NoOwner
    /\ \/ syncOrder.SyncState >= localOrder.SyncState
       \/ localOrder.SyncState = DeleteProposed /\ syncOrder.SyncState = None
       \/ localOrder.SyncState = Confirmed /\ syncOrder = LostOrder

\* updateWorldviewFromSync, one cell.
MergeSyncOrder(localOrder, syncOrder) ==
    IF ~shouldAcceptSyncOrder(localOrder, syncOrder)
    THEN localOrder
    ELSE IF /\ syncOrder.SyncState = localOrder.SyncState
            /\ localOrder.OwnerID # NoOwner
            /\ localOrder.SyncState # None
         THEN localOrder
         ELSE syncOrder

\* markPeerDeadInHallOrders, one cell.
markPeerDead(order, lostId) ==
    IF order.SyncState = Confirmed /\ order.OwnerID = lostId THEN LostOrder ELSE order

\* updateWorldviewWithElevatorState, one cell at the floor that is checked for
\* served orders. before and now tell whether the elevator had the request in
\* the previous report and has it in this one.
CompleteServed(order, before, now, myID) ==
    IF order.SyncState = Confirmed /\ ~now /\ (before \/ order.OwnerID = myID)
    THEN [order EXCEPT !.SyncState = DeleteProposed]
    ELSE order

NeedsOwner(order) == order.SyncState = Confirmed /\ order.OwnerID \in {NoOwner, PeerDied}

\* addNewHallOrder, the cell of the button.
addNewHallOrder(order) ==
    IF order.SyncState = None THEN [SyncState |-> Unconfirmed, OwnerID |-> NoOwner] ELSE order
=============================================================================

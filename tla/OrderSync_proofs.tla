--------------------------- MODULE OrderSync_proofs ---------------------------
(***************************************************************************)
(* Proofs about OrderSync, for any finite set of nodes, any set of hall    *)
(* buttons and any bounds: every order is well typed and well formed       *)
(* wherever it is kept, and every node keeps the promises of OrderLife.    *)
(***************************************************************************)
EXTENDS OrderSync, FiniteSetTheorems, TLAPS

GoodOrder == {o \in Order : WellFormed(o)}
GoodHall  == [Cell -> GoodOrder]

-----------------------------------------------------------------------------
(* The rules for one order keep it in GoodOrder. *)

LEMMA MarkersInOrder == NoOrder \in GoodOrder /\ LostOrder \in GoodOrder
  BY OwnerMarkers DEF NoOrder, LostOrder, GoodOrder, Order, OwnerID, OrderSyncState, WellFormed,
         None, Unconfirmed, Confirmed, DeleteProposed

LEMMA MergeGood ==
  ASSUME NEW a \in GoodOrder, NEW b \in GoodOrder
  PROVE  MergeSyncOrder(a, b) \in GoodOrder
  BY DEF MergeSyncOrder

LEMMA MarkDeadGood ==
  ASSUME NEW o \in GoodOrder, NEW m
  PROVE  markPeerDead(o, m) \in GoodOrder
  BY MarkersInOrder DEF markPeerDead

LEMMA CompleteGood ==
  ASSUME NEW o \in GoodOrder, NEW n, NEW before
  PROVE  CompleteServed(o, before, FALSE, n) \in GoodOrder
  BY DEF CompleteServed, GoodOrder, Order, OwnerID, OrderSyncState, WellFormed,
         None, Unconfirmed, Confirmed, DeleteProposed

LEMMA AddGood ==
  ASSUME NEW o \in GoodOrder
  PROVE  addNewHallOrder(o) \in GoodOrder
  BY OwnerMarkers DEF addNewHallOrder, GoodOrder, Order, OwnerID, OrderSyncState, WellFormed,
         None, Unconfirmed, Confirmed, DeleteProposed

\* Steg 1 may lead an order into None with its owner still on it, which only
\* Steg 3 repairs, but it never moves an order whose owner was lost.
Followed == {o \in Order : o.OwnerID = PeerDied => o = LostOrder}

LEMMA FollowGood ==
  ASSUME NEW o \in GoodOrder, NEW peerStates, NEW count \in Nat, NEW r \in FollowPeers(o, peerStates, count)
  PROVE  r \in Followed
<1>1. CASE o.OwnerID = PeerDied
  <2>1. r = o
    BY <1>1 DEF FollowPeers
  <2>2. o = LostOrder
    BY <1>1 DEF GoodOrder, Order, WellFormed, LostOrder
  <2> QED BY <2>1, <2>2 DEF Followed, GoodOrder
<1>2. CASE o.OwnerID # PeerDied
  <2>1. PICK chain \in FollowChains(o.SyncState, peerStates, count) :
           r = [o EXCEPT !.SyncState = chain[count]]
    BY <1>2 DEF FollowPeers
  <2>2. chain[count] \in OrderSyncState
    BY DEF FollowChains
  <2> QED BY <1>2, <2>1, <2>2 DEF Followed, GoodOrder, Order
<1> QED BY <1>1, <1>2

LEMMA ConsensusGood ==
  ASSUME NEW o \in Followed, NEW broadcast, NEW liveStates
  PROVE  Normalise(Consensus(o, broadcast, liveStates)) \in GoodOrder
<1> DEFINE r == Consensus(o, broadcast, liveStates)
<1>1. r \in Order /\ (r.OwnerID = PeerDied => r = LostOrder)
  <2>1. CASE /\ o.SyncState = Unconfirmed /\ broadcast = Unconfirmed
             /\ liveStates \subseteq {Unconfirmed, Confirmed}
    BY <2>1, OwnerMarkers DEF Consensus, Followed, Order, OwnerID, OrderSyncState,
       None, Unconfirmed, Confirmed, DeleteProposed
  <2>2. CASE o.SyncState = DeleteProposed /\ liveStates \subseteq {DeleteProposed, None}
    BY <2>2, OwnerMarkers, MarkersInOrder DEF Consensus, GoodOrder, NoOrder, Unconfirmed, DeleteProposed
  <2>3. CASE /\ ~(o.SyncState = DeleteProposed /\ liveStates \subseteq {DeleteProposed, None})
             /\ ~(/\ o.SyncState = Unconfirmed /\ broadcast = Unconfirmed
                  /\ liveStates \subseteq {Unconfirmed, Confirmed})
    <3>1. r = o
      BY <2>3 DEF Consensus
    <3> QED BY <3>1 DEF Followed
  <2> QED BY <2>1, <2>2, <2>3
<1>2. QED
  BY <1>1, MarkersInOrder DEF Normalise, GoodOrder, Order, WellFormed, LostOrder,
     None, Unconfirmed

-----------------------------------------------------------------------------
(* The sync goroutine: from a good snapshot to a good result. *)

GoodSnapshot == [Node -> [hall : GoodHall, live : BOOLEAN]]

LEMMA SyncCellGood ==
  ASSUME NEW snap \in GoodSnapshot, NEW n \in Node, NEW c \in Cell,
         NEW live \in SUBSET Node, NEW visit, NEW r \in SyncCell(snap, n, c, live, visit)
  PROVE  r \in GoodOrder
<1> DEFINE mine   == snap[n].hall[c]
           orders == {snap[m].hall[c] : m \in live}
           states == {snap[m].hall[c].SyncState : m \in live}
           seen   == [i \in DOMAIN visit |-> snap[visit[i]].hall[c].SyncState]
           count  == Cardinality(live \ {n})
<1>1. mine \in GoodOrder
  BY DEF GoodSnapshot, GoodHall
<1>2. PropagatePeerDied(mine, orders) \in GoodOrder
  BY <1>1, MarkersInOrder DEF PropagatePeerDied
<1>3. count \in Nat
  BY NodeFinite, FS_Subset, FS_CardinalityType
<1>4. PICK o \in FollowPeers(PropagatePeerDied(mine, orders), seen, count) :
         r = Normalise(Consensus(o, mine.SyncState, states))
  BY DEF SyncCell
<1>5. o \in Followed
  BY <1>2, <1>3, <1>4, FollowGood
<1> QED BY <1>4, <1>5, ConsensusGood

LEMMA SyncGood ==
  ASSUME NEW snap \in GoodSnapshot, NEW n \in Node, NEW h \in syncHallOrders(snap, n)
  PROVE  h \in GoodHall
<1> DEFINE live == {m \in Node : snap[m].live}
           results(visit) == [c \in Cell |-> SyncCell(snap, n, c, live, visit)]
<1>1. PICK visit \in VisitOrders(live \ {n}) :
         h \in {g \in [Cell -> UNION {results(visit)[c] : c \in Cell}] :
                  \A c \in Cell : g[c] \in results(visit)[c]}
  BY DEF syncHallOrders
<1>2. ASSUME NEW c \in Cell PROVE h[c] \in GoodOrder
  <2>1. h[c] \in SyncCell(snap, n, c, live, visit)
    BY <1>1
  <2> QED BY <2>1, SyncCellGood
<1>3. h = [c \in Cell |-> h[c]]
  BY <1>1
<1> QED BY <1>2, <1>3 DEF GoodHall

-----------------------------------------------------------------------------
(* The invariant.  Good says of every variable that holds orders that it   *)
(* holds good ones: TypeOK and WellFormedOrders in one, which is what each *)
(* action hands on to the next.                                            *)

GoodEntry   == [known : BOOLEAN, hall : GoodHall, err : BOOLEAN, dead : BOOLEAN]
GoodMessage == [hall : GoodHall, err : BOOLEAN]

Good ==
    /\ up            \in [Node -> BOOLEAN]
    /\ hasNetwork    \in [Node -> BOOLEAN]
    /\ worldviewsMap \in [Node -> [Node -> GoodEntry]]
    /\ requests      \in [Node -> SUBSET Cell]
    /\ toSync        \in [Node -> SUBSET GoodSnapshot]
    /\ syncing       \in [Node -> SUBSET GoodHall]
    /\ fromSync      \in [Node -> SUBSET GoodHall]
    /\ outbox        \in [Node -> SUBSET GoodMessage]
    /\ wire          \in [Node -> [Node -> SUBSET GoodMessage]]
    /\ budget        \in [Events -> Nat]

LEMMA GoodIsInvariantShape == Good => TypeOK /\ WellFormedOrders
<1> SUFFICES ASSUME Good PROVE TypeOK /\ WellFormedOrders
  OBVIOUS
<1>1. GoodHall \subseteq HallOrders
  BY DEF GoodHall, GoodOrder, HallOrders
<1>2. /\ GoodEntry \subseteq Entry
      /\ GoodMessage \subseteq Message
      /\ GoodSnapshot \subseteq Snapshot
  BY <1>1 DEF GoodEntry, GoodMessage, GoodSnapshot, Entry, Message, Snapshot
<1>3. TypeOK
  BY <1>1, <1>2 DEF Good, TypeOK
<1>4. \A h \in GoodHall : AllWellFormed(h)
  BY DEF GoodHall, GoodOrder, AllWellFormed
<1>5. WellFormedOrders
  BY <1>4 DEF Good, WellFormedOrders, GoodEntry, GoodMessage, GoodSnapshot
<1> QED BY <1>3, <1>5

LEMMA NoOrdersGood == NoOrders \in GoodHall
  BY MarkersInOrder DEF NoOrders, GoodHall

LEMMA OnlySelfGood == ASSUME NEW n \in Node PROVE OnlySelf(n) \in [Node -> GoodEntry]
  BY NoOrdersGood DEF OnlySelf, NoEntry, GoodEntry

LEMMA InitGood == Init => Good
<1> SUFFICES ASSUME Init PROVE Good
  OBVIOUS
<1>1. worldviewsMap \in [Node -> [Node -> GoodEntry]]
  BY OnlySelfGood DEF Init
<1>2. budget \in [Events -> Nat]
  BY Bounds DEF Init, Events
<1> QED BY <1>1, <1>2 DEF Init, Good

-----------------------------------------------------------------------------
(* Every step keeps it. *)

LEMMA EntryWithHall ==
  ASSUME NEW entry \in GoodEntry, NEW h \in GoodHall
  PROVE  [entry EXCEPT !.hall = h] \in GoodEntry
  BY DEF GoodEntry

LEMMA ViewsWithHall ==
  ASSUME NEW views \in [Node -> GoodEntry], NEW n \in Node, NEW h \in GoodHall
  PROVE  [views EXCEPT ![n].hall = h] \in [Node -> GoodEntry]
  BY EntryWithHall

LEMMA ViewsWithError ==
  ASSUME NEW views \in [Node -> GoodEntry], NEW n \in Node, NEW error \in BOOLEAN
  PROVE  [views EXCEPT ![n].err = error] \in [Node -> GoodEntry]
<1>1. \A entry \in GoodEntry : [entry EXCEPT !.err = error] \in GoodEntry
  BY DEF GoodEntry
<1> QED BY <1>1

LEMMA EntryLost ==
  ASSUME NEW entry \in GoodEntry
  PROVE  [[entry EXCEPT !.known = TRUE] EXCEPT !.dead = TRUE] \in GoodEntry
<1> DEFINE known == [entry EXCEPT !.known = TRUE]
<1>1. known \in GoodEntry
  BY DEF GoodEntry
<1>2. [known EXCEPT !.dead = TRUE] \in GoodEntry
  BY <1>1 DEF GoodEntry
<1> QED BY <1>2

LEMMA UpdateGood ==
  ASSUME Good, NEW n \in Node, NEW views \in [Node -> GoodEntry], Update(n, views)
  PROVE  /\ worldviewsMap' \in [Node -> [Node -> GoodEntry]]
         /\ outbox' \in [Node -> SUBSET GoodMessage]
         /\ toSync' \in [Node -> SUBSET GoodSnapshot]
<1>1. [hall |-> views[n].hall, err |-> views[n].err] \in GoodMessage
  BY DEF GoodEntry, GoodMessage
<1>2. [m \in Node |-> [hall |-> views[m].hall, live |-> Live(views[m])]] \in GoodSnapshot
  BY DEF GoodEntry, GoodSnapshot, Live
<1> QED BY <1>1, <1>2 DEF Update, sendLatestToNetwork, sendLatestToSync, Good

LEMMA SpendGood == ASSUME Good, NEW e \in Events, Spend(e) PROVE budget' \in [Events -> Nat]
  BY DEF Good, Spend

LEMMA OwnHallGood == ASSUME Good, NEW n \in Node PROVE hall(n) \in GoodHall
  BY DEF Good, hall, GoodEntry

LEMMA MarkHallGood ==
  ASSUME NEW h \in GoodHall, NEW m
  PROVE  markPeerDeadInHallOrders(h, m) \in GoodHall
  BY MarkDeadGood DEF markPeerDeadInHallOrders, GoodHall

LEMMA ElevatorReportGood == ASSUME Good, NEW n \in Node, ElevatorReport(n) PROVE Good'
<1> DEFINE mine == worldviewsMap[n][n]
           completed(served) ==
             [c \in Cell |-> IF c \in served
                             THEN CompleteServed(mine.hall[c], c \in requests[n], FALSE, n)
                             ELSE mine.hall[c]]
           views(served, error) ==
             [worldviewsMap[n] EXCEPT
                ![n].hall = IF error THEN markPeerDeadInHallOrders(completed(served), n)
                                     ELSE completed(served),
                ![n].err  = error]
<1>1. PICK served \in SUBSET Cell, error \in BOOLEAN :
         /\ IF error /\ ~mine.err THEN Spend("error") ELSE UNCHANGED budget
         /\ requests' = [requests EXCEPT ![n] = @ \ served]
         /\ Update(n, views(served, error))
         /\ UNCHANGED <<up, hasNetwork, syncing, fromSync, wire>>
  BY DEF ElevatorReport
<1>2. completed(served) \in GoodHall
  <2>1. mine.hall \in GoodHall
    BY OwnHallGood DEF hall
  <2>2. \A c \in Cell : CompleteServed(mine.hall[c], c \in requests[n], FALSE, n) \in GoodOrder
    BY <2>1, CompleteGood DEF GoodHall
  <2> QED BY <2>1, <2>2 DEF GoodHall
<1>3. views(served, error) \in [Node -> GoodEntry]
  <2> DEFINE new == IF error THEN markPeerDeadInHallOrders(completed(served), n)
                             ELSE completed(served)
  <2>1. new \in GoodHall
    BY <1>2, MarkHallGood
  <2>2. worldviewsMap[n] \in [Node -> GoodEntry]
    BY DEF Good
  <2>3. [worldviewsMap[n] EXCEPT ![n].hall = new] \in [Node -> GoodEntry]
    BY <2>1, <2>2, ViewsWithHall
  <2>4. views(served, error) = [[worldviewsMap[n] EXCEPT ![n].hall = new] EXCEPT ![n].err = error]
    OBVIOUS
  <2> QED BY <2>3, <2>4, ViewsWithError
<1>4. budget' \in [Events -> Nat]
  BY <1>1, SpendGood DEF Good, Events
<1> QED BY <1>1, <1>3, <1>4, UpdateGood DEF Good

LEMMA SyncResultGood == ASSUME Good, NEW n \in Node, SyncResult(n) PROVE Good'
<1> DEFINE views(synced) ==
             [worldviewsMap[n] EXCEPT
                ![n].hall = [c \in Cell |-> MergeSyncOrder(hall(n)[c], synced[c])]]
<1>1. PICK synced \in fromSync[n] :
         /\ fromSync' = [fromSync EXCEPT ![n] = {}]
         /\ worldviewsMap' = [worldviewsMap EXCEPT ![n] = views(synced)]
         /\ sendLatestToNetwork(n, views(synced))
         /\ UNCHANGED <<up, hasNetwork, requests, toSync, syncing, wire, budget>>
  BY DEF SyncResult
<1>2. synced \in GoodHall
  BY <1>1 DEF Good
<1>3. [c \in Cell |-> MergeSyncOrder(hall(n)[c], synced[c])] \in GoodHall
  BY <1>2, OwnHallGood, MergeGood DEF GoodHall
<1>4. views(synced) \in [Node -> GoodEntry]
  BY <1>3, ViewsWithHall DEF Good
<1>5. [hall |-> views(synced)[n].hall, err |-> views(synced)[n].err] \in GoodMessage
  BY <1>4 DEF GoodEntry, GoodMessage
<1> QED BY <1>1, <1>4, <1>5 DEF Good, sendLatestToNetwork

LEMMA ReceiveGood ==
  ASSUME Good, NEW n \in Node, NEW m \in Node, ReceiveWorldview(n, m) PROVE Good'
<1> DEFINE views(msg) ==
             [worldviewsMap[n] EXCEPT
                ![m] = [known |-> TRUE, hall |-> msg.hall, err |-> msg.err, dead |-> FALSE],
                ![n].hall = IF msg.err THEN markPeerDeadInHallOrders(hall(n), m) ELSE hall(n)]
<1>1. PICK msg \in Arriving(n, m) :
         /\ m # n
         /\ wire' = [wire EXCEPT ![n][m] = @ \ {msg}]
         /\ Update(n, views(msg))
         /\ UNCHANGED <<up, hasNetwork, requests, syncing, fromSync, budget>>
  BY DEF ReceiveWorldview
<1>2. msg \in GoodMessage
  BY <1>1 DEF Arriving, Good
<1>3. views(msg) \in [Node -> GoodEntry]
  <2> DEFINE heard == [known |-> TRUE, hall |-> msg.hall, err |-> msg.err, dead |-> FALSE]
             mine  == IF msg.err THEN markPeerDeadInHallOrders(hall(n), m) ELSE hall(n)
  <2>1. mine \in GoodHall
    BY OwnHallGood, MarkHallGood
  <2>2. heard \in GoodEntry
    BY <1>2 DEF GoodEntry, GoodMessage
  <2>3. [worldviewsMap[n] EXCEPT ![m] = heard] \in [Node -> GoodEntry]
    BY <2>2 DEF Good
  <2>4. views(msg) = [[worldviewsMap[n] EXCEPT ![m] = heard] EXCEPT ![n].hall = mine]
    OBVIOUS
  <2> QED BY <2>1, <2>3, <2>4, ViewsWithHall
<1>4. wire' \in [Node -> [Node -> SUBSET GoodMessage]]
  BY <1>1 DEF Good
<1> QED BY <1>1, <1>3, <1>4, UpdateGood DEF Good

LEMMA SelfNewGood == ASSUME Good, NEW n \in Node, SelfNew(n) PROVE Good'
<1>1. worldviewsMap' \in [Node -> [Node -> GoodEntry]]
  <2>1. CASE UNCHANGED worldviewsMap
    BY <2>1 DEF Good
  <2>2. ASSUME NEW m \in Node,
               worldviewsMap' = [worldviewsMap EXCEPT ![n][n].hall = worldviewsMap[n][m].hall]
        PROVE  worldviewsMap' \in [Node -> [Node -> GoodEntry]]
    <3>1. worldviewsMap[n][m].hall \in GoodHall
      BY DEF Good, GoodEntry
    <3>2. [worldviewsMap[n] EXCEPT ![n].hall = worldviewsMap[n][m].hall] \in [Node -> GoodEntry]
      BY <3>1, ViewsWithHall DEF Good
    <3>3. worldviewsMap' = [worldviewsMap EXCEPT ![n] =
             [worldviewsMap[n] EXCEPT ![n].hall = worldviewsMap[n][m].hall]]
      BY <2>2 DEF Good
    <3> QED BY <3>2, <3>3 DEF Good
  <2> QED BY <2>1, <2>2 DEF SelfNew
<1>2. budget' \in [Events -> Nat]
  BY SpendGood DEF SelfNew, Events
<1> QED BY <1>1, <1>2 DEF SelfNew, Good, syncVars

LEMMA SelfLostGood == ASSUME Good, NEW n \in Node, SelfLost(n) PROVE Good'
<1>1. worldviewsMap[n] \in [Node -> GoodEntry]
  BY DEF Good
<1>2. budget' \in [Events -> Nat]
  BY SpendGood DEF SelfLost, Events
<1> QED BY <1>1, <1>2, UpdateGood DEF SelfLost, Good

LEMMA LostPeerViews ==
  ASSUME Good, NEW n \in Node, NEW m \in Node
  PROVE  [worldviewsMap[n] EXCEPT ![m].known = TRUE, ![m].dead = TRUE] \in [Node -> GoodEntry]
<1> DEFINE entry == worldviewsMap[n][m]
           lost  == [worldviewsMap[n] EXCEPT ![m].known = TRUE, ![m].dead = TRUE]
<1>1. [[entry EXCEPT !.known = TRUE] EXCEPT !.dead = TRUE] \in GoodEntry
  <2>1. entry \in GoodEntry
    BY DEF Good
  <2> HIDE DEF entry
  <2> QED BY <2>1, EntryLost
<1>2. lost = [worldviewsMap[n] EXCEPT ![m] = [[entry EXCEPT !.known = TRUE] EXCEPT !.dead = TRUE]]
  BY DEF Good
<1> HIDE DEF lost, entry
<1>3. lost \in [Node -> GoodEntry]
  BY <1>1, <1>2 DEF Good
<1> QED BY <1>3 DEF lost

LEMMA LostPeerGood == ASSUME Good, NEW n \in Node, NEW m \in Node, LostPeer(n, m) PROVE Good'
<1>1. [worldviewsMap[n] EXCEPT
         ![m].known = TRUE,
         ![m].dead  = TRUE,
         ![n].hall  = markPeerDeadInHallOrders(hall(n), m)] \in [Node -> GoodEntry]
  <2> DEFINE mine == markPeerDeadInHallOrders(hall(n), m)
             lost == [worldviewsMap[n] EXCEPT ![m].known = TRUE, ![m].dead = TRUE]
  <2>1. mine \in GoodHall
    BY OwnHallGood, MarkHallGood
  <2>2. lost \in [Node -> GoodEntry]
    BY LostPeerViews
  <2>3. [worldviewsMap[n] EXCEPT ![m].known = TRUE, ![m].dead = TRUE, ![n].hall = mine]
          = [lost EXCEPT ![n].hall = mine]
    OBVIOUS
  <2> QED BY <2>1, <2>2, <2>3, ViewsWithHall
<1>2. budget' \in [Events -> Nat]
  BY SpendGood DEF LostPeer, Events
<1> QED BY <1>1, <1>2, UpdateGood DEF LostPeer, Good

LEMMA HallButtonGood == ASSUME Good, NEW n \in Node, NEW c \in Cell, HallButton(n, c) PROVE Good'
<1>1. [worldviewsMap[n] EXCEPT ![n].hall[c] = addNewHallOrder(@)] \in [Node -> GoodEntry]
  <2>1. addNewHallOrder(hall(n)[c]) \in GoodOrder
    BY OwnHallGood, AddGood DEF GoodHall
  <2>2. [hall(n) EXCEPT ![c] = addNewHallOrder(@)] \in GoodHall
    BY <2>1, OwnHallGood DEF GoodHall
  <2>3. [worldviewsMap[n] EXCEPT ![n].hall[c] = addNewHallOrder(@)]
          = [worldviewsMap[n] EXCEPT ![n].hall = [hall(n) EXCEPT ![c] = addNewHallOrder(@)]]
    BY DEF hall
  <2> QED BY <2>2, <2>3, ViewsWithHall DEF Good
<1>2. budget' \in [Events -> Nat]
  BY SpendGood DEF HallButton, Events
<1> QED BY <1>1, <1>2, UpdateGood DEF HallButton, Good

LEMMA AssignmentGood == ASSUME Good, NEW n \in Node, Assignment(n) PROVE Good'
<1> DEFINE orders(given, owner) ==
             [c \in Cell |-> IF c \in given THEN [hall(n)[c] EXCEPT !.OwnerID = owner[c]]
                                            ELSE hall(n)[c]]
           views(given, owner) == [worldviewsMap[n] EXCEPT ![n].hall = orders(given, owner)]
<1>1. PICK given \in SUBSET {c \in Cell : NeedsOwner(hall(n)[c])} :
      \E owner \in [given -> {m \in Takers : worldviewsMap[n][m].known}] :
         /\ worldviewsMap' = [worldviewsMap EXCEPT ![n] = views(given, owner)]
         /\ requests' = [requests EXCEPT ![n] = @ \cup
               {c \in Cell : orders(given, owner)[c] = [SyncState |-> Confirmed, OwnerID |-> n]}]
         /\ sendLatestToNetwork(n, views(given, owner))
         /\ UNCHANGED <<up, hasNetwork, syncVars, wire, budget>>
  BY DEF Assignment
<1>2. PICK owner \in [given -> {m \in Takers : worldviewsMap[n][m].known}] :
         /\ worldviewsMap' = [worldviewsMap EXCEPT ![n] = views(given, owner)]
         /\ requests' = [requests EXCEPT ![n] = @ \cup
               {c \in Cell : orders(given, owner)[c] = [SyncState |-> Confirmed, OwnerID |-> n]}]
         /\ sendLatestToNetwork(n, views(given, owner))
         /\ UNCHANGED <<up, hasNetwork, syncVars, wire, budget>>
  BY <1>1
<1>3. orders(given, owner) \in GoodHall
  <2>1. ASSUME NEW c \in given PROVE [hall(n)[c] EXCEPT !.OwnerID = owner[c]] \in GoodOrder
    <3>1. owner[c] \in Node
      BY TakersAreNodes
    <3>2. hall(n)[c] \in GoodOrder /\ hall(n)[c].SyncState = Confirmed
      BY <1>1, OwnHallGood DEF NeedsOwner, GoodHall
    <3> QED BY <3>1, <3>2, OwnerMarkers DEF GoodOrder, Order, OwnerID, WellFormed, None, Confirmed, Unconfirmed
  <2> QED BY <2>1, OwnHallGood DEF GoodHall
<1>4. views(given, owner) \in [Node -> GoodEntry]
  BY <1>3, ViewsWithHall DEF Good
<1>5. [hall |-> views(given, owner)[n].hall, err |-> views(given, owner)[n].err] \in GoodMessage
  BY <1>4 DEF GoodEntry, GoodMessage
<1>6. requests' \in [Node -> SUBSET Cell]
  BY <1>2 DEF Good
<1> QED BY <1>2, <1>4, <1>5, <1>6 DEF Good, sendLatestToNetwork, syncVars

LEMMA SyncTakeGood == ASSUME Good, NEW n \in Node, SyncTake(n) PROVE Good'
<1>1. PICK snap \in toSync[n] : \E synced \in syncHallOrders(snap, n) :
         \/ syncing' = [syncing EXCEPT ![n] = {synced}] /\ UNCHANGED fromSync
         \/ fromSync' = [fromSync EXCEPT ![n] = {synced}] /\ UNCHANGED syncing
  BY DEF SyncTake
<1>2. PICK synced \in syncHallOrders(snap, n) :
         \/ syncing' = [syncing EXCEPT ![n] = {synced}] /\ UNCHANGED fromSync
         \/ fromSync' = [fromSync EXCEPT ![n] = {synced}] /\ UNCHANGED syncing
  BY <1>1
<1>3. synced \in GoodHall
  BY <1>1, <1>2, SyncGood DEF Good
<1>4. syncing' \in [Node -> SUBSET GoodHall] /\ fromSync' \in [Node -> SUBSET GoodHall]
  <2>1. /\ [syncing EXCEPT ![n] = {synced}] \in [Node -> SUBSET GoodHall]
        /\ [fromSync EXCEPT ![n] = {synced}] \in [Node -> SUBSET GoodHall]
    BY <1>3 DEF Good
  <2>2. syncing \in [Node -> SUBSET GoodHall] /\ fromSync \in [Node -> SUBSET GoodHall]
    BY DEF Good
  <2> QED BY <1>2, <2>1, <2>2
<1> QED BY <1>4 DEF SyncTake, Good, nodeVars

LEMMA SyncPutGood == ASSUME Good, NEW n \in Node, SyncPut(n) PROVE Good'
  BY DEF SyncPut, Good, nodeVars

LEMMA TransmitGood == ASSUME Good, NEW n \in Node, NEW m \in Node, Transmit(n, m) PROVE Good'
<1>1. PICK msg \in outbox[n] : wire' = [wire EXCEPT ![m][n] = @ \cup {msg}]
  BY DEF Transmit
<1>2. msg \in GoodMessage
  BY DEF Good
<1>3. wire' \in [Node -> [Node -> SUBSET GoodMessage]]
  BY <1>1, <1>2 DEF Good
<1> QED BY <1>3 DEF Transmit, Good, nodeVars, syncVars

LEMMA CrashGood == ASSUME Good, NEW n \in Node, Crash(n) PROVE Good'
<1>1. budget' \in [Events -> Nat]
  BY SpendGood DEF Crash, Events
<1>2. worldviewsMap' \in [Node -> [Node -> GoodEntry]]
  BY OnlySelfGood DEF Crash, Good
<1> QED BY <1>1, <1>2 DEF Crash, Good

LEMMA RestartGood == ASSUME Good, NEW n \in Node, Restart(n) PROVE Good'
<1>1. worldviewsMap' \in [Node -> [Node -> GoodEntry]]
  <2>1. CASE UNCHANGED worldviewsMap
    BY <2>1 DEF Good
  <2>2. ASSUME NEW m \in Node, NEW msg \in outbox[m],
               worldviewsMap' = [worldviewsMap EXCEPT ![n][n].hall = msg.hall]
        PROVE  worldviewsMap' \in [Node -> [Node -> GoodEntry]]
    <3>1. msg.hall \in GoodHall
      BY DEF Good, GoodMessage
    <3>2. [worldviewsMap[n] EXCEPT ![n].hall = msg.hall] \in [Node -> GoodEntry]
      BY <3>1, ViewsWithHall DEF Good
    <3>3. worldviewsMap' =
            [worldviewsMap EXCEPT ![n] = [worldviewsMap[n] EXCEPT ![n].hall = msg.hall]]
      BY <2>2 DEF Good
    <3> QED BY <3>2, <3>3 DEF Good
  <2> QED BY <2>1, <2>2 DEF Restart
<1> QED BY <1>1 DEF Restart, Good, syncVars

LEMMA NextGood == Good /\ [Next]_vars => Good'
<1> SUFFICES ASSUME Good, [Next]_vars PROVE Good'
  OBVIOUS
<1>1. CASE UNCHANGED vars
  BY <1>1 DEF vars, nodeVars, syncVars, Good
<1>2. ASSUME NEW n \in Node, ElevatorReport(n) PROVE Good'
  BY <1>2, ElevatorReportGood
<1>3. ASSUME NEW n \in Node, SyncResult(n) PROVE Good'
  BY <1>3, SyncResultGood
<1>4. ASSUME NEW n \in Node, NEW m \in Node, ReceiveWorldview(n, m) PROVE Good'
  BY <1>4, ReceiveGood
<1>5. ASSUME NEW n \in Node, SelfNew(n) PROVE Good'
  BY <1>5, SelfNewGood
<1>6. ASSUME NEW n \in Node, SelfLost(n) PROVE Good'
  BY <1>6, SelfLostGood
<1>7. ASSUME NEW n \in Node, NEW m \in Node, LostPeer(n, m) PROVE Good'
  BY <1>7, LostPeerGood
<1>8. ASSUME NEW n \in Node, NEW c \in Cell, HallButton(n, c) PROVE Good'
  BY <1>8, HallButtonGood
<1>9. ASSUME NEW n \in Node, Assignment(n) PROVE Good'
  BY <1>9, AssignmentGood
<1>10. ASSUME NEW n \in Node, SyncTake(n) PROVE Good'
  BY <1>10, SyncTakeGood
<1>11. ASSUME NEW n \in Node, SyncPut(n) PROVE Good'
  BY <1>11, SyncPutGood
<1>12. ASSUME NEW n \in Node, NEW m \in Node, Transmit(n, m) PROVE Good'
  BY <1>12, TransmitGood
<1>13. ASSUME NEW n \in Node, Crash(n) PROVE Good'
  BY <1>13, CrashGood
<1>14. ASSUME NEW n \in Node, Restart(n) PROVE Good'
  BY <1>14, RestartGood
<1> QED BY <1>1, <1>2, <1>3, <1>4, <1>5, <1>6, <1>7, <1>8, <1>9, <1>10, <1>11, <1>12, <1>13, <1>14
        DEF Next

LEMMA AlwaysGood == Spec => []Good
  BY InitGood, NextGood, PTL DEF Spec

\* TypeOK for every set of nodes and buttons: whatever a goroutine computes or a
\* network delivers is a worldview, a snapshot or a matrix of hall orders.
THEOREM TypeCorrect == Spec => []TypeOK
  BY AlwaysGood, GoodIsInvariantShape, PTL

\* WellFormedOrders for every set of nodes and buttons: no copy of an order in a
\* map, a mailbox or a message is None with an owner, or peerDied and not Unconfirmed.
THEOREM OrdersWellFormed == Spec => []WellFormedOrders
  BY AlwaysGood, GoodIsInvariantShape, PTL

-----------------------------------------------------------------------------
(* OrderSync implements OrderLife: what each rule may do to one order. *)

Own == [n \in Node |-> hall(n)]

LEMMA StayMay == ASSUME NEW o \in GoodOrder PROVE Life!MayBecome(o, o)
  BY DEF Life!MayBecome, Life!WellFormed, Life!None, Life!Unconfirmed, Life!Confirmed,
         Life!DeleteProposed, Life!LostOrder, Life!NoOrder, GoodOrder, WellFormed,
         None, Unconfirmed, Confirmed, DeleteProposed

LEMMA MergeMay ==
  ASSUME NEW a \in GoodOrder, NEW b \in GoodOrder
  PROVE  Life!MayBecome(a, MergeSyncOrder(a, b))
  BY OwnerMarkers DEF MergeSyncOrder, shouldAcceptSyncOrder, Life!MayBecome, Life!WellFormed,
     Life!None, Life!Unconfirmed, Life!Confirmed, Life!DeleteProposed, Life!LostOrder, Life!NoOrder,
     GoodOrder, Order, OrderSyncState, OwnerID, WellFormed, NoOrder, LostOrder,
     None, Unconfirmed, Confirmed, DeleteProposed

LEMMA MarkDeadMay ==
  ASSUME NEW o \in GoodOrder, NEW m
  PROVE  Life!MayBecome(o, markPeerDead(o, m))
  BY StayMay, OwnerMarkers DEF markPeerDead, Life!MayBecome, Life!WellFormed, Life!None, Life!Unconfirmed,
     Life!Confirmed, Life!DeleteProposed, Life!LostOrder, Life!NoOrder, LostOrder,
     None, Unconfirmed, Confirmed, DeleteProposed

\* Served, and then degraded if it was not and the elevator is in error.
LEMMA CompleteMay ==
  ASSUME NEW o \in GoodOrder, NEW n, NEW before, NEW r,
         r \in {o, CompleteServed(o, before, FALSE, n)}
  PROVE  Life!MayBecome(o, r) /\ Life!MayBecome(o, markPeerDead(r, n))
  BY StayMay, OwnerMarkers DEF CompleteServed, markPeerDead, Life!MayBecome, Life!WellFormed, Life!None,
     Life!Unconfirmed, Life!Confirmed, Life!DeleteProposed, Life!LostOrder, Life!NoOrder,
     GoodOrder, Order, WellFormed, LostOrder, None, Unconfirmed, Confirmed, DeleteProposed

LEMMA AddMay == ASSUME NEW o \in GoodOrder PROVE Life!MayBecome(o, addNewHallOrder(o))
  BY StayMay, OwnerMarkers DEF addNewHallOrder, Life!MayBecome, Life!WellFormed, Life!None, Life!Unconfirmed,
     Life!Confirmed, Life!DeleteProposed, Life!LostOrder, Life!NoOrder,
     GoodOrder, WellFormed, None, Unconfirmed, Confirmed, DeleteProposed

LEMMA AssignMay ==
  ASSUME NEW o \in GoodOrder, NeedsOwner(o), NEW m \in Node
  PROVE  Life!MayBecome(o, [o EXCEPT !.OwnerID = m])
  BY OwnerMarkers DEF NeedsOwner, Life!MayBecome, Life!WellFormed, Life!None, Life!Unconfirmed,
     Life!Confirmed, Life!DeleteProposed, Life!LostOrder, Life!NoOrder,
     GoodOrder, Order, WellFormed, None, Unconfirmed, Confirmed, DeleteProposed

-----------------------------------------------------------------------------
(* ... and what each action does to the orders of its node and the others. *)

LEMMA LegalIsGood == Life!LegalOrders = GoodHall
  BY DEF Life!LegalOrders, GoodHall, GoodOrder, Life!Order, Order, Life!WellFormed, WellFormed,
         Life!OwnerID, OwnerID, Life!OrderSyncState, OrderSyncState,
         Life!None, Life!Unconfirmed, Life!DeleteProposed, None, Unconfirmed, DeleteProposed

LEMMA ProgressStep ==
  ASSUME Good, NEW n \in Node, up[n], UNCHANGED up, budget'.selfNew = budget.selfNew,
         NEW h \in GoodHall, \A c \in Cell : Life!MayBecome(hall(n)[c], h[c]),
         Own' = [Own EXCEPT ![n] = h]
  PROVE  Life!Next
<1>1. Life!Progress(n)
  BY LegalIsGood DEF Life!Progress, Own
<1> QED BY <1>1 DEF Life!Next

\* A step that touches n's map only, and in it n's own orders only to make them h.
LEMMA OwnChange ==
  ASSUME Good, NEW n \in Node, NEW views \in [Node -> GoodEntry],
         worldviewsMap' = [worldviewsMap EXCEPT ![n] = views]
  PROVE  Own' = [Own EXCEPT ![n] = views[n].hall]
  BY DEF Own, hall, Good

LEMMA OwnUnchanged == UNCHANGED worldviewsMap => UNCHANGED Own
  BY DEF Own, hall

LEMMA ViewsOfUpdate ==
  ASSUME Good, NEW n \in Node, NEW views \in [Node -> GoodEntry], Update(n, views)
  PROVE  Own' = [Own EXCEPT ![n] = views[n].hall]
  BY OwnChange DEF Update

LEMMA OwnKept == ASSUME Good, NEW n \in Node PROVE Own = [Own EXCEPT ![n] = hall(n)]
  BY DEF Own

LEMMA OwnSet ==
  ASSUME Good, NEW n \in Node, NEW h \in GoodHall,
         worldviewsMap' = [worldviewsMap EXCEPT ![n] = [worldviewsMap[n] EXCEPT ![n].hall = h]]
  PROVE  Own' = [Own EXCEPT ![n] = h]
<1> DEFINE views == [worldviewsMap[n] EXCEPT ![n].hall = h]
<1>1. worldviewsMap[n] \in [Node -> GoodEntry]
  BY DEF Good
<1>2. views \in [Node -> GoodEntry]
  BY <1>1, ViewsWithHall
<1>3. views[n].hall = h
  BY <1>1 DEF GoodEntry
<1> HIDE DEF views
<1>4. worldviewsMap' = [worldviewsMap EXCEPT ![n] = views]
  BY DEF views
<1> QED BY <1>2, <1>3, <1>4, OwnChange

LEMMA ElevatorReportLife == ASSUME Good, NEW n \in Node, ElevatorReport(n) PROVE Life!Next
<1> DEFINE mine == worldviewsMap[n][n]
           completed(served) ==
             [c \in Cell |-> IF c \in served
                             THEN CompleteServed(mine.hall[c], c \in requests[n], FALSE, n)
                             ELSE mine.hall[c]]
           new(served, error) == IF error THEN markPeerDeadInHallOrders(completed(served), n)
                                          ELSE completed(served)
           views(served, error) ==
             [worldviewsMap[n] EXCEPT ![n].hall = new(served, error), ![n].err = error]
<1>1. PICK served \in SUBSET Cell, error \in BOOLEAN :
         /\ up[n]
         /\ IF error /\ ~mine.err THEN Spend("error") ELSE UNCHANGED budget
         /\ Update(n, views(served, error))
         /\ UNCHANGED up
  BY DEF ElevatorReport
<1>2. mine.hall = hall(n) /\ hall(n) \in GoodHall
  BY OwnHallGood DEF hall
<1>3. \A c \in Cell : /\ completed(served)[c] \in GoodOrder
                      /\ markPeerDead(completed(served)[c], n) \in GoodOrder
                      /\ Life!MayBecome(hall(n)[c], completed(served)[c])
                      /\ Life!MayBecome(hall(n)[c], markPeerDead(completed(served)[c], n))
  BY <1>2, CompleteGood, CompleteMay, MarkDeadGood DEF GoodHall
<1>4. /\ new(served, error) \in GoodHall
      /\ \A c \in Cell : Life!MayBecome(hall(n)[c], new(served, error)[c])
  BY <1>3 DEF markPeerDeadInHallOrders, GoodHall
<1>5. views(served, error) \in [Node -> GoodEntry] /\ views(served, error)[n].hall = new(served, error)
  <2>1. worldviewsMap[n] \in [Node -> GoodEntry]
    BY DEF Good
  <2>2. [worldviewsMap[n] EXCEPT ![n].hall = new(served, error)] \in [Node -> GoodEntry]
    BY <1>4, <2>1, ViewsWithHall
  <2>3. views(served, error) =
          [[worldviewsMap[n] EXCEPT ![n].hall = new(served, error)] EXCEPT ![n].err = error]
    OBVIOUS
  <2>4. views(served, error)[n].hall = new(served, error)
    BY <2>1 DEF GoodEntry
  <2> QED BY <2>2, <2>3, <2>4, ViewsWithError
<1> HIDE DEF new, views
<1>6. Own' = [Own EXCEPT ![n] = new(served, error)]
  BY <1>1, <1>5, ViewsOfUpdate
<1>7. budget'.selfNew = budget.selfNew
  BY <1>1 DEF Spend, Good, Events
<1> QED BY <1>1, <1>4, <1>6, <1>7, ProgressStep

LEMMA SyncResultLife == ASSUME Good, NEW n \in Node, SyncResult(n) PROVE Life!Next
<1> DEFINE new(synced)   == [c \in Cell |-> MergeSyncOrder(hall(n)[c], synced[c])]
           views(synced) == [worldviewsMap[n] EXCEPT ![n].hall = new(synced)]
<1>1. PICK synced \in fromSync[n] :
         /\ up[n]
         /\ worldviewsMap' = [worldviewsMap EXCEPT ![n] = views(synced)]
         /\ UNCHANGED <<up, budget>>
  BY DEF SyncResult
<1>2. synced \in GoodHall /\ hall(n) \in GoodHall
  BY <1>1, OwnHallGood DEF Good
<1>3. /\ new(synced) \in GoodHall
      /\ \A c \in Cell : Life!MayBecome(hall(n)[c], new(synced)[c])
  BY <1>2, MergeGood, MergeMay DEF GoodHall
<1> HIDE DEF new
<1>4. views(synced) \in [Node -> GoodEntry] /\ views(synced)[n].hall = new(synced)
  <2>1. worldviewsMap[n] \in [Node -> GoodEntry]
    BY DEF Good
  <2>2. views(synced)[n].hall = new(synced)
    BY <2>1 DEF GoodEntry
  <2> QED BY <1>3, <2>1, <2>2, ViewsWithHall
<1> HIDE DEF views
<1>5. Own' = [Own EXCEPT ![n] = new(synced)]
  BY <1>1, <1>4, OwnChange
<1> QED BY <1>1, <1>3, <1>5, ProgressStep

LEMMA ReceiveLife ==
  ASSUME Good, NEW n \in Node, NEW m \in Node, ReceiveWorldview(n, m) PROVE Life!Next
<1> DEFINE new(msg) == IF msg.err THEN markPeerDeadInHallOrders(hall(n), m) ELSE hall(n)
           heard(msg) == [known |-> TRUE, hall |-> msg.hall, err |-> msg.err, dead |-> FALSE]
           views(msg) == [worldviewsMap[n] EXCEPT ![m] = heard(msg), ![n].hall = new(msg)]
<1>1. PICK msg \in Arriving(n, m) :
         /\ up[n]
         /\ m # n
         /\ Update(n, views(msg))
         /\ UNCHANGED <<up, budget>>
  BY DEF ReceiveWorldview
<1>2. /\ new(msg) \in GoodHall
      /\ \A c \in Cell : Life!MayBecome(hall(n)[c], new(msg)[c])
  BY OwnHallGood, MarkHallGood, MarkDeadMay, StayMay DEF markPeerDeadInHallOrders, GoodHall
<1>3. views(msg) \in [Node -> GoodEntry] /\ views(msg)[n].hall = new(msg)
  <2>1. msg \in GoodMessage
    BY <1>1 DEF Arriving, Good
  <2>2. heard(msg) \in GoodEntry
    BY <2>1 DEF GoodEntry, GoodMessage
  <2>3. [worldviewsMap[n] EXCEPT ![m] = heard(msg)] \in [Node -> GoodEntry]
    BY <2>2 DEF Good
  <2>4. views(msg) = [[worldviewsMap[n] EXCEPT ![m] = heard(msg)] EXCEPT ![n].hall = new(msg)]
    OBVIOUS
  <2>5. views(msg)[n].hall = new(msg)
    BY <2>3, <2>4 DEF GoodEntry
  <2> QED BY <1>2, <2>3, <2>4, <2>5, ViewsWithHall
<1> HIDE DEF new, views
<1>4. Own' = [Own EXCEPT ![n] = new(msg)]
  BY <1>1, <1>3, ViewsOfUpdate
<1> QED BY <1>1, <1>2, <1>4, ProgressStep

LEMMA SelfNewLife == ASSUME Good, NEW n \in Node, SelfNew(n) PROVE Life!Next
<1>1. PICK h \in GoodHall : Own' = [Own EXCEPT ![n] = h]
  <2>1. CASE UNCHANGED worldviewsMap
    BY <2>1, OwnUnchanged, OwnKept, OwnHallGood
  <2>2. ASSUME NEW m \in Node,
               worldviewsMap' = [worldviewsMap EXCEPT ![n][n].hall = worldviewsMap[n][m].hall]
        PROVE  \E h \in GoodHall : Own' = [Own EXCEPT ![n] = h]
    <3>1. worldviewsMap[n][m].hall \in GoodHall
      BY DEF Good, GoodEntry
    <3>2. worldviewsMap' = [worldviewsMap EXCEPT ![n] =
             [worldviewsMap[n] EXCEPT ![n].hall = worldviewsMap[n][m].hall]]
      BY <2>2 DEF Good
    <3>3. Own' = [Own EXCEPT ![n] = worldviewsMap[n][m].hall]
      BY <3>1, <3>2, OwnSet
    <3> QED BY <3>1, <3>3
  <2> QED BY <2>1, <2>2 DEF SelfNew
<1>2. budget.selfNew > 0 /\ budget'.selfNew = budget.selfNew - 1
  BY DEF SelfNew, Spend, Good, Events
<1>3. Life!Reconnect(n)
  BY <1>1, <1>2, LegalIsGood DEF SelfNew, Life!Reconnect, Own
<1> QED BY <1>3 DEF Life!Next

LEMMA SelfLostLife == ASSUME Good, NEW n \in Node, SelfLost(n) PROVE Life!Next
<1>1. Own' = [Own EXCEPT ![n] = hall(n)]
  BY OwnChange DEF SelfLost, Update, Good, hall
<1>2. budget'.selfNew = budget.selfNew
  BY DEF SelfLost, Spend, Good, Events
<1>3. hall(n) \in GoodHall /\ \A c \in Cell : Life!MayBecome(hall(n)[c], hall(n)[c])
  BY OwnHallGood, StayMay DEF GoodHall
<1> QED BY <1>1, <1>2, <1>3, ProgressStep DEF SelfLost

LEMMA LostPeerLife ==
  ASSUME Good, NEW n \in Node, NEW m \in Node, LostPeer(n, m) PROVE Life!Next
<1> DEFINE new == markPeerDeadInHallOrders(hall(n), m)
<1>1. /\ new \in GoodHall
      /\ \A c \in Cell : Life!MayBecome(hall(n)[c], new[c])
  BY OwnHallGood, MarkHallGood, MarkDeadMay DEF markPeerDeadInHallOrders, GoodHall
<1>2. budget'.selfNew = budget.selfNew
  BY DEF LostPeer, Spend, Good, Events
<1>3. Own' = [Own EXCEPT ![n] = new]
  <2> DEFINE lost  == [worldviewsMap[n] EXCEPT ![m].known = TRUE, ![m].dead = TRUE]
             views == [lost EXCEPT ![n].hall = new]
  <2>1. worldviewsMap' = [worldviewsMap EXCEPT ![n] = views]
    BY DEF LostPeer, Update
  <2>2. lost \in [Node -> GoodEntry]
    BY LostPeerViews
  <2> HIDE DEF new, lost
  <2>3. views \in [Node -> GoodEntry]
    BY <1>1, <2>2, ViewsWithHall
  <2>4. views[n].hall = new
    BY <2>2 DEF GoodEntry
  <2> HIDE DEF views
  <2> QED BY <2>1, <2>3, <2>4, OwnChange
<1> HIDE DEF new
<1> QED BY <1>1, <1>2, <1>3, ProgressStep DEF LostPeer

LEMMA HallButtonLife ==
  ASSUME Good, NEW n \in Node, NEW c \in Cell, HallButton(n, c) PROVE Life!Next
<1> DEFINE new == [hall(n) EXCEPT ![c] = addNewHallOrder(@)]
<1>1. hall(n) \in GoodHall
  BY OwnHallGood
<1>2. /\ new \in GoodHall
      /\ \A d \in Cell : Life!MayBecome(hall(n)[d], new[d])
  BY <1>1, AddGood, AddMay, StayMay DEF GoodHall
<1>3. worldviewsMap' = [worldviewsMap EXCEPT ![n] = [worldviewsMap[n] EXCEPT ![n].hall = new]]
  BY DEF HallButton, Update, hall
<1>4. budget'.selfNew = budget.selfNew
  BY DEF HallButton, Spend, Good, Events
<1> HIDE DEF new
<1>5. Own' = [Own EXCEPT ![n] = new]
  BY <1>2, <1>3, OwnSet
<1> QED BY <1>2, <1>4, <1>5, ProgressStep DEF HallButton

LEMMA AssignmentLife == ASSUME Good, NEW n \in Node, Assignment(n) PROVE Life!Next
<1> DEFINE new(given, owner) ==
             [c \in Cell |-> IF c \in given THEN [hall(n)[c] EXCEPT !.OwnerID = owner[c]]
                                            ELSE hall(n)[c]]
<1>1. PICK given \in SUBSET {c \in Cell : NeedsOwner(hall(n)[c])} :
      \E owner \in [given -> {m \in Takers : worldviewsMap[n][m].known}] :
         worldviewsMap' = [worldviewsMap EXCEPT ![n] =
                             [worldviewsMap[n] EXCEPT ![n].hall = new(given, owner)]]
  BY DEF Assignment
<1>2. PICK owner \in [given -> {m \in Takers : worldviewsMap[n][m].known}] :
         worldviewsMap' = [worldviewsMap EXCEPT ![n] =
                             [worldviewsMap[n] EXCEPT ![n].hall = new(given, owner)]]
  BY <1>1
<1>3. ASSUME NEW c \in Cell
      PROVE  new(given, owner)[c] \in GoodOrder /\ Life!MayBecome(hall(n)[c], new(given, owner)[c])
  <2>1. hall(n)[c] \in GoodOrder
    BY OwnHallGood DEF GoodHall
  <2>2. CASE c \in given
    <3>1. owner[c] \in Node /\ NeedsOwner(hall(n)[c])
      BY <1>1, <2>2, TakersAreNodes
    <3>2. [hall(n)[c] EXCEPT !.OwnerID = owner[c]] \in GoodOrder
      BY <2>1, <3>1, OwnerMarkers
         DEF NeedsOwner, GoodOrder, Order, OwnerID, WellFormed, None, Confirmed, Unconfirmed
    <3> QED BY <2>1, <2>2, <3>1, <3>2, AssignMay
  <2>3. CASE c \notin given
    BY <2>1, <2>3, StayMay
  <2> QED BY <2>2, <2>3
<1>4. new(given, owner) \in GoodHall /\ \A c \in Cell : Life!MayBecome(hall(n)[c], new(given, owner)[c])
  BY <1>3 DEF GoodHall
<1> HIDE DEF new
<1>5. Own' = [Own EXCEPT ![n] = new(given, owner)]
  BY <1>2, <1>4, OwnSet
<1>6. up[n] /\ UNCHANGED <<up, budget>>
  BY DEF Assignment
<1> QED BY <1>4, <1>5, <1>6, ProgressStep

LEMMA CrashLife == ASSUME Good, NEW n \in Node, Crash(n) PROVE Life!Next
<1>1. Own' = [Own EXCEPT ![n] = [c \in Cell |-> Life!NoOrder]]
  BY DEF Crash, Own, hall, Good, OnlySelf, NoEntry, NoOrders, NoOrder, Life!NoOrder,
         None, Life!None
<1>2. budget'.selfNew = budget.selfNew
  BY DEF Crash, Spend, Good, Events
<1>3. Life!Crash(n)
  BY <1>1, <1>2 DEF Crash, Life!Crash, Own
<1> QED BY <1>3 DEF Life!Next

LEMMA RestartLife == ASSUME Good, NEW n \in Node, Restart(n) PROVE Life!Next
<1>1. PICK h \in GoodHall : Own' = [Own EXCEPT ![n] = h]
  <2>1. CASE UNCHANGED worldviewsMap
    BY <2>1, OwnUnchanged, OwnKept, OwnHallGood
  <2>2. ASSUME NEW m \in Node, NEW msg \in outbox[m],
               worldviewsMap' = [worldviewsMap EXCEPT ![n][n].hall = msg.hall]
        PROVE  \E h \in GoodHall : Own' = [Own EXCEPT ![n] = h]
    <3>1. msg.hall \in GoodHall
      BY DEF Good, GoodMessage
    <3>2. worldviewsMap' =
            [worldviewsMap EXCEPT ![n] = [worldviewsMap[n] EXCEPT ![n].hall = msg.hall]]
      BY <2>2 DEF Good
    <3>3. Own' = [Own EXCEPT ![n] = msg.hall]
      BY <3>1, <3>2, OwnSet
    <3> QED BY <3>1, <3>3
  <2> QED BY <2>1, <2>2 DEF Restart
<1>2. Life!Restart(n)
  BY <1>1, LegalIsGood DEF Restart, Life!Restart, Own
<1> QED BY <1>2 DEF Life!Next

LEMMA LifeInit == Init => Life!Init
  BY Bounds DEF Init, Life!Init, hall, OnlySelf, NoEntry, NoOrders, NoOrder, Life!NoOrder,
     None, Life!None

LEMMA LifeNext == Good /\ [Next]_vars => [Life!Next]_(Life!lifeVars)
<1> SUFFICES ASSUME Good, [Next]_vars PROVE [Life!Next]_(Life!lifeVars)
  OBVIOUS
<1>1. CASE UNCHANGED <<up, worldviewsMap, budget>>
  BY <1>1 DEF Life!lifeVars, hall
<1>2. CASE UNCHANGED vars
  BY <1>1, <1>2 DEF vars, nodeVars
<1>3. ASSUME NEW n \in Node, ElevatorReport(n) PROVE Life!Next
  BY <1>3, ElevatorReportLife
<1>4. ASSUME NEW n \in Node, SyncResult(n) PROVE Life!Next
  BY <1>4, SyncResultLife
<1>5. ASSUME NEW n \in Node, NEW m \in Node, ReceiveWorldview(n, m) PROVE Life!Next
  BY <1>5, ReceiveLife
<1>6. ASSUME NEW n \in Node, SelfNew(n) PROVE Life!Next
  BY <1>6, SelfNewLife
<1>7. ASSUME NEW n \in Node, SelfLost(n) PROVE Life!Next
  BY <1>7, SelfLostLife
<1>8. ASSUME NEW n \in Node, NEW m \in Node, LostPeer(n, m) PROVE Life!Next
  BY <1>8, LostPeerLife
<1>9. ASSUME NEW n \in Node, NEW c \in Cell, HallButton(n, c) PROVE Life!Next
  BY <1>9, HallButtonLife
<1>10. ASSUME NEW n \in Node, Assignment(n) PROVE Life!Next
  BY <1>10, AssignmentLife
<1>11. ASSUME NEW n \in Node, SyncTake(n) \/ SyncPut(n) \/ \E m \in Node : Transmit(n, m)
       PROVE  UNCHANGED <<up, worldviewsMap, budget>>
  BY <1>11 DEF SyncTake, SyncPut, Transmit, nodeVars
<1>12. ASSUME NEW n \in Node, Crash(n) PROVE Life!Next
  BY <1>12, CrashLife
<1>13. ASSUME NEW n \in Node, Restart(n) PROVE Life!Next
  BY <1>13, RestartLife
<1> QED BY <1>1, <1>2, <1>3, <1>4, <1>5, <1>6, <1>7, <1>8, <1>9, <1>10, <1>11, <1>12, <1>13
        DEF Next

\* OrderLifeSpec for every set of nodes and buttons and every bound: each node
\* keeps the promises of OrderLife about its own hall orders.
THEOREM Implements == Spec => OrderLifeSpec
  BY LifeInit, LifeNext, AlwaysGood, PTL DEF Spec, OrderLifeSpec, Life!Spec
=============================================================================

-------------------------- MODULE OrderHistory_proofs --------------------------
(***************************************************************************)
(* What a passenger sees of a hall order, for any set of nodes and buttons *)
(* and any delay, loss, repetition and reordering of the worldviews: a lit *)
(* lamp goes out only when the order was served, and until a node is lost  *)
(* or an order removed a lit order is known to everybody.                  *)
(*                                                                         *)
(* With two nodes, neither lost nor in error, and worldviews that do not   *)
(* overtake each other, more holds: an order is lit only while both know   *)
(* it, removed by agreement, and never comes back.                         *)
(***************************************************************************)
EXTENDS OrderHistory, OrderSync_proofs, WellFoundedInduction

\* Wherever it is kept or under way, in a map, a mailbox or a message, a copy of
\* m's own hall orders is in F[m], and a result of a sync goroutine is in R.
Copies(F, R) ==
    /\ \A n, m \in Node : worldviewsMap[n][m].hall \in F[m]
    /\ \A n \in Node : \A msg \in outbox[n] : msg.hall \in F[n]
    /\ \A n, m \in Node : \A msg \in wire[n][m] : msg.hall \in F[m]
    /\ \A n \in Node : \A snap \in toSync[n] : \A m \in Node : snap[m].hall \in F[m]
    /\ \A n \in Node : syncing[n] \subseteq R /\ fromSync[n] \subseteq R

\* Every copy of anybody's orders, and every result, is in H.
Within(H) == Copies([m \in Node |-> H], H)

\* No snapshot that waits for a sync goroutine leads out of R.
ResultsIn(R) == \A n \in Node : \A snap \in toSync[n] : syncHallOrders(snap, n) \subseteq R

-----------------------------------------------------------------------------
(* Copies come from a node's own orders or from its sync goroutine.        *)

LEMMA CopiesGrow ==
  ASSUME NEW F, NEW R, NEW G, NEW S, Copies(F, R), \A m \in Node : F[m] \subseteq G[m], R \subseteq S
  PROVE  Copies(G, S)
  BY DEF Copies

LEMMA UpdateCopies ==
  ASSUME NEW F, NEW R, Good, Good', Copies(F, R), NEW n \in Node, NEW views, Update(n, views),
         UNCHANGED <<syncing, fromSync>>, \A k, m \in Node : wire'[k][m] \subseteq wire[k][m],
         \A m \in Node : worldviewsMap'[n][m].hall \in F[m]
  PROVE  Copies(F, R)'
<1>1. /\ worldviewsMap' = [worldviewsMap EXCEPT ![n] = views]
      /\ outbox' = [outbox EXCEPT ![n] = {[hall |-> views[n].hall, err |-> views[n].err]}]
      /\ toSync' = [toSync EXCEPT ![n] =
                      {[m \in Node |-> [hall |-> views[m].hall, live |-> Live(views[m])]]}]
      /\ \A m \in Node : views[m].hall \in F[m]
  BY DEF Update, sendLatestToNetwork, sendLatestToSync, Good
<1>2. \A k, m \in Node : worldviewsMap'[k][m].hall \in F[m]
  BY <1>1 DEF Good, Copies
<1>3. \A k \in Node : \A msg \in outbox'[k] : msg.hall \in F[k]
  BY <1>1 DEF Good, Copies
<1>4. ASSUME NEW k \in Node, NEW snap \in toSync'[k], NEW m \in Node PROVE snap[m].hall \in F[m]
  <2>1. CASE k # n
    BY <1>1, <2>1 DEF Good, Copies
  <2>2. CASE k = n
    <3>1. toSync'[n] = {[j \in Node |-> [hall |-> views[j].hall, live |-> Live(views[j])]]}
      BY <1>1 DEF Good
    <3> QED BY <1>1, <2>2, <3>1
  <2> QED BY <2>1, <2>2
<1>5. \A k, m \in Node : \A msg \in wire'[k][m] : msg.hall \in F[m]
  BY DEF Copies
<1> QED BY <1>2, <1>3, <1>4, <1>5 DEF Copies

LEMMA ReportCopies ==
  ASSUME NEW F, NEW R, Good, Copies(F, R), NEW n \in Node, ElevatorReport(n), hall(n)' \in F[n]
  PROVE  Copies(F, R)'
<1> DEFINE mine == worldviewsMap[n][n]
           completed(reached) ==
             [c \in Cell |-> IF c \in reached
                             THEN CompleteServed(mine.hall[c], c \in requests[n], FALSE, n)
                             ELSE mine.hall[c]]
           new(reached, error) == IF error THEN markPeerDeadInHallOrders(completed(reached), n)
                                          ELSE completed(reached)
           views(reached, error) ==
             [worldviewsMap[n] EXCEPT ![n].hall = new(reached, error), ![n].err = error]
<1>1. PICK reached \in SUBSET Cell, error \in BOOLEAN :
         /\ Update(n, views(reached, error))
         /\ UNCHANGED <<wire, syncing, fromSync>>
  BY DEF ElevatorReport
<1>2. worldviewsMap'[n] = views(reached, error) /\ worldviewsMap[n] \in [Node -> GoodEntry]
  BY <1>1 DEF Update, Good
<1>3. \A m \in Node : worldviewsMap'[n][m].hall \in F[m]
  BY <1>2 DEF hall, Copies
<1> HIDE DEF views
<1> QED BY <1>1, <1>3, UpdateCopies, ElevatorReportGood

LEMMA ReceiveCopies ==
  ASSUME NEW F, NEW R, Good, Copies(F, R), NEW n \in Node, NEW m \in Node,
         ReceiveWorldview(n, m), hall(n)' \in F[n]
  PROVE  Copies(F, R)'
<1> DEFINE views(msg) ==
             [worldviewsMap[n] EXCEPT
                ![m] = [known |-> TRUE, hall |-> msg.hall, err |-> msg.err, dead |-> FALSE],
                ![n].hall = IF msg.err THEN markPeerDeadInHallOrders(hall(n), m) ELSE hall(n)]
<1>1. PICK msg \in Arriving(n, m) :
         /\ m # n
         /\ wire' = [wire EXCEPT ![n][m] = @ \ {msg}]
         /\ Update(n, views(msg))
         /\ UNCHANGED <<syncing, fromSync>>
  BY DEF ReceiveWorldview
<1>2. worldviewsMap'[n] = views(msg) /\ worldviewsMap[n] \in [Node -> GoodEntry]
  BY <1>1 DEF Update, Good
<1>3. msg.hall \in F[m]
  BY <1>1 DEF Arriving, Copies
<1>4. \A k \in Node : worldviewsMap'[n][k].hall \in F[k]
  <2> SUFFICES ASSUME NEW k \in Node, k # n PROVE worldviewsMap'[n][k].hall \in F[k]
    BY DEF hall
  <2>1. views(msg)[k].hall = IF k = m THEN msg.hall ELSE worldviewsMap[n][k].hall
    BY <1>1, <1>2
  <2> HIDE DEF views
  <2> QED BY <1>2, <1>3, <2>1 DEF Copies
<1>5. \A k, j \in Node : wire'[k][j] \subseteq wire[k][j]
  BY <1>1 DEF Good
<1> HIDE DEF views
<1> QED BY <1>1, <1>4, <1>5, UpdateCopies, ReceiveGood

LEMMA SelfLostCopies ==
  ASSUME NEW F, NEW R, Good, Copies(F, R), NEW n \in Node, SelfLost(n)
  PROVE  Copies(F, R)'
<1>1. \A m \in Node : worldviewsMap'[n][m].hall \in F[m]
  BY DEF SelfLost, Update, Good, Copies
<1> QED BY <1>1, UpdateCopies, SelfLostGood DEF SelfLost

LEMMA LostPeerCopies ==
  ASSUME NEW F, NEW R, Good, Copies(F, R), NEW n \in Node, NEW m \in Node,
         LostPeer(n, m), hall(n)' \in F[n]
  PROVE  Copies(F, R)'
<1> DEFINE views == [worldviewsMap[n] EXCEPT
                       ![m].known = TRUE,
                       ![m].dead  = TRUE,
                       ![n].hall  = markPeerDeadInHallOrders(hall(n), m)]
<1>1. Update(n, views) /\ UNCHANGED <<wire, syncing, fromSync>> /\ m # n
  BY DEF LostPeer
<1>2. worldviewsMap'[n] = views /\ worldviewsMap[n] \in [Node -> GoodEntry]
  BY <1>1 DEF Update, Good
<1>3. \A k \in Node : worldviewsMap'[n][k].hall \in F[k]
  <2> SUFFICES ASSUME NEW k \in Node, k # n PROVE worldviewsMap'[n][k].hall \in F[k]
    BY DEF hall
  <2>1. views[k].hall = worldviewsMap[n][k].hall
    BY <1>1, <1>2 DEF GoodEntry
  <2> QED BY <1>2, <2>1 DEF Copies
<1> HIDE DEF views
<1> QED BY <1>1, <1>3, UpdateCopies, LostPeerGood

LEMMA HallButtonCopies ==
  ASSUME NEW F, NEW R, Good, Copies(F, R), NEW n \in Node, NEW c \in Cell,
         HallButton(n, c), hall(n)' \in F[n]
  PROVE  Copies(F, R)'
<1> DEFINE views == [worldviewsMap[n] EXCEPT ![n].hall[c] = addNewHallOrder(@)]
<1>1. Update(n, views) /\ UNCHANGED <<wire, syncing, fromSync>>
  BY DEF HallButton
<1>2. worldviewsMap'[n] = views /\ worldviewsMap[n] \in [Node -> GoodEntry]
  BY <1>1 DEF Update, Good
<1>3. \A k \in Node : worldviewsMap'[n][k].hall \in F[k]
  BY <1>2 DEF hall, Copies
<1> HIDE DEF views
<1> QED BY <1>1, <1>3, UpdateCopies, HallButtonGood

\* A step that changes n's own orders in its map and otherwise at most sends them.
LEMMA OwnCopies ==
  ASSUME NEW F, NEW R, Good, Copies(F, R), NEW n \in Node, hall(n)' \in F[n],
         NEW h, worldviewsMap' = [worldviewsMap EXCEPT ![n] = [worldviewsMap[n] EXCEPT ![n].hall = h]],
         UNCHANGED <<toSync, syncing, wire>>, \A k \in Node : fromSync'[k] \subseteq fromSync[k],
         \/ UNCHANGED outbox
         \/ outbox' = [outbox EXCEPT ![n] = {[hall |-> h, err |-> worldviewsMap[n][n].err]}]
  PROVE  Copies(F, R)'
<1>1. worldviewsMap[n] \in [Node -> GoodEntry] /\ worldviewsMap \in [Node -> [Node -> GoodEntry]]
  BY DEF Good
<1>2. h \in F[n]
  BY <1>1 DEF hall, GoodEntry
<1>3. \A k, m \in Node : worldviewsMap'[k][m].hall \in F[m]
  BY <1>1, <1>2 DEF Copies
<1>4. \A k \in Node : \A msg \in outbox'[k] : msg.hall \in F[k]
  <2>1. /\ outbox \in [Node -> SUBSET GoodMessage]
        /\ \A k \in Node : \A msg \in outbox[k] : msg.hall \in F[k]
    BY DEF Copies, Good
  <2>2. CASE UNCHANGED outbox
    BY <2>1, <2>2
  <2>3. CASE outbox' = [outbox EXCEPT ![n] = {[hall |-> h, err |-> worldviewsMap[n][n].err]}]
    BY <1>2, <2>1, <2>3
  <2> QED BY <2>2, <2>3
<1> QED BY <1>3, <1>4 DEF Copies

LEMMA SentWith ==
  ASSUME NEW n \in Node, NEW h, worldviewsMap[n] \in [Node -> GoodEntry],
         sendLatestToNetwork(n, [worldviewsMap[n] EXCEPT ![n].hall = h])
  PROVE  outbox' = [outbox EXCEPT ![n] = {[hall |-> h, err |-> worldviewsMap[n][n].err]}]
<1> DEFINE views == [worldviewsMap[n] EXCEPT ![n].hall = h]
<1>1. views[n].hall = h /\ views[n].err = worldviewsMap[n][n].err
  BY DEF GoodEntry
<1>2. outbox' = [outbox EXCEPT ![n] = {[hall |-> views[n].hall, err |-> views[n].err]}]
  BY DEF sendLatestToNetwork
<1> HIDE DEF views
<1> QED BY <1>1, <1>2

LEMMA SyncResultCopies ==
  ASSUME NEW F, NEW R, Good, Copies(F, R), NEW n \in Node, SyncResult(n), hall(n)' \in F[n]
  PROVE  Copies(F, R)'
<1> DEFINE new(synced) == [c \in Cell |-> MergeSyncOrder(hall(n)[c], synced[c])]
<1>1. PICK synced \in fromSync[n] :
         /\ fromSync' = [fromSync EXCEPT ![n] = {}]
         /\ worldviewsMap' = [worldviewsMap EXCEPT ![n] =
                                [worldviewsMap[n] EXCEPT ![n].hall = new(synced)]]
         /\ sendLatestToNetwork(n, [worldviewsMap[n] EXCEPT ![n].hall = new(synced)])
         /\ UNCHANGED <<toSync, syncing, wire>>
  BY DEF SyncResult
<1> HIDE DEF new
<1>2. outbox' = [outbox EXCEPT ![n] = {[hall |-> new(synced), err |-> worldviewsMap[n][n].err]}]
  BY <1>1, SentWith DEF Good
<1>3. \A k \in Node : fromSync'[k] \subseteq fromSync[k]
  BY <1>1 DEF Good
<1> QED BY <1>1, <1>2, <1>3, OwnCopies

LEMMA AssignmentCopies ==
  ASSUME NEW F, NEW R, Good, Copies(F, R), NEW n \in Node, Assignment(n), hall(n)' \in F[n]
  PROVE  Copies(F, R)'
<1>1. PICK h : /\ worldviewsMap' = [worldviewsMap EXCEPT ![n] = [worldviewsMap[n] EXCEPT ![n].hall = h]]
               /\ sendLatestToNetwork(n, [worldviewsMap[n] EXCEPT ![n].hall = h])
               /\ UNCHANGED <<syncVars, wire>>
  BY DEF Assignment
<1>2. outbox' = [outbox EXCEPT ![n] = {[hall |-> h, err |-> worldviewsMap[n][n].err]}]
  BY <1>1, SentWith DEF Good
<1> QED BY <1>1, <1>2, OwnCopies DEF syncVars

LEMMA TakeOverCopies ==
  ASSUME NEW F, NEW R, Good, Copies(F, R), NEW n \in Node, SelfNew(n) \/ Restart(n), hall(n)' \in F[n]
  PROVE  Copies(F, R)'
<1>1. UNCHANGED <<toSync, syncing, fromSync, wire, outbox>>
  BY DEF SelfNew, Restart, syncVars
<1>2. CASE UNCHANGED worldviewsMap
  BY <1>1, <1>2 DEF Copies
<1>3. ASSUME NEW h, worldviewsMap' = [worldviewsMap EXCEPT ![n][n].hall = h] PROVE Copies(F, R)'
  <2>1. worldviewsMap' = [worldviewsMap EXCEPT ![n] = [worldviewsMap[n] EXCEPT ![n].hall = h]]
    BY <1>3 DEF Good
  <2> QED BY <1>1, <2>1, OwnCopies
<1> QED BY <1>2, <1>3 DEF SelfNew, Restart

LEMMA SyncTakeCopies ==
  ASSUME NEW F, NEW R, Good, Copies(F, R), ResultsIn(R), NEW n \in Node, SyncTake(n)
  PROVE  Copies(F, R)'
<1>1. PICK snap \in toSync[n] : \E synced \in syncHallOrders(snap, n) :
         \/ syncing' = [syncing EXCEPT ![n] = {synced}] /\ UNCHANGED fromSync
         \/ fromSync' = [fromSync EXCEPT ![n] = {synced}] /\ UNCHANGED syncing
  BY DEF SyncTake
<1>2. PICK synced \in syncHallOrders(snap, n) :
         \/ syncing' = [syncing EXCEPT ![n] = {synced}] /\ UNCHANGED fromSync
         \/ fromSync' = [fromSync EXCEPT ![n] = {synced}] /\ UNCHANGED syncing
  BY <1>1
<1>3. synced \in R
  BY <1>1, <1>2 DEF ResultsIn
<1>4. \A k \in Node : syncing'[k] \subseteq R /\ fromSync'[k] \subseteq R
  <2>1. /\ syncing \in [Node -> SUBSET GoodHall] /\ fromSync \in [Node -> SUBSET GoodHall]
        /\ \A k \in Node : syncing[k] \subseteq R /\ fromSync[k] \subseteq R
    BY DEF Copies, Good
  <2> QED BY <1>2, <1>3, <2>1
<1>5. toSync' = [toSync EXCEPT ![n] = {}] /\ UNCHANGED <<worldviewsMap, outbox, wire>>
  BY DEF SyncTake, nodeVars
<1> QED BY <1>4, <1>5 DEF Copies, Good

LEMMA SyncPutCopies ==
  ASSUME NEW F, NEW R, Good, Copies(F, R), NEW n \in Node, SyncPut(n)
  PROVE  Copies(F, R)'
  BY DEF SyncPut, nodeVars, Copies, Good

LEMMA TransmitCopies ==
  ASSUME NEW F, NEW R, Good, Copies(F, R), NEW n \in Node, NEW m \in Node, Transmit(n, m)
  PROVE  Copies(F, R)'
<1>1. PICK msg \in outbox[n] : wire' = [wire EXCEPT ![m][n] = @ \cup {msg}]
  BY DEF Transmit
<1>2. \A k, j \in Node : \A w \in wire'[k][j] : w.hall \in F[j]
  BY <1>1 DEF Good, Copies
<1> QED BY <1>2 DEF Transmit, nodeVars, syncVars, Copies

LEMMA CrashCopies ==
  ASSUME NEW F, NEW R, \A m \in Node : NoOrders \in F[m], Good, Copies(F, R), NEW n \in Node, Crash(n)
  PROVE  Copies(F, R)'
<1>1. \A k, m \in Node : worldviewsMap'[k][m].hall \in F[m]
  BY DEF Crash, Good, Copies, OnlySelf, NoEntry
<1> QED BY <1>1 DEF Crash, Good, Copies

\* Whatever the step, copies stay in F and R if the acting node's own orders do.
LEMMA NextCopies ==
  ASSUME NEW F, NEW R, \A m \in Node : NoOrders \in F[m], ResultsIn(R), Good, Copies(F, R), Next,
         \A n \in Node : hall(n)' \in F[n]
  PROVE  Copies(F, R)'
  BY ReportCopies, ReceiveCopies, SelfLostCopies, LostPeerCopies, HallButtonCopies, SyncResultCopies,
     AssignmentCopies, TakeOverCopies, SyncTakeCopies, SyncPutCopies, TransmitCopies, CrashCopies
     DEF Next

\* The sync goroutine does not lead out of H.
ClosedUnderSync(H) ==
    \A snap \in GoodSnapshot, n \in Node :
        (\A m \in Node : snap[m].hall \in H) => syncHallOrders(snap, n) \subseteq H

LEMMA NextWithin ==
  ASSUME NEW H, NoOrders \in H, ClosedUnderSync(H), Good, Within(H), Next,
         \A n \in Node : hall(n)' \in H
  PROVE  Within(H)'
<1> DEFINE F == [m \in Node |-> H]
<1>1. \A m \in Node : F[m] = H
  OBVIOUS
<1>2. Copies(F, H)
  BY DEF Within
<1> HIDE DEF F
<1>3. ResultsIn(H)
  BY <1>1, <1>2 DEF Copies, ResultsIn, ClosedUnderSync, Good
<1>4. Copies(F, H)'
  BY <1>1, <1>2, <1>3, NextCopies
<1> QED BY <1>4 DEF Within, F

-----------------------------------------------------------------------------
(* Induction over Nat, for a set of numbers: Steg 1 visits the peers one   *)
(* after the other.                                                        *)

LEMMA LeastElement ==
  ASSUME NEW T \in SUBSET Nat, T # {}
  PROVE  \E x \in T : \A y \in T : x <= y
<1> DEFINE R == OpToRel(<, Nat)
<1>1. IsWellFoundedOn(R, Nat)
  BY NatLessThanWellFounded
<1>2. PICK x \in T : \A y \in T : ~(<<y, x>> \in R)
  <2> HIDE DEF R
  <2> QED BY <1>1, WFMin
<1>3. \A y \in T : <<y, x>> \in R <=> y < x
  BY DEF OpToRel
<1> HIDE DEF R
<1>4. ASSUME NEW y \in T PROVE x <= y
  <2>1. x \in Nat /\ y \in Nat /\ ~(y < x)
    BY <1>2, <1>3
  <2> QED BY <2>1
<1> QED BY <1>4

LEMMA SetInduction ==
  ASSUME NEW S, 0 \in S, \A i \in S \cap Nat : i + 1 \in S
  PROVE  Nat \subseteq S
<1> SUFFICES ASSUME Nat \ S # {} PROVE FALSE
  OBVIOUS
<1>1. PICK x \in Nat \ S : \A y \in Nat \ S : x <= y
  BY LeastElement
<1>2. x - 1 \in Nat
  BY <1>1
<1>3. (x - 1) + 1 \in S
  BY <1>1, <1>2
<1> QED BY <1>1, <1>2, <1>3

\* Following peers leads to no state but one's own and theirs.
LEMMA FollowStaysAmong ==
  ASSUME NEW T, NEW count \in Nat, NEW peerStates, \A i \in 1..count : peerStates[i] \in T,
         NEW s \in T, NEW chain \in FollowChains(s, peerStates, count)
  PROVE  chain[count] \in T
<1> DEFINE S == {i \in Nat : i <= count => chain[i] \in T}
<1>1. 0 \in S
  BY DEF FollowChains
<1>2. ASSUME NEW i \in S, i + 1 <= count PROVE chain[i + 1] \in T
  <2>1. i + 1 \in 1..count /\ (i + 1) - 1 = i
    BY <1>2
  <2>2. chain[i + 1] = FollowState(chain[i], peerStates[i + 1])
    BY <2>1 DEF FollowChains
  <2>3. chain[i] \in T
    BY <1>2
  <2> QED BY <2>1, <2>2, <2>3 DEF FollowState
<1>3. Nat \subseteq S
  <2>1. \A i \in S \cap Nat : i + 1 \in S
    BY <1>2
  <2> HIDE DEF S
  <2> QED BY <1>1, <2>1, SetInduction
<1> QED BY <1>3

-----------------------------------------------------------------------------
(* No order appears from nothing: if no copy of the order for a button is  *)
(* outside some states, the sync goroutine leads none there.               *)

OrdersIn(c, T) == {h \in GoodHall : h[c].SyncState \in T}

\* Steg 2 leads from Unconfirmed to Confirmed, if nobody alive has None, and from
\* DeleteProposed to None.
ClosedUnderAgreement(T) == /\ Unconfirmed \in T => Confirmed \in T
                           /\ DeleteProposed \in T => None \in T

LEMMA SyncCellStays ==
  ASSUME NEW T, NEW n \in Node, NEW c \in Cell, NEW snap \in GoodSnapshot,
         \A m \in Node : snap[m].hall[c].SyncState \in T, NEW live \in SUBSET Node,
         \/ ClosedUnderAgreement(T)
         \/ DeleteProposed \notin T /\ \E m \in live : snap[m].hall[c].SyncState = None,
         NEW visit \in VisitOrders(live \ {n}), NEW r \in SyncCell(snap, n, c, live, visit)
  PROVE  r.SyncState \in T
<1> DEFINE mine   == snap[n].hall[c]
           orders == {snap[m].hall[c] : m \in live}
           states == {snap[m].hall[c].SyncState : m \in live}
           seen   == [i \in DOMAIN visit |-> snap[visit[i]].hall[c].SyncState]
           count  == Cardinality(live \ {n})
           start  == PropagatePeerDied(mine, orders)
<1>1. count \in Nat
  BY NodeFinite, FS_Subset, FS_CardinalityType
<1>2. start.SyncState \in T /\ start \in GoodOrder
  BY MarkersInOrder DEF PropagatePeerDied, GoodSnapshot, GoodHall
<1>3. \A i \in 1..count : seen[i] \in T
  BY DEF VisitOrders
<1>4. PICK o \in FollowPeers(start, seen, count) : r = Normalise(Consensus(o, mine.SyncState, states))
  BY DEF SyncCell
<1> HIDE DEF start, seen, count
<1>5. o.SyncState \in T
  <2>1. CASE start.OwnerID = PeerDied
    BY <1>2, <1>4, <2>1 DEF FollowPeers
  <2>2. CASE start.OwnerID # PeerDied
    <3>1. PICK chain \in FollowChains(start.SyncState, seen, count) :
             o = [start EXCEPT !.SyncState = chain[count]]
      BY <1>4, <2>2 DEF FollowPeers
    <3>2. chain[count] \in T
      BY <1>1, <1>2, <1>3, FollowStaysAmong
    <3> QED BY <1>2, <3>1, <3>2 DEF GoodOrder, Order
  <2> QED BY <2>1, <2>2
<1>6. Consensus(o, mine.SyncState, states).SyncState \in T
  BY <1>5 DEF Consensus, ClosedUnderAgreement, NoOrder, None, Unconfirmed, Confirmed, DeleteProposed
<1> QED BY <1>4, <1>6 DEF Normalise, NoOrder

LEMMA OrdersInClosed ==
  ASSUME NEW T, ClosedUnderAgreement(T), NEW c \in Cell
  PROVE  ClosedUnderSync(OrdersIn(c, T))
<1> SUFFICES ASSUME NEW snap \in GoodSnapshot, NEW n \in Node,
                    \A m \in Node : snap[m].hall \in OrdersIn(c, T),
                    NEW h \in syncHallOrders(snap, n)
             PROVE  h \in OrdersIn(c, T)
  BY DEF ClosedUnderSync
<1> DEFINE live == {m \in Node : snap[m].live}
           results(visit) == [d \in Cell |-> SyncCell(snap, n, d, live, visit)]
<1>1. PICK visit \in VisitOrders(live \ {n}) :
         h \in {g \in [Cell -> UNION {results(visit)[d] : d \in Cell}] :
                  \A d \in Cell : g[d] \in results(visit)[d]}
  BY DEF syncHallOrders
<1>2. h[c] \in SyncCell(snap, n, c, live, visit)
  BY <1>1
<1>3. h[c].SyncState \in T
  <2> HIDE DEF live
  <2>1. live \in SUBSET Node
    BY DEF live
  <2> QED BY <1>2, <2>1, SyncCellStays DEF OrdersIn
<1> QED BY <1>3, SyncGood DEF OrdersIn

-----------------------------------------------------------------------------
(* Where a node's own order goes in one step.                              *)

\* A report of n's elevator deletes the order, and nothing else happens.
Serves(n, c) == /\ up'[n]
                /\ SyncState(n, c) = Confirmed
                /\ SyncState(n, c)' = DeleteProposed
                /\ UNCHANGED fromSync
                /\ budget'.press = budget.press

\* A press at n starts the order there.
Pressed(n, c) == /\ budget'.press < budget.press
                 /\ SyncState(n, c) = None
                 /\ SyncState(n, c)' = Unconfirmed

Degraded(n, c) == SyncState(n, c) = Confirmed /\ SyncState(n, c)' = Unconfirmed

\* n's order becomes a copy of one that is in a mailbox, a map or a message.
Copied(n, c) == \/ \E synced \in fromSync[n] : SyncState(n, c)' = synced[c].SyncState
                \/ \E m \in Node : SyncState(n, c)' = worldviewsMap[n][m].hall[c].SyncState
                \/ \E m \in Node : \E msg \in outbox[m] : SyncState(n, c)' = msg.hall[c].SyncState
                \/ SyncState(n, c)' = None

Moves(n, c) == UNCHANGED SyncState(n, c) \/ Degraded(n, c) \/ Copied(n, c)

LEMMA OwnReplaced ==
  ASSUME Good, NEW n \in Node, NEW h,
         worldviewsMap' = [worldviewsMap EXCEPT ![n] = [worldviewsMap[n] EXCEPT ![n].hall = h]]
  PROVE  /\ worldviewsMap'[n][n].hall = h
         /\ \A j \in Node \ {n} : worldviewsMap'[j][j].hall = worldviewsMap[j][j].hall
<1> DEFINE views == [worldviewsMap[n] EXCEPT ![n].hall = h]
<1>1. worldviewsMap \in [Node -> [Node -> GoodEntry]] /\ worldviewsMap[n] \in [Node -> GoodEntry]
  BY DEF Good
<1>2. views[n].hall = h
  BY <1>1 DEF GoodEntry
<1>3. worldviewsMap' = [worldviewsMap EXCEPT ![n] = views]
  OBVIOUS
<1> HIDE DEF views
<1> QED BY <1>1, <1>2, <1>3

LEMMA MarkMoves ==
  ASSUME NEW h \in GoodHall, NEW m, NEW c \in Cell
  PROVE  \/ markPeerDeadInHallOrders(h, m)[c] = h[c]
         \/ h[c].SyncState = Confirmed /\ markPeerDeadInHallOrders(h, m)[c].SyncState = Unconfirmed
  BY DEF markPeerDeadInHallOrders, markPeerDead, LostOrder

LEMMA ReportMoves ==
  ASSUME Good, NEW n \in Node, ElevatorReport(n), NEW k \in Node, NEW c \in Cell
  PROVE  Moves(k, c) \/ Serves(k, c)
<1> DEFINE mine == worldviewsMap[n][n]
           completed(reached) ==
             [d \in Cell |-> IF d \in reached
                             THEN CompleteServed(mine.hall[d], d \in requests[n], FALSE, n)
                             ELSE mine.hall[d]]
           new(reached, error) == IF error THEN markPeerDeadInHallOrders(completed(reached), n)
                                          ELSE completed(reached)
           views(reached, error) ==
             [worldviewsMap[n] EXCEPT ![n].hall = new(reached, error), ![n].err = error]
<1>1. PICK reached \in SUBSET Cell, error \in BOOLEAN :
         /\ up[n]
         /\ IF error /\ ~mine.err THEN Spend("error") ELSE UNCHANGED budget
         /\ worldviewsMap' = [worldviewsMap EXCEPT ![n] = views(reached, error)]
         /\ UNCHANGED <<up, fromSync>>
  BY DEF ElevatorReport, Update
<1>2. mine.hall[c] \in GoodOrder /\ mine.hall \in GoodHall
  BY OwnHallGood DEF hall, GoodHall
<1>3. completed(reached) \in GoodHall
  BY <1>2, CompleteGood DEF GoodHall
<1>4. \/ completed(reached)[c] = mine.hall[c]
      \/ /\ mine.hall[c].SyncState = Confirmed
         /\ completed(reached)[c].SyncState = DeleteProposed
  BY <1>2 DEF CompleteServed, GoodOrder, Order
<1>5. \/ new(reached, error)[c] = completed(reached)[c]
      \/ /\ completed(reached)[c].SyncState = Confirmed
         /\ new(reached, error)[c].SyncState = Unconfirmed
  BY <1>3, MarkMoves
<1>6. views(reached, error)[n].hall = new(reached, error)
  <2>1. worldviewsMap[n] \in [Node -> GoodEntry]
    BY DEF Good
  <2> HIDE DEF completed, new
  <2> QED BY <2>1 DEF GoodEntry
<1> HIDE DEF completed, new, views
<1>7. /\ worldviewsMap'[n][n].hall = new(reached, error)
      /\ \A j \in Node \ {n} : worldviewsMap'[j][j].hall = worldviewsMap[j][j].hall
  BY <1>1, <1>6 DEF Good
<1>8. budget'.press = budget.press
  BY <1>1 DEF Spend, Good, Events
<1>9. SyncState(n, c) = mine.hall[c].SyncState
  BY DEF SyncState, hall
<1> HIDE DEF mine
<1> QED BY <1>1, <1>4, <1>5, <1>7, <1>8, <1>9
        DEF Moves, Serves, Degraded, SyncState, hall, Confirmed, Unconfirmed, DeleteProposed

LEMMA ResultMoves ==
  ASSUME Good, NEW n \in Node, SyncResult(n), NEW k \in Node, NEW c \in Cell
  PROVE  Moves(k, c)
<1> DEFINE new(synced) == [d \in Cell |-> MergeSyncOrder(hall(n)[d], synced[d])]
<1>1. PICK synced \in fromSync[n] :
         worldviewsMap' = [worldviewsMap EXCEPT ![n] =
                             [worldviewsMap[n] EXCEPT ![n].hall = new(synced)]]
  BY DEF SyncResult
<1>2. new(synced)[c] \in {hall(n)[c], synced[c]}
  BY DEF MergeSyncOrder
<1> HIDE DEF new
<1>3. /\ worldviewsMap'[n][n].hall = new(synced)
      /\ \A j \in Node \ {n} : worldviewsMap'[j][j].hall = worldviewsMap[j][j].hall
  BY <1>1, OwnReplaced
<1> QED BY <1>2, <1>3 DEF Moves, Copied, SyncState, hall

LEMMA ReceiveMoves ==
  ASSUME Good, NEW n \in Node, NEW m \in Node, ReceiveWorldview(n, m), NEW k \in Node, NEW c \in Cell
  PROVE  Moves(k, c)
<1> DEFINE heard(msg) == [known |-> TRUE, hall |-> msg.hall, err |-> msg.err, dead |-> FALSE]
           new(msg) == IF msg.err THEN markPeerDeadInHallOrders(hall(n), m) ELSE hall(n)
           views(msg) == [worldviewsMap[n] EXCEPT ![m] = heard(msg), ![n].hall = new(msg)]
<1>1. PICK msg \in Arriving(n, m) :
         m # n /\ worldviewsMap' = [worldviewsMap EXCEPT ![n] = views(msg)]
  BY DEF ReceiveWorldview, Update
<1>2. \/ new(msg)[c] = hall(n)[c]
      \/ hall(n)[c].SyncState = Confirmed /\ new(msg)[c].SyncState = Unconfirmed
  BY OwnHallGood, MarkMoves
<1>3. views(msg)[n].hall = new(msg)
  BY <1>1 DEF Good, GoodEntry
<1> HIDE DEF new, views
<1>4. /\ worldviewsMap'[n][n].hall = new(msg)
      /\ \A j \in Node \ {n} : worldviewsMap'[j][j].hall = worldviewsMap[j][j].hall
  BY <1>1, <1>3 DEF Good
<1> QED BY <1>2, <1>4 DEF Moves, Degraded, SyncState, hall

LEMMA LostPeerMoves ==
  ASSUME Good, NEW n \in Node, NEW m \in Node, LostPeer(n, m), NEW k \in Node, NEW c \in Cell
  PROVE  Moves(k, c)
<1> DEFINE new   == markPeerDeadInHallOrders(hall(n), m)
           views == [worldviewsMap[n] EXCEPT ![m].known = TRUE, ![m].dead = TRUE, ![n].hall = new]
<1>1. m # n /\ worldviewsMap' = [worldviewsMap EXCEPT ![n] = views]
  BY DEF LostPeer, Update
<1>2. \/ new[c] = hall(n)[c]
      \/ hall(n)[c].SyncState = Confirmed /\ new[c].SyncState = Unconfirmed
  BY OwnHallGood, MarkMoves
<1>3. views[n].hall = new
  BY <1>1 DEF Good, GoodEntry
<1> HIDE DEF new, views
<1>4. /\ worldviewsMap'[n][n].hall = new
      /\ \A j \in Node \ {n} : worldviewsMap'[j][j].hall = worldviewsMap[j][j].hall
  BY <1>1, <1>3 DEF Good
<1> QED BY <1>2, <1>4 DEF Moves, Degraded, SyncState, hall

LEMMA TakeOverMoves ==
  ASSUME Good, NEW n \in Node, SelfNew(n) \/ Restart(n), NEW k \in Node, NEW c \in Cell
  PROVE  Moves(k, c)
<1>1. CASE UNCHANGED worldviewsMap
  BY <1>1 DEF Moves, SyncState, hall
<1>2. ASSUME NEW h, worldviewsMap' = [worldviewsMap EXCEPT ![n][n].hall = h],
             \/ \E m \in Node : h = worldviewsMap[n][m].hall
             \/ \E m \in Node : \E msg \in outbox[m] : h = msg.hall
      PROVE  Moves(k, c)
  <2>1. worldviewsMap' = [worldviewsMap EXCEPT ![n] = [worldviewsMap[n] EXCEPT ![n].hall = h]]
    BY <1>2 DEF Good
  <2>2. /\ worldviewsMap'[n][n].hall = h
      /\ \A j \in Node \ {n} : worldviewsMap'[j][j].hall = worldviewsMap[j][j].hall
    BY <2>1, OwnReplaced
  <2> QED BY <1>2, <2>2 DEF Moves, Copied, SyncState, hall
<1> QED BY <1>1, <1>2 DEF SelfNew, Restart

LEMMA ButtonMoves ==
  ASSUME Good, NEW n \in Node, NEW b \in Cell, HallButton(n, b), NEW k \in Node, NEW c \in Cell
  PROVE  Moves(k, c) \/ Pressed(k, c)
<1> DEFINE new == [hall(n) EXCEPT ![b] = addNewHallOrder(@)]
<1>1. worldviewsMap' = [worldviewsMap EXCEPT ![n] = [worldviewsMap[n] EXCEPT ![n].hall = new]]
  BY DEF HallButton, Update, hall
<1>2. budget'.press < budget.press
  BY DEF HallButton, Spend, Good, Events
<1>3. \/ new[c] = hall(n)[c]
      \/ hall(n)[c].SyncState = None /\ new[c].SyncState = Unconfirmed
  BY OwnHallGood DEF addNewHallOrder, GoodHall
<1> HIDE DEF new
<1>4. /\ worldviewsMap'[n][n].hall = new
      /\ \A j \in Node \ {n} : worldviewsMap'[j][j].hall = worldviewsMap[j][j].hall
  BY <1>1, OwnReplaced
<1> QED BY <1>2, <1>3, <1>4 DEF Moves, Pressed, SyncState, hall

LEMMA AssignmentMoves ==
  ASSUME Good, NEW n \in Node, Assignment(n), NEW k \in Node, NEW c \in Cell
  PROVE  Moves(k, c)
<1> DEFINE new(given, owner) ==
             [d \in Cell |-> IF d \in given THEN [hall(n)[d] EXCEPT !.OwnerID = owner[d]]
                                            ELSE hall(n)[d]]
<1>1. PICK given \in SUBSET {d \in Cell : NeedsOwner(hall(n)[d])} :
      \E owner \in [given -> {m \in Takers : worldviewsMap[n][m].known}] :
         worldviewsMap' = [worldviewsMap EXCEPT ![n] =
                             [worldviewsMap[n] EXCEPT ![n].hall = new(given, owner)]]
  BY DEF Assignment
<1>2. PICK owner \in [given -> {m \in Takers : worldviewsMap[n][m].known}] :
         worldviewsMap' = [worldviewsMap EXCEPT ![n] =
                             [worldviewsMap[n] EXCEPT ![n].hall = new(given, owner)]]
  BY <1>1
<1>3. new(given, owner)[c].SyncState = hall(n)[c].SyncState
  BY OwnHallGood DEF GoodHall, GoodOrder, Order
<1> HIDE DEF new
<1>4. /\ worldviewsMap'[n][n].hall = new(given, owner)
      /\ \A j \in Node \ {n} : worldviewsMap'[j][j].hall = worldviewsMap[j][j].hall
  BY <1>2, OwnReplaced
<1> QED BY <1>3, <1>4 DEF Moves, SyncState, hall

LEMMA CrashMoves ==
  ASSUME Good, NEW n \in Node, Crash(n), NEW k \in Node, NEW c \in Cell
  PROVE  Moves(k, c)
<1>1. worldviewsMap' = [worldviewsMap EXCEPT ![n] = OnlySelf(n)]
  BY DEF Crash
<1>2. OnlySelf(n)[n].hall[c].SyncState = None
  BY DEF OnlySelf, NoEntry, NoOrders, NoOrder
<1> QED BY <1>1, <1>2 DEF Good, Moves, Copied, SyncState, hall

LEMMA NextMoves ==
  ASSUME Good, Next, NEW k \in Node, NEW c \in Cell
  PROVE  Moves(k, c) \/ Serves(k, c) \/ Pressed(k, c)
<1>1. ASSUME UNCHANGED worldviewsMap PROVE Moves(k, c)
  BY <1>1 DEF Moves, SyncState, hall
<1>2. ASSUME NEW n \in Node,
             SelfLost(n) \/ SyncTake(n) \/ SyncPut(n) \/ \E m \in Node : Transmit(n, m)
      PROVE  UNCHANGED worldviewsMap
  BY <1>2 DEF SelfLost, Update, SyncTake, SyncPut, Transmit, nodeVars, Good
<1> QED BY <1>1, <1>2, ReportMoves, ResultMoves, ReceiveMoves, LostPeerMoves, TakeOverMoves,
           ButtonMoves, AssignmentMoves, CrashMoves DEF Next

-----------------------------------------------------------------------------
(* LitUntilServed.                                                         *)

Undeleted(c) == OrdersIn(c, {None, Unconfirmed, Confirmed})
Unpressed(c) == OrdersIn(c, {None})

LEMMA NoOrdersIn == ASSUME NEW c \in Cell PROVE NoOrders \in Undeleted(c) \cap Unpressed(c)
  BY NoOrdersGood DEF Undeleted, Unpressed, OrdersIn, NoOrders, NoOrder

LEMMA SetsClosed ==
  ASSUME NEW c \in Cell
  PROVE  ClosedUnderSync(Undeleted(c)) /\ ClosedUnderSync(Unpressed(c))
<1>1. ClosedUnderAgreement({None, Unconfirmed, Confirmed}) /\ ClosedUnderAgreement({None})
  BY DEF ClosedUnderAgreement, None, Unconfirmed, Confirmed, DeleteProposed
<1> QED BY <1>1, OrdersInClosed DEF Undeleted, Unpressed

\* A node's order leaves the states that copies of it are in by being served,
\* pressed, or degraded, and in no other way.
LEMMA OwnStays ==
  ASSUME Good, Good', Next, NEW c \in Cell, NEW T, None \in T, Confirmed \in T => Unconfirmed \in T,
         Within(OrdersIn(c, T)), NEW n \in Node, ~Serves(n, c), PressStarts(c) => Unconfirmed \in T
  PROVE  hall(n)' \in OrdersIn(c, T)
<1>1. hall(n)' \in GoodHall
  BY DEF Good, hall, GoodEntry
<1>2. SyncState(n, c) \in T
  BY DEF Within, Copies, OrdersIn, SyncState, hall
<1>3. SyncState(n, c)' \in T
  <2>1. CASE UNCHANGED SyncState(n, c)
    BY <1>2, <2>1
  <2>2. CASE Degraded(n, c)
    BY <1>2, <2>2 DEF Degraded
  <2>3. CASE Copied(n, c)
    BY <2>3 DEF Copied, Within, Copies, OrdersIn
  <2>4. CASE Pressed(n, c)
    BY <2>4 DEF Pressed, PressStarts
  <2> QED BY <2>1, <2>2, <2>3, <2>4, NextMoves DEF Moves
<1> QED BY <1>1, <1>3 DEF OrdersIn, SyncState

LEMMA JoinedGood == Joined => Good
<1> SUFFICES ASSUME Joined PROVE Good
  OBVIOUS
<1>1. [NoEntry EXCEPT !.known = TRUE] \in GoodEntry
  BY NoOrdersGood DEF NoEntry, GoodEntry
<1>2. [hall |-> NoOrders, err |-> FALSE] \in GoodMessage
  BY NoOrdersGood DEF GoodMessage
<1>3. budget \in [Events -> Nat]
  BY Bounds DEF Joined, Events
<1> QED BY <1>1, <1>2, <1>3 DEF Joined, Good

LEMMA JoinedCopies ==
  ASSUME Joined, NEW F, NEW R, \A m \in Node : NoOrders \in F[m]
  PROVE  Copies(F, R)
<1>1. \A n, m \in Node : worldviewsMap[n][m].hall = NoOrders
  <2>1. [NoEntry EXCEPT !.known = TRUE].hall = NoOrders
    BY DEF NoEntry
  <2> QED BY <2>1 DEF Joined
<1>2. \A n \in Node : \A msg \in outbox[n] : msg.hall = NoOrders
  BY DEF Joined
<1>3. \A n, m \in Node : wire[n][m] = {} /\ toSync[n] = {} /\ syncing[n] = {} /\ fromSync[n] = {}
  BY DEF Joined
<1> QED BY <1>1, <1>2, <1>3 DEF Copies

LEMMA JoinedWithin == ASSUME Joined, NEW H, NoOrders \in H PROVE Within(H)
  BY JoinedCopies DEF Within

LEMMA HistoryStep == [Next /\ Record]_hvars => [Next]_vars
  BY DEF hvars

LEMMA HistoryGood == JoinedSpec => []Good
  BY JoinedGood, HistoryStep, NextGood, PTL DEF JoinedSpec

\* A program that does not run holds no orders; the bound on reconnections.
LifeKept == /\ \A n \in Node : ~up[n] => hall(n) = NoOrders
            /\ budget.selfNew <= MaxSelfNew

LEMMA LifeKeptStep == Good /\ Good' /\ LifeKept /\ [Next]_vars => LifeKept'
<1> SUFFICES ASSUME Good, Good', LifeKept, [Next]_vars PROVE LifeKept'
  OBVIOUS
<1>1. /\ up \in [Node -> BOOLEAN] /\ budget.selfNew \in Nat /\ budget'.selfNew \in Nat
      /\ MaxSelfNew \in Nat
  BY Bounds DEF Good, Events
<1>2. NoOrders = [c \in Cell |-> Life!NoOrder]
  BY DEF NoOrders, NoOrder, Life!NoOrder, None, Life!None
<1>3. Own = [n \in Node |-> hall(n)] /\ Own' = [n \in Node |-> hall(n)]'
  BY DEF Own
<1>4. CASE UNCHANGED Life!lifeVars
  <2>1. UNCHANGED <<up, Own, budget.selfNew>>
    BY <1>4 DEF Life!lifeVars, Own
  <2> QED BY <1>1, <1>3, <2>1 DEF LifeKept
<1>5. CASE Life!Next
  <2>1. PICK n \in Node : Life!Progress(n) \/ Life!Reconnect(n) \/ Life!Crash(n) \/ Life!Restart(n)
    BY <1>5 DEF Life!Next
  <2>2. \A k \in Node \ {n} : hall(k)' = hall(k) /\ up'[k] = up[k]
    BY <1>1, <2>1 DEF Life!Progress, Life!Reconnect, Life!Crash, Life!Restart
  <2>3. ~up'[n] => hall(n)' = NoOrders
    BY <1>1, <1>2, <2>1 DEF Life!Progress, Life!Reconnect, Life!Crash, Life!Restart
  <2>4. budget'.selfNew <= budget.selfNew
    BY <1>1, <2>1 DEF Life!Progress, Life!Reconnect, Life!Crash, Life!Restart
  <2> QED BY <1>1, <2>2, <2>3, <2>4 DEF LifeKept
<1> QED BY <1>4, <1>5, LifeNext

LEMMA AlwaysLifeKept == JoinedSpec => []LifeKept
<1>1. Joined => LifeKept
  BY Bounds DEF Joined, LifeKept, hall, NoEntry
<1> QED BY <1>1, HistoryGood, HistoryStep, LifeKeptStep, PTL DEF JoinedSpec

\* The invariant: an order of which a copy is DeleteProposed was served.
DeletedAreServed == \A c \in Cell : c \notin served => Within(Undeleted(c))

\* What the button must do: it starts an order only when nobody is deleting the
\* order before it any more.
PressesAreFresh == \A c \in Cell : PressStarts(c) => Within(Undeleted(c))

LEMMA DeletedAreServedStep ==
  ASSUME Good, Good', DeletedAreServed, [Next /\ Record]_hvars, [PressesAreFresh]_hvars
  PROVE  DeletedAreServed'
<1>1. CASE UNCHANGED hvars
  BY <1>1 DEF hvars, vars, nodeVars, syncVars, DeletedAreServed, Within, Copies
<1>2. ASSUME Next, Record, PressesAreFresh, NEW c \in Cell, c \notin served' PROVE Within(Undeleted(c))'
  <2>1. PressStarts(c) \/ (c \notin served /\ \A n \in Node : ~ReportServes(n, c))
    BY <1>2 DEF Record
  <2>2. Within(Undeleted(c))
    BY <1>2, <2>1 DEF DeletedAreServed, PressesAreFresh
  <2>3. \A n \in Node : ~Serves(n, c)
    <3>1. budget.press \in Nat /\ budget'.press \in Nat
      BY DEF Good, Events
    <3> QED BY <2>1, <3>1 DEF ReportServes, PressStarts, Serves
  <2>4. \A n \in Node : hall(n)' \in Undeleted(c)
    BY <1>2, <2>2, <2>3, OwnStays DEF Undeleted
  <2> QED BY <1>2, <2>2, <2>4, NextWithin, NoOrdersIn, SetsClosed
<1> QED BY <1>1, <1>2 DEF DeletedAreServed

\* A lit lamp goes out in no way but DeleteProposed, unless the node crashes or
\* reconnects.
LEMMA LampStep ==
  ASSUME Good, Good', LifeKept, DeletedAreServed', [Next]_vars, NEW n \in Node, NEW c \in Cell, up'[n],
         budget'.selfNew = MaxSelfNew, SyncState(n, c) = Confirmed,
         SyncState(n, c)' \in {None, DeleteProposed}
  PROVE  c \in served'
<1>1. SyncState(n, c)' # None
  <2> SUFFICES ASSUME SyncState(n, c)' = None PROVE FALSE
    OBVIOUS
  <2>1. /\ up \in [Node -> BOOLEAN] /\ budget.selfNew \in Nat /\ MaxSelfNew \in Nat
        /\ Own \in [Node -> GoodHall]
    BY Bounds, OwnHallGood DEF Good, Events, Own
  <2>2. Own[n][c].SyncState = Confirmed /\ Own'[n][c].SyncState = None
    BY DEF Own, SyncState, hall
  <2>3. Life!Next
    BY <2>2, LifeNext DEF Life!lifeVars, Own, None, Confirmed
  <2>4. PICK k \in Node : Life!Progress(k) \/ Life!Reconnect(k) \/ Life!Crash(k) \/ Life!Restart(k)
    BY <2>3 DEF Life!Next
  <2>5. k = n
    <3>1. PICK new : Own' = [Own EXCEPT ![k] = new]
      BY <2>4 DEF Life!Progress, Life!Reconnect, Life!Crash, Life!Restart, Own
    <3> QED BY <2>1, <2>2, <3>1 DEF None, Confirmed
  <2>6. CASE Life!Progress(n)
    <3>1. Life!MayBecome(Own[n][c], Own'[n][c])
      BY <2>1, <2>6 DEF Life!Progress, Own
    <3> QED BY <2>2, <3>1 DEF Life!MayBecome, Life!Confirmed, Life!DeleteProposed, Life!LostOrder,
               Life!Unconfirmed, Confirmed, None
  <2>7. CASE Life!Reconnect(n)
    BY <2>1, <2>7 DEF Life!Reconnect, LifeKept
  <2>8. CASE Life!Crash(n)
    BY <2>1, <2>8 DEF Life!Crash
  <2>9. CASE Life!Restart(n)
    BY <2>2, <2>9 DEF Life!Restart, LifeKept, Own, NoOrders, NoOrder, None, Confirmed
  <2> QED BY <2>4, <2>5, <2>6, <2>7, <2>8, <2>9
<1>2. ASSUME c \notin served' PROVE SyncState(n, c)' # DeleteProposed
  BY <1>2 DEF DeletedAreServed, Within, Copies, Undeleted, OrdersIn, SyncState, hall,
     None, Unconfirmed, Confirmed, DeleteProposed
<1> QED BY <1>1, <1>2

\* For any nodes, buttons, presses and faults: if a button starts an order only
\* when no copy of its previous order is being deleted any more, a lit lamp goes
\* out because of a deletion only when the order was served since it was pressed.
THEOREM FreshPressesStayLit == JoinedSpec /\ [][PressesAreFresh]_hvars => LitUntilServed
<1>1. Joined => DeletedAreServed
  BY JoinedWithin, NoOrdersIn DEF DeletedAreServed
<1>2. JoinedSpec /\ [][PressesAreFresh]_hvars => []DeletedAreServed
  BY <1>1, HistoryGood, DeletedAreServedStep, PTL DEF JoinedSpec
<1> DEFINE Lit == \A n \in Node, c \in Cell :
                    /\ up'[n]
                    /\ budget'.selfNew = MaxSelfNew
                    /\ SyncState(n, c) = Confirmed
                    /\ SyncState(n, c)' \in {None, DeleteProposed}
                    => c \in served'
<1>3. Good /\ Good' /\ LifeKept /\ DeletedAreServed' /\ [Next /\ Record]_hvars => [Lit]_hvars
  BY LampStep, HistoryStep
<1> QED BY <1>2, <1>3, HistoryGood, AlwaysLifeKept, PTL DEF JoinedSpec, LitUntilServed

-----------------------------------------------------------------------------
(* Presses of a button before its order was served are fresh.              *)

\* Until the first press of a button there are no orders of it anywhere.
UnpressedAreNone == \A c \in Cell : c \notin pressed => Within(Unpressed(c))

LEMMA BudgetFalls ==
  ASSUME Good, Next, NEW d \in Events
  PROVE  budget'[d] <= budget[d]
<1>1. ASSUME NEW e \in Events, Spend(e) PROVE budget'[d] <= budget[d]
  BY <1>1 DEF Good, Spend
<1>2. ASSUME UNCHANGED budget PROVE budget'[d] <= budget[d]
  BY <1>2 DEF Good
<1>3. UNCHANGED budget \/ \E e \in Events : Spend(e)
  <2>1. ASSUME NEW n \in Node, ElevatorReport(n) PROVE UNCHANGED budget \/ Spend("error")
    BY <2>1 DEF ElevatorReport
  <2>2. ASSUME NEW n \in Node, \/ SyncResult(n) \/ Assignment(n) \/ SyncTake(n) \/ SyncPut(n)
                               \/ Restart(n)
                               \/ \E m \in Node : ReceiveWorldview(n, m) \/ Transmit(n, m)
        PROVE  UNCHANGED budget
    BY <2>2 DEF SyncResult, Assignment, SyncTake, SyncPut, Restart, ReceiveWorldview, Transmit
  <2>3. ASSUME NEW n \in Node PROVE /\ SelfNew(n) => Spend("selfNew")
                                    /\ SelfLost(n) => Spend("selfLost")
                                    /\ \A m \in Node : LostPeer(n, m) => Spend("lost")
                                    /\ \A c \in Cell : HallButton(n, c) => Spend("press")
                                    /\ Crash(n) => Spend("crash")
    BY DEF SelfNew, SelfLost, LostPeer, HallButton, Crash
  <2> QED BY <2>1, <2>2, <2>3 DEF Next, Events
<1> QED BY <1>1, <1>2, <1>3

LEMMA UnpressedStep ==
  ASSUME Good, Good', UnpressedAreNone, [Next /\ Record]_hvars
  PROVE  UnpressedAreNone'
<1>1. CASE UNCHANGED hvars
  BY <1>1 DEF hvars, vars, nodeVars, syncVars, UnpressedAreNone, Within, Copies
<1>2. ASSUME Next, Record, NEW c \in Cell, c \notin pressed' PROVE Within(Unpressed(c))'
  <2>1. c \notin pressed /\ ~PressStarts(c)
    BY <1>2 DEF Record
  <2>2. Within(Unpressed(c))
    BY <2>1 DEF UnpressedAreNone
  <2>3. ASSUME NEW n \in Node PROVE hall(n)' \in Unpressed(c)
    <3>1. ~Serves(n, c)
      BY <2>2 DEF Serves, Within, Copies, Unpressed, OrdersIn, SyncState, hall, None, Confirmed
    <3>2. Confirmed \notin {None} /\ None \in {None}
      BY DEF None, Confirmed
    <3> QED BY <1>2, <2>1, <2>2, <3>1, <3>2, OwnStays DEF Unpressed
  <2> QED BY <1>2, <2>2, <2>3, NextWithin, NoOrdersIn, SetsClosed
<1> QED BY <1>1, <1>2 DEF UnpressedAreNone

LEMMA AlwaysUnpressedAreNone == JoinedSpec => []UnpressedAreNone
<1>1. Joined => UnpressedAreNone
  BY JoinedWithin, NoOrdersIn DEF UnpressedAreNone
<1> QED BY <1>1, HistoryGood, UnpressedStep, PTL DEF JoinedSpec

\* The first press of a button finds no order of it in any copy: at no node, in no
\* map, mailbox or message, whatever was pressed elsewhere and whatever failed.
THEOREM FirstPressIsFresh ==
  JoinedSpec => [][\A c \in Cell : PressStarts(c) /\ c \notin pressed => Within(Unpressed(c))]_hvars
<1> DEFINE FindsNone == \A c \in Cell : PressStarts(c) /\ c \notin pressed => Within(Unpressed(c))
<1>1. UnpressedAreNone => FindsNone
  BY DEF UnpressedAreNone
<1> QED BY <1>1, AlwaysUnpressedAreNone, PTL

\* A button starts an order for the first time, or again before any elevator has
\* reported the order served: at another node that has not heard of it yet, or at
\* one that has crashed since.
PressesPrecedeService == \A c \in Cell : PressStarts(c) => c \notin pressed \/ c \notin served

\* LitUntilServed for any number of nodes, buttons and presses and any faults, until
\* a button is pressed whose order was served before.
THEOREM FirstOrdersStayLit == JoinedSpec /\ [][PressesPrecedeService]_hvars => LitUntilServed
<1>1. ASSUME UnpressedAreNone, DeletedAreServed, PressesPrecedeService PROVE PressesAreFresh
  <2> SUFFICES ASSUME NEW c \in Cell, PressStarts(c) PROVE Within(Undeleted(c))
    BY DEF PressesAreFresh
  <2>1. CASE c \notin served
    BY <1>1, <2>1 DEF DeletedAreServed
  <2>2. CASE c \notin pressed
    <3>1. Within(Unpressed(c))
      BY <1>1, <2>2 DEF UnpressedAreNone
    <3>2. Unpressed(c) \subseteq Undeleted(c)
      BY DEF Unpressed, Undeleted, OrdersIn
    <3> QED BY <3>1, <3>2 DEF Within, Copies
  <2> QED BY <1>1, <2>1, <2>2 DEF PressesPrecedeService
<1>2. Joined => DeletedAreServed
  BY JoinedWithin, NoOrdersIn DEF DeletedAreServed
<1>3. Good /\ Good' /\ UnpressedAreNone /\ DeletedAreServed /\ [Next /\ Record]_hvars
      /\ [PressesPrecedeService]_hvars => DeletedAreServed' /\ [PressesAreFresh]_hvars
  BY <1>1, DeletedAreServedStep
<1>4. JoinedSpec /\ [][PressesPrecedeService]_hvars => [][PressesAreFresh]_hvars
  BY <1>2, <1>3, HistoryGood, AlwaysUnpressedAreNone, PTL DEF JoinedSpec
<1> QED BY <1>4, FreshPressesStayLit, PTL

-----------------------------------------------------------------------------
(* LitIsBackedUp, until an order is removed or something is lost.          *)

\* No node was lost, crashed or came back.
NobodyLost == /\ budget.lost = MaxLost
              /\ budget.selfNew = MaxSelfNew
              /\ budget.crash = MaxCrash

\* ... and nobody has removed an order.  (A worldview that is older than a removal
\* may tell of the order again.)
NothingLost == NobodyLost /\ \A n \in Node, c \in Cell : completions[n][c] = 0

\* ... or no elevator went into error, so that no order was degraded.
Calm == NobodyLost /\ budget.error = MaxError

AllUpAndLive == /\ \A n \in Node : up[n]
                /\ \A n, m \in Node : Live(worldviewsMap[n][m])
                /\ \A n \in Node : \A snap \in toSync[n] : \A m \in Node : snap[m].live

\* Until every node has heard of an order, nobody has it Confirmed ...
Confirmable(c) == IF \E m \in Node : SyncState(m, c) = None
                  THEN OrdersIn(c, {None, Unconfirmed})
                  ELSE GoodHall

\* ... and no copy of m's order tells that m has heard of it before it has.
HeardFrom(c) == [m \in Node |-> IF SyncState(m, c) = None THEN Unpressed(c) ELSE Confirmable(c)]

Backed(c) == Copies(HeardFrom(c), Confirmable(c))

BudgetBounded == /\ budget.lost <= MaxLost
                 /\ budget.selfNew <= MaxSelfNew
                 /\ budget.crash <= MaxCrash
                 /\ budget.error <= MaxError
                 /\ completions \in [Node -> [Cell -> Nat]]

LEMMA BudgetBoundedStep ==
  ASSUME Good, Good', BudgetBounded, [Next /\ Record]_hvars
  PROVE  BudgetBounded' /\ (NothingLost' => NothingLost) /\ (Calm' => Calm)
<1>1. CASE UNCHANGED hvars
  BY <1>1 DEF hvars, vars, BudgetBounded, NothingLost, NobodyLost, Calm
<1>2. CASE Next /\ Record
  <2>1. \A e \in {"lost", "selfNew", "crash", "error"} :
           budget[e] \in Nat /\ budget'[e] \in Nat /\ budget'[e] <= budget[e]
    BY <1>2, BudgetFalls DEF Good, Events
  <2>2. MaxLost \in Nat /\ MaxSelfNew \in Nat /\ MaxCrash \in Nat /\ MaxError \in Nat
    BY Bounds
  <2>3. /\ completions' \in [Node -> [Cell -> Nat]]
        /\ \A n \in Node, c \in Cell : completions[n][c] <= completions'[n][c]
    BY <1>2 DEF Record, BudgetBounded
  <2>4. NothingLost' => \A n \in Node, c \in Cell : completions[n][c] = 0
    BY <2>3 DEF NothingLost, BudgetBounded
  <2> QED BY <2>1, <2>2, <2>3, <2>4 DEF BudgetBounded, NothingLost, NobodyLost, Calm
<1> QED BY <1>1, <1>2

\* While nobody is lost, every node stays up and believes in every other one.
LEMMA QuietStep ==
  ASSUME Good, Good', Next, NobodyLost, NobodyLost', NEW n \in Node
  PROVE  ~SelfNew(n) /\ ~Crash(n) /\ \A m \in Node : ~LostPeer(n, m)
<1>1. \A e \in {"lost", "selfNew", "crash"} : budget[e] \in Nat /\ budget'[e] = budget[e]
  BY DEF NobodyLost, Good, Events
<1>2. \A e \in {"lost", "selfNew", "crash"} : ~Spend(e)
  BY <1>1 DEF Spend, Good, Events
<1> QED BY <1>2 DEF SelfNew, Crash, LostPeer

LEMMA LiveWithHall ==
  ASSUME NEW views \in [Node -> GoodEntry], \A m \in Node : Live(views[m]), NEW n \in Node, NEW h
  PROVE  \A m \in Node : Live([views EXCEPT ![n].hall = h][m])
  BY DEF GoodEntry, Live

\* Steps that end in Update.
LEMMA LiveUpdate ==
  ASSUME Good, AllUpAndLive, NEW n \in Node, NEW views, Update(n, views),
         \A m \in Node : Live(views[m]), UNCHANGED up
  PROVE  AllUpAndLive'
<1>1. /\ worldviewsMap' = [worldviewsMap EXCEPT ![n] = views]
      /\ toSync' = [toSync EXCEPT ![n] =
                      {[m \in Node |-> [hall |-> views[m].hall, live |-> Live(views[m])]]}]
      /\ worldviewsMap \in [Node -> [Node -> GoodEntry]]
      /\ toSync \in [Node -> SUBSET GoodSnapshot]
  BY DEF Update, sendLatestToSync, Good
<1>2. \A k, m \in Node : Live(worldviewsMap'[k][m])
  BY <1>1 DEF AllUpAndLive
<1>3. ASSUME NEW k \in Node, NEW snap \in toSync'[k], NEW m \in Node PROVE snap[m].live
  <2>1. CASE k # n
    BY <1>1, <2>1 DEF AllUpAndLive
  <2>2. CASE k = n
    <3>1. snap = [j \in Node |-> [hall |-> views[j].hall, live |-> Live(views[j])]]
      BY <1>1, <2>2
    <3> QED BY <3>1
  <2> QED BY <2>1, <2>2
<1> QED BY <1>2, <1>3 DEF AllUpAndLive, Live

LEMMA LiveReport ==
  ASSUME Good, AllUpAndLive, NEW n \in Node, ElevatorReport(n)
  PROVE  AllUpAndLive'
<1> DEFINE mine == worldviewsMap[n][n]
           completed(reached) ==
             [d \in Cell |-> IF d \in reached
                             THEN CompleteServed(mine.hall[d], d \in requests[n], FALSE, n)
                             ELSE mine.hall[d]]
           new(reached, error) == IF error THEN markPeerDeadInHallOrders(completed(reached), n)
                                          ELSE completed(reached)
           views(reached, error) ==
             [worldviewsMap[n] EXCEPT ![n].hall = new(reached, error), ![n].err = error]
<1>1. PICK reached \in SUBSET Cell, error \in BOOLEAN : Update(n, views(reached, error)) /\ UNCHANGED up
  BY DEF ElevatorReport
<1>2. worldviewsMap[n] \in [Node -> GoodEntry] /\ \A m \in Node : Live(worldviewsMap[n][m])
  BY DEF Good, AllUpAndLive
<1> HIDE DEF new
<1>3. \A m \in Node : Live(views(reached, error)[m])
  BY <1>2 DEF GoodEntry, Live
<1> HIDE DEF views
<1> QED BY <1>1, <1>3, LiveUpdate

LEMMA LiveReceive ==
  ASSUME Good, AllUpAndLive, NEW n \in Node, NEW k \in Node, ReceiveWorldview(n, k)
  PROVE  AllUpAndLive'
<1> DEFINE heard(msg) == [known |-> TRUE, hall |-> msg.hall, err |-> msg.err, dead |-> FALSE]
           views(msg, h) == [worldviewsMap[n] EXCEPT ![k] = heard(msg), ![n].hall = h]
<1>1. PICK msg, h : /\ Update(n, views(msg, h))
                    /\ k # n
                    /\ UNCHANGED up
  BY DEF ReceiveWorldview
<1>2. worldviewsMap[n] \in [Node -> GoodEntry] /\ \A m \in Node : Live(worldviewsMap[n][m])
  BY DEF Good, AllUpAndLive
<1>3. \A m \in Node : Live(views(msg, h)[m])
  BY <1>1, <1>2 DEF GoodEntry, Live
<1> HIDE DEF views
<1> QED BY <1>1, <1>3, LiveUpdate

LEMMA LiveStep ==
  ASSUME Good, Good', AllUpAndLive, Next, NobodyLost, NobodyLost'
  PROVE  AllUpAndLive'
<1>1. ASSUME NEW n \in Node, SelfLost(n) PROVE AllUpAndLive'
  BY <1>1, LiveUpdate DEF SelfLost, AllUpAndLive
<1>2. ASSUME NEW n \in Node, NEW c \in Cell, HallButton(n, c) PROVE AllUpAndLive'
  <2> DEFINE views == [worldviewsMap[n] EXCEPT ![n].hall = [hall(n) EXCEPT ![c] = addNewHallOrder(@)]]
  <2>1. worldviewsMap[n] \in [Node -> GoodEntry] /\ \A m \in Node : Live(worldviewsMap[n][m])
    BY DEF Good, AllUpAndLive
  <2>2. \A m \in Node : Live(views[m])
    BY <2>1, LiveWithHall
  <2>3. Update(n, views) /\ UNCHANGED up
    BY <1>2 DEF HallButton, hall
  <2> HIDE DEF views
  <2> QED BY <2>2, <2>3, LiveUpdate
<1>3. ASSUME NEW n \in Node, SyncResult(n) \/ Assignment(n) PROVE AllUpAndLive'
  <2>1. PICK h : worldviewsMap' = [worldviewsMap EXCEPT ![n] = [worldviewsMap[n] EXCEPT ![n].hall = h]]
    BY <1>3 DEF SyncResult, Assignment
  <2>2. worldviewsMap \in [Node -> [Node -> GoodEntry]] /\ worldviewsMap[n] \in [Node -> GoodEntry]
    BY DEF Good
  <2>3. \A m \in Node : Live([worldviewsMap[n] EXCEPT ![n].hall = h][m])
    BY <2>2, LiveWithHall DEF AllUpAndLive
  <2>4. \A k, m \in Node : Live(worldviewsMap'[k][m])
    BY <2>1, <2>2, <2>3 DEF AllUpAndLive
  <2>5. UNCHANGED <<up, toSync>>
    BY <1>3 DEF SyncResult, Assignment, syncVars
  <2> QED BY <2>4, <2>5 DEF AllUpAndLive, Live
<1>4. ASSUME NEW n \in Node, SyncTake(n) \/ SyncPut(n) \/ \E m \in Node : Transmit(n, m)
      PROVE  AllUpAndLive'
  <2>1. UNCHANGED <<up, worldviewsMap>> /\ \A k \in Node : toSync'[k] \subseteq toSync[k]
    BY <1>4 DEF SyncTake, SyncPut, Transmit, nodeVars, syncVars, Good
  <2> QED BY <2>1 DEF AllUpAndLive, Live
<1>5. ASSUME NEW n \in Node, Restart(n) PROVE AllUpAndLive'
  BY <1>5 DEF Restart, AllUpAndLive
<1> QED BY <1>1, <1>2, <1>3, <1>4, <1>5, LiveReport, LiveReceive, QuietStep DEF Next

\* An order that a node has heard of it does not forget.
LEMMA NotForgotten ==
  ASSUME Good, Good', AllUpAndLive, AllUpAndLive', Next, Record, NothingLost, NothingLost',
         BudgetBounded, NEW n \in Node, NEW c \in Cell, SyncState(n, c)' = None
  PROVE  SyncState(n, c) = None
<1> SUFFICES ASSUME SyncState(n, c) # None PROVE FALSE
  OBVIOUS
<1>1. /\ up \in [Node -> BOOLEAN] /\ \A k \in Node : up[k] /\ up'[k]
      /\ budget.selfNew \in Nat /\ budget'.selfNew = budget.selfNew
  BY DEF Good, Events, AllUpAndLive, NothingLost, NobodyLost
<1>2. Own[n][c] \in GoodOrder /\ Own[n][c].SyncState # None /\ Own'[n][c].SyncState = None
  BY OwnHallGood DEF Own, SyncState, hall, GoodHall
<1>3. Life!Next
  BY <1>2, LifeNext DEF Life!lifeVars, Own
<1>4. PICK k \in Node : Life!Progress(k) \/ Life!Reconnect(k) \/ Life!Crash(k) \/ Life!Restart(k)
  BY <1>3 DEF Life!Next
<1>5. Life!Progress(k)
  BY <1>1, <1>4 DEF Life!Reconnect, Life!Crash, Life!Restart
<1>6. PICK new : Own' = [Own EXCEPT ![k] = new] /\ \A d \in Cell : Life!MayBecome(Own[k][d], new[d])
  BY <1>5 DEF Life!Progress, Own
<1>7. Life!MayBecome(Own[n][c], Own'[n][c])
  BY <1>2, <1>6 DEF Own
<1>8. Own[n][c].SyncState = DeleteProposed
  BY <1>2, <1>7 DEF Life!MayBecome, Life!None, Life!Unconfirmed, Life!Confirmed, Life!DeleteProposed,
     Life!LostOrder, GoodOrder, Order, OrderSyncState, None, Unconfirmed, Confirmed, DeleteProposed
<1>9. Completes(n, c)
  BY <1>1, <1>2, <1>8 DEF Completes, Own, SyncState, hall
<1>10. completions'[n][c] = 1
  <2>1. completions[n][c] = 0 /\ 0 < CompletionCap
    BY Bounds DEF NothingLost, CompletionCap
  <2> QED BY <1>9, <2>1 DEF Record
<1> QED BY <1>10 DEF NothingLost

\* Nobody confirms an order while some node has not heard of it.
LEMMA UnheardResults ==
  ASSUME Good, AllUpAndLive, NEW c \in Cell, Backed(c), NEW m \in Node, SyncState(m, c) = None
  PROVE  ResultsIn(OrdersIn(c, {None, Unconfirmed}))
<1> SUFFICES ASSUME NEW n \in Node, NEW snap \in toSync[n], NEW h \in syncHallOrders(snap, n)
             PROVE  h \in OrdersIn(c, {None, Unconfirmed})
  BY DEF ResultsIn
<1> DEFINE live == {k \in Node : snap[k].live}
           results(visit) == [d \in Cell |-> SyncCell(snap, n, d, live, visit)]
<1>1. snap \in GoodSnapshot
  BY DEF Good
<1>2. \A k \in Node : snap[k].hall[c].SyncState \in {None, Unconfirmed}
  <2>1. Confirmable(c) = OrdersIn(c, {None, Unconfirmed})
    BY DEF Confirmable
  <2>2. \A k \in Node : HeardFrom(c)[k] \subseteq OrdersIn(c, {None, Unconfirmed})
    BY <2>1 DEF HeardFrom, Unpressed, OrdersIn
  <2>3. \A k \in Node : snap[k].hall \in HeardFrom(c)[k]
    BY DEF Backed, Copies
  <2>4. \A k \in Node : snap[k].hall \in OrdersIn(c, {None, Unconfirmed})
    BY <2>2, <2>3
  <2> QED BY <2>4 DEF OrdersIn
<1>3. m \in live /\ snap[m].hall[c].SyncState = None
  <2>1. snap[m].live
    BY DEF AllUpAndLive
  <2>2. snap[m].hall \in HeardFrom(c)[m]
    BY DEF Backed, Copies
  <2>3. HeardFrom(c)[m] = Unpressed(c)
    BY DEF HeardFrom
  <2> QED BY <2>1, <2>2, <2>3 DEF Unpressed, OrdersIn
<1>4. PICK visit \in VisitOrders(live \ {n}) :
         h \in {g \in [Cell -> UNION {results(visit)[d] : d \in Cell}] :
                  \A d \in Cell : g[d] \in results(visit)[d]}
  BY DEF syncHallOrders
<1>5. h[c] \in SyncCell(snap, n, c, live, visit)
  BY <1>4
<1>6. live \in SUBSET Node /\ DeleteProposed \notin {None, Unconfirmed}
  BY DEF None, Unconfirmed, DeleteProposed
<1> HIDE DEF live
<1>7. h[c].SyncState \in {None, Unconfirmed}
  BY <1>1, <1>2, <1>3, <1>4, <1>5, <1>6, SyncCellStays
<1> QED BY <1>1, <1>7, SyncGood DEF OrdersIn

LEMMA BackedStep ==
  ASSUME Good, Good', AllUpAndLive, AllUpAndLive', Next, Record, NothingLost, NothingLost',
         BudgetBounded, NEW c \in Cell, Backed(c)
  PROVE  Backed(c)'
<1>1. PICK F, R : F = HeardFrom(c)' /\ R = Confirmable(c)'
  OBVIOUS
<1>2. \A n \in Node : SyncState(n, c)' = None => SyncState(n, c) = None
  BY NotForgotten
<1>3. Confirmable(c) \subseteq R /\ \A m \in Node : HeardFrom(c)[m] \subseteq F[m]
  <2>1. Confirmable(c) \subseteq R
    BY <1>1, <1>2 DEF Confirmable, OrdersIn
  <2>2. Unpressed(c) \subseteq Confirmable(c)
    BY DEF Unpressed, Confirmable, OrdersIn
  <2>3. \A m \in Node : F[m] = IF SyncState(m, c)' = None THEN Unpressed(c) ELSE R
    BY <1>1 DEF HeardFrom
  <2>4. \A m \in Node : HeardFrom(c)[m] =
                           IF SyncState(m, c) = None THEN Unpressed(c) ELSE Confirmable(c)
    BY DEF HeardFrom
  <2> QED BY <1>2, <2>1, <2>2, <2>3, <2>4
<1>4. Copies(F, R)
  BY <1>3, CopiesGrow DEF Backed
<1>5. \A m \in Node : NoOrders \in F[m]
  BY <1>1, NoOrdersIn, NoOrdersGood DEF HeardFrom, Confirmable, Unpressed, OrdersIn
<1>6. ResultsIn(R)
  <2>1. CASE \E m \in Node : SyncState(m, c)' = None
    BY <1>1, <1>2, <2>1, UnheardResults DEF Confirmable
  <2>2. CASE ~ \E m \in Node : SyncState(m, c)' = None
    BY <1>1, <2>2, SyncGood DEF Confirmable, ResultsIn, Good
  <2> QED BY <2>1, <2>2
<1>7. ASSUME NEW n \in Node PROVE hall(n)' \in F[n]
  <2>1. hall(n)' \in GoodHall
    BY DEF Good, hall, GoodEntry
  <2>2. CASE SyncState(n, c)' = None
    BY <1>1, <2>1, <2>2 DEF HeardFrom, Unpressed, OrdersIn, SyncState
  <2>3. CASE SyncState(n, c)' # None /\ ~ \E m \in Node : SyncState(m, c)' = None
    BY <1>1, <2>1, <2>3 DEF HeardFrom, Confirmable
  <2>4. ASSUME SyncState(n, c)' # None, NEW m \in Node, SyncState(m, c)' = None
        PROVE  hall(n)' \in F[n]
    <3>1. SyncState(m, c) = None
      BY <1>2, <2>4
    <3>2. Within(OrdersIn(c, {None, Unconfirmed}))
      <4>1. Confirmable(c) = OrdersIn(c, {None, Unconfirmed})
        BY <3>1 DEF Confirmable
      <4>2. \A k \in Node : HeardFrom(c)[k] \subseteq OrdersIn(c, {None, Unconfirmed})
        BY <4>1 DEF HeardFrom, Unpressed, OrdersIn
      <4> QED BY <4>1, <4>2, CopiesGrow DEF Backed, Within
    <3>3. ~Serves(n, c)
      BY <3>2 DEF Serves, Within, Copies, OrdersIn, SyncState, hall, None, Unconfirmed, Confirmed
    <3>4. hall(n)' \in OrdersIn(c, {None, Unconfirmed})
      BY <3>2, <3>3, OwnStays DEF None, Unconfirmed, Confirmed
    <3> QED BY <1>1, <2>4, <3>4 DEF HeardFrom, Confirmable
  <2> QED BY <2>2, <2>3, <2>4
<1>8. Copies(F, R)'
  BY <1>4, <1>5, <1>6, <1>7, NextCopies
<1> QED BY <1>1, <1>8 DEF Backed

LEMMA BackedShows ==
  ASSUME \A c \in Cell : Backed(c)
  PROVE  LitIsBackedUp
<1> SUFFICES ASSUME NEW n \in Node, NEW m \in Node, NEW c \in Cell,
                    SyncState(n, c) = Confirmed, SyncState(m, c) = None
             PROVE  FALSE
  BY DEF LitIsBackedUp
<1>1. hall(n) \in HeardFrom(c)[n]
  BY DEF Backed, Copies, hall
<1>2. HeardFrom(c)[n] = OrdersIn(c, {None, Unconfirmed})
  BY DEF HeardFrom, Confirmable, None, Confirmed
<1> QED BY <1>1, <1>2 DEF OrdersIn, SyncState, None, Unconfirmed, Confirmed

\* For any number of nodes and buttons: until a node is lost or an order removed,
\* a lit lamp means that every elevator the node believes in has heard of the order.
THEOREM BackedUpUntilLost == JoinedSpec => [](NothingLost => LitIsBackedUp)
<1> DEFINE Safe == NothingLost => AllUpAndLive /\ \A c \in Cell : Backed(c)
<1>1. Joined => BudgetBounded /\ Safe
  <2> SUFFICES ASSUME Joined PROVE BudgetBounded /\ Safe
    OBVIOUS
  <2>1. BudgetBounded
    BY Bounds DEF Joined, NothingRecorded, BudgetBounded
  <2>2. AllUpAndLive
    BY DEF Joined, AllUpAndLive, Live, NoEntry
  <2>3. ASSUME NEW c \in Cell PROVE Backed(c)
    <3>1. NoOrders \in Unpressed(c) /\ NoOrders \in Confirmable(c)
      BY NoOrdersIn, NoOrdersGood DEF Confirmable, Unpressed, OrdersIn
    <3>2. PICK F, R : F = HeardFrom(c) /\ R = Confirmable(c)
      OBVIOUS
    <3>3. \A m \in Node : NoOrders \in F[m]
      BY <3>1, <3>2 DEF HeardFrom
    <3>4. Copies(F, R)
      BY <3>3, JoinedCopies
    <3> QED BY <3>2, <3>4 DEF Backed
  <2> QED BY <2>1, <2>2, <2>3
<1>2. Good /\ Good' /\ BudgetBounded /\ Safe /\ [Next /\ Record]_hvars => BudgetBounded' /\ Safe'
  <2> SUFFICES ASSUME Good, Good', BudgetBounded, Safe, [Next /\ Record]_hvars, NothingLost'
               PROVE  BudgetBounded' /\ AllUpAndLive' /\ \A c \in Cell : Backed(c)'
    BY BudgetBoundedStep
  <2>1. BudgetBounded' /\ NothingLost
    BY BudgetBoundedStep
  <2>2. AllUpAndLive /\ \A c \in Cell : Backed(c)
    BY <2>1
  <2>3. CASE UNCHANGED hvars
    <3>1. UNCHANGED <<up, worldviewsMap, toSync, syncing, fromSync, outbox, wire>>
      BY <2>3 DEF hvars, vars, nodeVars, syncVars
    <3>2. AllUpAndLive'
      BY <2>2, <3>1 DEF AllUpAndLive, Live
    <3>3. \A c \in Cell : Confirmable(c)' = Confirmable(c) /\ HeardFrom(c)' = HeardFrom(c)
      BY <3>1 DEF Confirmable, HeardFrom, SyncState, hall
    <3>4. ASSUME NEW c \in Cell PROVE Backed(c)'
      <4>1. PICK F, R : F = HeardFrom(c) /\ R = Confirmable(c)
        OBVIOUS
      <4>2. F = HeardFrom(c)' /\ R = Confirmable(c)'
        BY <3>3, <4>1
      <4>3. Copies(F, R)
        BY <2>2, <4>1 DEF Backed
      <4>4. Copies(F, R)'
        BY <3>1, <4>3 DEF Copies
      <4> QED BY <4>2, <4>4 DEF Backed
    <3> QED BY <2>1, <3>2, <3>4
  <2>4. CASE Next /\ Record
    <3>1. AllUpAndLive'
      BY <2>1, <2>2, <2>4, LiveStep DEF NothingLost
    <3> QED BY <2>1, <2>2, <2>4, <3>1, BackedStep
  <2> QED BY <2>3, <2>4
<1>3. Safe => (NothingLost => LitIsBackedUp)
  BY BackedShows
<1> HIDE DEF Safe
<1> QED BY <1>1, <1>2, <1>3, HistoryGood, PTL DEF JoinedSpec

-----------------------------------------------------------------------------
(* Two nodes: while nobody is lost or in error, no order is marked peerDied. *)

Owned == {h \in GoodHall : \A c \in Cell : h[c].OwnerID # PeerDied}

NoErrors == \A n, m \in Node : /\ ~worldviewsMap[n][m].err
                               /\ \A msg \in outbox[n] \cup wire[n][m] : ~msg.err

Undisturbed == AllUpAndLive /\ NoErrors /\ Within(Owned)

LEMMA OwnedClosed == ClosedUnderSync(Owned)
<1> SUFFICES ASSUME NEW snap \in GoodSnapshot, NEW n \in Node, \A m \in Node : snap[m].hall \in Owned,
                    NEW h \in syncHallOrders(snap, n), NEW c \in Cell
             PROVE  h[c].OwnerID # PeerDied
  BY SyncGood DEF ClosedUnderSync, Owned
<1> DEFINE live == {m \in Node : snap[m].live}
           results(visit) == [d \in Cell |-> SyncCell(snap, n, d, live, visit)]
           mine   == snap[n].hall[c]
           orders == {snap[m].hall[c] : m \in live}
           states == {snap[m].hall[c].SyncState : m \in live}
           seen(visit) == [i \in DOMAIN visit |-> snap[visit[i]].hall[c].SyncState]
           count  == Cardinality(live \ {n})
<1>1. PICK visit \in VisitOrders(live \ {n}) :
         h \in {g \in [Cell -> UNION {results(visit)[d] : d \in Cell}] :
                  \A d \in Cell : g[d] \in results(visit)[d]}
  BY DEF syncHallOrders
<1>2. h[c] \in SyncCell(snap, n, c, live, visit)
  BY <1>1
<1>3. mine \in GoodOrder /\ mine.OwnerID # PeerDied
  BY DEF Owned, GoodHall
<1>4. PropagatePeerDied(mine, orders) = mine
  BY DEF PropagatePeerDied, LostOrder, Owned
<1>5. PICK o \in FollowPeers(mine, seen(visit), count) :
         h[c] = Normalise(Consensus(o, mine.SyncState, states))
  BY <1>2, <1>4 DEF SyncCell
<1> HIDE DEF seen, count, states
<1>6. o.OwnerID = mine.OwnerID
  BY <1>3, <1>5 DEF FollowPeers, GoodOrder, Order
<1>7. Consensus(o, mine.SyncState, states).OwnerID # PeerDied
  BY <1>3, <1>6, OwnerMarkers DEF Consensus, NoOrder
<1> QED BY <1>5, <1>7, OwnerMarkers DEF Normalise, NoOrder

\* n's goroutine gives its own orders the value h and sends them on.
OwnUpdate(n, h) ==
    /\ worldviewsMap' = [worldviewsMap EXCEPT ![n] = [worldviewsMap[n] EXCEPT ![n].hall = h]]
    /\ Update(n, [worldviewsMap[n] EXCEPT ![n].hall = h])
    /\ UNCHANGED <<up, syncing, fromSync, wire>>

LEMMA CalmReport ==
  ASSUME Good, Undisturbed, NEW n \in Node, ElevatorReport(n), budget'.error = budget.error
  PROVE  \E h \in Owned :
            /\ OwnUpdate(n, h)
            /\ \A c \in Cell : \/ h[c].SyncState = SyncState(n, c)
                               \/ SyncState(n, c) = Confirmed /\ h[c].SyncState = DeleteProposed
<1> DEFINE mine == worldviewsMap[n][n]
           completed(reached) ==
             [d \in Cell |-> IF d \in reached
                             THEN CompleteServed(mine.hall[d], d \in requests[n], FALSE, n)
                             ELSE mine.hall[d]]
           new(reached, error) == IF error THEN markPeerDeadInHallOrders(completed(reached), n)
                                          ELSE completed(reached)
           views(reached, error) ==
             [worldviewsMap[n] EXCEPT ![n].hall = new(reached, error), ![n].err = error]
<1>1. PICK reached \in SUBSET Cell, error \in BOOLEAN :
         /\ IF error /\ ~mine.err THEN Spend("error") ELSE UNCHANGED budget
         /\ Update(n, views(reached, error))
         /\ UNCHANGED <<up, syncing, fromSync, wire>>
  BY DEF ElevatorReport
<1>2. worldviewsMap \in [Node -> [Node -> GoodEntry]] /\ mine \in GoodEntry /\ ~mine.err
  BY DEF Good, Undisturbed, NoErrors
<1>3. ~error
  <2>1. budget \in [Events -> Nat] /\ "error" \in Events
    BY DEF Good, Events
  <2>2. ~Spend("error")
    BY <2>1 DEF Spend
  <2> QED BY <1>1, <1>2, <2>2
<1>4. PICK h : h = completed(reached)
  OBVIOUS
<1>5. mine.hall \in Owned
  BY DEF Undisturbed, Within, Copies
<1>6. ASSUME NEW c \in Cell
      PROVE  /\ h[c] \in GoodOrder
             /\ h[c].OwnerID # PeerDied
             /\ \/ h[c].SyncState = SyncState(n, c)
                \/ SyncState(n, c) = Confirmed /\ h[c].SyncState = DeleteProposed
  <2>1. mine.hall[c] \in GoodOrder /\ mine.hall[c].OwnerID # PeerDied
    BY <1>5 DEF Owned, GoodHall
  <2>2. h[c] = mine.hall[c] \/ h[c] = CompleteServed(mine.hall[c], c \in requests[n], FALSE, n)
    BY <1>4
  <2> HIDE DEF mine
  <2>3. mine.hall[c].SyncState = SyncState(n, c)
    BY DEF mine, SyncState, hall
  <2> QED BY <2>1, <2>2, <2>3, CompleteGood DEF CompleteServed, GoodOrder, Order
<1>7. h \in Owned
  BY <1>4, <1>6 DEF Owned, GoodHall
<1>8. views(reached, error) = [worldviewsMap[n] EXCEPT ![n].hall = h]
  <2>1. [mine EXCEPT !.hall = h, !.err = FALSE] = [mine EXCEPT !.hall = h]
    BY <1>2 DEF GoodEntry
  <2>2. error = FALSE
    BY <1>3
  <2> HIDE DEF completed
  <2> QED BY <1>2, <1>4, <2>1, <2>2
<1> HIDE DEF views
<1>9. OwnUpdate(n, h)
  BY <1>1, <1>8 DEF OwnUpdate, Update
<1> QED BY <1>6, <1>7, <1>9

LEMMA CalmButton ==
  ASSUME Good, Undisturbed, NEW n \in Node, NEW b \in Cell, HallButton(n, b)
  PROVE  \E h \in Owned :
            /\ OwnUpdate(n, h)
            /\ \A c \in Cell : \/ h[c].SyncState = SyncState(n, c)
                               \/ /\ budget'.press < budget.press
                                  /\ SyncState(n, c) = None
                                  /\ h[c].SyncState = Unconfirmed
<1> DEFINE h == [hall(n) EXCEPT ![b] = addNewHallOrder(@)]
<1>1. OwnUpdate(n, h)
  BY DEF HallButton, OwnUpdate, Update, hall
<1>2. budget'.press < budget.press
  BY DEF HallButton, Spend, Good, Events
<1>3. hall(n) \in Owned
  BY DEF Undisturbed, Within, Copies, hall
<1>4. ASSUME NEW c \in Cell
      PROVE  /\ h[c] \in GoodOrder
             /\ h[c].OwnerID # PeerDied
             /\ \/ h[c].SyncState = SyncState(n, c)
                \/ SyncState(n, c) = None /\ h[c].SyncState = Unconfirmed
  BY <1>3, AddGood, OwnerMarkers DEF Owned, GoodHall, addNewHallOrder, SyncState
<1>5. h \in Owned
  BY <1>3, <1>4 DEF Owned, GoodHall
<1> HIDE DEF h
<1> QED BY <1>1, <1>2, <1>4, <1>5

LEMMA CalmSelfLost ==
  ASSUME Good, NEW n \in Node, SelfLost(n)
  PROVE  OwnUpdate(n, hall(n))
<1>1. [worldviewsMap[n] EXCEPT ![n].hall = hall(n)] = worldviewsMap[n]
  BY DEF Good, hall, GoodEntry
<1> QED BY <1>1 DEF SelfLost, OwnUpdate, Update

\* A worldview arrives; n's own orders stay.
Hears(n, m, msg) ==
    LET views == [worldviewsMap[n] EXCEPT
                    ![m] = [known |-> TRUE, hall |-> msg.hall, err |-> FALSE, dead |-> FALSE]]
    IN  /\ m # n
        /\ wire' = [wire EXCEPT ![n][m] = @ \ {msg}]
        /\ Update(n, views)
        /\ UNCHANGED <<up, syncing, fromSync>>

LEMMA CalmReceive ==
  ASSUME Good, Undisturbed, NEW n \in Node, NEW m \in Node, ReceiveWorldview(n, m)
  PROVE  \E msg \in Arriving(n, m) : Hears(n, m, msg)
<1> DEFINE heard(msg) == [known |-> TRUE, hall |-> msg.hall, err |-> msg.err, dead |-> FALSE]
           new(msg) == IF msg.err THEN markPeerDeadInHallOrders(hall(n), m) ELSE hall(n)
<1>1. PICK msg \in Arriving(n, m) :
         /\ m # n
         /\ wire' = [wire EXCEPT ![n][m] = @ \ {msg}]
         /\ Update(n, [worldviewsMap[n] EXCEPT ![m] = heard(msg), ![n].hall = new(msg)])
         /\ UNCHANGED <<up, syncing, fromSync>>
  BY DEF ReceiveWorldview
<1>2. msg.err = FALSE
  <2>1. ~msg.err /\ msg \in GoodMessage
    BY <1>1 DEF Arriving, Undisturbed, NoErrors, Good
  <2> QED BY <2>1 DEF GoodMessage
<1>3. [worldviewsMap[n] EXCEPT ![m] = heard(msg), ![n].hall = new(msg)]
         = [worldviewsMap[n] EXCEPT ![m] = [known |-> TRUE, hall |-> msg.hall, err |-> FALSE, dead |-> FALSE]]
  <2>1. worldviewsMap[n] \in [Node -> GoodEntry]
    BY DEF Good
  <2>2. new(msg) = worldviewsMap[n][n].hall
    BY <1>2 DEF hall
  <2>3. [worldviewsMap[n][n] EXCEPT !.hall = new(msg)] = worldviewsMap[n][n]
    BY <2>1, <2>2 DEF GoodEntry
  <2>4. m # n /\ heard(msg) = [known |-> TRUE, hall |-> msg.hall, err |-> FALSE, dead |-> FALSE]
    BY <1>1, <1>2
  <2>5. PICK x, e : x = new(msg) /\ e = heard(msg)
    OBVIOUS
  <2>6. [worldviewsMap[n] EXCEPT ![m] = e, ![n].hall = x] = [worldviewsMap[n] EXCEPT ![m] = e]
    BY <2>1, <2>3, <2>4, <2>5
  <2> HIDE DEF new, heard
  <2> QED BY <2>4, <2>5, <2>6
<1> QED BY <1>1, <1>3 DEF Hears

\* n's goroutine gives its own orders the value h and sends them to the network.
OwnSend(n, h) ==
    /\ worldviewsMap' = [worldviewsMap EXCEPT ![n] = [worldviewsMap[n] EXCEPT ![n].hall = h]]
    /\ outbox' = [outbox EXCEPT ![n] = {[hall |-> h, err |-> FALSE]}]
    /\ UNCHANGED <<up, toSync, syncing, wire>>

\* updateWorldviewFromSync for states of orders with an owner that is alive, or none.
Merged(local, result) == IF result >= local \/ (local = DeleteProposed /\ result = None)
                         THEN result
                         ELSE local

LEMMA CalmResult ==
  ASSUME Good, Undisturbed, NEW n \in Node, SyncResult(n)
  PROVE  \E h \in Owned, synced \in fromSync[n] :
            /\ OwnSend(n, h)
            /\ fromSync' = [fromSync EXCEPT ![n] = {}]
            /\ \A c \in Cell : h[c].SyncState = Merged(SyncState(n, c), synced[c].SyncState)
<1> DEFINE new(synced) == [c \in Cell |-> MergeSyncOrder(hall(n)[c], synced[c])]
<1>1. PICK synced \in fromSync[n] :
         /\ fromSync' = [fromSync EXCEPT ![n] = {}]
         /\ worldviewsMap' = [worldviewsMap EXCEPT ![n] =
                                [worldviewsMap[n] EXCEPT ![n].hall = new(synced)]]
         /\ sendLatestToNetwork(n, [worldviewsMap[n] EXCEPT ![n].hall = new(synced)])
         /\ UNCHANGED <<up, toSync, syncing, wire>>
  BY DEF SyncResult
<1>2. hall(n) \in Owned /\ synced \in Owned
  BY DEF Undisturbed, Within, Copies, hall
<1>3. PICK h : h = new(synced)
  OBVIOUS
<1>4. ASSUME NEW c \in Cell
      PROVE  /\ h[c] \in GoodOrder
             /\ h[c].OwnerID # PeerDied
             /\ h[c].SyncState = Merged(SyncState(n, c), synced[c].SyncState)
  <2>1. PICK a, b : a = hall(n)[c] /\ b = synced[c]
    OBVIOUS
  <2>2. /\ a \in GoodOrder /\ a.OwnerID # PeerDied
        /\ b \in GoodOrder /\ b.OwnerID # PeerDied
    BY <1>2, <2>1 DEF Owned, GoodHall
  <2>3. a.SyncState = SyncState(n, c) /\ h[c] = MergeSyncOrder(a, b)
    BY <1>3, <2>1 DEF SyncState
  <2>4. MergeSyncOrder(a, b) \in {a, b}
    BY DEF MergeSyncOrder
  <2>5. a.SyncState \in 0..3 /\ b.SyncState \in 0..3
    BY <2>2 DEF GoodOrder, Order, OrderSyncState, None, DeleteProposed
  <2>6. a # LostOrder /\ b # LostOrder
    BY <2>2 DEF LostOrder
  <2>7. MergeSyncOrder(a, b).SyncState = Merged(a.SyncState, b.SyncState)
    BY <2>5, <2>6 DEF MergeSyncOrder, shouldAcceptSyncOrder, Merged
  <2> QED BY <2>1, <2>2, <2>3, <2>4, <2>7
<1>5. h \in Owned
  BY <1>3, <1>4 DEF Owned, GoodHall
<1> HIDE DEF new
<1>6. outbox' = [outbox EXCEPT ![n] = {[hall |-> h, err |-> FALSE]}]
  <2>1. outbox' = [outbox EXCEPT ![n] = {[hall |-> h, err |-> worldviewsMap[n][n].err]}]
    BY <1>1, <1>3, SentWith DEF Good
  <2>2. worldviewsMap[n][n].err = FALSE
    BY DEF Good, GoodEntry, Undisturbed, NoErrors
  <2> QED BY <2>1, <2>2
<1> QED BY <1>1, <1>3, <1>4, <1>5, <1>6 DEF OwnSend

LEMMA CalmAssignment ==
  ASSUME Good, Undisturbed, NEW n \in Node, Assignment(n)
  PROVE  \E h \in Owned :
            /\ OwnSend(n, h)
            /\ UNCHANGED fromSync
            /\ \A c \in Cell : h[c].SyncState = SyncState(n, c)
<1> DEFINE new(given, owner) ==
             [d \in Cell |-> IF d \in given THEN [hall(n)[d] EXCEPT !.OwnerID = owner[d]]
                                            ELSE hall(n)[d]]
<1>1. PICK given \in SUBSET {d \in Cell : NeedsOwner(hall(n)[d])} :
      \E owner \in [given -> {m \in Takers : worldviewsMap[n][m].known}] :
         /\ worldviewsMap' = [worldviewsMap EXCEPT ![n] =
                               [worldviewsMap[n] EXCEPT ![n].hall = new(given, owner)]]
         /\ sendLatestToNetwork(n, [worldviewsMap[n] EXCEPT ![n].hall = new(given, owner)])
         /\ UNCHANGED <<up, syncVars, wire>>
  BY DEF Assignment
<1>2. PICK owner \in [given -> {m \in Takers : worldviewsMap[n][m].known}] :
         /\ worldviewsMap' = [worldviewsMap EXCEPT ![n] =
                               [worldviewsMap[n] EXCEPT ![n].hall = new(given, owner)]]
         /\ sendLatestToNetwork(n, [worldviewsMap[n] EXCEPT ![n].hall = new(given, owner)])
         /\ UNCHANGED <<up, syncVars, wire>>
  BY <1>1
<1>3. hall(n) \in Owned
  BY DEF Undisturbed, Within, Copies, hall
<1>4. PICK h : h = new(given, owner)
  OBVIOUS
<1>5. ASSUME NEW c \in Cell
      PROVE  /\ h[c] \in GoodOrder
             /\ h[c].OwnerID # PeerDied
             /\ h[c].SyncState = SyncState(n, c)
  <2>1. hall(n)[c] \in GoodOrder /\ hall(n)[c].OwnerID # PeerDied
    BY <1>3 DEF Owned, GoodHall
  <2>2. CASE c \notin given
    BY <1>4, <2>1, <2>2 DEF SyncState
  <2>3. CASE c \in given
    <3>1. owner[c] \in Node /\ owner[c] # PeerDied
      BY <1>2, <2>3, TakersAreNodes, OwnerMarkers
    <3>2. hall(n)[c].SyncState = Confirmed
      BY <1>1, <2>3 DEF NeedsOwner
    <3>3. h[c] = [hall(n)[c] EXCEPT !.OwnerID = owner[c]]
      BY <1>4, <2>3
    <3> QED BY <2>1, <3>1, <3>2, <3>3
            DEF GoodOrder, Order, OwnerID, WellFormed, SyncState, None, Confirmed
  <2> QED BY <2>2, <2>3
<1>6. h \in Owned
  BY <1>4, <1>5 DEF Owned, GoodHall
<1> HIDE DEF new
<1>7. outbox' = [outbox EXCEPT ![n] = {[hall |-> h, err |-> FALSE]}]
  <2>1. outbox' = [outbox EXCEPT ![n] = {[hall |-> h, err |-> worldviewsMap[n][n].err]}]
    BY <1>2, <1>4, SentWith DEF Good
  <2>2. worldviewsMap[n][n].err = FALSE
    BY DEF Good, GoodEntry, Undisturbed, NoErrors
  <2> QED BY <2>1, <2>2
<1> QED BY <1>2, <1>4, <1>5, <1>6, <1>7 DEF OwnSend, syncVars

\* What can happen while nothing goes wrong, as far as the states of orders go.
CalmNext == \E n \in Node :
    \/ \E h \in Owned :
          /\ OwnUpdate(n, h)
          /\ \A c \in Cell : \/ h[c].SyncState = SyncState(n, c)
                             \/ SyncState(n, c) = Confirmed /\ h[c].SyncState = DeleteProposed
                             \/ /\ budget'.press < budget.press
                                /\ SyncState(n, c) = None
                                /\ h[c].SyncState = Unconfirmed
    \/ \E h \in Owned, synced \in fromSync[n] :
          /\ OwnSend(n, h)
          /\ fromSync' = [fromSync EXCEPT ![n] = {}]
          /\ \A c \in Cell : h[c].SyncState = Merged(SyncState(n, c), synced[c].SyncState)
    \/ \E h \in Owned :
          /\ OwnSend(n, h)
          /\ UNCHANGED fromSync
          /\ \A c \in Cell : h[c].SyncState = SyncState(n, c)
    \/ \E m \in Node : \E msg \in Arriving(n, m) : Hears(n, m, msg)
    \/ SyncTake(n)
    \/ SyncPut(n)
    \/ \E m \in Node : Transmit(n, m)

LEMMA CalmStep ==
  ASSUME Good, Good', Undisturbed, Next, Calm, Calm'
  PROVE  CalmNext
<1>1. ASSUME NEW n \in Node, ElevatorReport(n) PROVE CalmNext
  <2>1. budget'.error = budget.error
    BY DEF Calm
  <2> QED BY <1>1, <2>1, CalmReport DEF CalmNext
<1>2. ASSUME NEW n \in Node, SelfLost(n) PROVE CalmNext
  <2>1. hall(n) \in Owned
    BY DEF Undisturbed, Within, Copies, hall
  <2> QED BY <1>2, <2>1, CalmSelfLost DEF CalmNext, SyncState
<1>3. ASSUME NEW n \in Node PROVE ~SelfNew(n) /\ ~Crash(n) /\ \A m \in Node : ~LostPeer(n, m)
  BY QuietStep DEF Calm
<1>4. ASSUME NEW n \in Node PROVE ~Restart(n)
  BY DEF Restart, Undisturbed, AllUpAndLive
<1>5. ASSUME NEW n \in Node, NEW b \in Cell, HallButton(n, b) PROVE CalmNext
  BY <1>5, CalmButton DEF CalmNext
<1>6. ASSUME NEW n \in Node, SyncResult(n) PROVE CalmNext
  BY <1>6, CalmResult DEF CalmNext
<1>7. ASSUME NEW n \in Node, Assignment(n) PROVE CalmNext
  BY <1>7, CalmAssignment DEF CalmNext
<1>8. ASSUME NEW n \in Node, NEW m \in Node, ReceiveWorldview(n, m) PROVE CalmNext
  BY <1>8, CalmReceive DEF CalmNext
<1>9. ASSUME NEW n \in Node, SyncTake(n) \/ SyncPut(n) \/ \E m \in Node : Transmit(n, m)
      PROVE  CalmNext
  BY <1>9 DEF CalmNext
<1> QED BY <1>1, <1>2, <1>3, <1>4, <1>5, <1>6, <1>7, <1>8, <1>9 DEF Next

LEMMA OwnHallSet ==
  ASSUME Good, NEW n \in Node, NEW h,
         worldviewsMap' = [worldviewsMap EXCEPT ![n] = [worldviewsMap[n] EXCEPT ![n].hall = h]]
  PROVE  /\ hall(n)' = h
         /\ \A k, m \in Node : /\ worldviewsMap'[k][m].err = worldviewsMap[k][m].err
                               /\ ~(k = n /\ m = n) =>
                                    worldviewsMap'[k][m].hall = worldviewsMap[k][m].hall
<1>1. worldviewsMap \in [Node -> [Node -> GoodEntry]] /\ worldviewsMap[n] \in [Node -> GoodEntry]
  BY DEF Good
<1>2. PICK views : views = [worldviewsMap[n] EXCEPT ![n].hall = h]
  OBVIOUS
<1>3. /\ views[n].hall = h /\ views[n].err = worldviewsMap[n][n].err
      /\ \A m \in Node \ {n} : views[m] = worldviewsMap[n][m]
  <2>1. /\ DOMAIN views = Node
        /\ \A m \in Node \ {n} : views[m] = worldviewsMap[n][m]
        /\ views[n] = [worldviewsMap[n][n] EXCEPT !.hall = h]
    BY <1>1, <1>2
  <2>2. worldviewsMap[n][n] \in GoodEntry
    BY <1>1
  <2>3. views[n].hall = h /\ views[n].err = worldviewsMap[n][n].err
    BY <2>1, <2>2 DEF GoodEntry
  <2> QED BY <2>1, <2>3
<1>4. worldviewsMap' = [worldviewsMap EXCEPT ![n] = views]
  BY <1>2
<1>5. worldviewsMap'[n] = views /\ \A k \in Node \ {n} : worldviewsMap'[k] = worldviewsMap[k]
  BY <1>1, <1>4
<1>6. hall(n)' = h
  BY <1>3, <1>5 DEF hall
<1>7. ASSUME NEW k \in Node, NEW m \in Node
      PROVE  /\ worldviewsMap'[k][m].err = worldviewsMap[k][m].err
             /\ ~(k = n /\ m = n) => worldviewsMap'[k][m].hall = worldviewsMap[k][m].hall
  <2>1. CASE k # n
    BY <1>5, <2>1
  <2>2. CASE k = n /\ m # n
    BY <1>3, <1>5, <2>2
  <2>3. CASE k = n /\ m = n
    BY <1>3, <1>5, <2>3
  <2> QED BY <2>1, <2>2, <2>3
<1> QED BY <1>6, <1>7

\* A step that writes n's own hall orders writes no other entry's, and no entry's error.
LEMMA OwnHallStep ==
  ASSUME Good, NEW n \in Node, NEW h, OwnUpdate(n, h) \/ OwnSend(n, h)
  PROVE  /\ hall(n)' = h
         /\ \A k, m \in Node : /\ worldviewsMap'[k][m].err = worldviewsMap[k][m].err
                               /\ ~(k = n /\ m = n) =>
                                    worldviewsMap'[k][m].hall = worldviewsMap[k][m].hall
<1>1. worldviewsMap' = [worldviewsMap EXCEPT ![n] = [worldviewsMap[n] EXCEPT ![n].hall = h]]
  BY DEF OwnUpdate, OwnSend
<1> QED BY <1>1, OwnHallSet

LEMMA HearsSets ==
  ASSUME Good, NEW n \in Node, NEW m \in Node, NEW msg, Hears(n, m, msg)
  PROVE  /\ worldviewsMap'[n][m].hall = msg.hall
         /\ ~worldviewsMap'[n][m].err
         /\ \A k, j \in Node : ~(k = n /\ j = m) => worldviewsMap'[k][j] = worldviewsMap[k][j]
<1>1. worldviewsMap \in [Node -> [Node -> GoodEntry]]
  BY DEF Good
<1> QED BY <1>1 DEF Hears, Update

LEMMA NoErrorsStep ==
  ASSUME Good, NoErrors, CalmNext
  PROVE  NoErrors'
<1>1. outbox \in [Node -> SUBSET GoodMessage] /\ wire \in [Node -> [Node -> SUBSET GoodMessage]]
  BY DEF Good
<1>2. ASSUME NEW n \in Node, NEW h, OwnUpdate(n, h) PROVE NoErrors'
  <2>1. PICK views : /\ views = [worldviewsMap[n] EXCEPT ![n].hall = h]
                     /\ outbox' = [outbox EXCEPT ![n] = {[hall |-> views[n].hall, err |-> views[n].err]}]
    BY <1>2 DEF OwnUpdate, Update, sendLatestToNetwork
  <2>2. \A k, m \in Node : ~worldviewsMap'[k][m].err
    BY <1>2, OwnHallStep DEF NoErrors
  <2>3. ~views[n].err
    BY <2>1 DEF Good, GoodEntry, NoErrors
  <2>4. \A k \in Node : \A msg \in outbox'[k] : ~msg.err
    BY <1>1, <2>1, <2>3 DEF NoErrors
  <2> QED BY <1>2, <2>2, <2>4 DEF OwnUpdate, NoErrors
<1>3. ASSUME NEW n \in Node, NEW h, OwnSend(n, h) PROVE NoErrors'
  <2>1. \A k, m \in Node : ~worldviewsMap'[k][m].err
    BY <1>3, OwnHallStep DEF NoErrors
  <2>2. \A k \in Node : \A msg \in outbox'[k] : ~msg.err
    BY <1>1, <1>3 DEF OwnSend, NoErrors
  <2> QED BY <1>3, <2>1, <2>2 DEF OwnSend, NoErrors
<1>4. ASSUME NEW n \in Node, NEW m \in Node, NEW msg, Hears(n, m, msg) PROVE NoErrors'
  <2>1. ASSUME NEW k \in Node, NEW j \in Node PROVE ~worldviewsMap'[k][j].err
    <3>1. /\ ~worldviewsMap'[n][m].err
          /\ ~(k = n /\ j = m) => worldviewsMap'[k][j] = worldviewsMap[k][j]
      BY <1>4, HearsSets
    <3> QED BY <3>1 DEF NoErrors
  <2>2. PICK views : /\ worldviewsMap' = [worldviewsMap EXCEPT ![n] = views]
                     /\ outbox' = [outbox EXCEPT ![n] = {[hall |-> views[n].hall, err |-> views[n].err]}]
    BY <1>4 DEF Hears, Update, sendLatestToNetwork
  <2>3. views = worldviewsMap'[n]
    BY <2>2 DEF Good
  <2>4. \A k \in Node : \A w \in outbox'[k] : ~w.err
    BY <1>1, <2>1, <2>2, <2>3 DEF NoErrors
  <2>5. \A k, j \in Node : wire'[k][j] \subseteq wire[k][j]
    BY <1>1, <1>4 DEF Hears
  <2> QED BY <2>1, <2>4, <2>5 DEF NoErrors
<1>5. ASSUME NEW n \in Node, SyncTake(n) \/ SyncPut(n) PROVE NoErrors'
  BY <1>5 DEF SyncTake, SyncPut, nodeVars, NoErrors
<1>6. ASSUME NEW n \in Node, NEW m \in Node, Transmit(n, m) PROVE NoErrors'
  <2>1. PICK msg \in outbox[n] : wire' = [wire EXCEPT ![m][n] = @ \cup {msg}]
    BY <1>6 DEF Transmit
  <2>2. \A k, j \in Node : \A w \in wire'[k][j] : ~w.err
    BY <1>1, <2>1 DEF NoErrors
  <2> QED BY <1>6, <2>2 DEF Transmit, nodeVars, NoErrors
<1> QED BY <1>2, <1>3, <1>4, <1>5, <1>6 DEF CalmNext

LEMMA UndisturbedStep ==
  ASSUME Good, Good', Undisturbed, Next, Calm, Calm'
  PROVE  Undisturbed'
<1>1. CalmNext
  BY CalmStep
<1>2. \A k \in Node : hall(k) \in Owned
  BY DEF Undisturbed, Within, Copies, hall
<1>3. ASSUME NEW n \in Node, NEW h \in Owned, OwnUpdate(n, h) \/ OwnSend(n, h)
      PROVE  \A k \in Node : hall(k)' \in Owned
  BY <1>2, <1>3, OwnHallStep DEF hall
<1>4. ASSUME NEW n \in Node, NEW m \in Node, NEW msg, Hears(n, m, msg)
      PROVE  \A k \in Node : hall(k)' \in Owned
  <2>1. m # n
    BY <1>4 DEF Hears
  <2>2. \A k \in Node : worldviewsMap'[k][k] = worldviewsMap[k][k]
    BY <1>4, <2>1, HearsSets
  <2> QED BY <1>2, <2>2 DEF hall
<1>5. ASSUME NEW n \in Node, SyncTake(n) \/ SyncPut(n) \/ \E m \in Node : Transmit(n, m)
      PROVE  \A k \in Node : hall(k)' \in Owned
  BY <1>2, <1>5 DEF SyncTake, SyncPut, Transmit, nodeVars, hall
<1>6. \A k \in Node : hall(k)' \in Owned
  BY <1>1, <1>3, <1>4, <1>5 DEF CalmNext
<1>7. NoOrders \in Owned
  BY NoOrdersGood, OwnerMarkers DEF Owned, NoOrders, NoOrder
<1>8. Within(Owned)'
  BY <1>6, <1>7, OwnedClosed, NextWithin DEF Undisturbed
<1>9. AllUpAndLive' /\ NoErrors'
  BY <1>1, LiveStep, NoErrorsStep DEF Undisturbed, Calm
<1> QED BY <1>8, <1>9 DEF Undisturbed

-----------------------------------------------------------------------------
(* Copies that are not behind: the broadcast, the snapshot's view of peers,  *)
(* and, if no worldview overtakes another, at most one of each on its way.   *)

OneUnderWay == \A n, m \in Node : /\ wire[n][m] = {} \/ \E msg : wire[n][m] = {msg}
                                  /\ MaxInFlight = 0 => wire[n][m] = {}

UpToDate == /\ \A n \in Node : \A msg \in outbox[n] : msg.hall = hall(n)
            /\ \A n \in Node : \A snap \in toSync[n], m \in Node \ {n} :
                  snap[m].hall = worldviewsMap[n][m].hall
            /\ OneUnderWay

LEMMA Singleton == ASSUME NEW x PROVE IsFiniteSet({x}) /\ Cardinality({x}) = 1
  BY FS_Singleton

LEMMA Pair == ASSUME NEW x, NEW y, x # y PROVE Cardinality({x} \cup {y}) = 2
<1>1. PICK S : S = {x}
  OBVIOUS
<1>2. IsFiniteSet(S) /\ Cardinality(S) = 1 /\ y \notin S
  BY <1>1, Singleton
<1>3. Cardinality(S \cup {y}) = Cardinality(S) + 1
  BY <1>2, FS_AddElement
<1> QED BY <1>1, <1>2, <1>3

LEMMA TransmitOne ==
  ASSUME MaxInFlight <= 1, Good, OneUnderWay, NEW n \in Node, NEW m \in Node, Transmit(n, m)
  PROVE  \E msg \in outbox[n] : /\ m # n
                                /\ MaxInFlight # 0
                                /\ wire' = [wire EXCEPT ![m][n] = {msg}]
<1>1. PICK msg \in outbox[n] : /\ m # n
                               /\ Cardinality(wire[m][n] \cup {msg}) <= MaxInFlight
                               /\ wire' = [wire EXCEPT ![m][n] = @ \cup {msg}]
  BY DEF Transmit
<1>2. MaxInFlight \in Nat
  BY Bounds
<1>3. ASSUME NEW x, wire[m][n] = {x} PROVE wire[m][n] = {msg} /\ MaxInFlight # 0
  <2>1. x = msg
    <3> SUFFICES ASSUME x # msg PROVE FALSE
      OBVIOUS
    <3>1. Cardinality({x} \cup {msg}) = 2
      BY Pair
    <3>2. Cardinality({x} \cup {msg}) <= MaxInFlight
      BY <1>1, <1>3
    <3> QED BY <1>2, <3>1, <3>2
  <2>2. Cardinality({x}) = 1 /\ {x} \cup {msg} = {x}
    BY <2>1, Singleton
  <2> QED BY <1>1, <1>2, <1>3, <2>1, <2>2
<1>4. wire[m][n] \cup {msg} = {msg} /\ MaxInFlight # 0
  <2>1. CASE wire[m][n] = {}
    <3>1. Cardinality({msg}) = 1 /\ wire[m][n] \cup {msg} = {msg}
      BY <2>1, Singleton
    <3> QED BY <1>1, <1>2, <3>1
  <2>2. CASE \E x : wire[m][n] = {x}
    BY <1>3, <2>2
  <2> QED BY <2>1, <2>2 DEF OneUnderWay
<1> QED BY <1>1, <1>4

LEMMA OneUnderWayStep ==
  ASSUME MaxInFlight <= 1, Good, OneUnderWay, CalmNext
  PROVE  OneUnderWay'
<1>1. wire \in [Node -> [Node -> SUBSET GoodMessage]]
  BY DEF Good
<1>2. ASSUME UNCHANGED wire PROVE OneUnderWay'
  BY <1>2 DEF OneUnderWay
<1>3. ASSUME NEW n \in Node, NEW m \in Node, NEW msg, Hears(n, m, msg) PROVE OneUnderWay'
  <2>1. wire' = [wire EXCEPT ![n][m] = @ \ {msg}]
    BY <1>3 DEF Hears
  <2> SUFFICES ASSUME NEW k \in Node, NEW j \in Node
               PROVE  /\ wire'[k][j] = {} \/ \E x : wire'[k][j] = {x}
                      /\ MaxInFlight = 0 => wire'[k][j] = {}
    BY DEF OneUnderWay
  <2>2. wire'[k][j] \subseteq wire[k][j]
    BY <1>1, <2>1
  <2>3. /\ wire[k][j] = {} \/ \E x : wire[k][j] = {x}
        /\ MaxInFlight = 0 => wire[k][j] = {}
    BY DEF OneUnderWay
  <2>4. ASSUME NEW x, wire[k][j] = {x} PROVE wire'[k][j] = {} \/ wire'[k][j] = {x}
    BY <2>2, <2>4
  <2> QED BY <2>2, <2>3, <2>4
<1>4. ASSUME NEW n \in Node, NEW m \in Node, Transmit(n, m) PROVE OneUnderWay'
  <2>1. PICK msg \in outbox[n] : MaxInFlight # 0 /\ wire' = [wire EXCEPT ![m][n] = {msg}]
    BY <1>4, TransmitOne
  <2> SUFFICES ASSUME NEW k \in Node, NEW j \in Node
               PROVE  wire'[k][j] = {} \/ \E x : wire'[k][j] = {x}
    BY <2>1 DEF OneUnderWay
  <2>2. CASE wire'[k][j] = {msg}
    BY <2>2
  <2>3. CASE wire'[k][j] = wire[k][j]
    BY <2>3 DEF OneUnderWay
  <2> QED BY <1>1, <2>1, <2>2, <2>3
<1> QED BY <1>2, <1>3, <1>4 DEF CalmNext, OwnUpdate, OwnSend, SyncTake, SyncPut

LEMMA UpToDateStep ==
  ASSUME MaxInFlight <= 1, Good, UpToDate, CalmNext
  PROVE  UpToDate'
<1>1. /\ outbox \in [Node -> SUBSET GoodMessage] /\ toSync \in [Node -> SUBSET GoodSnapshot]
      /\ worldviewsMap \in [Node -> [Node -> GoodEntry]]
  BY DEF Good
<1> DEFINE SentLatest == \A n \in Node : \A msg \in outbox[n] : msg.hall = hall(n)
           SnapsLatest == \A n \in Node : \A snap \in toSync[n], m \in Node \ {n} :
                             snap[m].hall = worldviewsMap[n][m].hall
<1>2. ASSUME NEW n \in Node, NEW views, Update(n, views) PROVE SentLatest' /\ SnapsLatest'
  <2>1. /\ worldviewsMap' = [worldviewsMap EXCEPT ![n] = views]
        /\ outbox' = [outbox EXCEPT ![n] = {[hall |-> views[n].hall, err |-> views[n].err]}]
        /\ toSync' = [toSync EXCEPT ![n] =
                        {[m \in Node |-> [hall |-> views[m].hall, live |-> Live(views[m])]]}]
    BY <1>2 DEF Update, sendLatestToNetwork, sendLatestToSync
  <2>2. worldviewsMap'[n] = views /\ \A k \in Node \ {n} : worldviewsMap'[k] = worldviewsMap[k]
    BY <1>1, <2>1
  <2>3. ASSUME NEW k \in Node, NEW msg \in outbox'[k] PROVE msg.hall = worldviewsMap'[k][k].hall
    BY <1>1, <2>1, <2>2, <2>3 DEF UpToDate, hall
  <2>4. ASSUME NEW k \in Node, NEW snap \in toSync'[k], NEW m \in Node \ {k}
        PROVE  snap[m].hall = worldviewsMap'[k][m].hall
    <3>1. CASE k # n
      BY <1>1, <2>1, <2>2, <3>1 DEF UpToDate
    <3>2. CASE k = n
      <4>1. snap = [j \in Node |-> [hall |-> views[j].hall, live |-> Live(views[j])]]
        BY <1>1, <2>1, <3>2
      <4> QED BY <2>2, <3>2, <4>1
    <3> QED BY <3>1, <3>2
  <2> QED BY <2>3, <2>4 DEF hall
<1>3. ASSUME NEW n \in Node, NEW h, OwnSend(n, h) PROVE SentLatest' /\ SnapsLatest'
  <2>1. /\ hall(n)' = h
        /\ \A k, m \in Node : ~(k = n /\ m = n) => worldviewsMap'[k][m].hall = worldviewsMap[k][m].hall
    BY <1>3, OwnHallStep
  <2>2. outbox' = [outbox EXCEPT ![n] = {[hall |-> h, err |-> FALSE]}] /\ UNCHANGED toSync
    BY <1>3 DEF OwnSend
  <2>3. ASSUME NEW k \in Node, NEW msg \in outbox'[k] PROVE msg.hall = hall(k)'
    <3>1. CASE k = n
      <4>1. msg = [hall |-> h, err |-> FALSE]
        BY <1>1, <2>2, <3>1
      <4> QED BY <2>1, <3>1, <4>1
    <3>2. CASE k # n
      BY <1>1, <2>1, <2>2, <3>2 DEF UpToDate, hall
    <3> QED BY <3>1, <3>2
  <2>4. SnapsLatest'
    BY <2>1, <2>2 DEF UpToDate
  <2> QED BY <2>3, <2>4
<1>4. ASSUME NEW n \in Node, SyncTake(n) PROVE SentLatest' /\ SnapsLatest'
  BY <1>1, <1>4 DEF SyncTake, nodeVars, UpToDate, hall
<1>5. ASSUME NEW n \in Node, SyncPut(n) \/ \E m \in Node : Transmit(n, m)
      PROVE  SentLatest' /\ SnapsLatest'
  <2>1. UNCHANGED <<worldviewsMap, outbox, toSync>>
    BY <1>5 DEF SyncPut, Transmit, nodeVars, syncVars
  <2> QED BY <2>1 DEF UpToDate, hall
<1>6. SentLatest' /\ SnapsLatest'
  BY <1>2, <1>3, <1>4, <1>5 DEF CalmNext, OwnUpdate, Hears
<1> QED BY <1>6, OneUnderWayStep DEF UpToDate

-----------------------------------------------------------------------------
(* What the sync goroutine answers when two nodes are alive.               *)

Answer(mine, theirs) ==
    LET s == FollowState(mine, theirs)
    IN  CASE s = Unconfirmed /\ mine = Unconfirmed /\ theirs \in {Unconfirmed, Confirmed} -> Confirmed
          [] s = DeleteProposed /\ {mine, theirs} \subseteq {DeleteProposed, None} -> None
          [] OTHER -> s

\* Steg 2 after Steg 1, asked of the two nodes' own states.
LEMMA ConsensusAnswers ==
  ASSUME NEW o, NEW mine, NEW theirs, o.SyncState = FollowState(mine, theirs)
  PROVE  Consensus(o, mine, {mine, theirs}).SyncState = Answer(mine, theirs)
<1>1. PICK s : s = FollowState(mine, theirs)
  OBVIOUS
<1>2. CASE s = Unconfirmed
  BY <1>1, <1>2 DEF Consensus, Answer, None, Unconfirmed, Confirmed, DeleteProposed
<1>3. CASE s = DeleteProposed
  BY <1>1, <1>3 DEF Consensus, Answer, NoOrder, None, Unconfirmed, Confirmed, DeleteProposed
<1>4. CASE s \notin {Unconfirmed, DeleteProposed}
  BY <1>1, <1>4 DEF Consensus, Answer
<1> QED BY <1>2, <1>3, <1>4

LEMMA TwoNodesAnswer ==
  ASSUME NEW n \in Node, NEW m \in Node, n # m, Node = {n, m}, NEW snap \in GoodSnapshot,
         \A k \in Node : snap[k].live /\ snap[k].hall \in Owned,
         NEW h \in syncHallOrders(snap, n), NEW c \in Cell
  PROVE  h[c].SyncState = Answer(snap[n].hall[c].SyncState, snap[m].hall[c].SyncState)
<1> DEFINE live == {k \in Node : snap[k].live}
           results(visit) == [d \in Cell |-> SyncCell(snap, n, d, live, visit)]
           mine   == snap[n].hall[c]
           theirs == snap[m].hall[c]
           orders == {snap[k].hall[c] : k \in live}
           states == {snap[k].hall[c].SyncState : k \in live}
           seen(visit) == [i \in DOMAIN visit |-> snap[visit[i]].hall[c].SyncState]
           count  == Cardinality(live \ {n})
<1>1. PICK visit \in VisitOrders(live \ {n}) :
         h \in {g \in [Cell -> UNION {results(visit)[d] : d \in Cell}] :
                  \A d \in Cell : g[d] \in results(visit)[d]}
  BY DEF syncHallOrders
<1>2. h[c] \in SyncCell(snap, n, c, live, visit)
  BY <1>1
<1>3. live = {n, m} /\ live \ {n} = {m}
  OBVIOUS
<1>4. count = 1
  BY <1>3, FS_Singleton
<1>5. seen(visit)[1] = theirs.SyncState
  <2>1. visit \in [1..1 -> {m}]
    BY <1>3, <1>4 DEF VisitOrders
  <2> QED BY <2>1
<1>6. states = {mine.SyncState, theirs.SyncState}
  BY <1>3
<1>7. /\ mine \in GoodOrder /\ mine.OwnerID # PeerDied
      /\ theirs \in GoodOrder
  BY DEF Owned, GoodHall
<1>8. PropagatePeerDied(mine, orders) = mine
  BY DEF PropagatePeerDied, LostOrder, Owned
<1>9. PICK o \in FollowPeers(mine, seen(visit), count) :
         h[c] = Normalise(Consensus(o, mine.SyncState, states))
  BY <1>2, <1>8 DEF SyncCell
<1> HIDE DEF seen, count, states, live
<1>10. o = [mine EXCEPT !.SyncState = FollowState(mine.SyncState, theirs.SyncState)]
  <2>1. PICK chain \in FollowChains(mine.SyncState, seen(visit), count) :
           o = [mine EXCEPT !.SyncState = chain[count]]
    BY <1>7, <1>9 DEF FollowPeers
  <2>2. chain[0] = mine.SyncState /\ chain[1] = FollowState(chain[0], seen(visit)[1])
    <3>1. 1 \in 1..1 /\ 1 - 1 = 0
      OBVIOUS
    <3> QED BY <1>4, <3>1 DEF FollowChains
  <2> QED BY <1>4, <1>5, <2>1, <2>2
<1>11. o.SyncState = FollowState(mine.SyncState, theirs.SyncState)
  BY <1>7, <1>10 DEF GoodOrder, Order
<1>12. Consensus(o, mine.SyncState, states).SyncState = Answer(mine.SyncState, theirs.SyncState)
  BY <1>6, <1>11, ConsensusAnswers
<1> QED BY <1>9, <1>12 DEF Normalise, NoOrder

-----------------------------------------------------------------------------
(* The cycle of an order without its wrap-around: Removed is the stage of   *)
(* None after DeleteProposed, so that stages only grow.                     *)

Removed == DeleteProposed + 1
Stages  == 0..Removed

\* Who is at stage x relies on another copy to be at y: nobody confirms an order
\* the other has not heard of, nobody removes one the other has not completed.
Needs(x, y) == (x >= Confirmed => y >= Unconfirmed) /\ (x = Removed => y >= DeleteProposed)

\* at: the stage of a node, peer: of the other one, heard: at which the node has
\* it; way: of worldviews under way from it; snaps: the node's own stage in
\* snapshots; old, new: the results in fromSync and syncing.
InStep(at, peer, heard, way, snaps, old, new) ==
    /\ heard <= peer
    /\ Needs(at, heard)
    /\ \A w \in way : heard <= w /\ w <= peer
    /\ \A o \in snaps : o <= at /\ Needs(at, o) /\ Needs(heard, o)
    /\ \A r \in old \cup new : /\ Needs(r, heard)
                               /\ Needs(r, at)
                               /\ Needs(at, r)
                               /\ at = Removed => r = Removed
    /\ \A o \in snaps, r \in old \cup new : Needs(r, o)
    /\ \A f \in old, g \in new : Needs(f, g) /\ (f = Removed => g = Removed)

LEMMA PeerMoves ==
  ASSUME NEW at \in Stages, NEW peer \in Stages, NEW peer2 \in Stages, NEW heard \in Stages,
         NEW way \in SUBSET Stages, NEW way2 \in SUBSET Stages,
         NEW snaps \in SUBSET Stages, NEW old \in SUBSET Stages, NEW new \in SUBSET Stages,
         InStep(at, peer, heard, way, snaps, old, new),
         peer <= peer2, \A w \in way2 : w \in way \/ w = peer
  PROVE  InStep(at, peer2, heard, way2, snaps, old, new)
  BY DEF InStep, Stages, Removed, DeleteProposed

LEMMA NodeAdvances ==
  ASSUME NEW at \in Stages, NEW at2 \in Stages, NEW peer \in Stages, NEW heard \in Stages,
         NEW way \in SUBSET Stages,
         NEW snaps \in SUBSET Stages, NEW old \in SUBSET Stages, NEW new \in SUBSET Stages,
         InStep(at, peer, heard, way, snaps, old, new), Needs(peer, at),
         \/ at2 = at
         \/ at = None /\ at2 = Unconfirmed
         \/ at = Confirmed /\ at2 = DeleteProposed
  PROVE  InStep(at2, peer, heard, way, {at2}, old, new)
  BY DEF InStep, Needs, Stages, Removed, None, Unconfirmed, Confirmed, DeleteProposed

LEMMA NodeHears ==
  ASSUME NEW at \in Stages, NEW peer \in Stages, NEW heard \in Stages, NEW heard2 \in Stages,
         NEW way \in SUBSET Stages,
         NEW snaps \in SUBSET Stages, NEW old \in SUBSET Stages, NEW new \in SUBSET Stages,
         InStep(at, peer, heard, way, snaps, old, new), Needs(peer, at),
         heard <= heard2, heard2 <= peer
  PROVE  InStep(at, peer, heard2, {}, {at}, old, new)
<1>1. ASSUME NEW x \in Stages, Needs(x, heard) PROVE Needs(x, heard2)
  BY <1>1 DEF Needs, Stages, Removed, Unconfirmed, Confirmed, DeleteProposed
<1>2. Needs(heard2, at) /\ Needs(at, at)
  BY DEF Needs, Stages, Removed, Unconfirmed, Confirmed, DeleteProposed
<1>3. Needs(at, heard2) /\ \A r \in old \cup new : Needs(r, heard2)
  BY <1>1 DEF InStep
<1>4. at <= at
  BY DEF Stages
<1> QED BY <1>2, <1>3, <1>4 DEF InStep

LEMMA NodeMerges ==
  ASSUME NEW at \in Stages, NEW at2 \in Stages, NEW peer \in Stages, NEW heard \in Stages,
         NEW way \in SUBSET Stages,
         NEW snaps \in SUBSET Stages, NEW old \in SUBSET Stages, NEW new \in SUBSET Stages,
         InStep(at, peer, heard, way, snaps, old, new), at <= at2, at2 = at \/ at2 \in old
  PROVE  InStep(at2, peer, heard, way, snaps, {}, new)
<1>1. CASE at2 = at
  BY <1>1 DEF InStep
<1>2. CASE at2 \in old
  <2>1. ASSUME NEW x \in Stages, Needs(x, at) PROVE Needs(x, at2)
    BY <2>1 DEF Needs, Stages, Removed, Unconfirmed, Confirmed, DeleteProposed
  <2>2. \A o \in snaps : o <= at2
    BY DEF InStep, Stages, Removed, DeleteProposed
  <2>3. \A g \in new : Needs(g, at2)
    BY <2>1 DEF InStep
  <2> QED BY <1>2, <2>2, <2>3 DEF InStep
<1> QED BY <1>1, <1>2

LEMMA NodePuts ==
  ASSUME NEW at, NEW peer, NEW heard, NEW way, NEW snaps, NEW old, NEW new,
         InStep(at, peer, heard, way, snaps, old, new)
  PROVE  InStep(at, peer, heard, way, snaps, new, {})
  BY DEF InStep

\* What the sync goroutine answers in stages, of its own order at o and the other's at p.
Plain(s) == IF s = Removed THEN None ELSE s
AnswerStage(at, o, p) == LET s == Answer(Plain(o), Plain(p))
                         IN  IF s = None /\ at >= DeleteProposed THEN Removed ELSE s

LEMMA AnswerInStep ==
  ASSUME NEW at \in Stages, NEW heard \in Stages, NEW o \in Stages, NEW r,
         Needs(at, heard), o <= at, Needs(at, o), Needs(heard, o), Needs(heard, at),
         r = AnswerStage(at, o, heard)
  PROVE  /\ r \in Stages
         /\ Needs(r, heard) /\ Needs(r, at) /\ Needs(at, r)
         /\ at = Removed => r = Removed
         /\ \A f \in Stages : /\ Needs(f, heard) /\ Needs(f, at) /\ Needs(at, f) /\ Needs(f, o)
                              /\ at = Removed => f = Removed
                              => Needs(f, r) /\ (f = Removed => r = Removed)
  BY DEF AnswerStage, Answer, Plain, FollowState, nextOrderState, secondToNextOrderState,
     Needs, Stages, Removed, None, Unconfirmed, Confirmed, DeleteProposed

LEMMA NodeAnswers ==
  ASSUME NEW at \in Stages, NEW peer \in Stages, NEW heard \in Stages,
         NEW way \in SUBSET Stages,
         NEW snaps \in SUBSET Stages, NEW old \in SUBSET Stages,
         InStep(at, peer, heard, way, snaps, old, {}), Needs(peer, at),
         NEW o \in snaps, NEW r, r = AnswerStage(at, o, heard)
  PROVE  /\ r \in Stages
         /\ InStep(at, peer, heard, way, {}, old, {r})
         /\ InStep(at, peer, heard, way, {}, {r}, {})
<1>1. Needs(heard, at)
  BY DEF InStep, Needs, Stages, Removed, Unconfirmed, Confirmed, DeleteProposed
<1>2. /\ Needs(at, heard) /\ o <= at /\ Needs(at, o) /\ Needs(heard, o) /\ o \in Stages
      /\ \A f \in old : /\ Needs(f, heard) /\ Needs(f, at) /\ Needs(at, f) /\ Needs(f, o)
                        /\ at = Removed => f = Removed
  BY DEF InStep
<1>3. /\ r \in Stages
      /\ Needs(r, heard) /\ Needs(r, at) /\ Needs(at, r)
      /\ at = Removed => r = Removed
      /\ \A f \in old : Needs(f, r) /\ (f = Removed => r = Removed)
  BY <1>1, <1>2, AnswerInStep
<1> QED BY <1>3 DEF InStep

\* Somebody presses the button of an order that is removed everywhere.
LEMMA PairStarts ==
  ASSUME NEW at \in 0..1, NEW peer \in 0..1,
         NEW snaps \in SUBSET (0..1), NEW way \in SUBSET {0}, NEW old \in SUBSET {0}, NEW new \in SUBSET {0},
         \A o \in snaps : o <= at
  PROVE  InStep(at, peer, 0, way, snaps, old, new)
  BY DEF InStep, Needs, Removed, Unconfirmed, Confirmed, DeleteProposed

LEMMA PairNeeds ==
  ASSUME NEW at \in Stages, NEW peer \in Stages, NEW heard \in Stages, NEW heard2 \in Stages,
         heard2 <= at, Needs(peer, heard2)
  PROVE  Needs(peer, at)
  BY DEF Needs, Stages, Removed, Unconfirmed, Confirmed, DeleteProposed

\* n's order c is through with its cycle: there is no order, or n has removed it
\* before the other node has.
Done(n, c) == \/ \A k \in Node : SyncState(k, c) = None
              \/ \E m \in Node : completions[n][c] > completions[m][c]

Stage(done, s) == IF s = None /\ done THEN Removed ELSE s
Result(at, s)  == IF s = None /\ at >= DeleteProposed THEN Removed ELSE s

At(n, c)       == Stage(Done(n, c), SyncState(n, c))
Heard(n, m, c) == Stage(Done(m, c), worldviewsMap[n][m].hall[c].SyncState)
Way(n, m, c)   == {Stage(Done(m, c), msg.hall[c].SyncState) : msg \in wire[n][m]}
Snaps(n, c)    == {Stage(Done(n, c), snap[n].hall[c].SyncState) : snap \in toSync[n]}
Old(n, c)      == {Result(At(n, c), h[c].SyncState) : h \in fromSync[n]}
New(n, c)      == {Result(At(n, c), h[c].SyncState) : h \in syncing[n]}

PairInStep(n, m, c) ==
    InStep(At(n, c), At(m, c), Heard(n, m, c), Way(n, m, c), Snaps(n, c), Old(n, c), New(n, c))

Counted(n, m, c) ==
    /\ completions[n][c] > completions[m][c] => SyncState(n, c) = None
    /\ completions[n][c] <= completions[m][c] + 1
    /\ (\A k \in Node : SyncState(k, c) = None) => completions[n][c] = completions[m][c]
    /\ completions[n][c] + (IF Done(n, c) THEN 0 ELSE 1) <= MaxPress - budget.press

NodesInStep(c) == \A n, m \in Node : n # m => PairInStep(n, m, c) /\ Counted(n, m, c)

LEMMA StatesTyped ==
  ASSUME Good, NEW n \in Node, NEW c \in Cell
  PROVE  /\ SyncState(n, c) \in 0..3
         /\ \A m \in Node : worldviewsMap[n][m].hall[c].SyncState \in 0..3
         /\ \A m \in Node : \A msg \in wire[n][m] : msg.hall[c].SyncState \in 0..3
         /\ \A msg \in outbox[n] : msg.hall[c].SyncState \in 0..3
         /\ \A snap \in toSync[n], m \in Node : snap[m].hall[c].SyncState \in 0..3
         /\ \A h \in fromSync[n] \cup syncing[n] : h[c].SyncState \in 0..3
<1>1. ASSUME NEW h \in GoodHall PROVE h[c].SyncState \in 0..3
  BY DEF GoodHall, GoodOrder, Order, OrderSyncState, None, DeleteProposed
<1>2. \A m \in Node : worldviewsMap[n][m].hall \in GoodHall
  BY DEF Good, GoodEntry
<1>3. \A m \in Node : \A msg \in wire[n][m] : msg.hall \in GoodHall
  BY DEF Good, GoodMessage
<1>4. \A msg \in outbox[n] : msg.hall \in GoodHall
  BY DEF Good, GoodMessage
<1>5. \A snap \in toSync[n], m \in Node : snap[m].hall \in GoodHall
  BY DEF Good, GoodSnapshot
<1>6. \A h \in fromSync[n] \cup syncing[n] : h \in GoodHall
  BY DEF Good
<1> QED BY <1>1, <1>2, <1>3, <1>4, <1>5, <1>6 DEF SyncState, hall

LEMMA StageTyped ==
  ASSUME NEW done, NEW s \in 0..3
  PROVE  /\ Stage(done, s) \in Stages
         /\ \A at : Result(at, s) \in Stages
         /\ Plain(Stage(done, s)) = s
  BY DEF Stage, Result, Plain, Stages, Removed, None, DeleteProposed

PairsTyped == \A n, m \in Node, c \in Cell :
    /\ At(n, c) \in Stages /\ Heard(n, m, c) \in Stages
    /\ Way(n, m, c) \in SUBSET Stages /\ Snaps(n, c) \in SUBSET Stages
    /\ Old(n, c) \in SUBSET Stages /\ New(n, c) \in SUBSET Stages

LEMMA PairTyped == Good => PairsTyped
  BY StatesTyped, StageTyped DEF PairsTyped, At, Heard, Way, Snaps, Old, New

LEMMA PairTypedNext == Good' => PairsTyped'
  BY PairTyped, PTL

\* An order that is not taken from None's last stage, and not removed.
Proceeds(n, c) == \/ UNCHANGED SyncState(n, c)
                  \/ SyncState(n, c)' # None /\ At(n, c) # Removed

Steady(c) == \A k \in Node : Done(k, c)' <=> Done(k, c)

LEMMA SteadyStep ==
  ASSUME NEW c \in Cell, BudgetBounded, Record, \A k \in Node : Proceeds(k, c),
         budget.press \in Nat, budget'.press \in Nat, budget'.press <= budget.press,
         NodesInStep(c)
  PROVE  /\ Steady(c)
         /\ \A n, m \in Node : n # m => Counted(n, m, c)'
<1>1. \A k \in Node : completions'[k][c] = completions[k][c] /\ completions[k][c] \in Nat
  BY DEF Record, BudgetBounded, Proceeds, Completes, None, DeleteProposed
<1>2. (\A k \in Node : SyncState(k, c)' = None) <=> (\A k \in Node : SyncState(k, c) = None)
  BY DEF Proceeds, At, Stage, Done
<1>3. Steady(c)
  BY <1>1, <1>2 DEF Steady, Done
<1>4. ASSUME NEW n \in Node, NEW m \in Node, n # m PROVE Counted(n, m, c)'
  <2>1. Counted(n, m, c)
    BY <1>4 DEF NodesInStep
  <2>2. completions[n][c] > completions[m][c] => SyncState(n, c)' = None
    <3> SUFFICES ASSUME completions[n][c] > completions[m][c] PROVE SyncState(n, c)' = None
      OBVIOUS
    <3>1. SyncState(n, c) = None /\ Done(n, c)
      BY <2>1 DEF Counted, Done
    <3> QED BY <3>1 DEF Proceeds, At, Stage
  <2>3. completions[n][c] + (IF Done(n, c)' THEN 0 ELSE 1) <= MaxPress - budget'.press
    BY <1>1, <1>3, <2>1, Bounds DEF Counted, Steady
  <2> QED BY <1>1, <1>2, <2>1, <2>2, <2>3 DEF Counted
<1> QED BY <1>3, <1>4

\* k does nothing; the other node's order moves on or is on its way.
LEMMA PairUnmoved ==
  ASSUME Good, Good', NEW c \in Cell, NEW k \in Node, NEW j \in Node, PairInStep(k, j, c),
         Done(k, c)' <=> Done(k, c),
         \/ Done(j, c)' <=> Done(j, c)
         \/ /\ worldviewsMap[k][j].hall[c].SyncState # None
            /\ \A msg \in wire'[k][j] : msg.hall[c].SyncState # None,
         worldviewsMap'[k][j].hall[c].SyncState = worldviewsMap[k][j].hall[c].SyncState,
         SyncState(k, c)' = SyncState(k, c),
         toSync'[k] = toSync[k], syncing'[k] = syncing[k], fromSync'[k] = fromSync[k],
         \A msg \in wire'[k][j] : msg \in wire[k][j] \/ msg.hall[c].SyncState = SyncState(j, c),
         At(j, c) <= At(j, c)'
  PROVE  PairInStep(k, j, c)'
<1>1. At(k, c)' = At(k, c)
  BY DEF At, Stage
<1>2. Heard(k, j, c)' = Heard(k, j, c)
  BY DEF Heard, Stage
<1>3. Snaps(k, c)' = Snaps(k, c)
  BY DEF Snaps, Stage
<1>4. Old(k, c)' = Old(k, c) /\ New(k, c)' = New(k, c)
  BY <1>1 DEF Old, New
<1>5. \A w \in Way(k, j, c)' : w \in Way(k, j, c) \/ w = At(j, c)
  BY DEF Way, At, Stage
<1>6. /\ At(k, c) \in Stages /\ Heard(k, j, c) \in Stages /\ At(j, c) \in Stages
      /\ Way(k, j, c) \in SUBSET Stages /\ Snaps(k, c) \in SUBSET Stages
      /\ Old(k, c) \in SUBSET Stages /\ New(k, c) \in SUBSET Stages
      /\ At(j, c)' \in Stages /\ Way(k, j, c)' \in SUBSET Stages
  BY PairTyped, PairTypedNext DEF PairsTyped
<1>7. InStep(At(k, c), At(j, c)', Heard(k, j, c), Way(k, j, c)', Snaps(k, c), Old(k, c), New(k, c))
  BY <1>5, <1>6, PeerMoves DEF PairInStep
<1> QED BY <1>1, <1>2, <1>3, <1>4, <1>7 DEF PairInStep

\* n's goroutine stores a new map and sends it on.
LEMMA UpdateSends ==
  ASSUME Good, NEW n \in Node, NEW c \in Cell, NEW views, Update(n, views)
  PROVE  /\ \E snap : toSync'[n] = {snap} /\ snap[n].hall = hall(n)'
         /\ \A k \in Node \ {n} : toSync'[k] = toSync[k] /\ SyncState(k, c)' = SyncState(k, c)
<1>1. /\ worldviewsMap' = [worldviewsMap EXCEPT ![n] = views]
      /\ toSync' = [toSync EXCEPT ![n] =
                      {[m \in Node |-> [hall |-> views[m].hall, live |-> Live(views[m])]]}]
      /\ worldviewsMap \in [Node -> [Node -> GoodEntry]]
      /\ toSync \in [Node -> SUBSET GoodSnapshot]
  BY DEF Update, sendLatestToSync, Good
<1>2. PICK snap : /\ snap = [m \in Node |-> [hall |-> views[m].hall, live |-> Live(views[m])]]
                  /\ toSync'[n] = {snap}
  BY <1>1
<1> QED BY <1>1, <1>2 DEF hall, SyncState

LEMMA OwnUpdateSends ==
  ASSUME Good, NEW n \in Node, NEW c \in Cell, NEW h, OwnUpdate(n, h)
  PROVE  /\ \E snap : toSync'[n] = {snap} /\ snap[n].hall = hall(n)'
         /\ \A k \in Node \ {n} : toSync'[k] = toSync[k] /\ SyncState(k, c)' = SyncState(k, c)
<1>1. PICK views : Update(n, views)
  BY DEF OwnUpdate
<1> QED BY <1>1, UpdateSends

\* Both nodes' copies are related at button c.
BothInStep(n, m, c) == PairInStep(n, m, c) /\ PairInStep(m, n, c)

LEMMA BothNeed ==
  ASSUME Good, NEW n \in Node, NEW m \in Node, NEW c \in Cell, BothInStep(n, m, c)
  PROVE  Needs(At(m, c), At(n, c))
<1>1. PICK at, peer, heard : at = At(n, c) /\ peer = At(m, c) /\ heard = Heard(m, n, c)
  OBVIOUS
<1>2. heard <= at /\ Needs(peer, heard)
  BY <1>1 DEF BothInStep, PairInStep, InStep
<1>3. at \in Stages /\ peer \in Stages /\ heard \in Stages
  BY <1>1, PairTyped DEF PairsTyped
<1>4. Needs(peer, at)
  BY <1>2, <1>3, PairNeeds
<1> QED BY <1>1, <1>4

\* The stages at which a served or pressed order moves on.
Advances(n, c) == \/ UNCHANGED SyncState(n, c)
                  \/ SyncState(n, c) = Confirmed /\ SyncState(n, c)' = DeleteProposed
                  \/ At(n, c) = None /\ SyncState(n, c)' = Unconfirmed

LEMMA AdvanceStage ==
  ASSUME Good, NEW n \in Node, NEW c \in Cell, Steady(c), Advances(n, c)
  PROVE  /\ \/ At(n, c)' = At(n, c)
            \/ At(n, c) = None /\ At(n, c)' = Unconfirmed
            \/ At(n, c) = Confirmed /\ At(n, c)' = DeleteProposed
         /\ At(n, c) <= At(n, c)'
<1>1. CASE UNCHANGED SyncState(n, c)
  <2>1. At(n, c)' = At(n, c)
    BY <1>1 DEF Steady, At, Stage
  <2> QED BY <2>1, PairTyped DEF PairsTyped, Stages, Removed, DeleteProposed
<1>2. CASE SyncState(n, c) = Confirmed /\ SyncState(n, c)' = DeleteProposed
  BY <1>2 DEF At, Stage, None, Confirmed, DeleteProposed
<1>3. CASE At(n, c) = None /\ SyncState(n, c)' = Unconfirmed
  <2>1. At(n, c)' = Unconfirmed
    BY <1>3 DEF At, Stage, None, Unconfirmed
  <2> QED BY <1>3, <2>1 DEF None, Unconfirmed
<1> QED BY <1>1, <1>2, <1>3 DEF Advances

LEMMA OwnUpdateInStep ==
  ASSUME Good, Good', NEW n \in Node, NEW m \in Node, n # m, NEW c \in Cell,
         BothInStep(n, m, c), Steady(c), Advances(n, c), NEW h, OwnUpdate(n, h)
  PROVE  BothInStep(n, m, c)'
<1>1. /\ hall(n)' = h
      /\ \A k, j \in Node : ~(k = n /\ j = n) => worldviewsMap'[k][j].hall = worldviewsMap[k][j].hall
  BY OwnHallStep
<1>2. PICK snap : toSync'[n] = {snap} /\ snap[n].hall = hall(n)'
  BY OwnUpdateSends
<1>3. toSync'[m] = toSync[m] /\ SyncState(m, c)' = SyncState(m, c)
  BY OwnUpdateSends
<1>4. UNCHANGED <<syncing, fromSync, wire>>
  BY DEF OwnUpdate
<1>5. /\ \/ At(n, c)' = At(n, c)
         \/ At(n, c) = None /\ At(n, c)' = Unconfirmed
         \/ At(n, c) = Confirmed /\ At(n, c)' = DeleteProposed
      /\ At(n, c) <= At(n, c)'
  BY AdvanceStage
<1>6. PairInStep(m, n, c)'
  BY <1>1, <1>3, <1>4, <1>5, PairUnmoved DEF BothInStep, Steady
<1>7. /\ At(m, c)' = At(m, c) /\ Heard(n, m, c)' = Heard(n, m, c)
      /\ Way(n, m, c)' = Way(n, m, c)
  BY <1>1, <1>3, <1>4 DEF Steady, At, Heard, Way, Stage
<1>8. Snaps(n, c)' = {At(n, c)'}
  BY <1>2 DEF Snaps, At, SyncState
<1>9. Old(n, c)' = Old(n, c) /\ New(n, c)' = New(n, c)
  <2>1. ASSUME NEW k \in fromSync[n] \cup syncing[n]
        PROVE  Result(At(n, c)', k[c].SyncState) = Result(At(n, c), k[c].SyncState)
    <3>1. CASE At(n, c) = Confirmed
      <4>1. Result(At(n, c), k[c].SyncState) \in Old(n, c) \cup New(n, c)
        BY DEF Old, New
      <4>2. Needs(At(n, c), Result(At(n, c), k[c].SyncState))
        BY <4>1 DEF BothInStep, PairInStep, InStep
      <4>3. k[c].SyncState # None
        BY <3>1, <4>2 DEF Needs, Result, None, Unconfirmed, Confirmed, DeleteProposed
      <4> QED BY <4>3 DEF Result
    <3>2. CASE At(n, c) # Confirmed
      BY <1>5, <3>2 DEF Result, None, Unconfirmed, DeleteProposed
    <3> QED BY <3>1, <3>2
  <2> QED BY <1>4, <2>1 DEF Old, New
<1>10. Needs(At(m, c), At(n, c))
  BY BothNeed
<1>11. /\ At(n, c) \in Stages /\ Heard(n, m, c) \in Stages /\ At(m, c) \in Stages
       /\ Way(n, m, c) \in SUBSET Stages /\ Snaps(n, c) \in SUBSET Stages
       /\ Old(n, c) \in SUBSET Stages /\ New(n, c) \in SUBSET Stages
       /\ At(n, c)' \in Stages
  BY PairTyped, PairTypedNext DEF PairsTyped
<1>12. InStep(At(n, c)', At(m, c), Heard(n, m, c), Way(n, m, c), {At(n, c)'}, Old(n, c), New(n, c))
  BY <1>5, <1>10, <1>11, NodeAdvances DEF BothInStep, PairInStep
<1>13. PairInStep(n, m, c)'
  BY <1>7, <1>8, <1>9, <1>12 DEF PairInStep
<1> QED BY <1>6, <1>13 DEF BothInStep

LEMMA HearsInStep ==
  ASSUME Good, Good', UpToDate, NEW n \in Node, NEW m \in Node, NEW c \in Cell,
         BothInStep(n, m, c), Steady(c), NEW msg \in Arriving(n, m), Hears(n, m, msg)
  PROVE  BothInStep(n, m, c)'
<1>1. /\ m # n
      /\ wire' = [wire EXCEPT ![n][m] = @ \ {msg}]
      /\ UNCHANGED <<syncing, fromSync>>
      /\ \A k, j \in Node : wire[k][j] \in SUBSET GoodMessage
      /\ wire \in [Node -> [Node -> SUBSET GoodMessage]]
  BY DEF Hears, Good
<1>2. /\ worldviewsMap'[n][m].hall = msg.hall
      /\ \A k, j \in Node : ~(k = n /\ j = m) => worldviewsMap'[k][j] = worldviewsMap[k][j]
  BY HearsSets
<1>3. \A k \in Node : hall(k)' = hall(k) /\ SyncState(k, c)' = SyncState(k, c)
  BY <1>1, <1>2 DEF hall, SyncState
<1>4. PICK snap : toSync'[n] = {snap} /\ snap[n].hall = hall(n)'
  BY UpdateSends DEF Hears
<1>5. toSync'[m] = toSync[m]
  BY <1>1, UpdateSends DEF Hears
<1>6. \A k \in Node : At(k, c)' = At(k, c)
  BY <1>3 DEF Steady, At, Stage
<1>7. /\ At(n, c) \in Stages /\ Heard(n, m, c) \in Stages /\ At(m, c) \in Stages
      /\ Way(n, m, c) \in SUBSET Stages /\ Snaps(n, c) \in SUBSET Stages
      /\ Old(n, c) \in SUBSET Stages /\ New(n, c) \in SUBSET Stages
      /\ Heard(n, m, c)' \in Stages
  BY PairTyped, PairTypedNext DEF PairsTyped
<1>8. PairInStep(m, n, c)'
  <2>1. wire'[m][n] = wire[m][n]
    BY <1>1
  <2>2. At(n, c) <= At(n, c)'
    BY <1>6, <1>7 DEF Stages, Removed, DeleteProposed
  <2> QED BY <1>1, <1>2, <1>3, <1>5, <2>1, <2>2, PairUnmoved DEF BothInStep, Steady
<1>9. wire'[n][m] = {}
  <2>1. wire'[n][m] = wire[n][m] \ {msg}
    BY <1>1
  <2>2. CASE MaxInFlight > 0
    <3>1. msg \in wire[n][m]
      BY <2>2 DEF Arriving
    <3> QED BY <2>1, <3>1 DEF UpToDate, OneUnderWay
  <2>3. CASE ~(MaxInFlight > 0)
    <3>1. MaxInFlight = 0
      BY <2>3, Bounds
    <3> QED BY <2>1, <3>1 DEF UpToDate, OneUnderWay
  <2> QED BY <2>2, <2>3
<1>10. Heard(n, m, c) <= Heard(n, m, c)' /\ Heard(n, m, c)' <= At(m, c)
  <2>1. Heard(n, m, c)' = Stage(Done(m, c), msg.hall[c].SyncState)
    BY <1>2 DEF Heard, Steady, Stage
  <2>2. CASE msg \in wire[n][m]
    <3>1. Heard(n, m, c)' \in Way(n, m, c)
      BY <2>1, <2>2 DEF Way
    <3> QED BY <3>1 DEF BothInStep, PairInStep, InStep
  <2>3. CASE msg \in outbox[m]
    <3>1. Heard(n, m, c)' = At(m, c)
      BY <2>1, <2>3 DEF UpToDate, At, SyncState
    <3> QED BY <1>7, <3>1 DEF BothInStep, PairInStep, InStep, Stages, Removed, DeleteProposed
  <2> QED BY <2>2, <2>3 DEF Arriving
<1>11. Way(n, m, c)' = {} /\ Snaps(n, c)' = {At(n, c)}
  <2>1. Way(n, m, c)' = {}
    BY <1>9 DEF Way
  <2>2. Snaps(n, c)' = {At(n, c)'}
    BY <1>4 DEF Snaps, At, SyncState
  <2> QED BY <1>6, <2>1, <2>2
<1>12. Old(n, c)' = Old(n, c) /\ New(n, c)' = New(n, c)
  BY <1>1, <1>6 DEF Old, New
<1>13. Needs(At(m, c), At(n, c))
  BY BothNeed
<1>14. InStep(At(n, c), At(m, c), Heard(n, m, c)', {}, {At(n, c)}, Old(n, c), New(n, c))
  BY <1>7, <1>10, <1>13, NodeHears DEF BothInStep, PairInStep
<1>15. PairInStep(n, m, c)'
  BY <1>6, <1>11, <1>12, <1>14 DEF PairInStep
<1> QED BY <1>8, <1>15 DEF BothInStep

\* Steps that change no orders and take no snapshot from a sync goroutine.
LEMMA QuietInStep ==
  ASSUME Good, Good', NEW n \in Node, NEW m \in Node, NEW c \in Cell,
         BothInStep(n, m, c), Steady(c),
         \A k, j \in Node : worldviewsMap'[k][j].hall[c].SyncState = worldviewsMap[k][j].hall[c].SyncState,
         UNCHANGED <<toSync, syncing, fromSync>>,
         \A k, j \in Node : \A msg \in wire'[k][j] :
            msg \in wire[k][j] \/ msg.hall[c].SyncState = SyncState(j, c)
  PROVE  BothInStep(n, m, c)'
<1>1. \A k \in Node : SyncState(k, c)' = SyncState(k, c)
  BY DEF SyncState, hall
<1>2. \A k \in Node : At(k, c)' = At(k, c) /\ At(k, c) \in Stages
  BY <1>1, PairTyped DEF Steady, At, Stage, PairsTyped
<1>3. \A k \in Node : At(k, c) <= At(k, c)'
  BY <1>2 DEF Stages, Removed, DeleteProposed
<1> QED BY <1>1, <1>3, PairUnmoved DEF BothInStep, Steady

LEMMA PutInStep ==
  ASSUME Good, Good', NEW n \in Node, NEW m \in Node, n # m, NEW c \in Cell,
         BothInStep(n, m, c), Steady(c), SyncPut(n)
  PROVE  BothInStep(n, m, c)'
<1>1. /\ UNCHANGED <<worldviewsMap, toSync, wire>>
      /\ fromSync' = [fromSync EXCEPT ![n] = syncing[n]] /\ syncing' = [syncing EXCEPT ![n] = {}]
  BY DEF SyncPut, nodeVars
<1>2. \A k \in Node : SyncState(k, c)' = SyncState(k, c)
  BY <1>1 DEF SyncState, hall
<1>3. \A k \in Node : At(k, c)' = At(k, c) /\ At(k, c) \in Stages
  BY <1>2, PairTyped DEF Steady, At, Stage, PairsTyped
<1>4. At(n, c) <= At(n, c)'
  BY <1>3 DEF Stages, Removed, DeleteProposed
<1>5. /\ fromSync'[m] = fromSync[m] /\ syncing'[m] = syncing[m]
      /\ fromSync'[n] = syncing[n] /\ syncing'[n] = {}
  BY <1>1 DEF Good
<1>6. PairInStep(m, n, c)'
  BY <1>1, <1>2, <1>4, <1>5, PairUnmoved DEF BothInStep, Steady
<1>7. /\ Heard(n, m, c)' = Heard(n, m, c) /\ Way(n, m, c)' = Way(n, m, c)
      /\ Snaps(n, c)' = Snaps(n, c)
  BY <1>1 DEF Steady, Heard, Way, Snaps, Stage
<1>8. Old(n, c)' = New(n, c) /\ New(n, c)' = {}
  BY <1>3, <1>5 DEF Old, New
<1>9. InStep(At(n, c), At(m, c), Heard(n, m, c), Way(n, m, c), Snaps(n, c), New(n, c), {})
  BY NodePuts DEF BothInStep, PairInStep
<1>10. PairInStep(n, m, c)'
  BY <1>3, <1>7, <1>8, <1>9 DEF PairInStep
<1> QED BY <1>6, <1>10 DEF BothInStep

LEMMA TakeInStep ==
  ASSUME Good, Good', Undisturbed, UpToDate, NEW n \in Node, NEW m \in Node, n # m, Node = {n, m},
         NEW c \in Cell, BothInStep(n, m, c), Steady(c), SyncTake(n)
  PROVE  BothInStep(n, m, c)'
<1>1. PICK snap \in toSync[n] : \E h \in syncHallOrders(snap, n) :
         \/ syncing' = [syncing EXCEPT ![n] = {h}] /\ UNCHANGED fromSync
         \/ fromSync' = [fromSync EXCEPT ![n] = {h}] /\ UNCHANGED syncing
  BY DEF SyncTake
<1>2. PICK h \in syncHallOrders(snap, n) :
         \/ syncing' = [syncing EXCEPT ![n] = {h}] /\ UNCHANGED fromSync
         \/ fromSync' = [fromSync EXCEPT ![n] = {h}] /\ UNCHANGED syncing
  BY <1>1
<1>3. /\ UNCHANGED <<worldviewsMap, wire>> /\ syncing[n] = {}
      /\ toSync' = [toSync EXCEPT ![n] = {}]
  BY DEF SyncTake, nodeVars
<1>4. \A k \in Node : SyncState(k, c)' = SyncState(k, c)
  BY <1>3 DEF SyncState, hall
<1>5. \A k \in Node : At(k, c)' = At(k, c)
  BY <1>4 DEF Steady, At, Stage
<1>6. At(n, c) <= At(n, c)'
  BY <1>5, PairTyped DEF PairsTyped, Stages, Removed, DeleteProposed
<1>7. /\ toSync'[m] = toSync[m] /\ fromSync'[m] = fromSync[m] /\ syncing'[m] = syncing[m]
      /\ toSync'[n] = {}
      /\ \/ syncing'[n] = {h} /\ fromSync'[n] = fromSync[n]
         \/ syncing'[n] = {} /\ fromSync'[n] = {h}
  BY <1>2, <1>3 DEF Good
<1>8. PairInStep(m, n, c)'
  BY <1>3, <1>4, <1>6, <1>7, PairUnmoved DEF BothInStep, Steady
<1>9. /\ Heard(n, m, c)' = Heard(n, m, c) /\ Way(n, m, c)' = Way(n, m, c)
      /\ Snaps(n, c)' = {}
  BY <1>3, <1>7 DEF Steady, Heard, Way, Snaps, Stage
<1>10. PICK o, r : /\ o = Stage(Done(n, c), snap[n].hall[c].SyncState)
                  /\ r = Result(At(n, c), h[c].SyncState)
  OBVIOUS
<1>11. r = AnswerStage(At(n, c), o, Heard(n, m, c))
  <2>1. snap \in GoodSnapshot
    BY DEF Good
  <2>2. \A k \in Node : snap[k].live /\ snap[k].hall \in Owned
    BY DEF Undisturbed, AllUpAndLive, Within, Copies
  <2>3. h[c].SyncState = Answer(snap[n].hall[c].SyncState, snap[m].hall[c].SyncState)
    BY <2>1, <2>2, TwoNodesAnswer
  <2>4. snap[m].hall = worldviewsMap[n][m].hall
    BY DEF UpToDate
  <2>5. /\ Plain(o) = snap[n].hall[c].SyncState
        /\ Plain(Heard(n, m, c)) = snap[m].hall[c].SyncState
    BY <1>10, <2>4, StatesTyped, StageTyped DEF Heard
  <2> QED BY <1>10, <2>3, <2>5 DEF AnswerStage, Result
<1>12. /\ At(n, c) \in Stages /\ Heard(n, m, c) \in Stages /\ At(m, c) \in Stages
       /\ Way(n, m, c) \in SUBSET Stages /\ Snaps(n, c) \in SUBSET Stages
       /\ Old(n, c) \in SUBSET Stages
  BY PairTyped DEF PairsTyped
<1>13. New(n, c) = {} /\ o \in Snaps(n, c) /\ Needs(At(m, c), At(n, c))
  BY <1>3, <1>10, BothNeed DEF New, Snaps
<1>14. /\ InStep(At(n, c), At(m, c), Heard(n, m, c), Way(n, m, c), {}, Old(n, c), {r})
       /\ InStep(At(n, c), At(m, c), Heard(n, m, c), Way(n, m, c), {}, {r}, {})
  <2>1. InStep(At(n, c), At(m, c), Heard(n, m, c), Way(n, m, c), Snaps(n, c), Old(n, c), {})
    BY <1>13 DEF BothInStep, PairInStep
  <2> QED BY <1>11, <1>12, <1>13, <2>1, NodeAnswers
<1>15. \/ Old(n, c)' = Old(n, c) /\ New(n, c)' = {r}
       \/ Old(n, c)' = {r} /\ New(n, c)' = {}
  BY <1>5, <1>7, <1>10 DEF Old, New
<1>16. PairInStep(n, m, c)'
  BY <1>5, <1>9, <1>14, <1>15 DEF PairInStep
<1> QED BY <1>8, <1>16 DEF BothInStep

\* A result r of the sync goroutine, as the stage f, meets the state s, at the stage at.
LEMMA MergedStage ==
  ASSUME NEW s \in 0..3, NEW r \in 0..3, NEW done \in BOOLEAN, NEW at, NEW f, NEW merged,
         at = Stage(done, s), f = Result(at, r), merged = Merged(s, r),
         Needs(f, at), Needs(at, f), at = Removed => f = Removed
  PROVE  \/ /\ merged = s \/ (merged # None /\ at # Removed)
            /\ ~(s = DeleteProposed /\ merged = None)
            /\ at <= Stage(done, merged)
            /\ Stage(done, merged) = at \/ Stage(done, merged) = f
         \/ s = DeleteProposed /\ merged = None /\ f = Removed
  BY DEF Stage, Result, Merged, Needs, Removed, None, Unconfirmed, Confirmed, DeleteProposed

\* What the sync goroutine's result leaves alone.
LEMMA OwnSendSets ==
  ASSUME Good, NEW n \in Node, NEW m \in Node, n # m, NEW c \in Cell, NEW h, OwnSend(n, h),
         fromSync' = [fromSync EXCEPT ![n] = {}]
  PROVE  /\ hall(n)' = h /\ SyncState(m, c)' = SyncState(m, c)
         /\ \A k, j \in Node : ~(k = n /\ j = n) => worldviewsMap'[k][j].hall = worldviewsMap[k][j].hall
         /\ UNCHANGED <<toSync, syncing, wire>>
         /\ fromSync'[n] = {} /\ fromSync'[m] = fromSync[m]
<1>1. /\ hall(n)' = h
      /\ \A k, j \in Node : ~(k = n /\ j = n) => worldviewsMap'[k][j].hall = worldviewsMap[k][j].hall
  BY OwnHallStep
<1> QED BY <1>1 DEF OwnSend, SyncState, hall, Good

\* n's own order reaches at2, its own stage or that of a result.
LEMMA MergeMoves ==
  ASSUME Good, Good', NEW n \in Node, NEW m \in Node, n # m, NEW c \in Cell,
         BothInStep(n, m, c), NEW h, OwnSend(n, h), fromSync' = [fromSync EXCEPT ![n] = {}],
         At(n, c) <= At(n, c)', At(n, c)' = At(n, c) \/ At(n, c)' \in Old(n, c),
         Done(m, c)' <=> Done(m, c),
         \/ Done(n, c)' <=> Done(n, c)
         \/ /\ worldviewsMap[m][n].hall[c].SyncState # None
            /\ \A msg \in wire[m][n] : msg.hall[c].SyncState # None
            /\ \A snap \in toSync[n] : snap[n].hall[c].SyncState # None
  PROVE  BothInStep(n, m, c)'
<1>1. /\ SyncState(m, c)' = SyncState(m, c)
      /\ \A k, j \in Node : ~(k = n /\ j = n) => worldviewsMap'[k][j].hall = worldviewsMap[k][j].hall
      /\ UNCHANGED <<toSync, syncing, wire>>
      /\ fromSync'[n] = {} /\ fromSync'[m] = fromSync[m]
  BY OwnSendSets
<1>2. PairInStep(m, n, c)'
  BY <1>1, PairUnmoved DEF BothInStep
<1>3. /\ At(m, c)' = At(m, c) /\ Heard(n, m, c)' = Heard(n, m, c) /\ Way(n, m, c)' = Way(n, m, c)
  BY <1>1 DEF At, Heard, Way, Stage
<1>4. Snaps(n, c)' = Snaps(n, c)
  BY <1>1 DEF Snaps, Stage
<1>5. Old(n, c)' = {}
  BY <1>1 DEF Old
<1>6. /\ At(n, c) \in Stages /\ Heard(n, m, c) \in Stages /\ At(m, c) \in Stages
      /\ Way(n, m, c) \in SUBSET Stages /\ Snaps(n, c) \in SUBSET Stages
      /\ Old(n, c) \in SUBSET Stages /\ New(n, c) \in SUBSET Stages
      /\ At(n, c)' \in Stages
  BY PairTyped, PairTypedNext DEF PairsTyped
<1>7. New(n, c)' = New(n, c)
  <2>1. ASSUME NEW k \in syncing[n]
        PROVE  Result(At(n, c)', k[c].SyncState) = Result(At(n, c), k[c].SyncState)
    <3>1. CASE At(n, c) < DeleteProposed /\ At(n, c)' >= DeleteProposed
      <4>1. Result(At(n, c), k[c].SyncState) \in New(n, c) /\ At(n, c)' \in Old(n, c)
        BY <1>6, <3>1 DEF New, Stages, DeleteProposed
      <4>2. Needs(At(n, c)', Result(At(n, c), k[c].SyncState))
        BY <4>1 DEF BothInStep, PairInStep, InStep
      <4>3. k[c].SyncState # None
        BY <3>1, <4>2, <1>6 DEF Needs, Result, Stages, None, Unconfirmed, Confirmed, DeleteProposed
      <4> QED BY <4>3 DEF Result
    <3>2. CASE ~(At(n, c) < DeleteProposed /\ At(n, c)' >= DeleteProposed)
      BY <1>6, <3>2 DEF Result, Stages, DeleteProposed
    <3> QED BY <3>1, <3>2
  <2> QED BY <1>1, <2>1 DEF New
<1>8. InStep(At(n, c)', At(m, c), Heard(n, m, c), Way(n, m, c), Snaps(n, c), {}, New(n, c))
  BY <1>6, NodeMerges DEF BothInStep, PairInStep
<1>9. PairInStep(n, m, c)'
  BY <1>3, <1>4, <1>5, <1>7, <1>8 DEF PairInStep
<1> QED BY <1>2, <1>9 DEF BothInStep

\* n removes the order: the other node has completed it, and no copy of n's is old.
LEMMA RemovalIsHeard ==
  ASSUME Good, NEW n \in Node, NEW m \in Node, NEW c \in Cell, BothInStep(n, m, c),
         SyncState(n, c) = DeleteProposed, Removed \in Old(n, c)
  PROVE  /\ At(m, c) >= DeleteProposed
         /\ Heard(n, m, c) >= DeleteProposed
         /\ worldviewsMap[m][n].hall[c].SyncState # None
         /\ \A msg \in wire[m][n] : msg.hall[c].SyncState # None
         /\ \A snap \in toSync[n] : snap[n].hall[c].SyncState # None
<1>1. /\ At(n, c) \in Stages /\ Heard(n, m, c) \in Stages /\ At(m, c) \in Stages
      /\ Heard(m, n, c) \in Stages
      /\ Way(m, n, c) \in SUBSET Stages /\ Snaps(n, c) \in SUBSET Stages
  BY PairTyped DEF PairsTyped
<1>2. At(n, c) = DeleteProposed
  BY DEF At, Stage, None, DeleteProposed
<1>3. Needs(Removed, Heard(n, m, c)) /\ Heard(n, m, c) <= At(m, c) /\ Needs(At(m, c), Heard(m, n, c))
  BY DEF BothInStep, PairInStep, InStep
<1>4. /\ Heard(m, n, c) <= At(n, c)
      /\ \A w \in Way(m, n, c) : Heard(m, n, c) <= w /\ w <= At(n, c)
      /\ \A o \in Snaps(n, c) : o <= At(n, c) /\ Needs(At(n, c), o)
  BY DEF BothInStep, PairInStep, InStep
<1>5. Heard(n, m, c) >= DeleteProposed /\ At(m, c) >= DeleteProposed
  BY <1>1, <1>3 DEF Needs, Stages, Removed, DeleteProposed
<1>6. Heard(m, n, c) >= Unconfirmed
  BY <1>1, <1>3, <1>5 DEF Needs, Stages, Removed, Unconfirmed, Confirmed, DeleteProposed
<1>7. ASSUME NEW done, NEW s, Stage(done, s) \in Unconfirmed..DeleteProposed PROVE s # None
  BY <1>7 DEF Stage, None, Unconfirmed, Removed, DeleteProposed
<1>8. worldviewsMap[m][n].hall[c].SyncState # None
  <2>1. Heard(m, n, c) \in Unconfirmed..DeleteProposed
    BY <1>1, <1>2, <1>4, <1>6 DEF Stages, Removed, Unconfirmed, DeleteProposed
  <2> QED BY <1>7, <2>1 DEF Heard
<1>9. ASSUME NEW msg \in wire[m][n] PROVE msg.hall[c].SyncState # None
  <2>1. Stage(Done(n, c), msg.hall[c].SyncState) \in Way(m, n, c)
    BY DEF Way
  <2>2. Stage(Done(n, c), msg.hall[c].SyncState) \in Unconfirmed..DeleteProposed
    BY <1>1, <1>2, <1>4, <1>6, <2>1 DEF Stages, Removed, Unconfirmed, DeleteProposed
  <2> QED BY <1>7, <2>2
<1>10. ASSUME NEW snap \in toSync[n] PROVE snap[n].hall[c].SyncState # None
  <2>1. Stage(Done(n, c), snap[n].hall[c].SyncState) \in Snaps(n, c)
    BY DEF Snaps
  <2>2. Stage(Done(n, c), snap[n].hall[c].SyncState) \in Unconfirmed..DeleteProposed
    BY <1>1, <1>2, <1>4, <2>1 DEF Needs, Stages, Removed, Unconfirmed, Confirmed, DeleteProposed
  <2> QED BY <1>7, <2>2
<1> QED BY <1>5, <1>8, <1>9, <1>10

\* ... and the counts stay in step.
LEMMA RemovalCounts ==
  ASSUME BudgetBounded, Record, NEW n \in Node, NEW m \in Node, n # m, Node = {n, m}, NEW c \in Cell,
         Counted(n, m, c), Counted(m, n, c),
         budget.press \in Nat, budget'.press \in Nat, budget'.press <= budget.press,
         Completes(n, c), UNCHANGED SyncState(m, c), At(m, c) >= DeleteProposed
  PROVE  /\ Done(n, c)'
         /\ Done(m, c)' <=> Done(m, c)
         /\ Counted(n, m, c)' /\ Counted(m, n, c)'
<1>1. SyncState(n, c) = DeleteProposed /\ SyncState(n, c)' = None
  BY DEF Completes
<1>2. completions[n][c] \in Nat /\ completions[m][c] \in Nat /\ MaxPress \in Nat
  BY Bounds DEF BudgetBounded
<1>3. ~Done(n, c) /\ completions[n][c] <= completions[m][c]
  BY <1>1, <1>2 DEF Done, Counted, None, DeleteProposed
<1>4. completions[n][c] + 1 <= MaxPress - budget.press
  BY <1>3 DEF Counted
<1>5. completions'[n][c] = completions[n][c] + 1
  BY <1>2, <1>4 DEF Record, CompletionCap
<1>6. completions'[m][c] = completions[m][c]
  BY DEF Record, Completes, None, DeleteProposed
<1>7. Done(m, c) <=> SyncState(m, c) = None
  <2>1. SyncState(m, c) = None => Done(m, c)
    BY DEF At, Stage, None, DeleteProposed
  <2>2. Done(m, c) => SyncState(m, c) = None
    BY <1>2 DEF Done, Counted
  <2> QED BY <2>1, <2>2
<1>8. Done(m, c) <=> completions[m][c] > completions[n][c]
  BY <1>1, <1>2 DEF Done, None, DeleteProposed
<1>9. completions[m][c] <= completions[n][c] + 1
  BY DEF Counted
<1>10. (\A k \in Node : SyncState(k, c)' = None) <=> SyncState(m, c) = None
  BY <1>1
<1>11. Done(m, c)' <=> Done(m, c)
  BY <1>2, <1>5, <1>6, <1>7, <1>8, <1>9, <1>10 DEF Done
<1>12. Done(n, c)'
  <2>1. SyncState(m, c) # None => completions'[n][c] > completions'[m][c]
    BY <1>2, <1>3, <1>5, <1>6, <1>7, <1>8
  <2> QED BY <1>10, <2>1 DEF Done
<1>13. Counted(n, m, c)'
  BY <1>1, <1>2, <1>3, <1>4, <1>5, <1>6, <1>7, <1>8, <1>9, <1>10, <1>12 DEF Counted
<1>14. Counted(m, n, c)'
  BY <1>1, <1>2, <1>3, <1>4, <1>5, <1>6, <1>7, <1>8, <1>9, <1>10, <1>11 DEF Counted
<1> QED BY <1>11, <1>12, <1>13, <1>14

LEMMA InStepOfBoth ==
  ASSUME NEW n \in Node, NEW m \in Node, n # m, Node = {n, m}, NEW c \in Cell
  PROVE  NodesInStep(c) <=> BothInStep(n, m, c) /\ Counted(n, m, c) /\ Counted(m, n, c)
  BY DEF NodesInStep, BothInStep

\* What a result of the sync goroutine does to n's order.
LEMMA ResultCases ==
  ASSUME Good, NEW n \in Node, NEW m \in Node, NEW c \in Cell, BothInStep(n, m, c),
         NEW h, hall(n)' = h, NEW synced \in fromSync[n],
         h[c].SyncState = Merged(SyncState(n, c), synced[c].SyncState)
  PROVE  \/ /\ Proceeds(n, c)
            /\ ~(SyncState(n, c) = DeleteProposed /\ SyncState(n, c)' = None)
            /\ At(n, c) <= Stage(Done(n, c), SyncState(n, c)')
            /\ \/ Stage(Done(n, c), SyncState(n, c)') = At(n, c)
               \/ Stage(Done(n, c), SyncState(n, c)') \in Old(n, c)
         \/ /\ SyncState(n, c) = DeleteProposed /\ SyncState(n, c)' = None
            /\ Removed \in Old(n, c)
<1>1. PICK s, r, merged, done : /\ s = SyncState(n, c) /\ r = synced[c].SyncState
                                /\ merged = SyncState(n, c)' /\ done = Done(n, c)
  OBVIOUS
<1>2. s \in 0..3 /\ r \in 0..3 /\ done \in BOOLEAN
  BY <1>1, StatesTyped DEF Done
<1>3. merged = Merged(s, r)
  BY <1>1 DEF SyncState
<1>4. PICK at, f : at = Stage(done, s) /\ f = Result(at, r)
  OBVIOUS
<1>5. at = At(n, c) /\ f \in Old(n, c)
  BY <1>1, <1>4 DEF At, Old
<1>6. Needs(f, at) /\ Needs(at, f) /\ (at = Removed => f = Removed)
  BY <1>5 DEF BothInStep, PairInStep, InStep
<1>7. \/ /\ merged = s \/ (merged # None /\ at # Removed)
         /\ ~(s = DeleteProposed /\ merged = None)
         /\ at <= Stage(done, merged)
         /\ Stage(done, merged) = at \/ Stage(done, merged) = f
      \/ s = DeleteProposed /\ merged = None /\ f = Removed
  BY <1>2, <1>3, <1>4, <1>6, MergedStage
<1>8. CASE s = DeleteProposed /\ merged = None /\ f = Removed
  BY <1>1, <1>5, <1>8
<1>9. CASE /\ merged = s \/ (merged # None /\ at # Removed)
           /\ ~(s = DeleteProposed /\ merged = None)
           /\ at <= Stage(done, merged)
           /\ Stage(done, merged) = at \/ Stage(done, merged) = f
  BY <1>1, <1>5, <1>9 DEF Proceeds
<1> QED BY <1>7, <1>8, <1>9

LEMMA ResultInStep ==
  ASSUME Good, Good', BudgetBounded, Record, NEW n \in Node, NEW m \in Node, n # m, Node = {n, m},
         NEW c \in Cell, NodesInStep(c), up'[n],
         budget.press \in Nat, budget'.press \in Nat, budget'.press <= budget.press,
         NEW h, OwnSend(n, h), fromSync' = [fromSync EXCEPT ![n] = {}], NEW synced \in fromSync[n],
         h[c].SyncState = Merged(SyncState(n, c), synced[c].SyncState)
  PROVE  NodesInStep(c)'
<1>1. BothInStep(n, m, c) /\ Counted(n, m, c) /\ Counted(m, n, c)
  BY InStepOfBoth
<1>2. hall(n)' = h /\ SyncState(m, c)' = SyncState(m, c)
  BY OwnSendSets
<1>3. CASE /\ Proceeds(n, c)
           /\ At(n, c) <= Stage(Done(n, c), SyncState(n, c)')
           /\ \/ Stage(Done(n, c), SyncState(n, c)') = At(n, c)
              \/ Stage(Done(n, c), SyncState(n, c)') \in Old(n, c)
  <2>1. \A k \in Node : Proceeds(k, c)
    BY <1>2, <1>3 DEF Proceeds
  <2>2. Steady(c) /\ Counted(n, m, c)' /\ Counted(m, n, c)'
    BY <2>1, SteadyStep
  <2>3. At(n, c)' = Stage(Done(n, c), SyncState(n, c)')
    BY <2>2 DEF Steady, At, Stage
  <2>4. BothInStep(n, m, c)'
    BY <1>1, <1>3, <2>2, <2>3, MergeMoves DEF Steady
  <2> QED BY <2>2, <2>4 DEF NodesInStep, BothInStep
<1>4. CASE /\ SyncState(n, c) = DeleteProposed /\ SyncState(n, c)' = None
           /\ Removed \in Old(n, c)
  <2>1. /\ At(m, c) >= DeleteProposed
        /\ worldviewsMap[m][n].hall[c].SyncState # None
        /\ \A msg \in wire[m][n] : msg.hall[c].SyncState # None
        /\ \A snap \in toSync[n] : snap[n].hall[c].SyncState # None
    BY <1>1, <1>4, RemovalIsHeard
  <2>2. /\ Done(n, c)'
        /\ Done(m, c)' <=> Done(m, c)
        /\ Counted(n, m, c)' /\ Counted(m, n, c)'
    <3>1. Completes(n, c)
      BY <1>4 DEF Completes
    <3> QED BY <1>1, <1>2, <2>1, <3>1, RemovalCounts
  <2>3. At(n, c) = DeleteProposed /\ At(n, c)' = Removed
    BY <1>4, <2>2 DEF At, Stage, None, DeleteProposed
  <2>4. At(n, c) <= At(n, c)'
    BY <2>3 DEF Removed, DeleteProposed
  <2>5. BothInStep(n, m, c)'
    BY <1>1, <1>4, <2>1, <2>2, <2>3, <2>4, MergeMoves
  <2> QED BY <2>2, <2>5 DEF NodesInStep, BothInStep
<1> QED BY <1>1, <1>2, <1>3, <1>4, ResultCases

\* A press that starts an order all of whose copies are gone.
LEMMA StartInStep ==
  ASSUME Good, Good', BudgetBounded, Record, NEW n \in Node, NEW m \in Node, n # m, Node = {n, m},
         NEW c \in Cell, NodesInStep(c), Within(Unpressed(c)), NEW h, OwnUpdate(n, h), Pressed(n, c),
         budget.press \in Nat, budget'.press \in Nat
  PROVE  NodesInStep(c)'
<1>1. Counted(n, m, c) /\ Counted(m, n, c)
  BY DEF NodesInStep
<1>2. /\ \A k \in Node : SyncState(k, c) = None
      /\ \A k, j \in Node : /\ worldviewsMap[k][j].hall[c].SyncState = None
                            /\ \A msg \in wire[k][j] : msg.hall[c].SyncState = None
      /\ \A k \in Node : /\ \A snap \in toSync[k] : snap[k].hall[c].SyncState = None
                         /\ \A g \in fromSync[k] \cup syncing[k] : g[c].SyncState = None
  BY DEF Within, Copies, Unpressed, OrdersIn, SyncState, hall
<1>3. /\ hall(n)' = h
      /\ \A k, j \in Node : ~(k = n /\ j = n) => worldviewsMap'[k][j].hall = worldviewsMap[k][j].hall
  BY OwnHallStep
<1>4. PICK snap : toSync'[n] = {snap} /\ snap[n].hall = hall(n)'
  BY OwnUpdateSends
<1>5. toSync'[m] = toSync[m] /\ SyncState(m, c)' = None /\ SyncState(n, c)' = Unconfirmed
  BY <1>2, OwnUpdateSends DEF Pressed
<1>6. UNCHANGED <<syncing, fromSync, wire>>
  BY DEF OwnUpdate
<1>7. \A k \in Node : completions'[k][c] = completions[k][c] /\ completions[k][c] \in Nat
  BY <1>2 DEF Record, Completes, BudgetBounded, None, DeleteProposed
<1>8. completions[n][c] = completions[m][c]
  BY <1>1, <1>2 DEF Counted
<1>9. ~Done(n, c)' /\ ~Done(m, c)'
  BY <1>5, <1>7, <1>8 DEF Done, None, Unconfirmed
<1>10. \A s : Stage(FALSE, s) = s
  BY DEF Stage
<1>11. /\ At(n, c)' = 1 /\ At(m, c)' = 0 /\ Heard(n, m, c)' = 0 /\ Heard(m, n, c)' = 0
  BY <1>2, <1>3, <1>5, <1>9 DEF At, Heard, Stage, None, Unconfirmed
<1>12. Way(n, m, c)' \subseteq {0} /\ Way(m, n, c)' \subseteq {0}
  BY <1>2, <1>6, <1>9 DEF Way, Stage, None
<1>13. Snaps(n, c)' \subseteq {1} /\ Snaps(m, c)' \subseteq {0}
  <2>1. Snaps(n, c)' \subseteq {1}
    BY <1>4, <1>5, <1>9 DEF Snaps, Stage, SyncState, None, Unconfirmed
  <2>2. Snaps(m, c)' \subseteq {0}
    BY <1>2, <1>5, <1>9 DEF Snaps, Stage, None
  <2> QED BY <2>1, <2>2
<1>14. \A k \in Node : Old(k, c)' \subseteq {0} /\ New(k, c)' \subseteq {0}
  BY <1>2, <1>6, <1>11 DEF Old, New, Result, None, DeleteProposed
<1>15. PairInStep(n, m, c)'
  <2>1. Snaps(n, c)' \in SUBSET (0..1) /\ \A o \in Snaps(n, c)' : o <= 1
    BY <1>13
  <2> QED BY <1>11, <1>12, <1>14, <2>1, PairStarts DEF PairInStep
<1>16. PairInStep(m, n, c)'
  <2>1. Snaps(m, c)' \in SUBSET (0..1) /\ \A o \in Snaps(m, c)' : o <= 0
    BY <1>13
  <2> QED BY <1>11, <1>12, <1>14, <2>1, PairStarts DEF PairInStep
<1>17. Counted(n, m, c)' /\ Counted(m, n, c)'
  <2>1. budget'.press < budget.press /\ MaxPress \in Nat
    BY Bounds DEF Pressed
  <2>2. Done(n, c) /\ Done(m, c)
    BY <1>2 DEF Done
  <2>3. completions[n][c] + 1 <= MaxPress - budget'.press
    BY <1>1, <1>7, <2>1, <2>2 DEF Counted
  <2> QED BY <1>5, <1>7, <1>8, <1>9, <2>1, <2>3 DEF Counted, None, Unconfirmed
<1> QED BY <1>15, <1>16, <1>17 DEF NodesInStep

\* A button starts an order anew only when no copy of the last one is left, or
\* as long as the node has not removed it.
PressesAreSpaced == \A n \in Node, c \in Cell :
    Pressed(n, c) => ~Done(n, c) \/ Within(Unpressed(c))

TwoNodes == \E n, m \in Node : n # m /\ Node = {n, m}

LEMMA NodesInStepUnmoved ==
  ASSUME Good, BudgetBounded, Record, NEW n \in Node, NEW m \in Node, n # m, Node = {n, m},
         NEW c \in Cell, NodesInStep(c),
         budget.press \in Nat, budget'.press \in Nat, budget'.press <= budget.press,
         \A k \in Node : SyncState(k, c)' = SyncState(k, c)
  PROVE  /\ BothInStep(n, m, c) /\ Steady(c)
         /\ BothInStep(n, m, c)' => NodesInStep(c)'
<1>1. Steady(c) /\ Counted(n, m, c)' /\ Counted(m, n, c)'
  BY SteadyStep DEF Proceeds
<1> QED BY <1>1 DEF NodesInStep, BothInStep

LEMMA NodesInStepNext ==
  ASSUME Good, Good', BudgetBounded, Next, Record, Undisturbed, AllUpAndLive', UpToDate, CalmNext,
         PressesAreSpaced, TwoNodes, NEW c \in Cell, NodesInStep(c)
  PROVE  NodesInStep(c)'
<1>1. budget.press \in Nat /\ budget'.press \in Nat /\ budget'.press <= budget.press
  BY BudgetFalls DEF Good, Events
<1>2. ASSUME NEW n \in Node PROVE \E m \in Node : n # m /\ Node = {n, m}
  BY DEF TwoNodes
<1>3. ASSUME NEW n \in Node, NEW h \in Owned, OwnUpdate(n, h),
             \/ h[c].SyncState = SyncState(n, c)
             \/ SyncState(n, c) = Confirmed /\ h[c].SyncState = DeleteProposed
             \/ /\ budget'.press < budget.press
                /\ SyncState(n, c) = None
                /\ h[c].SyncState = Unconfirmed
      PROVE  NodesInStep(c)'
  <2>1. PICK m \in Node : n # m /\ Node = {n, m}
    BY <1>2
  <2>2. hall(n)' = h /\ SyncState(n, c)' = h[c].SyncState
    BY <1>3, OwnHallStep DEF SyncState
  <2>3. SyncState(m, c)' = SyncState(m, c)
    BY <1>3, <2>1, OwnUpdateSends
  <2>4. CASE Pressed(n, c) /\ Within(Unpressed(c))
    BY <1>1, <1>3, <2>1, <2>4, StartInStep
  <2>5. CASE ~(Pressed(n, c) /\ Within(Unpressed(c)))
    <3>1. Advances(n, c)
      BY <1>3, <2>2, <2>5 DEF PressesAreSpaced, Advances, Pressed, At, Stage
    <3>2. \A k \in Node : Proceeds(k, c)
      <4>1. Proceeds(n, c)
        BY <3>1 DEF Advances, Proceeds, At, Stage, Removed, None, Unconfirmed, Confirmed, DeleteProposed
      <4> QED BY <2>1, <2>3, <4>1 DEF Proceeds
    <3>3. Steady(c) /\ Counted(n, m, c)' /\ Counted(m, n, c)'
      BY <1>1, <2>1, <3>2, SteadyStep
    <3>4. BothInStep(n, m, c)
      BY <2>1, InStepOfBoth
    <3>5. BothInStep(n, m, c)'
      BY <1>3, <2>1, <3>1, <3>3, <3>4, OwnUpdateInStep
    <3> QED BY <2>1, <3>3, <3>5 DEF NodesInStep, BothInStep
  <2> QED BY <2>4, <2>5
<1>4. ASSUME NEW n \in Node, NEW h, NEW synced \in fromSync[n], OwnSend(n, h),
             fromSync' = [fromSync EXCEPT ![n] = {}],
             h[c].SyncState = Merged(SyncState(n, c), synced[c].SyncState)
      PROVE  NodesInStep(c)'
  <2>1. PICK m \in Node : n # m /\ Node = {n, m}
    BY <1>2
  <2>2. up'[n]
    BY DEF AllUpAndLive
  <2> QED BY <1>1, <1>4, <2>1, <2>2, ResultInStep
<1>5. ASSUME NEW n \in Node, NEW h, OwnSend(n, h), UNCHANGED fromSync,
             h[c].SyncState = SyncState(n, c)
      PROVE  NodesInStep(c)'
  <2>1. PICK m \in Node : n # m /\ Node = {n, m}
    BY <1>2
  <2>2. /\ hall(n)' = h
        /\ \A k, j \in Node : ~(k = n /\ j = n) => worldviewsMap'[k][j].hall = worldviewsMap[k][j].hall
    BY <1>5, OwnHallStep
  <2>3. \A k, j \in Node :
           worldviewsMap'[k][j].hall[c].SyncState = worldviewsMap[k][j].hall[c].SyncState
    BY <1>5, <2>2 DEF SyncState, hall
  <2>4. \A k \in Node : SyncState(k, c)' = SyncState(k, c)
    BY <2>3 DEF SyncState, hall
  <2>5. BothInStep(n, m, c) /\ Steady(c) /\ (BothInStep(n, m, c)' => NodesInStep(c)')
    BY <1>1, <2>1, <2>4, NodesInStepUnmoved
  <2>6. UNCHANGED <<toSync, syncing, wire>>
    BY <1>5 DEF OwnSend
  <2> QED BY <1>5, <2>3, <2>5, <2>6, QuietInStep
<1>6. ASSUME NEW n \in Node, NEW m \in Node, NEW msg \in Arriving(n, m), Hears(n, m, msg)
      PROVE  NodesInStep(c)'
  <2>1. n # m /\ Node = {n, m}
    BY <1>2, <1>6 DEF Hears
  <2>2. \A k \in Node : SyncState(k, c)' = SyncState(k, c)
    BY <1>6, <2>1, HearsSets DEF SyncState, hall
  <2>3. BothInStep(n, m, c) /\ Steady(c) /\ (BothInStep(n, m, c)' => NodesInStep(c)')
    BY <1>1, <2>1, <2>2, NodesInStepUnmoved
  <2> QED BY <1>6, <2>3, HearsInStep
<1>7. ASSUME NEW n \in Node, SyncTake(n) \/ SyncPut(n) PROVE NodesInStep(c)'
  <2>1. PICK m \in Node : n # m /\ Node = {n, m}
    BY <1>2
  <2>2. \A k \in Node : SyncState(k, c)' = SyncState(k, c)
    BY <1>7 DEF SyncTake, SyncPut, nodeVars, SyncState, hall
  <2>3. BothInStep(n, m, c) /\ Steady(c) /\ (BothInStep(n, m, c)' => NodesInStep(c)')
    BY <1>1, <2>1, <2>2, NodesInStepUnmoved
  <2> QED BY <1>7, <2>1, <2>3, TakeInStep, PutInStep
<1>8. ASSUME NEW n \in Node, NEW j \in Node, Transmit(n, j) PROVE NodesInStep(c)'
  <2>1. PICK m \in Node : n # m /\ Node = {n, m}
    BY <1>2
  <2>2. PICK msg \in outbox[n] : wire' = [wire EXCEPT ![j][n] = @ \cup {msg}]
    BY <1>8 DEF Transmit
  <2>3. UNCHANGED <<worldviewsMap, toSync, syncing, fromSync>>
    BY <1>8 DEF Transmit, nodeVars, syncVars
  <2>4. \A k \in Node : SyncState(k, c)' = SyncState(k, c)
    BY <2>3 DEF SyncState, hall
  <2>5. BothInStep(n, m, c) /\ Steady(c) /\ (BothInStep(n, m, c)' => NodesInStep(c)')
    BY <1>1, <2>1, <2>4, NodesInStepUnmoved
  <2>6. msg.hall[c].SyncState = SyncState(n, c)
    BY DEF UpToDate, SyncState
  <2>7. ASSUME NEW k \in Node, NEW i \in Node, NEW w \in wire'[k][i]
        PROVE  w \in wire[k][i] \/ w.hall[c].SyncState = SyncState(i, c)
    <3>1. wire \in [Node -> [Node -> SUBSET GoodMessage]]
      BY DEF Good
    <3>2. wire'[k][i] = wire[k][i] \/ (i = n /\ wire'[k][i] = wire[k][i] \cup {msg})
      BY <2>2, <3>1
    <3> QED BY <2>6, <2>7, <3>2
  <2> QED BY <2>3, <2>5, <2>7, QuietInStep
<1> QED BY <1>3, <1>4, <1>5, <1>6, <1>7, <1>8 DEF CalmNext

LEMMA JoinedInStep ==
  ASSUME Joined, NEW c \in Cell
  PROVE  NodesInStep(c)
<1>1. \A n \in Node : SyncState(n, c) = None
  <2>1. [NoEntry EXCEPT !.known = TRUE].hall[c].SyncState = None
    BY DEF NoEntry, NoOrders, NoOrder
  <2> QED BY <2>1 DEF Joined, SyncState, hall
<1>2. \A n \in Node : Done(n, c)
  BY <1>1 DEF Done
<1>3. ASSUME NEW n \in Node, NEW m \in Node PROVE PairInStep(n, m, c)
  <2>1. worldviewsMap[n][m].hall[c].SyncState = None
    BY DEF Joined, NoEntry, NoOrders, NoOrder
  <2>2. At(n, c) = Removed /\ At(m, c) = Removed /\ Heard(n, m, c) = Removed
    BY <1>1, <1>2, <2>1 DEF At, Heard, Stage
  <2>3. Way(n, m, c) = {} /\ Snaps(n, c) = {} /\ Old(n, c) = {} /\ New(n, c) = {}
    BY DEF Joined, Way, Snaps, Old, New
  <2>4. InStep(Removed, Removed, Removed, {}, {}, {}, {})
    BY DEF InStep, Needs, Removed, Unconfirmed, Confirmed, DeleteProposed
  <2> QED BY <2>2, <2>3, <2>4 DEF PairInStep
<1>4. ASSUME NEW n \in Node, NEW m \in Node PROVE Counted(n, m, c)
  <2>1. completions[n][c] = 0 /\ completions[m][c] = 0 /\ budget.press = MaxPress /\ MaxPress \in Nat
    BY Bounds DEF Joined, NothingRecorded
  <2> QED BY <1>2, <2>1 DEF Counted
<1> QED BY <1>3, <1>4 DEF NodesInStep

-----------------------------------------------------------------------------
(* What it shows of two nodes.                                             *)

CalmInStep == Calm => Undisturbed /\ UpToDate /\ \A c \in Cell : NodesInStep(c)

LEMMA JoinedUndisturbed ==
  ASSUME Joined
  PROVE  BudgetBounded /\ Undisturbed /\ UpToDate
<1>1. BudgetBounded
  BY Bounds DEF Joined, NothingRecorded, BudgetBounded
<1>2. NoOrders \in Owned
  BY NoOrdersGood, OwnerMarkers DEF Owned, NoOrders, NoOrder
<1>3. Within(Owned)
  BY <1>2, JoinedWithin
<1>4. AllUpAndLive
  BY DEF Joined, AllUpAndLive, Live, NoEntry
<1>5. NoErrors
  <2>1. \A n, m \in Node : worldviewsMap[n][m].err = FALSE
    <3>1. [NoEntry EXCEPT !.known = TRUE].err = FALSE
      BY DEF NoEntry
    <3> QED BY <3>1 DEF Joined
  <2>2. \A n, m \in Node : wire[n][m] = {} /\ outbox[n] = {[hall |-> NoOrders, err |-> FALSE]}
    BY DEF Joined
  <2> QED BY <2>1, <2>2 DEF NoErrors
<1>6. UpToDate
  BY DEF Joined, UpToDate, OneUnderWay, hall, NoEntry
<1> QED BY <1>1, <1>3, <1>4, <1>5, <1>6 DEF Undisturbed

LEMMA CalmInStepNext ==
  ASSUME TwoNodes, MaxInFlight <= 1, Good, Good', BudgetBounded, CalmInStep,
         [Next /\ Record]_hvars, [PressesAreSpaced]_hvars
  PROVE  CalmInStep'
<1> SUFFICES ASSUME Calm' PROVE Undisturbed' /\ UpToDate' /\ \A c \in Cell : NodesInStep(c)'
  BY DEF CalmInStep
<1>1. Calm /\ Undisturbed /\ UpToDate /\ \A c \in Cell : NodesInStep(c)
  BY BudgetBoundedStep DEF CalmInStep
<1>2. CASE UNCHANGED hvars
  <2>1. /\ UNCHANGED <<up, worldviewsMap, toSync, syncing, fromSync, outbox, wire>>
        /\ UNCHANGED <<budget, completions>>
    BY <1>2 DEF hvars, vars, nodeVars, syncVars
  <2>2. AllUpAndLive' /\ NoErrors' /\ Within(Owned)'
    <3>1. AllUpAndLive'
      BY <1>1, <2>1 DEF Undisturbed, AllUpAndLive, Live
    <3>2. NoErrors'
      BY <1>1, <2>1 DEF Undisturbed, NoErrors
    <3>3. Within(Owned)'
      BY <1>1, <2>1 DEF Undisturbed, Within, Copies
    <3> QED BY <3>1, <3>2, <3>3
  <2>3. UpToDate'
    <3>1. \A n \in Node : hall(n)' = hall(n)
      BY <2>1 DEF hall
    <3>2. OneUnderWay'
      BY <1>1, <2>1 DEF UpToDate, OneUnderWay
    <3>3. \A n \in Node : \A snap \in toSync'[n], m \in Node \ {n} :
             snap[m].hall = worldviewsMap'[n][m].hall
      BY <1>1, <2>1 DEF UpToDate
    <3>4. \A n \in Node : \A msg \in outbox'[n] : msg.hall = hall(n)'
      BY <1>1, <2>1, <3>1 DEF UpToDate
    <3> QED BY <3>2, <3>3, <3>4 DEF UpToDate
  <2>4. ASSUME NEW c \in Cell PROVE NodesInStep(c)'
    <3>1. \A n \in Node : SyncState(n, c)' = SyncState(n, c)
      BY <2>1 DEF SyncState, hall
    <3>2. \A n \in Node : Done(n, c)' <=> Done(n, c)
      BY <2>1, <3>1 DEF Done
    <3>3. \A n \in Node : At(n, c)' = At(n, c)
      BY <3>1, <3>2 DEF At, Stage
    <3>4. \A n, m \in Node : /\ Heard(n, m, c)' = Heard(n, m, c) /\ Way(n, m, c)' = Way(n, m, c)
                             /\ Snaps(n, c)' = Snaps(n, c)
      BY <2>1, <3>2 DEF Heard, Way, Snaps, Stage
    <3>5. \A n \in Node : Old(n, c)' = Old(n, c) /\ New(n, c)' = New(n, c)
      BY <2>1, <3>3 DEF Old, New
    <3>6. \A n, m \in Node : PairInStep(n, m, c)' = PairInStep(n, m, c)
      BY <3>3, <3>4, <3>5 DEF PairInStep
    <3>7. \A n, m \in Node : Counted(n, m, c) => Counted(n, m, c)'
      BY <2>1, <3>1, <3>2 DEF Counted
    <3> QED BY <1>1, <3>6, <3>7 DEF NodesInStep
  <2> QED BY <2>2, <2>3, <2>4 DEF Undisturbed
<1>3. CASE Next /\ Record /\ PressesAreSpaced
  <2>1. Undisturbed' /\ CalmNext
    BY <1>1, <1>3, UndisturbedStep, CalmStep
  <2>2. UpToDate'
    BY <1>1, <2>1, UpToDateStep
  <2>3. \A c \in Cell : NodesInStep(c)'
    BY <1>1, <1>3, <2>1, NodesInStepNext DEF Undisturbed
  <2> QED BY <2>1, <2>2, <2>3
<1> QED BY <1>2, <1>3

LEMMA AlwaysInStep ==
  ASSUME TwoNodes, MaxInFlight <= 1
  PROVE  JoinedSpec /\ [][PressesAreSpaced]_hvars => [](BudgetBounded /\ CalmInStep)
<1>1. Joined => BudgetBounded /\ CalmInStep
  BY JoinedUndisturbed, JoinedInStep DEF CalmInStep
<1>2. /\ Good /\ Good' /\ BudgetBounded /\ CalmInStep
      /\ [Next /\ Record]_hvars /\ [PressesAreSpaced]_hvars
      => BudgetBounded' /\ CalmInStep'
  BY BudgetBoundedStep, CalmInStepNext
<1> QED BY <1>1, <1>2, HistoryGood, PTL DEF JoinedSpec

\* With two nodes, no worldview overtaking another and nobody lost or in error, no
\* node takes an order through its cycle more often than its button was pressed:
\* however long the copies it synchronises with were delayed, none leads it back.
THEOREM TwoNodesCount ==
  ASSUME TwoNodes, MaxInFlight <= 1
  PROVE  JoinedSpec /\ [][PressesAreSpaced]_hvars => [](Calm => CompletionsArePressed)
<1>1. ASSUME Good, BudgetBounded, CalmInStep, Calm PROVE CompletionsArePressed
  <2> SUFFICES ASSUME NEW n \in Node, NEW c \in Cell
               PROVE  completions[n][c] <= MaxPress - budget.press
    BY DEF CompletionsArePressed
  <2>1. PICK m \in Node : n # m
    BY DEF TwoNodes
  <2>2. Counted(n, m, c)
    BY <1>1, <2>1 DEF CalmInStep, NodesInStep
  <2>3. /\ completions[n][c] \in Nat /\ MaxPress \in Nat /\ budget.press \in Nat
    BY <1>1, Bounds DEF BudgetBounded, Good, Events
  <2> QED BY <2>2, <2>3 DEF Counted
<1> QED BY <1>1, AlwaysInStep, HistoryGood, PTL

\* In the same circumstances a lit order is known to the other node at any time,
\* not only before an order was removed (BackedUpUntilLost).
THEOREM TwoNodesBackUp ==
  ASSUME TwoNodes, MaxInFlight <= 1
  PROVE  JoinedSpec /\ [][PressesAreSpaced]_hvars => [](Calm => LitIsBackedUp)
<1>1. ASSUME Good, CalmInStep, Calm PROVE LitIsBackedUp
  <2> SUFFICES ASSUME NEW n \in Node, NEW m \in Node, NEW c \in Cell,
                      SyncState(n, c) = Confirmed, SyncState(m, c) = None
               PROVE  FALSE
    BY DEF LitIsBackedUp
  <2>1. n # m
    BY DEF None, Confirmed
  <2>2. BothInStep(n, m, c)
    BY <1>1, <2>1 DEF CalmInStep, NodesInStep, BothInStep
  <2>3. At(n, c) = Confirmed /\ At(m, c) \in {None, Removed}
    BY DEF At, Stage, None, Confirmed
  <2>4. Needs(At(n, c), At(m, c)) /\ Needs(At(m, c), At(n, c))
    <3>1. BothInStep(m, n, c)
      BY <2>2 DEF BothInStep
    <3> QED BY <1>1, <2>2, <3>1, BothNeed
  <2> QED BY <2>3, <2>4 DEF Needs, Removed, None, Unconfirmed, Confirmed, DeleteProposed
<1> QED BY <1>1, AlwaysInStep, HistoryGood, PTL

\* Where n's order goes in one step while nothing goes wrong.
LEMMA CalmStepCases ==
  ASSUME Good, Good', Undisturbed, Next, Calm, Calm', NEW n \in Node, NEW c \in Cell
  PROVE  \/ SyncState(n, c)' = SyncState(n, c)
         \/ SyncState(n, c) \in {None, Confirmed} /\ SyncState(n, c)' = SyncState(n, c) + 1
         \/ \E synced \in fromSync[n] : SyncState(n, c)' = Merged(SyncState(n, c), synced[c].SyncState)
<1>1. CalmNext
  BY CalmStep
<1>2. ASSUME NEW k \in Node, NEW h, OwnUpdate(k, h) \/ OwnSend(k, h)
      PROVE  SyncState(n, c)' = IF n = k THEN h[c].SyncState ELSE SyncState(n, c)
  <2>1. /\ hall(k)' = h
        /\ \A i, j \in Node : ~(i = k /\ j = k) => worldviewsMap'[i][j].hall = worldviewsMap[i][j].hall
    BY <1>2, OwnHallStep
  <2>2. CASE n = k
    BY <2>1, <2>2 DEF SyncState
  <2>3. CASE n # k
    <3>1. worldviewsMap'[n][n].hall = worldviewsMap[n][n].hall
      BY <2>1, <2>3
    <3> QED BY <2>3, <3>1 DEF SyncState, hall
  <2> QED BY <2>2, <2>3
<1>3. ASSUME NEW k \in Node, NEW m \in Node, NEW msg, Hears(k, m, msg)
      PROVE  SyncState(n, c)' = SyncState(n, c)
  <2>1. m # k
    BY <1>3 DEF Hears
  <2> QED BY <1>3, <2>1, HearsSets DEF SyncState, hall
<1>4. ASSUME NEW k \in Node, SyncTake(k) \/ SyncPut(k) \/ \E m \in Node : Transmit(k, m)
      PROVE  SyncState(n, c)' = SyncState(n, c)
  BY <1>4 DEF SyncTake, SyncPut, Transmit, nodeVars, SyncState, hall
<1>5. None + 1 = Unconfirmed /\ Confirmed + 1 = DeleteProposed
  BY DEF None, Unconfirmed, Confirmed, DeleteProposed
<1> QED BY <1>1, <1>2, <1>3, <1>4, <1>5 DEF CalmNext

\* In the same circumstances a removed order does not come back.
THEOREM TwoNodesKeepRemoved ==
  ASSUME TwoNodes, MaxInFlight <= 1
  PROVE  JoinedSpec /\ [][PressesAreSpaced]_hvars /\ []Calm => RemovedStaysRemoved
<1> DEFINE Stays == \A n \in Node, c \in Cell :
                       up'[n] /\ SyncState(n, c) = None => SyncState(n, c)' # DeleteProposed
<1>1. ASSUME Good, Good', CalmInStep, Calm, Calm', Next PROVE Stays
  <2> SUFFICES ASSUME NEW n \in Node, NEW c \in Cell,
                      SyncState(n, c) = None, SyncState(n, c)' = DeleteProposed
               PROVE  FALSE
    OBVIOUS
  <2>1. Undisturbed /\ NodesInStep(c)
    BY <1>1 DEF CalmInStep
  <2>2. PICK synced \in fromSync[n] : DeleteProposed = Merged(None, synced[c].SyncState)
    BY <1>1, <2>1, CalmStepCases DEF None, Confirmed, DeleteProposed
  <2>3. synced[c].SyncState = DeleteProposed
    BY <2>2 DEF Merged, None, DeleteProposed
  <2>4. PICK m \in Node : n # m
    BY DEF TwoNodes
  <2>5. PairInStep(n, m, c)
    BY <2>1, <2>4 DEF NodesInStep
  <2>6. DeleteProposed \in Old(n, c)
    BY <2>3 DEF Old, Result, None, DeleteProposed
  <2>7. At(n, c) \in {None, Removed}
    BY DEF At, Stage
  <2>8. Needs(DeleteProposed, At(n, c)) /\ (At(n, c) = Removed => DeleteProposed = Removed)
    BY <2>5, <2>6 DEF PairInStep, InStep
  <2> QED BY <2>7, <2>8 DEF Needs, Removed, None, Unconfirmed, Confirmed, DeleteProposed
<1>2. Good /\ Good' /\ CalmInStep /\ Calm /\ Calm' /\ [Next /\ Record]_hvars => [Stays]_hvars
  BY <1>1
<1> HIDE DEF Stays
<1>3. RemovedStaysRemoved <=> [][Stays]_hvars
  BY PTL DEF RemovedStaysRemoved, Stays
<1> QED BY <1>2, <1>3, AlwaysInStep, HistoryGood, PTL DEF JoinedSpec

\* In the same circumstances a node removes an order only when the other one's, as
\* it knows it, is neither Unconfirmed nor Confirmed: a None that Step 1 follows is
\* one after the removal, not one from before the press (as with three nodes).
THEOREM TwoNodesAgree ==
  ASSUME TwoNodes, MaxInFlight <= 1
  PROVE  JoinedSpec /\ [][PressesAreSpaced]_hvars /\ []Calm => RemovedByAgreement
<1> DEFINE Agreed == \A n, m \in Node, c \in Cell :
                        Completes(n, c) /\ Live(worldviewsMap[n][m])
                        => worldviewsMap[n][m].hall[c].SyncState \notin {Unconfirmed, Confirmed}
<1>1. ASSUME Good, Good', CalmInStep, Calm, Calm', Next PROVE Agreed
  <2> SUFFICES ASSUME NEW n \in Node, NEW m \in Node, NEW c \in Cell, Completes(n, c)
               PROVE  worldviewsMap[n][m].hall[c].SyncState \notin {Unconfirmed, Confirmed}
    OBVIOUS
  <2>1. Undisturbed /\ NodesInStep(c)
    BY <1>1 DEF CalmInStep
  <2>2. SyncState(n, c) = DeleteProposed /\ SyncState(n, c)' = None
    BY DEF Completes
  <2>3. CASE m = n
    BY <2>2, <2>3 DEF SyncState, hall, Unconfirmed, Confirmed, DeleteProposed
  <2>4. CASE m # n
    <3>1. PICK synced \in fromSync[n] : None = Merged(DeleteProposed, synced[c].SyncState)
      BY <1>1, <2>1, <2>2, CalmStepCases DEF None, Confirmed, DeleteProposed
    <3>2. synced[c].SyncState \in 0..3 /\ worldviewsMap[n][m].hall[c].SyncState \in 0..3
      BY <1>1, StatesTyped
    <3>3. synced[c].SyncState = None
      BY <3>1, <3>2 DEF Merged, None, DeleteProposed
    <3>4. At(n, c) = DeleteProposed
      BY <2>2 DEF At, Stage, None, DeleteProposed
    <3>5. Removed \in Old(n, c)
      BY <3>3, <3>4 DEF Old, Result, DeleteProposed
    <3>6. BothInStep(n, m, c)
      BY <2>1, <2>4 DEF NodesInStep, BothInStep
    <3>7. Heard(n, m, c) >= DeleteProposed
      BY <1>1, <2>2, <3>5, <3>6, RemovalIsHeard
    <3> QED BY <3>2, <3>7 DEF Heard, Stage, None, Unconfirmed, Confirmed, DeleteProposed
  <2> QED BY <2>3, <2>4
<1>2. Good /\ Good' /\ CalmInStep /\ Calm /\ Calm' /\ [Next /\ Record]_hvars => [Agreed]_hvars
  BY <1>1
<1> HIDE DEF Agreed
<1>3. RemovedByAgreement <=> [][Agreed]_hvars
  BY PTL DEF RemovedByAgreement, Agreed
<1> QED BY <1>2, <1>3, AlwaysInStep, HistoryGood, PTL DEF JoinedSpec

\* Every button starts one order at most.
PressesAreFirst == \A c \in Cell : PressStarts(c) => c \notin pressed

\* The hypothesis on presses holds of a first press.
LEMMA FirstPressIsSpaced == JoinedSpec /\ [][PressesAreFirst]_hvars => [][PressesAreSpaced]_hvars
<1>1. ASSUME UnpressedAreNone, PressesAreFirst PROVE PressesAreSpaced
  BY <1>1 DEF UnpressedAreNone, PressesAreFirst, PressesAreSpaced, Pressed, PressStarts
<1> QED BY <1>1, AlwaysUnpressedAreNone, PTL

\* All of it for any number of buttons that each start one order, at any moments: no
\* hypothesis on where the copies of orders are is left.
THEOREM TwoNodesOnePress ==
  ASSUME TwoNodes, MaxInFlight <= 1
  PROVE  /\ JoinedSpec /\ [][PressesAreFirst]_hvars => [](Calm => CompletionsArePressed /\ LitIsBackedUp)
         /\ JoinedSpec /\ [][PressesAreFirst]_hvars /\ []Calm => RemovedStaysRemoved /\ RemovedByAgreement
  BY FirstPressIsSpaced, TwoNodesCount, TwoNodesBackUp, TwoNodesKeepRemoved, TwoNodesAgree, PTL
=============================================================================

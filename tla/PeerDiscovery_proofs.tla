------------------------- MODULE PeerDiscovery_proofs -------------------------
(***************************************************************************)
(* NotificationsAddUp for any set of nodes and any number of comings and   *)
(* goings.  It is inductive together with the fact that every channel      *)
(* holds at most one notification and each round of the receiver sees at   *)
(* most one new peer: a second one would be overwritten or dropped.        *)
(***************************************************************************)
EXTENDS PeerDiscovery, TLAPS

AtMostOne(S) == \A x, y \in S : x = y

SoundUpdates(updates) ==
    /\ updates \in SUBSET PeerUpdate
    /\ AtMostOne(updates)
    /\ \A u \in updates : AtMostOne(u.New)

Sound ==
    /\ lastSeen \in SUBSET Node
    /\ overdue \in SUBSET lastSeen
    /\ balance \in [Node -> Int]
    /\ newPeerIdCh \in SUBSET Node /\ AtMostOne(newPeerIdCh)
    /\ lostPeerIdCh \in SUBSET Node /\ AtMostOne(lostPeerIdCh)
    /\ SoundUpdates({forwarding})
    /\ SoundUpdates(peerUpdateCh)
    /\ SoundUpdates(update)

\* What is under way about p, from the receiver to the worldview goroutine.
UnderWay(p) ==
    Count(p \in newPeerIdCh) - Count(p \in lostPeerIdCh)
      + Tells({forwarding}, p) + Tells(peerUpdateCh, p) + Tells(update, p)

Sum == \A p \in Node : balance[p] + UnderWay(p) = Count(p \in lastSeen)

LEMMA SumIsNotificationsAddUp == ASSUME Sound, Sum PROVE NotificationsAddUp
<1> SUFFICES ASSUME NEW p \in Node
             PROVE  balance[p] + Count(p \in newPeerIdCh) - Count(p \in lostPeerIdCh)
                      + Tells({forwarding}, p) + Tells(peerUpdateCh, p) + Tells(update, p)
                    = Count(p \in lastSeen)
  BY DEF NotificationsAddUp
<1>1. balance[p] \in Int
  BY DEF Sound
<1>2. /\ Count(p \in newPeerIdCh) \in Int /\ Count(p \in lostPeerIdCh) \in Int
      /\ Tells({forwarding}, p) \in Int /\ Tells(peerUpdateCh, p) \in Int /\ Tells(update, p) \in Int
  BY DEF Tells, Count
<1>3. balance[p] + UnderWay(p) = Count(p \in lastSeen)
  BY DEF Sum
<1> HIDE DEF Count, Tells
<1> QED BY <1>1, <1>2, <1>3 DEF UnderWay

LEMMA TellsNone == ASSUME NEW p PROVE Tells({}, p) = 0
  BY DEF Tells, Count

LEMMA TellsOne ==
  ASSUME NEW u, NEW p PROVE Tells({u}, p) = Count(p \in u.New) - Count(p \in u.Lost)
<1>1. (\E w \in {u} : p \in w.New) <=> p \in u.New
  OBVIOUS
<1>2. (\E w \in {u} : p \in w.Lost) <=> p \in u.Lost
  OBVIOUS
<1> QED BY <1>1, <1>2 DEF Tells, Count

LEMMA TellsNothing == ASSUME NEW p PROVE Tells({Nothing}, p) = 0
<1>1. Nothing.New = {} /\ Nothing.Lost = {}
  BY DEF Nothing
<1>2. ~(p \in Nothing.New) /\ ~(p \in Nothing.Lost)
  BY <1>1
<1>3. Count(p \in Nothing.New) = 0 /\ Count(p \in Nothing.Lost) = 0
  BY <1>2 DEF Count
<1> QED BY <1>3, TellsOne

LEMMA NumbersInt ==
  ASSUME NEW updates, NEW p, NEW b PROVE Tells(updates, p) \in Int /\ Count(b) \in Int
  BY DEF Tells, Count

LEMMA SumInit == Init => Sound /\ Sum
<1> SUFFICES ASSUME Init PROVE Sound /\ Sum
  OBVIOUS
<1>1. Sound
  BY DEF Init, Sound, SoundUpdates, AtMostOne, Nothing, PeerUpdate
<1>2. ASSUME NEW p \in Node PROVE balance[p] + UnderWay(p) = Count(p \in lastSeen)
  <2>1. Tells({forwarding}, p) = 0
    BY TellsNothing DEF Init
  <2>2. Tells(peerUpdateCh, p) = 0 /\ Tells(update, p) = 0
    BY TellsNone DEF Init
  <2> QED BY <2>1, <2>2 DEF Init, UnderWay, Count
<1> QED BY <1>1, <1>2 DEF Sum

\* A step that changes nothing on the way of the notifications.
Elsewhere == UNCHANGED <<lastSeen, balance, update, channels>> /\ overdue' \in SUBSET lastSeen

LEMMA ElsewhereSum == ASSUME Sound, Sum, Elsewhere PROVE Sound' /\ Sum'
<1>1. Sound'
  BY DEF Elsewhere, channels, Sound, SoundUpdates, AtMostOne
<1>2. ASSUME NEW p \in Node PROVE UnderWay(p)' = UnderWay(p)
  BY DEF Elsewhere, channels, UnderWay
<1>3. Sum'
  BY <1>2 DEF Elsewhere, Sum
<1> QED BY <1>1, <1>3

LEMMA ReceiveSum ==
  ASSUME Sound, Sum, NEW read \in SUBSET Node, AtMostOne(read), Receive(read)
  PROVE  Sound' /\ Sum'
<1> DEFINE new  == read \ lastSeen
           lost == overdue \ read
           told == [New |-> new, Lost |-> lost]
<1>1. /\ update = {} /\ lastSeen' = (lastSeen \cup read) \ lost /\ overdue' = {}
      /\ update' = IF new \cup lost = {} THEN {} ELSE {told}
      /\ UNCHANGED <<balance, peerUpdateCh, forwarding, newPeerIdCh, lostPeerIdCh>>
  BY DEF Receive, PeerUpdateOf, channels, worldview
<1>2. new \in SUBSET Node /\ lost \in SUBSET lastSeen /\ lost \in SUBSET Node /\ AtMostOne(new)
  BY DEF Sound, AtMostOne
<1>3. Sound'
  <2>1. SoundUpdates(update')
    <3>1. told \in PeerUpdate /\ told.New = new
      BY <1>2 DEF PeerUpdate
    <3>2. update' \in {{}, {told}}
      BY <1>1
    <3> HIDE DEF told
    <3> QED BY <1>2, <3>1, <3>2 DEF SoundUpdates, AtMostOne
  <2> QED BY <1>1, <1>2, <2>1 DEF Sound, SoundUpdates, AtMostOne
<1>4. ASSUME NEW p \in Node PROVE (balance[p] + UnderWay(p) = Count(p \in lastSeen))'
  <2>1. Tells(update, p) = 0
    BY <1>1, TellsNone
  <2>2. Tells(update', p) = Count(p \in new) - Count(p \in lost)
    <3>1. CASE new \cup lost = {}
      BY <1>1, <3>1, TellsNone DEF Count
    <3>2. CASE new \cup lost # {}
      <4>1. update' = {told} /\ told.New = new /\ told.Lost = lost
        BY <1>1, <3>2
      <4> HIDE DEF told
      <4> QED BY <4>1, TellsOne
    <3> QED BY <3>1, <3>2
  <2>3. Count(p \in lastSeen') = Count(p \in lastSeen) + Count(p \in new) - Count(p \in lost)
    BY <1>1, <1>2 DEF Count
  <2>4. UnderWay(p)' = UnderWay(p) + Count(p \in new) - Count(p \in lost)
    BY <1>1, <2>1, <2>2, NumbersInt DEF UnderWay
  <2>5. balance[p] \in Int /\ balance[p] + UnderWay(p) = Count(p \in lastSeen)
    BY DEF Sound, Sum
  <2>6. UnderWay(p) \in Int
    BY NumbersInt DEF UnderWay
  <2> QED BY <1>1, <2>3, <2>4, <2>5, <2>6, NumbersInt
<1> QED BY <1>3, <1>4 DEF Sum

\* A step that moves what is under way without losing any of it.
LEMMA MovedSum ==
  ASSUME Sound, Sum, UNCHANGED <<lastSeen, overdue, balance>>,
         \A p \in Node : UnderWay(p)' = UnderWay(p)
  PROVE  Sum'
  BY DEF Sum

LEMMA SendUpdateSum == ASSUME Sound, Sum, SendUpdate PROVE Sound' /\ Sum'
<1>1. /\ peerUpdateCh = {} /\ peerUpdateCh' = update /\ update' = {}
      /\ UNCHANGED <<lastSeen, overdue, balance, forwarding, newPeerIdCh, lostPeerIdCh>>
  BY DEF SendUpdate, worldview
<1>2. Sound'
  BY <1>1 DEF Sound, SoundUpdates, AtMostOne
<1>3. ASSUME NEW p \in Node PROVE UnderWay(p)' = UnderWay(p)
  BY <1>1, NumbersInt DEF UnderWay
<1> QED BY <1>1, <1>2, <1>3, MovedSum

LEMMA TakeUpdateSum == ASSUME Sound, Sum, TakeUpdate PROVE Sound' /\ Sum'
<1>1. PICK u \in peerUpdateCh :
        /\ forwarding = Nothing /\ forwarding' = u /\ peerUpdateCh' = {}
        /\ UNCHANGED <<lastSeen, overdue, balance, update, newPeerIdCh, lostPeerIdCh>>
  BY DEF TakeUpdate, receiver, worldview
<1>2. peerUpdateCh = {u}
  BY DEF Sound, SoundUpdates, AtMostOne
<1>3. Sound'
  BY <1>1, <1>2 DEF Sound, SoundUpdates, AtMostOne
<1>4. ASSUME NEW p \in Node PROVE UnderWay(p)' = UnderWay(p)
  <2>1. Tells({forwarding}, p) = 0
    BY <1>1, TellsNothing
  <2>2. Tells({forwarding'}, p) = Tells(peerUpdateCh, p) /\ Tells(peerUpdateCh', p) = 0
    BY <1>1, <1>2, TellsNone
  <2> QED BY <1>1, <2>1, <2>2, NumbersInt DEF UnderWay
<1> QED BY <1>1, <1>3, <1>4, MovedSum

LEMMA ForwardNewSum == ASSUME Sound, Sum, ForwardNew PROVE Sound' /\ Sum'
<1>1. /\ newPeerIdCh = {} /\ newPeerIdCh' = forwarding.New
      /\ forwarding' = [forwarding EXCEPT !.New = {}]
      /\ UNCHANGED <<lastSeen, overdue, balance, update, peerUpdateCh, lostPeerIdCh>>
  BY DEF ForwardNew, receiver, worldview
<1>2. forwarding \in PeerUpdate /\ AtMostOne(forwarding.New)
  BY DEF Sound, SoundUpdates
<1>3. forwarding'.New = {} /\ forwarding'.Lost = forwarding.Lost /\ forwarding' \in PeerUpdate
  BY <1>1, <1>2 DEF PeerUpdate
<1>4. Sound'
  BY <1>1, <1>2, <1>3 DEF Sound, SoundUpdates, AtMostOne, PeerUpdate
<1>5. ASSUME NEW p \in Node PROVE UnderWay(p)' = UnderWay(p)
  <2>1. Tells({forwarding'}, p) + Count(p \in newPeerIdCh') = Tells({forwarding}, p) + Count(p \in newPeerIdCh)
    <3>1. /\ Tells({forwarding'}, p) = Count(p \in forwarding'.New) - Count(p \in forwarding'.Lost)
          /\ Tells({forwarding}, p) = Count(p \in forwarding.New) - Count(p \in forwarding.Lost)
      BY TellsOne
    <3>2. /\ newPeerIdCh' = forwarding.New /\ forwarding'.New = newPeerIdCh
          /\ forwarding'.Lost = forwarding.Lost
      BY <1>1, <1>3
    <3> QED BY <3>1, <3>2, NumbersInt
  <2> QED BY <1>1, <2>1, NumbersInt DEF UnderWay
<1> QED BY <1>1, <1>4, <1>5, MovedSum

LEMMA ForwardLostSum == ASSUME Sound, Sum, ForwardLost PROVE Sound' /\ Sum'
<1>1. PICK q \in forwarding.Lost :
        /\ lostPeerIdCh = {} /\ lostPeerIdCh' = {q}
        /\ forwarding' = [forwarding EXCEPT !.Lost = @ \ {q}]
        /\ UNCHANGED <<lastSeen, overdue, balance, update, peerUpdateCh, newPeerIdCh>>
  BY DEF ForwardLost, receiver, worldview
<1>2. forwarding \in PeerUpdate /\ AtMostOne(forwarding.New)
  BY DEF Sound, SoundUpdates
<1>3. /\ forwarding'.New = forwarding.New /\ forwarding'.Lost = forwarding.Lost \ {q}
      /\ forwarding' \in PeerUpdate /\ q \in Node
  BY <1>1, <1>2 DEF PeerUpdate
<1>4. Sound'
  BY <1>1, <1>2, <1>3 DEF Sound, SoundUpdates, AtMostOne
<1>5. ASSUME NEW p \in Node PROVE UnderWay(p)' = UnderWay(p)
  <2>1. Tells({forwarding'}, p) - Count(p \in lostPeerIdCh') = Tells({forwarding}, p) - Count(p \in lostPeerIdCh)
    <3>1. /\ Tells({forwarding'}, p) = Count(p \in forwarding'.New) - Count(p \in forwarding'.Lost)
          /\ Tells({forwarding}, p) = Count(p \in forwarding.New) - Count(p \in forwarding.Lost)
      BY TellsOne
    <3>2. Count(p \in forwarding'.Lost) + Count(p \in lostPeerIdCh')
            = Count(p \in forwarding.Lost) + Count(p \in lostPeerIdCh)
      BY <1>1, <1>3 DEF Count
    <3> QED BY <1>3, <3>1, <3>2, NumbersInt
  <2> QED BY <1>1, <2>1, NumbersInt DEF UnderWay
<1> QED BY <1>1, <1>4, <1>5, MovedSum

LEMMA HandleNewSum == ASSUME Sound, Sum, HandleNew PROVE Sound' /\ Sum'
<1>1. PICK q \in newPeerIdCh :
        /\ newPeerIdCh' = {} /\ balance' = [balance EXCEPT ![q] = @ + 1]
        /\ UNCHANGED <<lastSeen, overdue, update, peerUpdateCh, forwarding, lostPeerIdCh>>
  BY DEF HandleNew, receiver
<1>2. q \in Node /\ \A p \in newPeerIdCh : p = q
  BY DEF Sound, AtMostOne
<1>3. Sound'
  BY <1>1, <1>2 DEF Sound, SoundUpdates, AtMostOne
<1>4. ASSUME NEW p \in Node PROVE (balance[p] + UnderWay(p) = Count(p \in lastSeen))'
  <2>1. balance'[p] + Count(p \in newPeerIdCh') = balance[p] + Count(p \in newPeerIdCh)
    BY <1>1, <1>2 DEF Sound, Count
  <2>2. balance[p] + UnderWay(p) = Count(p \in lastSeen) /\ balance[p] \in Int /\ balance'[p] \in Int
    BY <1>3 DEF Sum, Sound
  <2> QED BY <1>1, <2>1, <2>2, NumbersInt DEF UnderWay
<1> QED BY <1>3, <1>4 DEF Sum

LEMMA HandleLostSum == ASSUME Sound, Sum, HandleLost PROVE Sound' /\ Sum'
<1>1. PICK q \in lostPeerIdCh :
        /\ lostPeerIdCh' = {} /\ balance' = [balance EXCEPT ![q] = @ - 1]
        /\ UNCHANGED <<lastSeen, overdue, update, peerUpdateCh, forwarding, newPeerIdCh>>
  BY DEF HandleLost, receiver
<1>2. q \in Node /\ \A p \in lostPeerIdCh : p = q
  BY DEF Sound, AtMostOne
<1>3. Sound'
  BY <1>1, <1>2 DEF Sound, SoundUpdates, AtMostOne
<1>4. ASSUME NEW p \in Node PROVE (balance[p] + UnderWay(p) = Count(p \in lastSeen))'
  <2>1. balance'[p] - Count(p \in lostPeerIdCh') = balance[p] - Count(p \in lostPeerIdCh)
    BY <1>1, <1>2 DEF Sound, Count
  <2>2. balance[p] + UnderWay(p) = Count(p \in lastSeen) /\ balance[p] \in Int /\ balance'[p] \in Int
    BY <1>3 DEF Sum, Sound
  <2>3. UnderWay(p)' = UnderWay(p) + Count(p \in lostPeerIdCh) - Count(p \in lostPeerIdCh')
    BY <1>1, NumbersInt DEF UnderWay
  <2> QED BY <1>1, <2>1, <2>2, <2>3, NumbersInt DEF UnderWay
<1> QED BY <1>3, <1>4 DEF Sum

LEMMA SumNext == Sound /\ Sum /\ [Next]_vars => Sound' /\ Sum'
<1> SUFFICES ASSUME Sound, Sum, [Next]_vars PROVE Sound' /\ Sum'
  OBVIOUS
<1>1. ASSUME NEW p \in Node, Comes(p) \/ Goes(p) \/ Silent(p) \/ WorldviewArrives(p) \/ HandleWorldview(p)
      PROVE  Sound' /\ Sum'
  <2>1. Elsewhere
    BY <1>1 DEF Comes, Goes, Silent, WorldviewArrives, HandleWorldview, Elsewhere, Sound, receiver, channels, worldview
  <2> QED BY <2>1, ElsewhereSum
<1>2. CASE Start \/ UNCHANGED vars
  <2>1. Elsewhere
    BY <1>2 DEF Start, vars, Elsewhere, Sound, receiver, channels, worldview
  <2> QED BY <2>1, ElsewhereSum
<1>3. ASSUME NEW p \in Node, Receive({p}) PROVE Sound' /\ Sum'
  BY <1>3, ReceiveSum DEF AtMostOne
<1>4. CASE Receive({})
  BY <1>4, ReceiveSum DEF AtMostOne
<1> QED BY <1>1, <1>2, <1>3, <1>4, SendUpdateSum, TakeUpdateSum, ForwardNewSum, ForwardLostSum,
           HandleNewSum, HandleLostSum DEF Next

\* NotificationsAddUp for any nodes: between the receiver and the worldview
\* goroutine no New or Lost is lost, repeated or made up.
THEOREM EveryNotificationArrives == Spec => []NotificationsAddUp
<1>1. Sound /\ Sum => NotificationsAddUp
  BY SumIsNotificationsAddUp
<1> QED BY <1>1, SumInit, SumNext, PTL DEF Spec

-----------------------------------------------------------------------------
(* The types.  Sound has those of the receiver and the channels. *)

AroundOK ==
    /\ reachable \in SUBSET Node
    /\ stale     \in SUBSET Node
    /\ budget    \in Nat

WorldviewOK ==
    /\ mail       \in SUBSET (Node \ {Me})
    /\ started    \in BOOLEAN
    /\ hasNetwork \in BOOLEAN
    /\ entry      \in [Node -> {"none", "live", "dead"}]
    /\ raced      \in SUBSET Node
    /\ revived    \in SUBSET (Node \ {Me})

LEMMA TypesInParts == Sound /\ AroundOK /\ WorldviewOK => TypeOK
  BY DEF Sound, SoundUpdates, AroundOK, WorldviewOK, TypeOK

LEMMA PartsInit == Init => AroundOK /\ WorldviewOK
  BY DiscoveryBound DEF Init, AroundOK, WorldviewOK

LEMMA EntryType ==
  ASSUME NEW p \in Node, NEW how \in {"live", "dead"}, entry \in [Node -> {"none", "live", "dead"}]
  PROVE  [entry EXCEPT ![p] = how] \in [Node -> {"none", "live", "dead"}]
  OBVIOUS

LEMMA AroundNext == ASSUME Sound, AroundOK, [Next]_vars PROVE AroundOK'
<1>1. ASSUME NEW p \in Node, Comes(p) \/ Goes(p) PROVE AroundOK'
  <2>1. PICK left \in SUBSET {p} : stale' \subseteq stale \cup left
    BY <1>1 DEF Comes, Goes, receiver
  <2>2. reachable' \subseteq reachable \cup {p} /\ budget' \in Nat
    BY <1>1 DEF Comes, Goes, Spend, AroundOK
  <2> QED BY <2>1, <2>2 DEF AroundOK
<1>2. ASSUME NEW p \in Node, Silent(p) PROVE AroundOK'
  <2>1. UNCHANGED <<reachable, stale>> /\ (UNCHANGED budget \/ Spend)
    BY <1>2 DEF Silent
  <2> QED BY <2>1 DEF AroundOK, Spend
<1>3. ASSUME NEW read, Receive(read) PROVE AroundOK'
  BY <1>3 DEF Receive, AroundOK
<1>4. ASSUME NEW p \in Node, WorldviewArrives(p) \/ HandleWorldview(p) PROVE AroundOK'
  BY <1>4 DEF WorldviewArrives, HandleWorldview, receiver, AroundOK
<1>5. CASE SendUpdate \/ TakeUpdate \/ ForwardNew \/ ForwardLost \/ Start \/ HandleNew \/ HandleLost
  BY <1>5 DEF SendUpdate, TakeUpdate, ForwardNew, ForwardLost, Start, HandleNew, HandleLost, receiver, AroundOK
<1>6. CASE UNCHANGED vars
  BY <1>6 DEF vars, receiver, AroundOK
<1> QED BY <1>1, <1>2, <1>3, <1>4, <1>5, <1>6 DEF Next

LEMMA WorldviewNext == ASSUME Sound, WorldviewOK, [Next]_vars PROVE WorldviewOK'
<1>1. ASSUME UNCHANGED worldview PROVE WorldviewOK'
  BY <1>1 DEF worldview, WorldviewOK
<1>2. ASSUME NEW p \in Node, WorldviewArrives(p) PROVE WorldviewOK'
  BY <1>2 DEF WorldviewArrives, WorldviewOK
<1>3. ASSUME NEW p \in Node, HandleWorldview(p) PROVE WorldviewOK'
  <2>1. p \in Node \ {Me}
    BY <1>3 DEF HandleWorldview, WorldviewOK
  <2>2. entry' = [entry EXCEPT ![p] = "live"]
    BY <1>3 DEF HandleWorldview, EntryFrom
  <2>3. entry' \in [Node -> {"none", "live", "dead"}]
    BY <2>2, EntryType DEF WorldviewOK
  <2> QED BY <1>3, <2>1, <2>3 DEF HandleWorldview, WorldviewOK
<1>4. CASE Start
  BY <1>4 DEF Start, WorldviewOK
<1>5. CASE HandleNew
  BY <1>5 DEF HandleNew, Sound, WorldviewOK
<1>6. CASE HandleLost
  <2>1. PICK p \in lostPeerIdCh : MarkLost(p) /\ revived' = revived \ {p}
    BY <1>6 DEF HandleLost
  <2>2. p \in Node
    BY DEF Sound
  <2>3. hasNetwork' \in BOOLEAN
    BY <2>1 DEF MarkLost
  <2>4. entry' \in [Node -> {"none", "live", "dead"}]
    BY <2>1, <2>2, EntryType DEF MarkLost, WorldviewOK
  <2> QED BY <1>6, <2>1, <2>3, <2>4 DEF HandleLost, Sound, WorldviewOK
<1>7. ASSUME NEW p \in Node, Comes(p) \/ Goes(p) \/ Silent(p) PROVE UNCHANGED worldview
  BY <1>7 DEF Comes, Goes, Silent
<1>8. ASSUME NEW read, Receive(read) PROVE UNCHANGED worldview
  BY <1>8 DEF Receive
<1>9. CASE SendUpdate \/ TakeUpdate \/ ForwardNew \/ ForwardLost \/ UNCHANGED vars
  BY <1>1, <1>9 DEF SendUpdate, TakeUpdate, ForwardNew, ForwardLost, vars
<1> QED BY <1>1, <1>2, <1>3, <1>4, <1>5, <1>6, <1>7, <1>8, <1>9 DEF Next

\* TypeOK for any nodes.  That no worldview of Me is under way to Me, and that Me is
\* never among the peers brought back to life, is part of it.
THEOREM DiscoveryTypes == Spec => []TypeOK
<1> DEFINE Parts == Sound /\ Sum /\ AroundOK /\ WorldviewOK
<1>1. Init => Parts
  BY SumInit, PartsInit
<1>2. Parts /\ [Next]_vars => Parts'
  BY SumNext, AroundNext, WorldviewNext
<1>3. Parts => TypeOK
  BY TypesInParts
<1> QED BY <1>1, <1>2, <1>3, PTL DEF Spec
=============================================================================

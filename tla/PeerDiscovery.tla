--------------------------- MODULE PeerDiscovery ---------------------------
(***************************************************************************)
(* How the node Me learns which nodes are there: the receiver of the       *)
(* heartbeats, the goroutine that forwards its notifications, and what the *)
(* worldview goroutine makes of them.  New and Lost travel through two     *)
(* channels, and the worldviews that bring a dead peer back to life        *)
(* through a third, so they may be handled in another order than they      *)
(* happened.  A channel of capacity one is the set of what it holds.       *)
(*                                                                         *)
(* Time: half a second without a heartbeat is the step Silent.             *)
(***************************************************************************)
EXTENDS Integers

CONSTANTS
    Node,         \* ids of the peers; a node hears its own heartbeats too
    Me,
    MaxEvents     \* bound: how often a peer comes, goes, or is there but not
                  \*        heard for 500 ms

ASSUME MeIsNode == Me \in Node
ASSUME DiscoveryBound == MaxEvents \in Nat

VARIABLES
    reachable,    \* the peers whose broadcasts reach this node
    stale,        \* peers that have gone, with a heartbeat left in the socket
    lastSeen,     \* the keys of lastSeen
    overdue,      \* those that were last seen more than 500 ms ago
    update,       \* the PeerUpdate the receiver is about to send, if any
    peerUpdateCh,
    forwarding,   \* what is left of the update the forwarder works on
    newPeerIdCh,
    lostPeerIdCh,
    mail,         \* peers with a worldview under way to the worldview goroutine
    started,      \* worldviewInit has returned
    hasNetwork,
    entry,        \* worldviewsMap: "none", "live" or "dead" (Dead is set)
    balance,      \* history: New minus Lost notifications handled
    raced,        \* history: peers with a New and a Lost waiting at the same time
    revived,      \* history: peers whose worldview came after their Lost
    budget        \* how many of the bounded events may still happen

receiver  == <<stale, lastSeen, overdue, update>>
channels  == <<peerUpdateCh, forwarding, newPeerIdCh, lostPeerIdCh>>
worldview == <<mail, started, hasNetwork, entry, balance, raced, revived>>
vars      == <<reachable, receiver, channels, worldview, budget>>

PeerUpdate == [New : SUBSET Node, Lost : SUBSET Node]
Nothing    == [New |-> {}, Lost |-> {}]

Init ==
    /\ reachable \in SUBSET Node
    /\ stale        = {}
    /\ lastSeen     = {}
    /\ overdue      = {}
    /\ update       = {}
    /\ peerUpdateCh = {}
    /\ forwarding   = Nothing
    /\ newPeerIdCh  = {}
    /\ lostPeerIdCh = {}
    /\ mail         = {}
    /\ started      = FALSE
    /\ hasNetwork   = TRUE
    /\ entry        = [p \in Node |-> "none"]
    /\ balance      = [p \in Node |-> 0]
    /\ raced        = {}
    /\ revived      = {}
    /\ budget       = MaxEvents

Spend == budget > 0 /\ budget' = budget - 1

-----------------------------------------------------------------------------
(* The network, and time. *)

Comes(p) ==
    /\ p \notin reachable
    /\ Spend
    /\ reachable' = reachable \cup {p}
    /\ UNCHANGED <<receiver, channels, worldview>>

\* Heartbeats that nobody has read yet stay in the socket.
Goes(p) == \E left \in SUBSET {p} :
    /\ p \in reachable
    /\ Spend
    /\ reachable' = reachable \ {p}
    /\ stale' = stale \cup left
    /\ UNCHANGED <<lastSeen, overdue, update, channels, worldview>>

\* The receiver waits for the forwarder, and that for the worldview goroutine.
Stuck == ~started /\ update # {} /\ peerUpdateCh # {}

\* Half a second has passed since p was last seen.
Silent(p) ==
    /\ p \in lastSeen \ overdue
    /\ IF p \notin reachable \cup stale \/ Stuck THEN UNCHANGED budget ELSE Spend
    /\ overdue' = overdue \cup {p}
    /\ UNCHANGED <<reachable, stale, lastSeen, update, channels, worldview>>

\* Mutant: a node's own broadcast is handled like one of a peer.
WorldviewOfAnybody(p) ==
    /\ p \in reachable \cap lastSeen
    /\ mail' = mail \cup {p}
    /\ UNCHANGED <<reachable, receiver, channels, started, hasNetwork, entry, balance, raced, revived, budget>>

\* A worldview of p, sent every 100 ms, does not come before any of its
\* heartbeats, sent every 15 ms.
WorldviewArrives(p) ==
    /\ p # Me
    /\ p \in reachable \cap lastSeen
    /\ mail' = mail \cup {p}
    /\ UNCHANGED <<reachable, receiver, channels, started, hasNetwork, entry, balance, raced, revived, budget>>

-----------------------------------------------------------------------------
(* peers.Receiver and the forwarder of StartPeerDiscovery. *)

\* Mutant: a peer is forgotten, but reported only when nobody new was seen.
UpdateOf(new, lost) == IF new # {} THEN [New |-> new, Lost |-> {}] ELSE [New |-> {}, Lost |-> lost]

PeerUpdateOf(new, lost) == [New |-> new, Lost |-> lost]

\* One round of the receiver: read holds the sender of a heartbeat, or nobody.
Receive(read) ==
    LET new  == read \ lastSeen
        lost == overdue \ read
    IN  /\ update = {}
        /\ read \subseteq reachable \cup stale
        /\ stale'    = stale \ read
        /\ lastSeen' = (lastSeen \cup read) \ lost
        /\ overdue'  = {}
        /\ update'   = IF new \cup lost = {} THEN {} ELSE {PeerUpdateOf(new, lost)}
        /\ UNCHANGED <<reachable, channels, worldview, budget>>

SendUpdate ==
    /\ peerUpdateCh = {}
    /\ update # {}
    /\ peerUpdateCh' = update
    /\ update' = {}
    /\ UNCHANGED <<reachable, stale, lastSeen, overdue, forwarding, newPeerIdCh, lostPeerIdCh, worldview, budget>>

TakeUpdate == \E u \in peerUpdateCh :
    /\ forwarding = Nothing
    /\ forwarding' = u
    /\ peerUpdateCh' = {}
    /\ UNCHANGED <<reachable, receiver, newPeerIdCh, lostPeerIdCh, worldview, budget>>

\* New first, then Lost; each waits until its channel has room.
ForwardNew ==
    /\ forwarding.New # {}
    /\ newPeerIdCh = {}
    /\ newPeerIdCh' = forwarding.New
    /\ forwarding' = [forwarding EXCEPT !.New = {}]
    /\ UNCHANGED <<reachable, receiver, peerUpdateCh, lostPeerIdCh, worldview, budget>>

ForwardLost == \E p \in forwarding.Lost :
    /\ forwarding.New = {}
    /\ lostPeerIdCh = {}
    /\ lostPeerIdCh' = {p}
    /\ forwarding' = [forwarding EXCEPT !.Lost = @ \ {p}]
    /\ UNCHANGED <<reachable, receiver, peerUpdateCh, newPeerIdCh, worldview, budget>>

-----------------------------------------------------------------------------
(* The worldview goroutine. *)

\* worldviewInit waits up to a second for a worldview of another node.
Start ==
    /\ ~started
    /\ started' = TRUE
    /\ UNCHANGED <<reachable, receiver, channels, mail, hasNetwork, entry, balance, raced, revived, budget>>

\* The case of newPeerIdCh.  (The orders Me takes over are OrderSync's SelfNew.)
HandleNew == \E p \in newPeerIdCh :
    /\ started
    /\ newPeerIdCh' = {}
    /\ hasNetwork' = (hasNetwork \/ p = Me)
    /\ balance' = [balance EXCEPT ![p] = @ + 1]
    /\ raced' = raced \cup (newPeerIdCh \cap lostPeerIdCh)
    /\ UNCHANGED <<reachable, receiver, peerUpdateCh, forwarding, lostPeerIdCh, mail, started, entry, revived, budget>>

\* Mutant: handleLostPeer, which returns at once for the own id, is all that is done.
MarkOnly(p) == /\ UNCHANGED hasNetwork
               /\ entry' = IF p = Me THEN entry ELSE [entry EXCEPT ![p] = "dead"]

MarkLost(p) ==
    /\ hasNetwork' = (hasNetwork /\ p # Me)
    /\ entry' = IF p = Me THEN entry ELSE [entry EXCEPT ![p] = "dead"]

\* The case of lostPeerIdCh, handleLostPeer included.
HandleLost == \E p \in lostPeerIdCh :
    /\ started
    /\ lostPeerIdCh' = {}
    /\ MarkLost(p)
    /\ balance' = [balance EXCEPT ![p] = @ - 1]
    /\ raced' = raced \cup (newPeerIdCh \cap lostPeerIdCh)
    /\ revived' = revived \ {p}
    /\ UNCHANGED <<reachable, receiver, peerUpdateCh, forwarding, newPeerIdCh, mail, started, budget>>

\* Mutant: an entry that is Dead stays so.
KeepDead(p) == IF entry[p] = "dead" THEN "dead" ELSE "live"

\* updatePeerWorldviewFromNetwork replaces the whole entry, Dead included.
EntryFrom(p) == "live"

HandleWorldview(p) ==
    /\ started
    /\ p \in mail
    /\ mail' = mail \ {p}
    /\ entry' = [entry EXCEPT ![p] = EntryFrom(p)]
    /\ revived' = IF entry[p] = "dead" /\ p \notin lastSeen THEN revived \cup {p} ELSE revived
    /\ UNCHANGED <<reachable, receiver, channels, started, hasNetwork, balance, raced, budget>>

Next ==
    \/ \E p \in Node : \/ Comes(p)
                       \/ Goes(p)
                       \/ Silent(p)
                       \/ WorldviewArrives(p)
                       \/ Receive({p})
                       \/ HandleWorldview(p)
    \/ Receive({})
    \/ SendUpdate
    \/ TakeUpdate
    \/ ForwardNew
    \/ ForwardLost
    \/ Start
    \/ HandleNew
    \/ HandleLost

\* The goroutines run, broadcasts get through and time passes.
Fairness ==
    /\ \A p \in Node : /\ WF_vars(Receive({p}))
                       /\ WF_vars(Silent(p) /\ p \notin reachable)
                       /\ WF_vars(WorldviewArrives(p))
                       /\ WF_vars(HandleWorldview(p))
    /\ WF_vars(Receive({})) /\ WF_vars(SendUpdate) /\ WF_vars(TakeUpdate)
    /\ WF_vars(ForwardNew) /\ WF_vars(ForwardLost)
    /\ WF_vars(Start) /\ WF_vars(HandleNew) /\ WF_vars(HandleLost)

Spec     == Init /\ [][Next]_vars
LiveSpec == Spec /\ Fairness

-----------------------------------------------------------------------------
\* The type invariant.
TypeOK ==
    /\ reachable    \in SUBSET Node
    /\ stale        \in SUBSET Node
    /\ lastSeen     \in SUBSET Node
    /\ overdue      \in SUBSET lastSeen
    /\ update       \in SUBSET PeerUpdate
    /\ peerUpdateCh \in SUBSET PeerUpdate
    /\ forwarding   \in PeerUpdate
    /\ newPeerIdCh  \in SUBSET Node
    /\ lostPeerIdCh \in SUBSET Node
    /\ mail         \in SUBSET (Node \ {Me})
    /\ started      \in BOOLEAN
    /\ hasNetwork   \in BOOLEAN
    /\ entry        \in [Node -> {"none", "live", "dead"}]
    /\ balance      \in [Node -> Int]
    /\ raced        \in SUBSET Node
    /\ revived      \in SUBSET (Node \ {Me})
    /\ budget       \in Nat

Count(b) == IF b THEN 1 ELSE 0

\* What the updates of a channel, or the forwarder, will still tell about p.
Tells(updates, p) == Count(\E u \in updates : p \in u.New) - Count(\E u \in updates : p \in u.Lost)

\* No notification is lost, repeated or made up between the receiver and the
\* worldview goroutine, however they block each other: what was handled about p
\* and what is under way add up to whether p is in lastSeen.
NotificationsAddUp ==
    \A p \in Node :
        balance[p] + Count(p \in newPeerIdCh) - Count(p \in lostPeerIdCh)
          + Tells({forwarding}, p) + Tells(peerUpdateCh, p) + Tells(update, p)
        = Count(p \in lastSeen)

\* A node that has once heard itself knows at last whether it has a network, and
\* takes hall orders accordingly - unless a New and a Lost about itself were
\* waiting together (the select of the worldview goroutine picks either first).
NetworkKnown ==
    <>(Me \in lastSeen) => <>[](Me \in raced \/ (hasNetwork <=> Me \in reachable))

\* The peers a node waits for in its consensus are at last those that are there,
\* although peers come and go, are wrongly lost, and send worldviews meanwhile -
\* unless the last worldview of a peer is handled after the peer was lost.
PeersKnown ==
    \A p \in Node \ {Me} : <>[](p \in revived \/ (entry[p] = "live" <=> p \in reachable))
=============================================================================

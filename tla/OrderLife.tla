------------------------------ MODULE OrderLife ------------------------------
(***************************************************************************)
(* What a node promises about its own hall orders, whatever the network,   *)
(* the sync goroutine and the other nodes do: the life of an order as the  *)
(* lamp next to its button shows it.  An order runs None, Unconfirmed,     *)
(* Confirmed, DeleteProposed, None; it may skip states but not go back,    *)
(* except that a Confirmed order is degraded when its owner is lost.       *)
(* OrderSync implements this specification.                                *)
(***************************************************************************)
EXTENDS HallOrder

CONSTANT Cell

VARIABLES
    up,          \* up[n]: the program of n runs
    orders,      \* orders[n][c]: what n itself holds of hall order c
    reconnects   \* how often a node may still notice that it has the network back

lifeVars == <<up, orders, reconnects>>

LegalOrders == [Cell -> {o \in Order : WellFormed(o)}]

\* One order, one step.  A lamp that is lit goes out through DeleteProposed, or
\* because the owner was lost; an order whose owner was lost is confirmed again
\* only without an owner, so that it is assigned anew; an owner, once there, stays.
MayBecome(old, new) ==
    /\ WellFormed(new)
    /\ old.SyncState = Unconfirmed => new.SyncState # None
    /\ old.SyncState = Confirmed => new.SyncState \in {Confirmed, DeleteProposed} \/ new = LostOrder
    /\ old.SyncState = DeleteProposed => new.SyncState = DeleteProposed \/ new = NoOrder
    /\ old.SyncState = new.SyncState /\ old.OwnerID # NoOwner => new = old
    /\ old = LostOrder /\ new.SyncState = Confirmed => new.OwnerID = NoOwner

Init ==
    /\ up = [n \in Node |-> TRUE]
    /\ orders = [n \in Node |-> [c \in Cell |-> NoOrder]]
    /\ reconnects \in Nat

Progress(n) ==
    /\ up[n]
    /\ \E new \in LegalOrders : /\ \A c \in Cell : MayBecome(orders[n][c], new[c])
                                /\ orders' = [orders EXCEPT ![n] = new]
    /\ UNCHANGED <<up, reconnects>>

\* A node that has the network back takes over another node's orders.
Reconnect(n) ==
    /\ up[n]
    /\ reconnects > 0
    /\ reconnects' = reconnects - 1
    /\ \E new \in LegalOrders : orders' = [orders EXCEPT ![n] = new]
    /\ UNCHANGED up

Crash(n) ==
    /\ up[n]
    /\ up' = [up EXCEPT ![n] = FALSE]
    /\ orders' = [orders EXCEPT ![n] = [c \in Cell |-> NoOrder]]
    /\ UNCHANGED reconnects

Restart(n) ==
    /\ ~up[n]
    /\ up' = [up EXCEPT ![n] = TRUE]
    /\ \E new \in LegalOrders : orders' = [orders EXCEPT ![n] = new]
    /\ UNCHANGED reconnects

Next == \E n \in Node : Progress(n) \/ Reconnect(n) \/ Crash(n) \/ Restart(n)

Spec == Init /\ [][Next]_lifeVars
=============================================================================

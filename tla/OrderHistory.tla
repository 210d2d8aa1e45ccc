---------------------------- MODULE OrderHistory ----------------------------
(***************************************************************************)
(* OrderSync with three history variables, which only record what happened:  *)
(* what a passenger sees of a hall order depends on the past, not only on  *)
(* the state.  Most runs start from Joined: the programs are up and every  *)
(* node has received a worldview without orders from every other one.      *)
(***************************************************************************)
EXTENDS OrderSync

CONSTANT MaxFaults   \* bound: notifications, errors and crashes together

ASSUME FaultBound == MaxFaults \in Nat

VARIABLES
    served,      \* cells an elevator reported served since they were last pressed
    completions, \* completions[n][c]: DeleteProposed orders n has removed
    pressed      \* cells a press has started an order in

hvars == <<vars, served, completions, pressed>>

Faults ==
    (MaxLost + MaxSelfLost + MaxSelfNew + MaxError + MaxCrash)
    - (budget.lost + budget.selfLost + budget.selfNew + budget.error + budget.crash)

\* Counting stops when there are more completions than presses.
CompletionCap == MaxPress + 1

NothingRecorded ==
    /\ served      = {}
    /\ completions = [n \in Node |-> [c \in Cell |-> 0]]
    /\ pressed     = {}

Joined ==
    /\ up            = [n \in Node |-> TRUE]
    /\ hasNetwork    = [n \in Node |-> TRUE]
    /\ worldviewsMap = [n \in Node |-> [m \in Node |-> [NoEntry EXCEPT !.known = TRUE]]]
    /\ requests      = [n \in Node |-> {}]
    /\ toSync        = [n \in Node |-> {}]
    /\ syncing       = [n \in Node |-> {}]
    /\ fromSync      = [n \in Node |-> {}]
    /\ outbox        = [n \in Node |-> {[hall |-> NoOrders, err |-> FALSE]}]
    /\ wire          = [n \in Node |-> [m \in Node |-> {}]]
    /\ budget        = [press |-> MaxPress, lost |-> MaxLost, selfLost |-> MaxSelfLost,
                        selfNew |-> MaxSelfNew, error |-> MaxError, crash |-> MaxCrash]
    /\ NothingRecorded

SyncState(n, c) == hall(n)[c].SyncState

\* A button press that starts a new order.
PressStarts(c) == \E n \in Node : /\ budget'.press < budget.press
                                  /\ SyncState(n, c) = None
                                  /\ SyncState(n, c)' = Unconfirmed

\* A report of n's elevator, and not a sync result, completes the order.
ReportServes(n, c) ==
    /\ up'[n]
    /\ \/ c \in requests[n] \ requests'[n]
       \/ /\ SyncState(n, c) = Confirmed
          /\ SyncState(n, c)' = DeleteProposed
          /\ UNCHANGED fromSync

Completes(n, c) == SyncState(n, c) = DeleteProposed /\ SyncState(n, c)' = None /\ up'[n]

Record ==
    /\ Faults' <= MaxFaults
    /\ served' = {c \in Cell : /\ ~PressStarts(c)
                               /\ c \in served \/ \E n \in Node : ReportServes(n, c)}
    /\ completions' = [n \in Node |-> [c \in Cell |->
          IF Completes(n, c) /\ completions[n][c] < CompletionCap
          THEN completions[n][c] + 1
          ELSE completions[n][c]]]
    /\ pressed' = pressed \cup {c \in Cell : PressStarts(c)}

JoinedSpec == Joined /\ [][Next /\ Record]_hvars

\* The goroutines run and no node is cut off for ever.
Fairness == \A n \in Node :
    /\ WF_hvars(SyncTake(n) /\ Record)
    /\ WF_hvars(SyncPut(n) /\ Record)
    /\ WF_hvars(SyncResult(n) /\ Record)
    /\ \A m \in Node : /\ WF_hvars(ReceiveWorldview(n, m) /\ Record)
                       /\ WF_hvars(Transmit(n, m) /\ Record)

LiveSpec == JoinedSpec /\ Fairness

-----------------------------------------------------------------------------
\* A hall lamp is lit exactly while the order is Confirmed.  Once lit at a node
\* it does not go out because the order is deleted (by the node itself or by
\* following a peer) before some elevator reported the order served since it
\* was pressed: worldview.go sets DeleteProposed for completed orders only.
\* (A node that reconnects takes over another's orders, in place of its own.)
LitUntilServed ==
    [][\A n \in Node, c \in Cell :
          /\ up'[n]
          /\ budget'.selfNew = MaxSelfNew
          /\ SyncState(n, c) = Confirmed
          /\ SyncState(n, c)' \in {None, DeleteProposed}
          => c \in served']_hvars

\* No phantom orders: no node takes an order through its whole cycle more often
\* than hall buttons were pressed, however stale the copies it synchronises with.
CompletionsArePressed ==
    \A n \in Node, c \in Cell : completions[n][c] <= MaxPress - budget.press

\* A lit lamp means the order is safe with every elevator the node believes in:
\* none of them has lost it or not heard of it yet (Steg 2 asks all of them).
LitIsBackedUp ==
    \A n, m \in Node, c \in Cell :
        /\ up[n] /\ up[m]
        /\ Live(worldviewsMap[n][m])
        /\ SyncState(n, c) = Confirmed
        => SyncState(m, c) # None

\* A removed order does not come back as DeleteProposed: from None a node can
\* only be led into a new order.  (A stale result of the sync goroutine, still
\* under way when the order was removed, must not undo the removal.)
RemovedStaysRemoved ==
    [][\A n \in Node, c \in Cell :
          up'[n] /\ SyncState(n, c) = None => SyncState(n, c)' # DeleteProposed]_hvars

\* "Konsensussjekk - avanser state hvis alle er enige" (Steg 2): a node removes
\* an order only when, of the nodes it believes in, none still holds it as
\* Unconfirmed or Confirmed.  (Steg 1 can also lead from DeleteProposed to None.)
RemovedByAgreement ==
    [][\A n, m \in Node, c \in Cell :
          Completes(n, c) /\ Live(worldviewsMap[n][m])
          => worldviewsMap[n][m].hall[c].SyncState \notin {Unconfirmed, Confirmed}]_hvars

\* A press is answered: an Unconfirmed order becomes Confirmed, or is already
\* being deleted, on every node.
PressIsConfirmed ==
    \A c \in Cell : (\E n \in Node : SyncState(n, c) = Unconfirmed)
                    ~> (\A n \in Node : SyncState(n, c) # Unconfirmed)

\* A completed order is removed everywhere.
CompletedIsRemoved ==
    \A c \in Cell : (\E n \in Node : SyncState(n, c) = DeleteProposed)
                    ~> (\A n \in Node : SyncState(n, c) = None)

\* An order degraded because its owner was lost does not stay degraded.
LostOrderRecovers ==
    \A n \in Node, c \in Cell : hall(n)[c] = LostOrder ~> hall(n)[c] # LostOrder
=============================================================================

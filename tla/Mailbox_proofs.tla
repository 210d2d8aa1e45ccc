---------------------------- MODULE Mailbox_proofs ----------------------------
(***************************************************************************)
(* The three-step protocol on a channel of capacity one implements the     *)
(* register LatestValue, whatever is sent and however the two sides        *)
(* interleave.  The invariant says what the channel can hold at each step  *)
(* of the sender; without it Drain could throw away a value that is newer  *)
(* than the one to be sent, and SendAgain could wait.                      *)
(***************************************************************************)
EXTENDS Mailbox, TLAPS

Holds ==
    /\ latest \in Value
    /\ sender \in {"idle", "full", "drained"}
    /\ sender = "idle"    => channel = {} \/ channel = {latest}
    /\ sender = "full"    => channel = {} \/ \E v \in Value : channel = {v}
    /\ sender = "drained" => channel = {}

\* The register's newest value.
Newest == IF sender = "full" THEN IF channel = {} THEN taken ELSE CHOOSE v \in channel : TRUE
                             ELSE latest
Slot   == IF sender = "drained" THEN {latest} ELSE channel

LEMMA HoldsInit == Init => Holds
  BY DEF Init, Holds

LEMMA HoldsNext == Holds /\ [Next]_boxVars => Holds'
<1> SUFFICES ASSUME Holds, [Next]_boxVars PROVE Holds'
  OBVIOUS
<1>1. ASSUME NEW v \in Value, Send(v) PROVE Holds'
  <2>1. CASE channel = {}
    BY <1>1, <2>1 DEF Send, Holds
  <2>2. CASE channel # {}
    <3>1. channel = {latest}
      BY <1>1, <2>2 DEF Send, Holds
    <3>2. sender' = "full" /\ channel' = {latest} /\ latest' = v
      BY <1>1, <2>2, <3>1 DEF Send
    <3> QED BY <3>2 DEF Holds
  <2> QED BY <2>1, <2>2
<1>2. CASE Drain
  BY <1>2 DEF Drain, Holds
<1>3. CASE SendAgain
  BY <1>3 DEF SendAgain, Holds
<1>4. CASE Receive
  BY <1>4 DEF Receive, Holds
<1>5. CASE UNCHANGED boxVars
  BY <1>5 DEF boxVars, Holds
<1> QED BY <1>1, <1>2, <1>3, <1>4, <1>5 DEF Next

\* The element of a channel that is full, as the refinement mapping names it.
LEMMA TheValue == ASSUME NEW v PROVE (CHOOSE x \in {v} : TRUE) = v
  OBVIOUS

LEMMA MailboxInitRefines == Init => Register!Init
  BY DEF Init, Register!Init

LEMMA MailboxStepRefines ==
  ASSUME Holds, [Next]_boxVars
  PROVE  [Register!Next]_<<Newest, Slot, taken>>
<1>1. ASSUME NEW v \in Value, Send(v) PROVE [Register!Next]_<<Newest, Slot, taken>>
  <2>1. CASE channel = {}
    <3>1. Newest' = v /\ Slot' = {v} /\ taken' = taken
      BY <1>1, <2>1 DEF Send, Newest, Slot
    <3> QED BY <3>1 DEF Register!Next, Register!Put, Newest, Slot
  <2>2. CASE channel # {}
    <3>1. channel = {latest} /\ sender = "idle"
      BY <1>1, <2>2 DEF Send, Holds
    <3>2. sender' = "full" /\ channel' = {latest} /\ taken' = taken
      BY <1>1, <2>2, <3>1 DEF Send
    <3>3. Newest' = latest /\ Slot' = {latest}
      BY <3>2, TheValue DEF Newest, Slot
    <3> QED BY <3>1, <3>2, <3>3 DEF Newest, Slot
  <2> QED BY <2>1, <2>2
<1>2. CASE Drain
  <2>1. Newest' = latest /\ Slot' = {latest} /\ taken' = taken
    BY <1>2 DEF Drain, Newest, Slot
  <2> QED BY <2>1 DEF Register!Next, Register!Put, Newest, Slot, Holds
<1>3. CASE SendAgain
  BY <1>3 DEF SendAgain, Newest, Slot
<1>4. CASE Receive
  <2>1. PICK v : channel = {v}
    BY <1>4 DEF Receive, Holds
  <2>2. Newest = v /\ Slot = {v}
    BY <1>4, <2>1, TheValue DEF Newest, Slot, Holds
  <2>3. taken' = v /\ channel' = {} /\ sender' = sender /\ latest' = latest
    BY <1>4, <2>1 DEF Receive
  <2>4. Newest' = v /\ Slot' = {}
    BY <2>1, <2>2, <2>3 DEF Newest, Slot, Holds
  <2> QED BY <2>2, <2>3, <2>4 DEF Register!Next, Register!Take, Newest, Slot
<1>5. CASE UNCHANGED boxVars
  BY <1>5 DEF boxVars, Newest, Slot
<1> QED BY <1>1, <1>2, <1>3, <1>4, <1>5 DEF Next

\* The last send of sendLatest* has no default case and could block the goroutine
\* for ever: the channel has room when it is reached, because it has one sender.
THEOREM SendNeverBlocks == Spec => []SenderNeverWaits
<1>1. Holds => SenderNeverWaits
  BY DEF Holds, SenderNeverWaits
<1> QED BY <1>1, HoldsInit, HoldsNext, PTL DEF Spec

\* The protocol implements the register: a value replaces one that is not taken,
\* no older value is taken after a newer one, and the newest is never lost.
THEOREM MailboxIsRegister == Spec => KeepsLatest
<1>1. Spec => []Holds
  BY HoldsInit, HoldsNext, PTL DEF Spec
<1>2. Holds /\ [Next]_boxVars => [Register!Next]_<<Newest, Slot, taken>>
  BY MailboxStepRefines
<1> QED BY <1>1, <1>2, MailboxInitRefines, PTL DEF Spec, KeepsLatest, Register!Spec, Newest, Slot
=============================================================================

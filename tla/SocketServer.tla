---------------------------- MODULE SocketServer ----------------------------
(***************************************************************************)
(* The daemon's end of the query socket (internal/daemon/socket.go): the   *)
(* accept loop, the semaphore that bounds the connections served at once,  *)
(* one handler goroutine per connection, and Stop, which waits for the     *)
(* handlers on a wait group. What a query does to the stores is modelled   *)
(* in RecordStore and ServiceAnnouncements; here a handler decodes a query,*)
(* answers it, and gives back what it holds.                               *)
(***************************************************************************)
EXTENDS Integers, FiniteSets

CONSTANTS Clients,        \* connections that are made
          maxConnections  \* 100 in the code

ASSUME SocketAssumption == IsFiniteSet(Clients) /\ maxConnections \in Nat \ {0}

VARIABLES conn,      \* client |-> where its connection is
          outcome,   \* client |-> what it has got: nothing yet, an answer, EOF
          acceptor,  \* where the accept loop is
          slots,     \* elements in s.connSemaphore
          wg,        \* the counter of s.wg
          stopping   \* how far Stop has come

vars == <<conn, outcome, acceptor, slots, wg, stopping>>

Init ==
  /\ conn = [c \in Clients |-> "none"]
  /\ outcome = [c \in Clients |-> "none"]
  /\ acceptor = "loop"
  /\ slots = 0
  /\ wg = 0
  /\ stopping = "no"

\* The connection of c goes from one place to the next.
Move(c, from, to) == conn[c] = from /\ conn' = [conn EXCEPT ![c] = to]

\* The connections whose clients the kernel has queued for Accept.
Backlog == {c \in Clients : conn[c] = "backlog"}

ListenerOpen == stopping \in {"no", "stopChan"}

Connect(c) ==
  /\ ListenerOpen
  /\ Move(c, "none", "backlog")
  /\ UNCHANGED <<outcome, acceptor, slots, wg, stopping>>

-----------------------------------------------------------------------------
(* acceptLoop *)

CheckStop ==
  /\ acceptor = "loop"
  /\ acceptor' = IF stopping # "no" THEN "done" ELSE "accept"
  /\ UNCHANGED <<conn, outcome, slots, wg, stopping>>

\* The deadline of 100 ms passes, or the listener has been closed.
AcceptFails ==
  /\ acceptor = "accept"
  /\ Backlog = {} \/ ~ListenerOpen
  /\ acceptor' = "loop"
  /\ UNCHANGED <<conn, outcome, slots, wg, stopping>>

Accept(c) ==
  /\ acceptor = "accept" /\ ListenerOpen
  /\ Move(c, "backlog", "accepted")
  /\ acceptor' = "admit"
  /\ UNCHANGED <<outcome, slots, wg, stopping>>

\* Wrong on purpose: the select has no default case that turns clients away.
AdmitAlways(c) ==
  /\ acceptor = "admit"
  /\ Move(c, "accepted", "admitted")
  /\ slots' = slots + 1
  /\ acceptor' = "launch"
  /\ UNCHANGED <<outcome, wg, stopping>>

Admit(c) ==
  /\ acceptor = "admit" /\ slots < maxConnections
  /\ Move(c, "accepted", "admitted")
  /\ slots' = slots + 1
  /\ acceptor' = "launch"
  /\ UNCHANGED <<outcome, wg, stopping>>

\* s.wg.Add(1) and go s.handleConnection(conn).
Launch(c) ==
  /\ acceptor = "launch"
  /\ Move(c, "admitted", "decode")
  /\ wg' = wg + 1
  /\ acceptor' = "loop"
  /\ UNCHANGED <<outcome, slots, stopping>>

\* Wrong on purpose: the client that is turned away is not told.
TurnAwaySilently(c) ==
  /\ acceptor = "admit" /\ slots = maxConnections
  /\ Move(c, "accepted", "over")
  /\ acceptor' = "loop"
  /\ UNCHANGED <<outcome, slots, wg, stopping>>

TurnAway(c) ==
  /\ acceptor = "admit" /\ slots = maxConnections
  /\ Move(c, "accepted", "over")
  /\ outcome' = [outcome EXCEPT ![c] = "closed"]
  /\ acceptor' = "loop"
  /\ UNCHANGED <<slots, wg, stopping>>

-----------------------------------------------------------------------------
(* handleConnection *)

Decode(c) ==
  /\ Move(c, "decode", "answer")
  /\ UNCHANGED <<outcome, acceptor, slots, wg, stopping>>

\* No query within five seconds, or one that does not decode.
DecodeFails(c) ==
  /\ Move(c, "decode", "close")
  /\ UNCHANGED <<outcome, acceptor, slots, wg, stopping>>

Answer(c) ==
  /\ Move(c, "answer", "close")
  /\ outcome' = [outcome EXCEPT ![c] = "answered"]
  /\ UNCHANGED <<acceptor, slots, wg, stopping>>

\* The deadline passes while the answer is written.
AnswerFails(c) ==
  /\ Move(c, "answer", "close")
  /\ UNCHANGED <<outcome, acceptor, slots, wg, stopping>>

\* The deferred function: the connection is closed, the slot given back and
\* the wait group told, in this order.
Close(c) ==
  /\ Move(c, "close", "release")
  /\ outcome' = [outcome EXCEPT ![c] = IF @ = "none" THEN "closed" ELSE @]
  /\ UNCHANGED <<acceptor, slots, wg, stopping>>

\* Wrong on purpose: the slot is not given back.
ReleaseNothing(c) ==
  /\ Move(c, "release", "finish")
  /\ UNCHANGED <<outcome, acceptor, slots, wg, stopping>>

Release(c) ==
  /\ Move(c, "release", "finish")
  /\ slots' = slots - 1
  /\ UNCHANGED <<outcome, acceptor, wg, stopping>>

\* Wrong on purpose: s.wg.Done() is forgotten.
FinishQuietly(c) ==
  /\ Move(c, "finish", "over")
  /\ UNCHANGED <<outcome, acceptor, slots, wg, stopping>>

Finish(c) ==
  /\ Move(c, "finish", "over")
  /\ wg' = wg - 1
  /\ UNCHANGED <<outcome, acceptor, slots, stopping>>

Handler(c) ==
  \/ Decode(c) \/ DecodeFails(c) \/ Answer(c) \/ AnswerFails(c)
  \/ Close(c) \/ Release(c) \/ Finish(c)

-----------------------------------------------------------------------------
(* Stop *)

CloseStopChan ==
  /\ stopping = "no"
  /\ stopping' = "stopChan"
  /\ UNCHANGED <<conn, outcome, acceptor, slots, wg>>

\* The kernel ends the connections nobody has accepted.
CloseListener ==
  /\ stopping = "stopChan"
  /\ stopping' = "waiting"
  /\ conn' = [c \in Clients |-> IF c \in Backlog THEN "over" ELSE conn[c]]
  /\ outcome' = [c \in Clients |-> IF c \in Backlog THEN "closed" ELSE outcome[c]]
  /\ UNCHANGED <<acceptor, slots, wg>>

\* Wrong on purpose: Stop does not wait for the handlers.
WaitNot ==
  /\ stopping = "waiting"
  /\ stopping' = "returned"
  /\ UNCHANGED <<conn, outcome, acceptor, slots, wg>>

Wait ==
  /\ stopping = "waiting" /\ wg = 0
  /\ stopping' = "returned"
  /\ UNCHANGED <<conn, outcome, acceptor, slots, wg>>

AcceptStep ==
  \/ CheckStop
  \/ AcceptFails
  \/ \E c \in Clients : Accept(c) \/ Admit(c) \/ Launch(c) \/ TurnAway(c)

Next ==
  \/ \E c \in Clients : Connect(c) \/ Handler(c)
  \/ AcceptStep
  \/ CloseStopChan
  \/ CloseListener
  \/ Wait

Spec == Init /\ [][Next]_vars

-----------------------------------------------------------------------------
Places == {"none", "backlog", "accepted", "admitted", "decode", "answer",
           "close", "release", "finish", "over"}

(* Connections, counters and program counters have their types.            *)
TypeOK ==
  /\ conn \in [Clients -> Places]
  /\ outcome \in [Clients -> {"none", "answered", "closed"}]
  /\ acceptor \in {"loop", "accept", "admit", "launch", "done"}
  /\ slots \in 0..maxConnections
  /\ wg \in 0..Cardinality(Clients)
  /\ stopping \in {"no", "stopChan", "waiting", "returned"}

\* Connections that occupy a slot, and those the wait group counts.
Slotted == {c \in Clients :
              conn[c] \in {"admitted", "decode", "answer", "close", "release"}}
Counted == {c \in Clients :
              conn[c] \in {"decode", "answer", "close", "release", "finish"}}

(* The semaphore and the wait group count exactly the connections that are *)
(* being served, on every path through acceptLoop and handleConnection, so *)
(* that neither a slot nor a wait is ever lost.                            *)
CountersExact ==
  /\ slots = Cardinality(Slotted)
  /\ wg = Cardinality(Counted)

(* acceptLoop is not in the wait group, so the connection it has in hand   *)
(* when Stop returns may still be served; never a second one (Stop,        *)
(* acceptLoop).                                                            *)
AtMostOneStraggler ==
  stopping = "returned" =>
    Cardinality({c \in Clients : conn[c] \notin {"none", "over"}}) <= 1

=============================================================================

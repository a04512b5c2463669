--------------------------- MODULE NssLookupProofs ---------------------------
(***************************************************************************)
(* Proofs about NssLookup and SocketServer, for any number of connections, *)
(* lookups and slots, any answers, names and buffers: the semaphore and    *)
(* the wait group count exactly the connections that are served, Stop      *)
(* leaves one connection at most, and an answer is laid out inside the     *)
(* caller's buffer.                                                        *)
(***************************************************************************)
EXTENDS NssLookup, FiniteSetTheorems, TLAPS

-----------------------------------------------------------------------------
(* Counting connections *)

(* Sets of connections are counted by natural numbers.                     *)
LEMMA CountType ==
  ASSUME NEW S \in SUBSET Clients
  PROVE  /\ Cardinality(S) \in 0..Cardinality(Clients) /\ Cardinality(Clients) \in Nat
         /\ Cardinality(S) = 0 => S = {}
BY SocketAssumption, FS_Subset, FS_CardinalityType, FS_EmptySet

(* A set of connections has one more for one that it gains.                *)
LEMMA OneMore ==
  ASSUME NEW S \in SUBSET Clients, NEW c \in Clients
  PROVE  Cardinality(S) = Cardinality(S \ {c}) + (IF c \in S THEN 1 ELSE 0)
<1>1. IsFiniteSet(S)
  BY SocketAssumption, FS_Subset
<1>2. Cardinality(S \ {c}) = IF c \in S THEN Cardinality(S) - 1 ELSE Cardinality(S)
  BY <1>1, FS_RemoveElement
<1>3. Cardinality(S) \in Nat
  BY CountType
<1> QED
  BY <1>2, <1>3

(* Sets of connections that differ in one at most differ by one at most.   *)
LEMMA CountsApart ==
  ASSUME NEW S \in SUBSET Clients, NEW T \in SUBSET Clients, NEW c \in Clients,
         S \ {c} = T \ {c}
  PROVE  Cardinality(T) = Cardinality(S) + (IF c \in T THEN 1 ELSE 0)
                                         - (IF c \in S THEN 1 ELSE 0)
<1>1. Cardinality(S \ {c}) \in Nat
  BY CountType
<1>2. Cardinality(T) = Cardinality(S \ {c}) + (IF c \in T THEN 1 ELSE 0)
  BY OneMore
<1>3. Cardinality(S) = Cardinality(S \ {c}) + (IF c \in S THEN 1 ELSE 0)
  BY OneMore
<1> QED
  BY <1>1, <1>2, <1>3

-----------------------------------------------------------------------------
(* The server *)

Active == {c \in Clients : conn[c] \notin {"none", "over"}}

(* What acceptLoop has in hand: one connection at most, before it is       *)
(* admitted or before its handler runs.                                    *)
OneInHand ==
  /\ \A c \in Clients : conn[c] = "accepted" => acceptor = "admit"
  /\ \A c \in Clients : conn[c] = "admitted" => acceptor = "launch"
  /\ \A c, d \in Clients :
       {conn[c], conn[d]} \subseteq {"accepted", "admitted"} => c = d

(* Where connections may be: what acceptLoop has in hand, what is answered, *)
(* and that nothing new comes in once the listener is closed.               *)
PlacesSound ==
  /\ conn \in [Clients -> Places]
  /\ outcome \in [Clients -> {"none", "answered", "closed"}]
  /\ acceptor \in {"loop", "accept", "admit", "launch", "done"}
  /\ stopping \in {"no", "stopChan", "waiting", "returned"}
  /\ OneInHand
  /\ \A c \in Clients :
       outcome[c] = "answered" => conn[c] \in {"close", "release", "finish", "over"}
  /\ ~ListenerOpen => Backlog = {}
  /\ stopping = "returned" => \A c, d \in Active : c = d

(* The inductive invariant.                                                *)
ServerSound == PlacesSound /\ CountersExact /\ slots <= maxConnections

SlotPlaces == {"admitted", "decode", "answer", "close", "release"}
CountPlaces == {"decode", "answer", "close", "release", "finish"}

(* What the move of a connection does to the numbers of those that hold a  *)
(* slot and of those the wait group is to wait for.                        *)
LEMMA MoveCounts ==
  ASSUME conn \in [Clients -> Places], NEW c \in Clients, NEW from, NEW to,
         Move(c, from, to)
  PROVE  /\ Cardinality(Slotted') =
              Cardinality(Slotted) + (IF to \in SlotPlaces THEN 1 ELSE 0)
                                   - (IF from \in SlotPlaces THEN 1 ELSE 0)
         /\ Cardinality(Counted') =
              Cardinality(Counted) + (IF to \in CountPlaces THEN 1 ELSE 0)
                                   - (IF from \in CountPlaces THEN 1 ELSE 0)
<1>1. conn[c] = from /\ conn'[c] = to /\ \A d \in Clients : d # c => conn'[d] = conn[d]
  BY DEF Move
<1>2. /\ Slotted \in SUBSET Clients /\ Slotted' \in SUBSET Clients
      /\ Slotted \ {c} = Slotted' \ {c}
      /\ c \in Slotted <=> from \in SlotPlaces
      /\ c \in Slotted' <=> to \in SlotPlaces
  BY <1>1 DEF Slotted, SlotPlaces
<1>3. /\ Counted \in SUBSET Clients /\ Counted' \in SUBSET Clients
      /\ Counted \ {c} = Counted' \ {c}
      /\ c \in Counted <=> from \in CountPlaces
      /\ c \in Counted' <=> to \in CountPlaces
  BY <1>1 DEF Counted, CountPlaces
<1> QED
  BY <1>2, <1>3, CountsApart

(* Every step of acceptLoop, of a handler or of Stop keeps the counts.     *)
LEMMA StepCountersExact ==
  ASSUME ServerSound, [Next]_vars
  PROVE  CountersExact' /\ (slots <= maxConnections)'
<1>1. /\ conn \in [Clients -> Places] /\ maxConnections \in Nat
      /\ slots = Cardinality(Slotted) /\ wg = Cardinality(Counted)
      /\ slots \in Nat /\ wg \in Nat /\ slots <= maxConnections
  <2>1. Slotted \in SUBSET Clients /\ Counted \in SUBSET Clients
    BY DEF Slotted, Counted
  <2> QED
    BY <2>1, CountType, SocketAssumption DEF ServerSound, PlacesSound, CountersExact
<1> USE DEF CountersExact, SlotPlaces, CountPlaces
<1>2. ASSUME NEW c \in Clients,
             \/ Connect(c) \/ Accept(c) \/ TurnAway(c) \/ Decode(c) \/ DecodeFails(c)
             \/ Answer(c) \/ AnswerFails(c) \/ Close(c)
      PROVE  CountersExact' /\ (slots <= maxConnections)'
  <2>1. slots' = slots /\ wg' = wg
    BY <1>2 DEF Connect, Accept, TurnAway, Decode, DecodeFails, Answer, AnswerFails, Close
  <2>2. PICK from, to :
          /\ Move(c, from, to)
          /\ <<from, to>> \in {<<"none", "backlog">>, <<"backlog", "accepted">>,
                               <<"accepted", "over">>, <<"decode", "answer">>,
                               <<"decode", "close">>, <<"answer", "close">>,
                               <<"close", "release">>}
    BY <1>2 DEF Connect, Accept, TurnAway, Decode, DecodeFails, Answer, AnswerFails, Close
  <2>3. /\ from \in SlotPlaces <=> to \in SlotPlaces
        /\ from \in CountPlaces <=> to \in CountPlaces
    BY <2>2
  <2>4. Cardinality(Slotted') = Cardinality(Slotted) /\ Cardinality(Counted') = Cardinality(Counted)
    BY <1>1, <2>2, <2>3, MoveCounts
  <2> QED
    BY <1>1, <2>1, <2>4
<1>3. ASSUME NEW c \in Clients, Admit(c)
      PROVE  CountersExact' /\ (slots <= maxConnections)'
  <2>1. Move(c, "accepted", "admitted") /\ slots' = slots + 1 /\ wg' = wg /\ slots < maxConnections
    BY <1>3 DEF Admit
  <2> QED
    BY <1>1, <2>1, MoveCounts
<1>4. ASSUME NEW c \in Clients, Launch(c)
      PROVE  CountersExact' /\ (slots <= maxConnections)'
  <2>1. Move(c, "admitted", "decode") /\ slots' = slots /\ wg' = wg + 1
    BY <1>4 DEF Launch
  <2> QED
    BY <1>1, <2>1, MoveCounts
<1>5. ASSUME NEW c \in Clients, Release(c)
      PROVE  CountersExact' /\ (slots <= maxConnections)'
  <2>1. Move(c, "release", "finish") /\ slots' = slots - 1 /\ wg' = wg
    BY <1>5 DEF Release
  <2> QED
    BY <1>1, <2>1, MoveCounts
<1>6. ASSUME NEW c \in Clients, Finish(c)
      PROVE  CountersExact' /\ (slots <= maxConnections)'
  <2>1. Move(c, "finish", "over") /\ slots' = slots /\ wg' = wg - 1
    BY <1>6 DEF Finish
  <2> QED
    BY <1>1, <2>1, MoveCounts
<1>7. CASE CloseListener
  <2>1. Slotted' = Slotted /\ Counted' = Counted /\ slots' = slots /\ wg' = wg
    BY <1>7 DEF CloseListener, Slotted, Counted, Backlog
  <2> QED
    BY <1>1, <2>1
<1>8. CASE CheckStop \/ AcceptFails \/ CloseStopChan \/ Wait \/ UNCHANGED vars
  <2>1. conn' = conn /\ slots' = slots /\ wg' = wg
    BY <1>8 DEF CheckStop, AcceptFails, CloseStopChan, Wait, vars
  <2> QED
    BY <1>1, <2>1 DEF Slotted, Counted
<1> QED
  BY <1>2, <1>3, <1>4, <1>5, <1>6, <1>7, <1>8 DEF Next, Handler, AcceptStep

(* Every step keeps the places of connections and acceptLoop apart.        *)
LEMMA StepPlacesSound ==
  ASSUME PlacesSound, CountersExact, [Next]_vars
  PROVE  PlacesSound'
<1> USE DEF PlacesSound, OneInHand, Places
<1>1. ASSUME NEW c \in Clients, Connect(c) PROVE PlacesSound'
  BY <1>1 DEF Connect, Move, ListenerOpen, Backlog, Active
<1>2. CASE CheckStop \/ AcceptFails
  BY <1>2 DEF CheckStop, AcceptFails, ListenerOpen, Backlog, Active
<1>3. ASSUME NEW c \in Clients, Accept(c) PROVE PlacesSound'
  BY <1>3 DEF Accept, Move, ListenerOpen, Backlog, Active
<1>4. ASSUME NEW c \in Clients, Admit(c) PROVE PlacesSound'
  BY <1>4 DEF Admit, Move, ListenerOpen, Backlog, Active
<1>5. ASSUME NEW c \in Clients, Launch(c) PROVE PlacesSound'
  BY <1>5 DEF Launch, Move, ListenerOpen, Backlog, Active
<1>6. ASSUME NEW c \in Clients, TurnAway(c) PROVE PlacesSound'
  BY <1>6 DEF TurnAway, Move, ListenerOpen, Backlog, Active
<1>7. ASSUME NEW c \in Clients, Decode(c) \/ DecodeFails(c) \/ AnswerFails(c)
      PROVE  PlacesSound'
  BY <1>7 DEF Decode, DecodeFails, AnswerFails, Move, ListenerOpen, Backlog, Active
<1>8. ASSUME NEW c \in Clients, Answer(c) PROVE PlacesSound'
  BY <1>8 DEF Answer, Move, ListenerOpen, Backlog, Active
<1>9. ASSUME NEW c \in Clients, Close(c) PROVE PlacesSound'
  BY <1>9 DEF Close, Move, ListenerOpen, Backlog, Active
<1>10. ASSUME NEW c \in Clients, Release(c) \/ Finish(c) PROVE PlacesSound'
  BY <1>10 DEF Release, Finish, Move, ListenerOpen, Backlog, Active
<1>11. CASE CloseStopChan
  BY <1>11 DEF CloseStopChan, ListenerOpen, Backlog, Active
<1>12. CASE CloseListener
  <2>1. /\ stopping' = "waiting" /\ acceptor' = acceptor
        /\ conn' \in [Clients -> Places]
        /\ outcome' \in [Clients -> {"none", "answered", "closed"}]
    BY <1>12 DEF CloseListener
  <2>2. \A c \in Clients :
          /\ conn'[c] = IF conn[c] = "backlog" THEN "over" ELSE conn[c]
          /\ outcome'[c] = IF conn[c] = "backlog" THEN "closed" ELSE outcome[c]
    BY <1>12 DEF CloseListener, Backlog
  <2> QED
    BY <2>1, <2>2 DEF ListenerOpen, Backlog
<1>13. CASE Wait
  <2>1. /\ stopping' = "returned" /\ conn' = conn /\ outcome' = outcome
        /\ acceptor' = acceptor /\ stopping = "waiting" /\ wg = 0
    BY <1>13 DEF Wait
  <2>2. Counted = {} /\ Backlog = {}
    BY <2>1, CountType DEF CountersExact, Counted, ListenerOpen
  <2>3. \A c \in Active : conn[c] \in {"accepted", "admitted"}
    BY <2>2 DEF Active, Counted, Backlog
  <2>4. \A c, d \in Active : c = d
    BY <2>3 DEF Active
  <2> QED
    BY <2>1, <2>2, <2>4 DEF Backlog, Active
<1>14. CASE UNCHANGED vars
  BY <1>14 DEF vars, ListenerOpen, Backlog, Active
<1> QED
  BY <1>1, <1>2, <1>3, <1>4, <1>5, <1>6, <1>7, <1>8, <1>9, <1>10, <1>11, <1>12,
     <1>13, <1>14 DEF Next, Handler, AcceptStep

(* Every step of the server keeps its inductive invariant.                 *)
LEMMA StepServerSound == ServerSound /\ [Next]_vars => ServerSound'
BY StepCountersExact, StepPlacesSound DEF ServerSound

(* No connection is made and nothing is counted when the server starts.    *)
LEMMA InitServerSound == Init => ServerSound
<1> SUFFICES ASSUME Init PROVE ServerSound
  OBVIOUS
<1>1. Slotted = {} /\ Counted = {} /\ slots = 0 /\ wg = 0
  BY DEF Init, Slotted, Counted
<1>2. CountersExact /\ slots <= maxConnections
  BY <1>1, FS_EmptySet, SocketAssumption DEF CountersExact
<1> QED
  BY <1>2 DEF Init, ServerSound, PlacesSound, OneInHand, Places, ListenerOpen

(* The server's invariant has its type and counters.                       *)
LEMMA ServerTypeOK == ServerSound => TypeOK
<1> SUFFICES ASSUME ServerSound PROVE TypeOK
  OBVIOUS
<1>1. Slotted \in SUBSET Clients /\ Counted \in SUBSET Clients
  BY DEF Slotted, Counted
<1>2. slots \in 0..maxConnections /\ wg \in 0..Cardinality(Clients)
  BY <1>1, CountType, SocketAssumption DEF ServerSound, PlacesSound, CountersExact
<1> QED
  BY <1>2 DEF ServerSound, PlacesSound, TypeOK

(* When Stop has returned, one connection at most is left: the one         *)
(* acceptLoop had in hand, which no wait group counts.                     *)
LEMMA OneStraggler == ServerSound => AtMostOneStraggler
<1> SUFFICES ASSUME ServerSound, stopping = "returned"
             PROVE  Cardinality(Active) <= 1
  BY DEF AtMostOneStraggler, Active
<1>1. CASE Active = {}
  BY <1>1, FS_EmptySet
<1>2. CASE Active # {}
  <2>1. PICK c \in Active : TRUE
    BY <1>2
  <2>2. Active = {c}
    BY <2>1 DEF ServerSound, PlacesSound
  <2>3. Cardinality({c}) = 1
    BY FS_Singleton
  <2> QED
    BY <2>2, <2>3
<1> QED
  BY <1>1, <1>2

(* An answer that was written is not taken back (handleConnection).        *)
LEMMA AnswersKept ==
  ASSUME PlacesSound, [Next]_vars, NEW l \in Clients, outcome[l] = "answered"
  PROVE  outcome'[l] = "answered"
<1> USE DEF PlacesSound
<1>1. conn[l] \in {"close", "release", "finish", "over"}
  OBVIOUS
<1>2. ASSUME NEW c \in Clients, Answer(c) \/ Close(c) \/ TurnAway(c)
      PROVE  outcome'[l] = "answered"
  BY <1>1, <1>2 DEF Answer, Close, TurnAway, Move
<1>3. CASE CloseListener
  BY <1>1, <1>3 DEF CloseListener, Backlog
<1>4. CASE outcome' = outcome
  BY <1>4
<1> QED
  BY <1>2, <1>3, <1>4
     DEF Next, Handler, AcceptStep, Connect, CheckStop, AcceptFails, Accept, Admit,
         Launch, Decode, DecodeFails, AnswerFails, Release, Finish, CloseStopChan,
         Wait, vars

-----------------------------------------------------------------------------
(* The lookups *)

(* To the server, lookups are clients like others.                         *)
LEMMA LookupServerStep == [LookupNext]_allVars => [Next]_vars
<1> SUFFICES ASSUME [LookupNext]_allVars PROVE [Next]_vars
  OBVIOUS
<1> USE LookupAssumption
<1>1. ASSUME NEW l \in Lookups, connect_to_daemon(l) \/ ServeLookup(l) PROVE Next
  BY <1>1 DEF connect_to_daemon, ServeLookup, DecodeQuery, AnswerQuery, Next, Handler
<1>2. ASSUME NEW l \in Lookups, Unavailable(l) \/ GoOn(l) \/ ReadInterrupted(l)
      PROVE  UNCHANGED vars
  BY <1>2 DEF Unavailable, GoOn, ReadInterrupted, Return, send_query, SendFails,
              ReadAnswer, ReadEOF, ReadTimesOut
<1> QED
  BY <1>1, <1>2 DEF LookupNext, allVars, Next

(* The inductive invariant of the lookups: a reply comes with an answer,   *)
(* and a lookup that has succeeded found room for its reply.               *)
LookupsSound ==
  /\ lookup \in [Lookups -> {"idle", "connected", "sent", "returned"}]
  /\ status \in [Lookups -> {"none", "SUCCESS", "NOTFOUND", "UNAVAIL", "SIGPIPE"}]
  /\ reply \in [Lookups -> Replies \cup {NoReply}]
  /\ \A l \in Lookups :
       /\ lookup[l] = "returned" <=> status[l] # "none"
       /\ reply[l] # NoReply => outcome[l] = "answered"
       /\ status[l] = "SUCCESS" => fill_hostent(l, reply[l].addrs)

(* What a lookup returns is a status, and SUCCESS only if fill_hostent     *)
(* has found room (_nss_disco_gethostbyname_r, _nss_disco_gethostbyaddr_r).*)
LEMMA ReturnKeepsSound ==
  ASSUME LookupsSound, NEW l \in Lookups,
         NEW s \in {"SUCCESS", "NOTFOUND", "UNAVAIL", "SIGPIPE"},
         s = "SUCCESS" => fill_hostent(l, reply[l].addrs), Return(l, s)
  PROVE  LookupsSound'
<1>1. /\ lookup' = [lookup EXCEPT ![l] = "returned"]
      /\ status' = [status EXCEPT ![l] = s] /\ reply' = reply /\ outcome' = outcome
  BY DEF Return, vars
<1>2. /\ lookup' \in [Lookups -> {"idle", "connected", "sent", "returned"}]
      /\ status' \in [Lookups -> {"none", "SUCCESS", "NOTFOUND", "UNAVAIL", "SIGPIPE"}]
      /\ reply' \in [Lookups -> Replies \cup {NoReply}]
  BY <1>1 DEF LookupsSound
<1>3. ASSUME NEW m \in Lookups
      PROVE  /\ lookup'[m] = "returned" <=> status'[m] # "none"
             /\ reply'[m] # NoReply => outcome'[m] = "answered"
             /\ status'[m] = "SUCCESS" => fill_hostent(m, reply[m].addrs)
  BY <1>1 DEF LookupsSound
<1>4. \A m \in Lookups : fill_hostent(m, reply[m].addrs) = fill_hostent(m, reply'[m].addrs)
  BY <1>1
<1> QED
  BY <1>2, <1>3, <1>4 DEF LookupsSound

(* Every step keeps the lookups' inductive invariant.                      *)
LEMMA StepLookupsSound ==
  ASSUME ServerSound, LookupsSound, [LookupNext]_allVars
  PROVE  LookupsSound'
<1>1. \A l \in Lookups : outcome[l] = "answered" => outcome'[l] = "answered"
  BY AnswersKept, LookupServerStep, LookupAssumption DEF ServerSound
<1>2. CASE UNCHANGED lookupVars
  BY <1>1, <1>2 DEF LookupsSound, lookupVars
<1>3. ASSUME NEW l \in Lookups, connect_to_daemon(l) PROVE LookupsSound'
  <2>1. /\ lookup[l] = "idle" /\ lookup' = [lookup EXCEPT ![l] = "connected"]
        /\ reply' = reply /\ status' = status
    BY <1>3 DEF connect_to_daemon
  <2> QED
    BY <1>1, <2>1 DEF LookupsSound
<1>4. ASSUME NEW l \in Lookups, send_query(l) PROVE LookupsSound'
  <2>1. /\ lookup[l] = "connected" /\ lookup' = [lookup EXCEPT ![l] = "sent"]
        /\ reply' = reply /\ status' = status
    BY <1>4 DEF send_query
  <2> QED
    BY <1>1, <2>1 DEF LookupsSound
<1>5. ASSUME NEW l \in Lookups, ReadAnswer(l) PROVE LookupsSound'
  <2> DEFINE s == IF l \in ByAddr THEN gethostbyaddr(l, reply[l])
                                  ELSE gethostbyname(l, reply[l])
  <2>1. /\ s \in {"SUCCESS", "NOTFOUND", "UNAVAIL", "SIGPIPE"}
        /\ s = "SUCCESS" => fill_hostent(l, reply[l].addrs)
    BY DEF gethostbyaddr, gethostbyname
  <2>2. Return(l, s)
    BY <1>5 DEF ReadAnswer
  <2> HIDE DEF s
  <2> QED
    BY <2>1, <2>2, ReturnKeepsSound
<1>6. ASSUME NEW l \in Lookups,
             \/ Unavailable(l) \/ SendFails(l) \/ ReadEOF(l) \/ ReadTimesOut(l)
             \/ ReadInterrupted(l)
      PROVE  LookupsSound'
  <2>1. PICK s \in {"NOTFOUND", "UNAVAIL", "SIGPIPE"} : Return(l, s)
    BY <1>6 DEF Unavailable, SendFails, ReadEOF, ReadTimesOut, ReadInterrupted
  <2> QED
    BY <2>1, ReturnKeepsSound
<1>7. ASSUME NEW l \in Lookups, AnswerQuery(l) PROVE LookupsSound'
  <2>1. PICK r \in Replies : reply' = [reply EXCEPT ![l] = r]
    BY <1>7 DEF AnswerQuery
  <2>2. lookup[l] = "sent" /\ lookup' = lookup /\ status' = status
    BY <1>7 DEF AnswerQuery
  <2>3. outcome'[l] = "answered"
    BY <1>7, LookupAssumption DEF AnswerQuery, Answer, ServerSound, PlacesSound
  <2>4. status[l] = "none"
    BY <2>2 DEF LookupsSound
  <2>5. /\ reply' \in [Lookups -> Replies \cup {NoReply}]
        /\ \A k \in Lookups : k # l => reply'[k] = reply[k]
    BY <2>1 DEF LookupsSound
  <2> QED
    BY <1>1, <2>2, <2>3, <2>4, <2>5 DEF LookupsSound
<1> QED
  BY <1>2, <1>3, <1>4, <1>5, <1>6, <1>7
     DEF LookupNext, GoOn, ServeLookup, DecodeQuery, allVars, lookupVars

(* The inductive invariants hold throughout.                               *)
LEMMA LookupsAlwaysSound == LookupSpec => [](ServerSound /\ LookupsSound)
<1>1. LookupInit => ServerSound /\ LookupsSound
  BY InitServerSound DEF LookupInit, LookupsSound
<1>2. ServerSound /\ LookupsSound /\ [LookupNext]_allVars
        => (ServerSound /\ LookupsSound)'
  BY LookupServerStep, StepServerSound, StepLookupsSound
<1> QED
  BY <1>1, <1>2, PTL DEF LookupSpec

(* With its lookups, the server behaves as the server of SocketServer.     *)
THEOREM LookupsImplementServer == LookupSpec => Spec
<1>1. LookupInit => Init
  BY DEF LookupInit
<1> QED
  BY <1>1, LookupServerStep, PTL DEF LookupSpec, Spec

(* The state of server and lookups has its type, and no more connections   *)
(* are served at once than the semaphore has room for (acceptLoop).        *)
THEOREM LookupTypeCorrect == LookupSpec => []LookupTypeOK
<1>1. ServerSound /\ LookupsSound => LookupTypeOK
  BY ServerTypeOK DEF LookupsSound, LookupTypeOK
<1> QED
  BY <1>1, LookupsAlwaysSound, PTL

(* The semaphore and the wait group count exactly the connections that     *)
(* are served, on every path through acceptLoop and handleConnection.      *)
THEOREM CountersAlwaysExact == LookupSpec => []CountersExact
<1>1. ServerSound => CountersExact
  BY DEF ServerSound
<1> QED
  BY <1>1, LookupsAlwaysSound, PTL

(* When Stop has returned, one connection at most is still served, however *)
(* many there were (Stop, acceptLoop).                                     *)
THEOREM NeverTwoStragglers == LookupSpec => []AtMostOneStraggler
BY OneStraggler, LookupsAlwaysSound, PTL

(* The macro that aligns offsets gives the next multiple.                  *)
LEMMA RoundedUp ==
  ASSUME NEW n \in Nat, NEW align \in {4, 8, 16}
  PROVE  /\ RoundUp(n, align) \in Nat /\ n <= RoundUp(n, align)
         /\ RoundUp(n, align) % align = 0
<1>1. CASE align = 4
  BY <1>1 DEF RoundUp
<1>2. CASE align = 8
  BY <1>2 DEF RoundUp
<1>3. CASE align = 16
  BY <1>3 DEF RoundUp
<1> QED
  BY <1>1, <1>2, <1>3

(* A reply has a natural number of addresses of a family.                  *)
LEMMA FamilyCounted ==
  ASSUME NEW l \in Lookups, NEW addrs, Len(addrs) \in Nat
  PROVE  OfFamily(l, addrs) \in Nat
<1> DEFINE S == {i \in extract_json_addrs(addrs) : addrs[i] = family[l]}
<1>1. IsFiniteSet(1..Len(addrs))
  BY FS_Interval
<1>2. S \in SUBSET (1..Len(addrs))
  BY DEF extract_json_addrs
<1>3. Cardinality(S) \in Nat
  BY <1>1, <1>2, FS_Subset, FS_CardinalityType
<1> QED
  BY <1>3 DEF OfFamily

(* A lookup that succeeds has laid its answer out inside the caller's      *)
(* buffer, aligned and without overlap (fill_hostent), for any name,       *)
(* buffer and answer.                                                      *)
THEOREM HostentAlwaysInBuffer == LookupSpec => []HostentInBuffer
<1>1. LookupsSound => HostentInBuffer
  <2> SUFFICES ASSUME LookupsSound, NEW l \in Lookups, status[l] = "SUCCESS"
               PROVE  LET n == OfFamily(l, reply[l].addrs) IN
                      /\ nameLen[l] + 1 <= AliasesAt(l) /\ AliasesAt(l) % PointerSize = 0
                      /\ AddrListAt(l) + (n + 1) * PointerSize <= AddrDataAt(l, n)
                      /\ AddrDataAt(l, n) % AddrSize(l) = 0
                      /\ AddrDataAt(l, n) + n * AddrSize(l) <= buflen[l]
    BY DEF HostentInBuffer
  <2> DEFINE n == OfFamily(l, reply[l].addrs)
  <2>1. Len(reply[l].addrs) \in Nat
    <3>1. CASE reply[l] = NoReply
      BY <3>1 DEF NoReply
    <3>2. CASE reply[l] \in Replies
      BY <3>2, LookupAssumption
    <3> QED
      BY <3>1, <3>2 DEF LookupsSound
  <2>2. n \in Nat
    BY <2>1, FamilyCounted
  <2>3. TotalNeeded(l, n) <= buflen[l]
    BY DEF LookupsSound, fill_hostent
  <2> HIDE DEF n
  <2>4. nameLen[l] + 1 \in Nat /\ PointerSize = 8 /\ AddrSize(l) \in {4, 16}
    <3>1. nameLen[l] \in 1..253
      BY LookupAssumption
    <3>2. AddrSize(l) \in {4, 16}
      BY DEF AddrSize
    <3> QED
      BY <3>1, <3>2 DEF PointerSize
  <2>5. /\ AliasesAt(l) \in Nat /\ nameLen[l] + 1 <= AliasesAt(l)
        /\ AliasesAt(l) % PointerSize = 0
    BY <2>4, RoundedUp DEF AliasesAt
  <2>6. AddrListAt(l) + (n + 1) * PointerSize \in Nat
    BY <2>2, <2>4, <2>5 DEF AddrListAt
  <2>7. /\ AddrListAt(l) + (n + 1) * PointerSize <= AddrDataAt(l, n)
        /\ AddrDataAt(l, n) % AddrSize(l) = 0
    BY <2>4, <2>6, RoundedUp DEF AddrDataAt
  <2> QED
    BY <2>3, <2>5, <2>7 DEF TotalNeeded, n
<1> QED
  BY <1>1, LookupsAlwaysSound, PTL

=============================================================================

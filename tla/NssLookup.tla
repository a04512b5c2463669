----------------------------- MODULE NssLookup -----------------------------
(***************************************************************************)
(* Lookups of the NSS library (libnss/nss_disco.c) against the daemon's    *)
(* query socket (SocketServer). A lookup runs inside a program that called *)
(* gethostbyname or gethostbyaddr: it connects, writes its query, waits    *)
(* for the answer for five seconds at most, and lays the answer out in the *)
(* caller's buffer. The daemon may turn it away, stop, or hang meanwhile.  *)
(*                                                                         *)
(* An answer is a name, which validate_hostname accepts or not, and a      *)
(* sequence of addresses of which only the family matters; no record and   *)
(* a record without addresses come to the same. Answers are smaller than   *)
(* the 8 KiB the library reads: a record fits into a datagram of 4 KiB.    *)
(***************************************************************************)
EXTENDS SocketServer, Sequences

CONSTANTS Lookups,    \* the clients that are lookups; others are commands
          ByAddr,     \* those of them that ask for an address
          Replies,    \* what the store may hold: [goodName, addrs]
          family,     \* lookup |-> "v4" or "v6"
          nameLen,    \* lookup |-> length of the name in the hostent
          buflen      \* lookup |-> size of the caller's buffer

MAX_ADDRS == 4
PointerSize == 8

ASSUME LookupAssumption ==
  /\ Lookups \subseteq Clients /\ ByAddr \subseteq Lookups
  /\ \A r \in Replies : /\ r.goodName \in BOOLEAN
                        /\ r.addrs \in Seq({"v4", "v6", "invalid"})
  /\ family \in [Lookups -> {"v4", "v6"}]
  /\ nameLen \in [Lookups -> 1..253]
  /\ buflen \in [Lookups -> Nat]

VARIABLES lookup,  \* lookup |-> how far it has come
          reply,   \* lookup |-> what the daemon wrote to it, if anything
          status   \* lookup |-> what it returned to the program

lookupVars == <<lookup, reply, status>>
allVars == <<vars, lookupVars>>

NoReply == [goodName |-> FALSE, addrs |-> <<>>]

LookupInit ==
  /\ Init
  /\ lookup = [l \in Lookups |-> "idle"]
  /\ reply = [l \in Lookups |-> NoReply]
  /\ status = [l \in Lookups |-> "none"]

-----------------------------------------------------------------------------
(* The answer and the caller's buffer *)

\* Where the first four addresses that are addresses at all stand.
extract_json_addrs(addrs) ==
  {i \in 1..Len(addrs) :
     /\ addrs[i] # "invalid"
     /\ Cardinality({j \in 1..i : addrs[j] # "invalid"}) <= MAX_ADDRS}

OfFamily(l, addrs) ==
  Cardinality({i \in extract_json_addrs(addrs) : addrs[i] = family[l]})

AddrSize(l) == IF family[l] = "v4" THEN 4 ELSE 16

RoundUp(n, align) == ((n + align - 1) \div align) * align

\* Where h_aliases, h_addr_list and the n addresses begin.
AliasesAt(l) == RoundUp(nameLen[l] + 1, PointerSize)
AddrListAt(l) == AliasesAt(l) + PointerSize

\* Wrong on purpose: no room for the NULL at the end of h_addr_list.
AddrDataAtTight(l, n) == RoundUp(AddrListAt(l) + n * PointerSize, AddrSize(l))

AddrDataAt(l, n) == RoundUp(AddrListAt(l) + (n + 1) * PointerSize, AddrSize(l))

TotalNeeded(l, n) == AddrDataAt(l, n) + n * AddrSize(l)

\* fill_hostent returns 0.
fill_hostent(l, addrs) ==
  LET n == OfFamily(l, addrs) IN n > 0 /\ TotalNeeded(l, n) <= buflen[l]

gethostbyname(l, r) == IF fill_hostent(l, r.addrs) THEN "SUCCESS" ELSE "NOTFOUND"

gethostbyaddr(l, r) ==
  IF r.goodName /\ fill_hostent(l, r.addrs) THEN "SUCCESS" ELSE "NOTFOUND"

-----------------------------------------------------------------------------
(* The steps of a lookup *)

Return(l, s) ==
  /\ lookup' = [lookup EXCEPT ![l] = "returned"]
  /\ status' = [status EXCEPT ![l] = s]
  /\ UNCHANGED <<vars, reply>>

connect_to_daemon(l) ==
  /\ lookup[l] = "idle"
  /\ Connect(l)
  /\ lookup' = [lookup EXCEPT ![l] = "connected"]
  /\ UNCHANGED <<reply, status>>

\* The name is not one, there is no descriptor left, or connect() is refused:
\* closing the listener removes the socket.
Unavailable(l) == lookup[l] = "idle" /\ Return(l, "UNAVAIL")

send_query(l) ==
  /\ lookup[l] = "connected" /\ outcome[l] # "closed"
  /\ lookup' = [lookup EXCEPT ![l] = "sent"]
  /\ UNCHANGED <<vars, reply, status>>

\* write() finds the connection closed. It raises SIGPIPE, which ends a
\* program that does not ignore it.
SendFails(l) ==
  /\ lookup[l] = "connected" /\ outcome[l] = "closed"
  /\ \E s \in {"UNAVAIL", "SIGPIPE"} : Return(l, s)

\* read_response has read something.
ReadAnswer(l) ==
  /\ lookup[l] = "sent" /\ outcome[l] = "answered"
  /\ Return(l, IF l \in ByAddr THEN gethostbyaddr(l, reply[l])
                               ELSE gethostbyname(l, reply[l]))

ReadEOF(l) ==
  /\ lookup[l] = "sent" /\ outcome[l] = "closed"
  /\ Return(l, "NOTFOUND")

\* Wrong on purpose: select() is given no timeout.
WaitForEver(l) ==
  /\ lookup[l] = "sent" /\ outcome[l] = "none" /\ conn[l] = "over"
  /\ Return(l, "NOTFOUND")

\* The five seconds pass. The library closes its end.
ReadTimesOut(l) ==
  /\ lookup[l] = "sent" /\ outcome[l] = "none"
  /\ Return(l, "NOTFOUND")

\* A signal of the program ends select(): what was read is dropped.
ReadInterrupted(l) == lookup[l] = "sent" /\ Return(l, "NOTFOUND")

\* What a lookup does of itself once it has begun.
GoOn(l) ==
  \/ send_query(l) \/ SendFails(l)
  \/ ReadAnswer(l) \/ ReadEOF(l) \/ ReadTimesOut(l)

-----------------------------------------------------------------------------
(* The daemon, as it deals with lookups *)

\* The query is there to be decoded once it was written.
DecodeQuery(l) ==
  /\ lookup[l] # "connected" /\ status[l] \notin {"UNAVAIL", "SIGPIPE"}
  /\ Decode(l)
  /\ UNCHANGED lookupVars

\* handleQueryByName or handleQueryByAddr looks the record up; it reaches a
\* lookup that has not closed its end.
AnswerQuery(l) ==
  /\ lookup[l] = "sent"
  /\ Answer(l)
  /\ \E r \in Replies : reply' = [reply EXCEPT ![l] = r]
  /\ UNCHANGED <<lookup, status>>

ServeLookup(l) ==
  \/ DecodeQuery(l)
  \/ AnswerQuery(l)
  \/ /\ DecodeFails(l) \/ AnswerFails(l) \/ Close(l) \/ Release(l) \/ Finish(l)
     /\ UNCHANGED lookupVars

LookupNext ==
  \/ \E l \in Lookups :
       \/ connect_to_daemon(l) \/ Unavailable(l)
       \/ GoOn(l) \/ ReadInterrupted(l)
       \/ ServeLookup(l)
  \/ /\ \/ \E c \in Clients \ Lookups : Connect(c) \/ Handler(c)
        \/ AcceptStep
        \/ CloseStopChan
        \/ CloseListener
        \/ Wait
     /\ UNCHANGED lookupVars

\* A program that has begun a lookup goes on with it. The daemon may hang.
LookupSpec ==
  /\ LookupInit /\ [][LookupNext]_allVars
  /\ \A l \in Lookups : WF_allVars(GoOn(l))

\* The daemon does not hang: its goroutines go on when they can, and a handler
\* waits no longer than its deadline.
DaemonRuns ==
  /\ WF_allVars(AcceptStep /\ UNCHANGED lookupVars)
  /\ \A c \in Clients \ Lookups : WF_allVars(Handler(c) /\ UNCHANGED lookupVars)
  /\ \A l \in Lookups : WF_allVars(ServeLookup(l))
  /\ WF_allVars((CloseListener \/ Wait) /\ UNCHANGED lookupVars)

-----------------------------------------------------------------------------
(* A lookup has a status exactly when it has returned, and a reply only    *)
(* when the daemon answered it; the state of the daemon has its type, with *)
(* no more connections served at once than the semaphore has room for      *)
(* (acceptLoop, disco_query).                                              *)
LookupTypeOK ==
  /\ TypeOK
  /\ lookup \in [Lookups -> {"idle", "connected", "sent", "returned"}]
  /\ status \in [Lookups -> {"none", "SUCCESS", "NOTFOUND", "UNAVAIL", "SIGPIPE"}]
  /\ \A l \in Lookups :
       /\ lookup[l] = "returned" <=> status[l] # "none"
       /\ reply[l] # NoReply => reply[l] \in Replies /\ outcome[l] = "answered"

(* Whatever the daemon does, turn a lookup away, stop or hang, a lookup    *)
(* that has connected returns to its program (read_response).              *)
LookupsReturn ==
  \A l \in Lookups : (lookup[l] = "connected") ~> (lookup[l] = "returned")

(* While the daemon runs, every client that connects gets an answer or     *)
(* sees its connection closed, however many there are, whoever gives up    *)
(* and whenever the daemon stops (acceptLoop, handleConnection).           *)
ClientsReleased ==
  DaemonRuns => \A c \in Clients : (conn[c] = "backlog") ~> (outcome[c] # "none")

(* While the daemon runs, Stop returns: neither a handler nor a client     *)
(* that went away keeps it waiting for ever (Stop, handleConnection).      *)
StopReturns ==
  DaemonRuns => ((stopping = "stopChan") ~> (stopping = "returned"))

(* A lookup that returns an answer has laid it out inside the caller's     *)
(* buffer: the name with its NUL, the list of aliases, the list of         *)
(* addresses with its NULL and the addresses follow each other without     *)
(* overlap, pointers and addresses at offsets that are multiples of their  *)
(* sizes (fill_hostent).                                                   *)
HostentInBuffer ==
  \A l \in Lookups : status[l] = "SUCCESS" =>
    LET n == OfFamily(l, reply[l].addrs) IN
    /\ nameLen[l] + 1 <= AliasesAt(l) /\ AliasesAt(l) % PointerSize = 0
    /\ AddrListAt(l) + (n + 1) * PointerSize <= AddrDataAt(l, n)
    /\ AddrDataAt(l, n) % AddrSize(l) = 0
    /\ AddrDataAt(l, n) + n * AddrSize(l) <= buflen[l]

=============================================================================

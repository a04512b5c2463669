---------------------------- MODULE SignedTraffic ----------------------------
(***************************************************************************)
(* Signed announcements between nodes, where signatures are required:      *)
(* Announcer.createAnnouncement signs them with the time of the sender's   *)
(* clock, the network delays, duplicates and reorders them, and the        *)
(* Listener of one node, Me, drops the copies its duplicate filter has met *)
(* and then those KeyManager.Verify refuses.                               *)
(*                                                                         *)
(* The filter counts time on the monotonic clock, Verify on the wall       *)
(* clock, in whole seconds. The nodes' wall clocks differ by constant      *)
(* amounts. A daemon that restarts has a new filter and reads its keys     *)
(* again.                                                                  *)
(***************************************************************************)
EXTENDS DuplicateFilter, KeyManager, RateLimiter

CONSTANTS Me,        \* the node whose listener is modelled
          Ahead,     \* node |-> ticks its wall clock is ahead
          MaxStarts, \* bound: starts of daemons once time has begun to count
          FewKeys    \* bound: keys drawn where time counts; more with clock = 0

VARIABLES sent,    \* datagrams that may still arrive, any number of times
          heard,   \* IDs of which a copy was handed to the daemon
          starts   \* daemons started since time began to count

\* NewDuplicateFilter(5 * time.Minute) and replayTTL = 300 agree. IDs are
\* numbered in the order of their messages.
ASSUME WindowAssumption ==
  /\ Me \in Nodes
  /\ IDs \subseteq Nat
  /\ TTL = replayTTL * TicksPerSecond
  /\ Ahead \in [Nodes -> Nat]

trafficVars == <<filterVars, keyVars, limiterVars, sent, heard, starts>>

\* time.Now().Unix() on node n.
Unix(n) == (clock + Ahead[n]) \div TicksPerSecond

TrafficInit ==
  /\ Init
  /\ InitKeys
  /\ InitAt(0)
  /\ sent = {}
  /\ heard = {}
  /\ starts = 0

\* An ID is a hostname and a time in nanoseconds: no two messages share one.
\* A broadcast beyond the last ID is one that gets lost.
NextID == {i \in IDs \ {d.id : d \in sent} : \A j \in IDs \ {d.id : d \in sent} : i <= j}

createAnnouncement(n, i) ==
  [id |-> i, from |-> n, signature |-> Sign(n, Unix(n))]

sendAnnouncement(n) == sent' = sent \cup {createAnnouncement(n, i) : i \in NextID}

\* A periodic broadcast of Me.
Announce ==
  /\ Started(Me)
  /\ broadcast(clock)
  /\ IF Filled(clock) > 0 THEN sendAnnouncement(Me) ELSE UNCHANGED sent
  /\ UNCHANGED <<filterVars, keyVars, heard, starts>>

\* Any broadcast of another node, or an immediate one of Me (BroadcastNow).
Send(n) ==
  /\ Started(n) /\ NextID # {}
  /\ sendAnnouncement(n)
  /\ UNCHANGED <<filterVars, keyVars, limiterVars, heard, starts>>

\* The listener reads a copy it has not met. It notes the ID first.
Receive(d) ==
  /\ Started(Me)
  /\ Seen(d.id)
  /\ heard' = IF Verify(Me, d.signature, Unix(Me)) THEN heard \cup {d.id} ELSE heard
  /\ UNCHANGED <<keyVars, limiterVars, sent, starts>>

Sweep == cleanup /\ UNCHANGED <<keyVars, limiterVars, sent, heard, starts>>

TimePasses ==
  /\ drawn <= FewKeys
  /\ Advance
  /\ TickerAdvances(clock + 1)
  /\ UNCHANGED <<keyVars, sent, heard, starts>>

\* The daemon of n starts, for the first time, after a stop or after a crash.
Start(n) ==
  /\ clock = 0 \/ starts < MaxStarts
  /\ starts' = IF clock = 0 THEN 0 ELSE starts + 1
  /\ StartKeys(n)
  /\ IF n = Me
     THEN /\ seen' = [i \in {} |-> 0] /\ accepted' = [i \in {} |-> 0]
          /\ due' = clock + TTL /\ ticked' = FALSE /\ sweeping' = TRUE
          /\ heard' = {}
          /\ StartOver(clock)
          /\ UNCHANGED clock
     ELSE UNCHANGED <<filterVars, heard, limiterVars>>
  /\ UNCHANGED sent

\* Bound: the operator has done with the keys before time begins to count.
Operate ==
  /\ clock = 0 /\ sent = {}
  /\ KeyStep
  /\ UNCHANGED <<filterVars, limiterVars, sent, heard, starts>>

TrafficNext ==
  \/ Announce
  \/ \E n \in Nodes : Send(n) \/ Start(n)
  \/ \E d \in sent : Receive(d)
  \/ Sweep
  \/ TimePasses
  \/ Operate

TrafficSpec == TrafficInit /\ [][TrafficNext]_trafficVars

-----------------------------------------------------------------------------
(* The bucket is never empty when the announcer asks, however late its     *)
(* loop runs and however many ticks it misses: no periodic broadcast is    *)
(* ever refused, though Allow drops the fractions of seconds (Allow,       *)
(* Announcer.Start).                                                       *)
NeverRefused == waiting => Filled(clock) > 0

Verifies(d) == Verify(Me, d.signature, Unix(Me))

(* The duplicate filter suppresses no message that was not heard: if an ID *)
(* was met and a copy would verify now, then a copy was handed on, unless  *)
(* the sender's clock is ahead. The filter notes an ID before Verify has   *)
(* judged the copy (Listener.Start): a copy that comes too early would     *)
(* take the others with it.                                                *)
NoneSuppressed ==
  \A d \in sent :
    d.id \in DOMAIN seen /\ Verifies(d) /\ Ahead[d.from] <= Ahead[Me]
      => d.id \in heard

(* However long copies are under way, a daemon hands a message on for a    *)
(* second time only in the last second of the time Verify allows it: the   *)
(* filter forgets an ID when more than five minutes have passed, and       *)
(* Verify takes a message that is five minutes old, in whole seconds       *)
(* (DuplicateFilter.cleanup, Verify).                                      *)
HeardAgainOnlyAtTheEdge ==
  [][\A d \in sent :
       Receive(d) /\ Verifies(d) /\ d.id \in heard
         => Unix(Me) - d.signature.stamp = replayTTL]_trafficVars

=============================================================================

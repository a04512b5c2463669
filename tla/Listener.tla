------------------------------ MODULE Listener ------------------------------
(***************************************************************************)
(* How a datagram reaches the daemon's stores: the Listener of             *)
(* internal/discovery/broadcast.go, with its reader goroutine, duplicate   *)
(* filter and three channels, the daemon's loops that empty the channels   *)
(* (internal/daemon/daemon.go), and the shutdown that takes it all down    *)
(* while messages are in flight.                                           *)
(*                                                                         *)
(* Every sender puts the same datagram on several broadcast addresses      *)
(* (sendAnnouncement), so the network delivers any datagram, any number of *)
(* times, in any order; what finds the socket's buffer full is lost.       *)
(***************************************************************************)
EXTENDS Integers, Sequences

CONSTANTS Datagrams,      \* [id, kind, decodes, sig, from, stamp]
          HasKeys,        \* security.enabled: there is a key manager
          RequireSigned,  \* security.require_signed
          TimeSync,       \* the values time_sync.enabled may have
          SockCap,        \* bound: datagrams the kernel buffers
          ChanCap,        \* capacity of the three channels (100)
          TTL, MaxTime    \* of the duplicate filter

Kinds == {"announce", "time", "location"}

MessageIDs == {d.id : d \in Datagrams}

\* NewListener refuses to require signatures it cannot verify.
ASSUME ListenerAssumption ==
  /\ \A d \in Datagrams :
       /\ d.kind \in Kinds
       /\ d.decodes \in {"nothing", "header", "all"}
       /\ d.sig \in {"none", "good", "bad"}
       /\ d.stamp \in Nat \ {0}
  /\ HasKeys \in BOOLEAN /\ RequireSigned \in BOOLEAN /\ TimeSync \subseteq BOOLEAN
  /\ RequireSigned => HasKeys
  /\ SockCap \in Nat /\ ChanCap \in Nat \ {0}
  /\ TTL \in Nat \ {0} /\ MaxTime \in Nat

VARIABLES sock,       \* datagrams in the kernel's buffer
          reader,     \* where the reader goroutine is
          cur,        \* the message it has in hand, when it is at "send"
          chan,       \* kind |-> messages in its channel
          closed,     \* the three channels are closed
          shutdown,   \* how far waitForShutdown has come
          consuming,  \* kinds whose process...Messages loop is running
          cache,      \* hosts of the record store |-> stamp of the message
          locations,  \* sources of the location store |-> stamp of the fix
          seen, clock, due, ticked, sweeping, accepted

filterVars == <<seen, clock, due, ticked, sweeping, accepted>>
pipeVars == <<sock, reader, cur, chan, closed, shutdown, consuming>>
storeVars == <<cache, locations>>
vars == <<pipeVars, storeVars, filterVars>>

Filter == INSTANCE DuplicateFilter WITH IDs <- MessageIDs

Nothing == [id |-> "", kind |-> "none"]

Init ==
  /\ sock = <<>>
  /\ reader = "unborn"
  /\ cur = Nothing
  /\ chan = [k \in Kinds |-> <<>>]
  /\ closed = FALSE
  /\ shutdown = "no"
  /\ \E enabled \in TimeSync :
       consuming = {"announce", "location"}
                     \cup (IF enabled THEN {"time"} ELSE {})
  /\ cache = [h \in {} |-> 0]
  /\ locations = [s \in {} |-> 0]
  /\ Filter!Init

-----------------------------------------------------------------------------
(* The network and the clock. *)

Arrive(d) ==
  /\ Len(sock) < SockCap
  /\ sock' = Append(sock, d)
  /\ UNCHANGED <<reader, cur, chan, closed, shutdown, consuming>>
  /\ UNCHANGED <<storeVars, filterVars>>

FilterStep ==
  /\ Filter!Advance \/ Filter!cleanup
  /\ UNCHANGED <<pipeVars, storeVars>>

-----------------------------------------------------------------------------
(* The reader goroutine. stopChan is closed once a shutdown has begun.     *)

Stopping == shutdown # "no"

\* Listener.Start adds the reader to the wait group and launches it; it runs
\* in a goroutine of its own, so the shutdown can overtake it.
Start ==
  /\ reader = "unborn"
  /\ reader' = "loop"
  /\ UNCHANGED <<sock, cur, chan, closed, shutdown, consuming>>
  /\ UNCHANGED <<storeVars, filterVars>>

CheckStop ==
  /\ reader = "loop"
  /\ reader' = IF Stopping THEN "done" ELSE "read"
  /\ UNCHANGED <<sock, cur, chan, closed, shutdown, consuming>>
  /\ UNCHANGED <<storeVars, filterVars>>

\* The read deadline passes, or the connection has been closed.
ReadFails ==
  /\ reader = "read"
  /\ sock = <<>> \/ shutdown \in {"waiting", "done"}
  /\ reader' = "loop"
  /\ UNCHANGED <<sock, cur, chan, closed, shutdown, consuming>>
  /\ UNCHANGED <<storeVars, filterVars>>

\* A datagram is read into the buffer.
Read ==
  /\ reader = "read"
  /\ sock # <<>> /\ shutdown \notin {"waiting", "done"}
  /\ sock' = Tail(sock)
  /\ UNCHANGED <<chan, closed, shutdown, consuming, storeVars>>

\* Wrong on purpose: signatures are verified, never required.
SignatureOKIfAny(d) == HasKeys /\ d.sig # "none" => d.sig = "good"

SignatureOK(d) ==
  /\ RequireSigned => d.sig # "none"
  /\ HasKeys /\ d.sig # "none" => d.sig = "good"

\* Locations are taken as they are: handleLocationMessage verifies nothing.
Passes(d) == d.decodes = "all" /\ (d.kind = "location" \/ SignatureOK(d))

\* No header to read, or an ID that was met before.
ReadDropped ==
  /\ Read
  /\ \/ Head(sock).decodes = "nothing"
     \/ Head(sock).id \in DOMAIN seen
  /\ reader' = "loop"
  /\ UNCHANGED <<cur, filterVars>>

\* The ID is noted before the body is decoded and the signature verified.
ReadRejected ==
  /\ Read
  /\ Head(sock).decodes # "nothing" /\ ~Passes(Head(sock))
  /\ Filter!Seen(Head(sock).id)
  /\ reader' = "loop"
  /\ UNCHANGED cur

ReadPassed ==
  /\ Read
  /\ Passes(Head(sock))
  /\ Filter!Seen(Head(sock).id)
  /\ reader' = "send"
  /\ cur' = Head(sock)

\* Wrong on purpose: a full channel is not waited for.
SendUnbounded ==
  /\ reader = "send"
  /\ chan' = [chan EXCEPT ![cur.kind] = Append(@, cur)]
  /\ reader' = "loop"
  /\ cur' = Nothing
  /\ UNCHANGED <<sock, closed, shutdown, consuming, storeVars, filterVars>>

Send ==
  /\ reader = "send"
  /\ Len(chan[cur.kind]) < ChanCap
  /\ chan' = [chan EXCEPT ![cur.kind] = Append(@, cur)]
  /\ reader' = "loop"
  /\ cur' = Nothing
  /\ UNCHANGED <<sock, closed, shutdown, consuming, storeVars, filterVars>>

\* Wrong on purpose: only announcements are given up when the daemon stops.
GiveUpAnnounce ==
  /\ reader = "send" /\ Stopping /\ cur.kind = "announce"
  /\ reader' = "done"
  /\ cur' = Nothing
  /\ UNCHANGED <<sock, chan, closed, shutdown, consuming, storeVars, filterVars>>

\* The other case of the select around each send: stopChan is closed.
GiveUp ==
  /\ reader = "send" /\ Stopping
  /\ reader' = IF cur.kind = "announce" THEN "done" ELSE "loop"
  /\ cur' = Nothing
  /\ UNCHANGED <<sock, chan, closed, shutdown, consuming, storeVars, filterVars>>

ReaderStep ==
  \/ Start \/ CheckStop \/ ReadFails \/ ReadDropped \/ ReadRejected
  \/ ReadPassed \/ Send \/ GiveUp

-----------------------------------------------------------------------------
(* The daemon: one loop per channel, and waitForShutdown. *)

Receive(k) ==
  /\ k \in consuming /\ chan[k] # <<>>
  /\ chan' = [chan EXCEPT ![k] = Tail(@)]
  /\ UNCHANGED <<sock, reader, cur, closed, shutdown, consuming, filterVars>>

\* The record made of the message goes into the record store.
handleDiscoveryMessage(m) == cache' = Filter!Extend(cache, m.from, m.stamp)

\* LocationStore.AddOrUpdate: whatever the source's fix was, this one is now.
storeLocation(m) == locations' = Filter!Extend(locations, m.from, m.stamp)

processDiscoveryMessages ==
  /\ Receive("announce")
  /\ handleDiscoveryMessage(Head(chan["announce"]))
  /\ UNCHANGED locations

processLocationMessages ==
  /\ Receive("location")
  /\ storeLocation(Head(chan["location"]))
  /\ UNCHANGED cache

\* What TimeSyncService.ProcessMessage keeps is modelled in TimeSync.
processTimeMessages == Receive("time") /\ UNCHANGED storeVars

\* Wrong on purpose: the loop ends when it finds its channel empty.
LoopEndsWhenEmpty(k) ==
  /\ k \in consuming /\ chan[k] = <<>>
  /\ consuming' = consuming \ {k}
  /\ UNCHANGED <<sock, reader, cur, chan, closed, shutdown>>
  /\ UNCHANGED <<storeVars, filterVars>>

\* range over a closed channel ends once it is empty.
LoopEnds(k) ==
  /\ k \in consuming /\ closed /\ chan[k] = <<>>
  /\ consuming' = consuming \ {k}
  /\ UNCHANGED <<sock, reader, cur, chan, closed, shutdown>>
  /\ UNCHANGED <<storeVars, filterVars>>

\* A signal arrives: waitForShutdown closes stopChan.
Signal ==
  /\ shutdown = "no"
  /\ shutdown' = "stopping"
  /\ UNCHANGED <<sock, reader, cur, chan, closed, consuming>>
  /\ UNCHANGED <<storeVars, filterVars>>

CloseConnections ==
  /\ shutdown = "stopping"
  /\ shutdown' = "waiting"
  /\ UNCHANGED <<sock, reader, cur, chan, closed, consuming>>
  /\ UNCHANGED <<storeVars, filterVars>>

\* Wrong on purpose: the channels are closed without l.wg.Wait().
CloseChannelsAtOnce ==
  /\ shutdown = "waiting"
  /\ closed' = TRUE
  /\ shutdown' = "done"
  /\ Filter!Stop
  /\ UNCHANGED <<sock, reader, cur, chan, consuming, storeVars>>

\* l.wg.Wait() returns when no reader has been added or the one added is done.
CloseChannels ==
  /\ shutdown = "waiting" /\ reader \in {"unborn", "done"}
  /\ closed' = TRUE
  /\ shutdown' = "done"
  /\ Filter!Stop
  /\ UNCHANGED <<sock, reader, cur, chan, consuming, storeVars>>

ShutdownStep == CloseConnections \/ CloseChannels

Consume ==
  \/ processDiscoveryMessages
  \/ processLocationMessages
  \/ processTimeMessages

Next ==
  \/ \E d \in Datagrams : Arrive(d)
  \/ FilterStep
  \/ ReaderStep
  \/ Consume
  \/ \E k \in Kinds : LoopEnds(k)
  \/ Signal
  \/ ShutdownStep

Spec == Init /\ [][Next]_vars

\* Each goroutine that can go on does: the reader, each of the loops, and
\* waitForShutdown once it has begun. A signal need never come.
FairSpec ==
  /\ Spec
  /\ WF_vars(ReaderStep)
  /\ WF_vars(processDiscoveryMessages)
  /\ WF_vars(processLocationMessages)
  /\ WF_vars(processTimeMessages)
  /\ \A k \in Kinds : WF_vars(LoopEnds(k))
  /\ WF_vars(ShutdownStep)

-----------------------------------------------------------------------------
(* The channels hold messages of their kind and no more than they can.     *)
TypeOK ==
  /\ sock \in Seq(Datagrams) /\ Len(sock) <= SockCap
  /\ reader \in {"unborn", "loop", "read", "send", "done"}
  /\ reader = "send" => cur \in Datagrams
  /\ DOMAIN chan = Kinds
  /\ \A k \in Kinds :
       /\ chan[k] \in Seq({d \in Datagrams : d.kind = k})
       /\ Len(chan[k]) <= ChanCap
  /\ closed \in BOOLEAN
  /\ shutdown \in {"no", "stopping", "waiting", "done"}
  /\ consuming \subseteq Kinds
  /\ Filter!TypeOK

(* A send on a closed channel would be a panic of the daemon: Stop closes  *)
(* the channels only when the reader can no longer send, even when the     *)
(* shutdown overtakes the goroutine that starts the reader.                *)
NoSendOnClosed == closed => reader # "send"

(* No host enters the record store, and no message waits for the stores,   *)
(* whose signature fails or, where signatures are required, is missing     *)
(* (Listener.Start, handleTimeMessage).                                    *)
VerifiedOnly ==
  /\ \A k \in {"announce", "time"} : \A i \in 1..Len(chan[k]) :
       LET sig == chan[k][i].sig IN
       /\ HasKeys => sig # "bad"
       /\ RequireSigned => sig = "good"
  /\ \A h \in DOMAIN cache : \E d \in Datagrams :
       /\ d.kind = "announce" /\ d.from = h /\ d.stamp = cache[h]
       /\ HasKeys => d.sig # "bad"
       /\ RequireSigned => d.sig = "good"

(* What docs/ARCHITECTURE.md says of an announcement: a node that receives *)
(* it updates its cache, unless it is shut down first (Listener.Start,     *)
(* processDiscoveryMessages).                                              *)
AnnouncementsHeard ==
  \A d \in {x \in Datagrams : x.kind = "announce" /\ Passes(x)} :
    (\E i \in 1..Len(sock) : sock[i] = d) ~>
      (d.from \in DOMAIN cache \/ Stopping)

(* A daemon that has started processTimeMessages hears every announcement  *)
(* that reaches its socket, whatever else the one reader has to hand on.   *)
HeardWithTimeSync == "time" \in consuming => AnnouncementsHeard

(* A shutdown, begun at any moment, comes to its end: the reader, the      *)
(* channels' loops and waitForShutdown do not wait for each other for      *)
(* ever, even when nobody empties the channel the reader sends to.         *)
ShutdownCompletes ==
  (shutdown = "stopping") ~> (shutdown = "done" /\ consuming = {}
                                /\ reader = "done")

=============================================================================

--------------------------- MODULE ListenerProofs ---------------------------
(***************************************************************************)
(* Proofs about Listener for any datagrams, capacities and configuration:  *)
(* the reader never sends on a closed channel, nothing unverified reaches  *)
(* the stores, and the duplicate filter is used as its own specification   *)
(* says.                                                                   *)
(***************************************************************************)
EXTENDS Listener, TLAPS

(* Once the channels are closed the shutdown is over, and the reader is    *)
(* where it looks at stopChan before anything else, or beyond it.          *)
ReaderPast ==
  closed => shutdown = "done" /\ reader \in {"unborn", "loop", "done"}

(* Only CloseChannels closes the channels, and then the reader is done or  *)
(* not yet started (Listener.Stop).                                        *)
LEMMA StepReaderPast == ReaderPast /\ [Next]_vars => ReaderPast'
<1> SUFFICES ASSUME ReaderPast, [Next]_vars PROVE ReaderPast'
  OBVIOUS
<1> USE DEF ReaderPast
<1>1. ASSUME NEW d \in Datagrams, Arrive(d) PROVE ReaderPast'
  BY <1>1 DEF Arrive
<1>2. CASE FilterStep
  BY <1>2 DEF FilterStep, pipeVars
<1>3. CASE Start \/ CheckStop \/ ReadFails
  BY <1>3 DEF Start, CheckStop, ReadFails, Stopping
<1>4. CASE ReadDropped \/ ReadRejected \/ ReadPassed
  BY <1>4 DEF ReadDropped, ReadRejected, ReadPassed, Read
<1>5. CASE Send \/ GiveUp
  BY <1>5 DEF Send, GiveUp
<1>6. CASE Consume
  BY <1>6 DEF Consume, Receive, processDiscoveryMessages, handleDiscoveryMessage,
              processLocationMessages, storeLocation, processTimeMessages
<1>7. ASSUME NEW k \in Kinds, LoopEnds(k) PROVE ReaderPast'
  BY <1>7 DEF LoopEnds
<1>8. CASE Signal \/ CloseConnections
  BY <1>8 DEF Signal, CloseConnections
<1>9. CASE CloseChannels
  BY <1>9 DEF CloseChannels
<1>10. CASE UNCHANGED vars
  BY <1>10 DEF vars, pipeVars
<1> QED
  BY <1>1, <1>2, <1>3, <1>4, <1>5, <1>6, <1>7, <1>8, <1>9, <1>10
     DEF Next, ReaderStep, ShutdownStep

(* The reader never sends on a closed channel (Listener.Start against      *)
(* Listener.Stop).                                                         *)
THEOREM NeverSendsOnClosed == Spec => []NoSendOnClosed
<1>1. Init => ReaderPast
  BY DEF Init, ReaderPast
<1>2. ReaderPast => NoSendOnClosed
  BY DEF ReaderPast, NoSendOnClosed
<1> QED
  BY <1>1, <1>2, StepReaderPast, PTL DEF Spec

-----------------------------------------------------------------------------
(* The messages that are where only verified messages may be.              *)
Vouched(d) ==
  /\ d \in Datagrams
  /\ d.kind # "location" => SignatureOK(d)

(* What the reader has in hand, what the channels hold and what the record *)
(* store was given are all vouched for.                                    *)
AllVouched ==
  /\ chan \in [Kinds -> Seq(Datagrams)]
  /\ sock \in Seq(Datagrams)
  /\ reader = "send" => Vouched(cur)
  /\ \A k \in Kinds : \A i \in 1..Len(chan[k]) :
       Vouched(chan[k][i]) /\ chan[k][i].kind = k
  /\ \A h \in DOMAIN cache : \E d \in Datagrams :
       /\ Vouched(d)
       /\ d.kind = "announce" /\ d.from = h /\ d.stamp = cache[h]

(* A message is verified before it is in the reader's hand, and moves from *)
(* there to a channel and to the record store unchanged.                   *)
LEMMA StepAllVouched == AllVouched /\ [Next]_vars => AllVouched'
<1> SUFFICES ASSUME AllVouched, [Next]_vars PROVE AllVouched'
  OBVIOUS
<1> USE DEF AllVouched
<1>1. ASSUME NEW d \in Datagrams, Arrive(d) PROVE AllVouched'
  BY <1>1 DEF Arrive, storeVars
<1>2. CASE FilterStep
  BY <1>2 DEF FilterStep, pipeVars, storeVars
<1>3. CASE Start \/ CheckStop \/ ReadFails
  BY <1>3 DEF Start, CheckStop, ReadFails, storeVars
<1>4. CASE ReadDropped \/ ReadRejected
  <2>1. Read /\ reader' = "loop"
    BY <1>4 DEF ReadDropped, ReadRejected
  <2>2. sock' \in Seq(Datagrams)
    BY <2>1 DEF Read
  <2> QED
    BY <2>1, <2>2 DEF Read, storeVars
<1>5. CASE ReadPassed
  <2>1. Head(sock) \in Datagrams /\ sock' \in Seq(Datagrams)
    BY <1>5 DEF ReadPassed, Read
  <2>2. Vouched(cur')
    BY <1>5, <2>1 DEF ReadPassed, Passes, Vouched
  <2> QED
    BY <1>5, <2>1, <2>2 DEF ReadPassed, Read, storeVars
<1>6. CASE Send
  <2>1. cur \in Datagrams /\ cur.kind \in Kinds /\ Vouched(cur)
    BY <1>6, ListenerAssumption DEF Send, Vouched
  <2>2. chan' = [chan EXCEPT ![cur.kind] = Append(chan[cur.kind], cur)]
    BY <1>6 DEF Send
  <2>3. chan' \in [Kinds -> Seq(Datagrams)]
    BY <2>1, <2>2
  <2>4. ASSUME NEW k \in Kinds, NEW i \in 1..Len(chan'[k])
        PROVE  Vouched(chan'[k][i]) /\ chan'[k][i].kind = k
    <3>1. CASE k = cur.kind
      <4>1. chan'[k] = Append(chan[k], cur)
        BY <2>2, <3>1
      <4>2. chan'[k][i] = cur \/ (i \in 1..Len(chan[k]) /\ chan'[k][i] = chan[k][i])
        BY <2>4, <4>1
      <4> QED
        BY <2>1, <3>1, <4>2
    <3>2. CASE k # cur.kind
      BY <2>2, <2>4, <3>2
    <3> QED
      BY <3>1, <3>2
  <2> QED
    BY <1>6, <2>3, <2>4 DEF Send, storeVars
<1>7. CASE GiveUp
  BY <1>7 DEF GiveUp, storeVars
<1>8. ASSUME NEW k \in Kinds, Receive(k)
      PROVE  /\ chan' \in [Kinds -> Seq(Datagrams)]
             /\ \A j \in Kinds : \A i \in 1..Len(chan'[j]) :
                  Vouched(chan'[j][i]) /\ chan'[j][i].kind = j
             /\ Vouched(Head(chan[k])) /\ Head(chan[k]).kind = k
  <2>1. chan[k] \in Seq(Datagrams) /\ chan[k] # <<>>
    BY <1>8 DEF Receive
  <2>2. Tail(chan[k]) \in Seq(Datagrams) /\ Head(chan[k]) = chan[k][1]
        /\ 1 \in 1..Len(chan[k])
    BY <2>1
  <2>3. \A i \in 1..Len(Tail(chan[k])) :
          i + 1 \in 1..Len(chan[k]) /\ Tail(chan[k])[i] = chan[k][i + 1]
    BY <2>1
  <2>4. chan' = [chan EXCEPT ![k] = Tail(chan[k])]
    BY <1>8 DEF Receive
  <2> QED
    BY <2>2, <2>3, <2>4
<1>9. CASE processDiscoveryMessages
  <2> DEFINE m == Head(chan["announce"])
  <2>1. Receive("announce") /\ "announce" \in Kinds
    BY <1>9 DEF processDiscoveryMessages, handleDiscoveryMessage, Kinds
  <2>2. Vouched(m) /\ m.kind = "announce" /\ m \in Datagrams
    BY <2>1, <1>8 DEF Vouched
  <2>3. cache' = [h \in DOMAIN cache \cup {m.from} |->
                    IF h = m.from THEN m.stamp ELSE cache[h]]
    BY <1>9 DEF processDiscoveryMessages, handleDiscoveryMessage, Filter!Extend
  <2>4. \A h \in DOMAIN cache' : \E d \in Datagrams :
          /\ Vouched(d)
          /\ d.kind = "announce" /\ d.from = h /\ d.stamp = cache'[h]
    BY <2>2, <2>3
  <2> QED
    BY <2>1, <2>4, <1>8 DEF Receive
<1>10. CASE processLocationMessages
  BY <1>8, <1>10 DEF processLocationMessages, storeLocation, Receive, Kinds
<1>11. CASE processTimeMessages
  BY <1>8, <1>11 DEF processTimeMessages, Receive, Kinds, storeVars
<1>12. ASSUME NEW k \in Kinds, LoopEnds(k) PROVE AllVouched'
  BY <1>12 DEF LoopEnds, storeVars
<1>13. CASE Signal \/ CloseConnections \/ CloseChannels
  BY <1>13 DEF Signal, CloseConnections, CloseChannels, storeVars
<1>14. CASE UNCHANGED vars
  BY <1>14 DEF vars, pipeVars, storeVars
<1> QED
  BY <1>1, <1>2, <1>3, <1>4, <1>5, <1>6, <1>7, <1>9, <1>10, <1>11, <1>12,
     <1>13, <1>14
     DEF Next, ReaderStep, Consume, ShutdownStep

(* Only verified messages wait in the channels or have entered the record  *)
(* store (Listener.Start, handleTimeMessage, processDiscoveryMessages).    *)
THEOREM AlwaysVerifiedOnly == Spec => []VerifiedOnly
<1>1. Init => AllVouched
  <2> SUFFICES ASSUME Init PROVE AllVouched
    OBVIOUS
  <2>1. /\ chan \in [Kinds -> Seq(Datagrams)] /\ sock \in Seq(Datagrams)
        /\ \A k \in Kinds : Len(chan[k]) = 0
    BY DEF Init
  <2> QED
    BY <2>1 DEF Init, AllVouched
<1>2. AllVouched => VerifiedOnly
  <2> SUFFICES ASSUME AllVouched PROVE VerifiedOnly
    OBVIOUS
  <2>1. ASSUME NEW d, Vouched(d), d.kind # "location"
        PROVE  (HasKeys => d.sig # "bad") /\ (RequireSigned => d.sig = "good")
    BY <2>1, ListenerAssumption DEF Vouched, SignatureOK
  <2>2. \A k \in {"announce", "time"} : \A i \in 1..Len(chan[k]) :
          k \in Kinds /\ Vouched(chan[k][i]) /\ chan[k][i].kind # "location"
    BY DEF AllVouched, Kinds
  <2>3. ASSUME NEW h \in DOMAIN cache
        PROVE  \E d \in Datagrams :
                 /\ d.kind = "announce" /\ d.from = h /\ d.stamp = cache[h]
                 /\ HasKeys => d.sig # "bad"
                 /\ RequireSigned => d.sig = "good"
    BY <2>1, <2>3 DEF AllVouched
  <2> QED
    BY <2>1, <2>2, <2>3 DEF VerifiedOnly
<1> QED
  BY <1>1, <1>2, StepAllVouched, PTL DEF Spec

-----------------------------------------------------------------------------
(* Types, and what the listener does to its duplicate filter.              *)

(* The types of the listener's own state: the channels hold messages of    *)
(* their kind, and no more than they can.                                  *)
PipeTypeOK ==
  /\ sock \in Seq(Datagrams) /\ Len(sock) <= SockCap
  /\ reader \in {"unborn", "loop", "read", "send", "done"}
  /\ reader = "send" => cur \in Datagrams
  /\ DOMAIN chan = Kinds
  /\ \A k \in Kinds :
       /\ chan[k] \in Seq({d \in Datagrams : d.kind = k})
       /\ Len(chan[k]) <= ChanCap
  /\ closed \in BOOLEAN
  /\ shutdown \in {"no", "stopping", "waiting", "done"}
  /\ consuming \subseteq Kinds

(* A message is put at the end of the channel of its kind while there is   *)
(* room in it (the sends of Listener.Start).                               *)
LEMMA SendKeepsTypes == PipeTypeOK /\ Send => PipeTypeOK'
<1> SUFFICES ASSUME PipeTypeOK, Send PROVE PipeTypeOK'
  OBVIOUS
<1> USE DEF PipeTypeOK
<1>1. cur \in Datagrams /\ cur.kind \in Kinds
  BY ListenerAssumption DEF Send
<1>2. chan' = [chan EXCEPT ![cur.kind] = Append(chan[cur.kind], cur)]
      /\ Len(chan[cur.kind]) < ChanCap
  BY DEF Send
<1>3. DOMAIN chan' = Kinds
  BY <1>2
<1>4. ASSUME NEW k \in Kinds
      PROVE  /\ chan'[k] \in Seq({d \in Datagrams : d.kind = k})
             /\ Len(chan'[k]) <= ChanCap
  <2> DEFINE D == {d \in Datagrams : d.kind = k}
  <2>1. CASE k = cur.kind
    <3>1. chan'[k] = Append(chan[k], cur) /\ cur \in D /\ chan[k] \in Seq(D)
      BY <1>1, <1>2, <2>1
    <3>2. Len(chan[k]) < ChanCap
      BY <1>2, <2>1
    <3> HIDE DEF D
    <3>3. chan'[k] \in Seq(D) /\ Len(chan'[k]) = Len(chan[k]) + 1
      BY <3>1
    <3>4. Len(chan[k]) \in Nat /\ ChanCap \in Nat
      BY <3>1, ListenerAssumption
    <3> QED
      BY <3>2, <3>3, <3>4 DEF D
  <2>2. CASE k # cur.kind
    BY <1>2, <2>2
  <2> QED
    BY <2>1, <2>2
<1> QED
  BY <1>3, <1>4 DEF Send

(* A loop of the daemon takes the first message of its channel.            *)
LEMMA ReceiveKeepsTypes ==
  ASSUME PipeTypeOK, NEW k \in Kinds, Receive(k)
  PROVE  PipeTypeOK'
<1> USE DEF PipeTypeOK
<1>1. chan' = [chan EXCEPT ![k] = Tail(chan[k])] /\ chan[k] # <<>>
  BY DEF Receive
<1>2. ASSUME NEW j \in Kinds
      PROVE  /\ chan'[j] \in Seq({d \in Datagrams : d.kind = j})
             /\ Len(chan'[j]) <= ChanCap
  <2> DEFINE D == {d \in Datagrams : d.kind = j}
  <2>1. CASE j = k
    <3>1. chan[j] \in Seq(D) /\ chan[j] # <<>> /\ chan'[j] = Tail(chan[j])
      BY <1>1, <2>1
    <3> HIDE DEF D
    <3>2. chan'[j] \in Seq(D) /\ Len(chan'[j]) = Len(chan[j]) - 1 /\ Len(chan[j]) \in Nat
      BY <3>1
    <3>3. Len(chan[j]) <= ChanCap /\ ChanCap \in Nat
      BY ListenerAssumption
    <3> QED
      BY <3>2, <3>3 DEF D
  <2>2. CASE j # k
    BY <1>1, <2>2
  <2> QED
    BY <2>1, <2>2
<1> QED
  BY <1>1, <1>2 DEF Receive

(* A datagram that is read leaves the socket's buffer.                     *)
LEMMA ReadTypes ==
  ASSUME PipeTypeOK, Read
  PROVE  /\ Head(sock) \in Datagrams
         /\ sock' \in Seq(Datagrams) /\ Len(sock') <= SockCap
<1>1. sock \in Seq(Datagrams) /\ sock # <<>> /\ sock' = Tail(sock)
      /\ Len(sock) <= SockCap /\ SockCap \in Nat
  BY ListenerAssumption DEF PipeTypeOK, Read
<1>2. Head(sock) \in Datagrams /\ sock' \in Seq(Datagrams)
      /\ Len(sock') = Len(sock) - 1 /\ Len(sock) \in Nat
  BY <1>1
<1> QED
  BY <1>1, <1>2

(* Every step of the listener, its loops and the shutdown keeps the types. *)
LEMMA StepPipeTypeOK == PipeTypeOK /\ [Next]_vars => PipeTypeOK'
<1> SUFFICES ASSUME PipeTypeOK, [Next]_vars PROVE PipeTypeOK'
  OBVIOUS
<1> USE DEF PipeTypeOK
<1>1. ASSUME NEW d \in Datagrams, Arrive(d) PROVE PipeTypeOK'
  <2>1. sock' \in Seq(Datagrams) /\ Len(sock') = Len(sock) + 1 /\ Len(sock) \in Nat
    BY <1>1 DEF Arrive
  <2>2. Len(sock) < SockCap /\ SockCap \in Nat
    BY <1>1, ListenerAssumption DEF Arrive
  <2>3. Len(sock') <= SockCap
    BY <2>1, <2>2
  <2> QED
    BY <1>1, <2>1, <2>3 DEF Arrive
<1>2. CASE FilterStep
  BY <1>2 DEF FilterStep, pipeVars
<1>3. CASE Start \/ CheckStop \/ ReadFails
  BY <1>3 DEF Start, CheckStop, ReadFails
<1>4. CASE ReadDropped \/ ReadRejected
  <2>1. Read /\ reader' = "loop"
    BY <1>4 DEF ReadDropped, ReadRejected
  <2> QED
    BY <2>1, ReadTypes DEF Read
<1>5. CASE ReadPassed
  <2>1. Read /\ reader' = "send" /\ cur' = Head(sock)
    BY <1>5 DEF ReadPassed
  <2> QED
    BY <2>1, ReadTypes DEF Read
<1>6. CASE Send
  BY <1>6, SendKeepsTypes
<1>7. CASE GiveUp
  BY <1>7 DEF GiveUp
<1>8. CASE Consume
  <2>1. \E k \in Kinds : Receive(k)
    BY <1>8 DEF Consume, processDiscoveryMessages, processLocationMessages,
                processTimeMessages, Kinds
  <2> QED
    BY <2>1, ReceiveKeepsTypes
<1>9. ASSUME NEW k \in Kinds, LoopEnds(k) PROVE PipeTypeOK'
  BY <1>9 DEF LoopEnds
<1>10. CASE Signal \/ ShutdownStep
  BY <1>10 DEF Signal, ShutdownStep, CloseConnections, CloseChannels
<1>11. CASE UNCHANGED vars
  BY <1>11 DEF vars, pipeVars
<1> QED
  BY <1>1, <1>2, <1>3, <1>4, <1>5, <1>6, <1>7, <1>8, <1>9, <1>10, <1>11
     DEF Next, ReaderStep

(* What the listener does to its duplicate filter is what a filter does:   *)
(* the reader asks it about IDs of datagrams, Stop stops it once, and      *)
(* nothing else touches it.                                                *)
LEMMA StepIsFilterStep ==
  PipeTypeOK /\ [Next]_vars => [Filter!Next]_(Filter!filterVars)
<1> SUFFICES ASSUME PipeTypeOK, [Next]_vars
             PROVE  Filter!Next \/ UNCHANGED filterVars
  BY DEF filterVars, Filter!filterVars
<1>1. ASSUME NEW d \in Datagrams, Arrive(d) PROVE UNCHANGED filterVars
  BY <1>1 DEF Arrive
<1>2. CASE FilterStep
  BY <1>2 DEF FilterStep, Filter!Next
<1>3. CASE Start \/ CheckStop \/ ReadFails \/ ReadDropped \/ Send \/ GiveUp
  BY <1>3 DEF Start, CheckStop, ReadFails, ReadDropped, Send, GiveUp
<1>4. CASE ReadRejected \/ ReadPassed
  <2>1. Read /\ Filter!Seen(Head(sock).id)
    BY <1>4 DEF ReadRejected, ReadPassed
  <2>2. Head(sock).id \in MessageIDs
    BY <2>1, ReadTypes DEF MessageIDs
  <2> QED
    BY <2>1, <2>2 DEF Filter!Next
<1>5. CASE Consume
  BY <1>5 DEF Consume, processDiscoveryMessages, processLocationMessages,
              processTimeMessages, Receive
<1>6. ASSUME NEW k \in Kinds, LoopEnds(k) PROVE UNCHANGED filterVars
  BY <1>6 DEF LoopEnds
<1>7. CASE Signal \/ CloseConnections
  BY <1>7 DEF Signal, CloseConnections
<1>8. CASE CloseChannels
  BY <1>8 DEF CloseChannels, Filter!Next
<1>9. CASE UNCHANGED vars
  BY <1>9 DEF vars
<1> QED
  BY <1>1, <1>2, <1>3, <1>4, <1>5, <1>6, <1>7, <1>8, <1>9
     DEF Next, ReaderStep, ShutdownStep

(* A filter's step keeps its types.                                        *)
LEMMA FilterStepTypes ==
  Filter!TypeOK /\ [Filter!Next]_(Filter!filterVars) => Filter!TypeOK'
<1> SUFFICES ASSUME Filter!TypeOK, Filter!Next \/ UNCHANGED filterVars
             PROVE  Filter!TypeOK'
  BY DEF filterVars, Filter!filterVars
<1> USE ListenerAssumption DEF Filter!TypeOK
<1>1. ASSUME NEW i \in MessageIDs, Filter!Seen(i) PROVE Filter!TypeOK'
  BY <1>1 DEF Filter!Seen, Filter!Extend
<1>2. CASE Filter!cleanup
  BY <1>2 DEF Filter!cleanup
<1>3. CASE Filter!Stop \/ UNCHANGED filterVars
  BY <1>3 DEF Filter!Stop, filterVars
<1>4. CASE Filter!Advance
  <2>1. due' \in Nat
    BY <1>4 DEF Filter!Advance
  <2>2. clock' \in 0..MaxTime /\ ticked' \in BOOLEAN
    BY <1>4 DEF Filter!Advance
  <2> QED
    BY <1>4, <2>1, <2>2 DEF Filter!Advance
<1> QED
  BY <1>1, <1>2, <1>3, <1>4 DEF Filter!Next

(* The listener starts with empty channels and an empty filter.            *)
LEMMA InitTypes == Init => PipeTypeOK /\ Filter!TypeOK
<1> SUFFICES ASSUME Init PROVE PipeTypeOK /\ Filter!TypeOK
  OBVIOUS
<1>1. PipeTypeOK
  <2>1. sock \in Seq(Datagrams) /\ Len(sock) = 0 /\ SockCap \in Nat
    BY ListenerAssumption DEF Init
  <2>2. DOMAIN chan = Kinds
    BY DEF Init
  <2>3. ASSUME NEW k \in Kinds
        PROVE  /\ chan[k] \in Seq({d \in Datagrams : d.kind = k})
               /\ Len(chan[k]) <= ChanCap
    BY ListenerAssumption DEF Init
  <2>4. consuming \subseteq Kinds
    BY DEF Init, Kinds
  <2>5. reader = "unborn" /\ closed = FALSE /\ shutdown = "no"
    BY DEF Init
  <2>6. Len(sock) <= SockCap
    BY <2>1
  <2> QED
    BY <2>1, <2>2, <2>3, <2>4, <2>5, <2>6 DEF PipeTypeOK
<1>2. Filter!TypeOK
  <2> USE DEF Init, Filter!Init
  <2>1. seen \in [DOMAIN seen -> 0..MaxTime] /\ DOMAIN seen = {}
    OBVIOUS
  <2>2. accepted \in [DOMAIN accepted -> 0..MaxTime] /\ DOMAIN accepted = {}
    OBVIOUS
  <2>3. clock \in 0..MaxTime /\ due \in Nat
    BY ListenerAssumption
  <2> QED
    BY <2>1, <2>2, <2>3 DEF Filter!TypeOK
<1> QED
  BY <1>1, <1>2

(* The listener's type invariant, with the bounds of the socket's buffer   *)
(* and of the channels: a message in a channel is of the channel's kind.   *)
THEOREM ListenerTypeCorrect == Spec => []TypeOK
<1> DEFINE Types == PipeTypeOK /\ Filter!TypeOK
<1>1. Init => Types
  BY InitTypes
<1>2. Types /\ [Next]_vars => Types'
  BY StepPipeTypeOK, StepIsFilterStep, FilterStepTypes
<1>3. Types => TypeOK
  BY DEF PipeTypeOK, TypeOK
<1> HIDE DEF Types
<1> QED
  BY <1>1, <1>2, <1>3, PTL DEF Spec

(* The listener uses its duplicate filter as the filter's own              *)
(* specification says, with the IDs of datagrams for IDs: what is proved   *)
(* of the filter on its own holds of it in the listener, through reads,    *)
(* rejected messages and the shutdown (Listener.Start, Listener.Stop).     *)
THEOREM ListenerImplementsFilter == Spec => Filter!Spec
<1>1. Init => Filter!Init
  BY DEF Init
<1>2. Init => PipeTypeOK
  BY InitTypes
<1> QED
  BY <1>1, <1>2, StepIsFilterStep, StepPipeTypeOK, PTL DEF Spec, Filter!Spec

=============================================================================

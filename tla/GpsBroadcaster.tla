--------------------------- MODULE GpsBroadcaster ---------------------------
(***************************************************************************)
(* disco-gps-broadcaster (cmd/gps-broadcaster/main.go): one loop that       *)
(* reads a line from the GPS receiver at every tick of 100 ms and, when a  *)
(* timer fires, broadcasts the time of the last fix and asks the backoff   *)
(* manager how long to wait for the next.                                  *)
(*                                                                         *)
(* The unit of time is the second in which a receiver reports once. No     *)
(* absolute time is kept: a time is the number of seconds since, up to the *)
(* bound MaxAge. A report is a burst of lines that begins with the         *)
(* sentence RMC; lines wait, in order, in the buffers of the serial device *)
(* and of bufio, and those that find them full are lost.                   *)
(***************************************************************************)
EXTENDS Integers, Sequences

CONSTANTS Ladder,          \* waits without a fix: [upto, wait] by attempts
          Longest,         \* the wait after the last step of the ladder: 1 h
          FixWait,         \* the wait with a fix: 16 s
          FirstWait,       \* the wait before the first broadcast: 10 s
          Sats,            \* bound: numbers of satellites a receiver reports
          LinesPerReport,  \* bound: how many lines a report may have
          ReadsPerSecond,  \* ticks of the read loop per second: 10
          SerialCap,       \* bound: lines the buffers hold
          MaxAge           \* bound: ages beyond it are not told apart

\* The switch of NextInterval, in seconds. Longest is 3600 with it.
CodeLadder == << [upto |-> 3, wait |-> 10],    [upto |-> 6, wait |-> 30],
                 [upto |-> 10, wait |-> 120],  [upto |-> 15, wait |-> 300],
                 [upto |-> 20, wait |-> 600],  [upto |-> 25, wait |-> 1200],
                 [upto |-> 30, wait |-> 1800] >>

Ascends(ladder, longest) ==
  /\ \A i \in 1..Len(ladder) : ladder[i].wait \in 1..longest /\ ladder[i].upto \in Nat
  /\ \A i, j \in 1..Len(ladder) :
       i < j => ladder[i].upto < ladder[j].upto /\ ladder[i].wait <= ladder[j].wait

ASSUME LadderAssumption ==
  /\ Ascends(CodeLadder, 3600)
  /\ Ascends(Ladder, Longest) /\ Len(Ladder) \in Nat \ {0}

ASSUME ReceiverAssumption ==
  /\ Longest \in Nat \ {0} /\ FixWait \in Nat \ {0} /\ FirstWait \in Nat \ {0}
  /\ Sats \subseteq Nat /\ LinesPerReport \in Nat \ {0}
  /\ ReadsPerSecond \in Nat \ {0} /\ SerialCap \in Nat \ {0} /\ MaxAge \in Nat

VARIABLES signal,      \* the receiver: it has a fix, has none, or is silent
          serial,      \* lines on their way to the loop
          reads,       \* lines the loop may still read in this second
          hasFix, gpsAge, satellites,          \* the GPSReader's state
          attempts, lastHasFix, lastSats,      \* the BackoffManager's state
          wait,        \* b.lastInterval
          timer,       \* seconds until broadcastTimer fires
          sent,        \* the broadcast made in this second, if any
          lastReport,  \* history: age of the newest RMC with a fix that the
                       \* buffers took
          lostFor,     \* history: age of the first one without a fix since,
                       \* or -1
          running

gpsVars == <<hasFix, gpsAge, satellites>>
backoffVars == <<attempts, lastHasFix, lastSats, wait>>
history == <<lastReport, lostFor>>
vars == <<signal, serial, reads, gpsVars, backoffVars, timer, sent, history, running>>

Older(age) == IF age < MaxAge THEN age + 1 ELSE age

\* Attempts beyond the last step of the ladder are not told apart.
TopAttempt == Ladder[Len(Ladder)].upto + 1

RMC(status, age) == [kind |-> "RMC", status |-> status, age |-> age, sats |-> 0]
GGA(sats) == [kind |-> "GGA", status |-> "A", age |-> 0, sats |-> sats]
Other == [kind |-> "other", status |-> "V", age |-> 0, sats |-> 0]

Init ==
  /\ signal \in {"fix", "nofix", "silent"}
  /\ serial = <<>>
  /\ reads = ReadsPerSecond
  /\ hasFix = FALSE /\ gpsAge = MaxAge /\ satellites = 0
  /\ attempts = 0 /\ lastHasFix = FALSE /\ lastSats = 0 /\ wait = 0
  /\ timer = FirstWait
  /\ sent = "none"
  /\ lastReport = MaxAge /\ lostFor = -1
  /\ running = TRUE

-----------------------------------------------------------------------------
(* The receiver and the clock (external). *)

\* What the receiver may write in this second. A sentence can be garbled.
Reports ==
  {<<>>} \cup
  IF signal = "silent" THEN {}
  ELSE LET status == IF signal = "fix" THEN "A" ELSE "V"
           \* Without a fix, the quality in GGA is 0 and parseGGA ignores it.
           second == IF signal = "fix" THEN {GGA(n) : n \in Sats} ELSE {Other}
           rest(n) == [i \in 1..(n - 2) |-> Other]
       IN  {<<RMC(status, 0)>>, <<Other>>}
             \cup {<<RMC(status, 0), g>> \o rest(LinesPerReport) : g \in second}

Aged(line) == IF line.kind = "RMC" THEN RMC(line.status, Older(line.age)) ELSE line

Contains(lines, line) == \E i \in 1..Len(lines) : lines[i] = line

\* What the buffers have room for.
Fitting(burst) ==
  LET room == SerialCap - Len(serial)
  IN  IF Len(burst) <= room THEN burst ELSE SubSeq(burst, 1, room)

\* A second passes. The loop has read what it could, and the timer has been
\* served if it fired: neither takes longer than half a second.
Tick(burst) ==
  /\ running
  /\ serial = <<>> \/ reads = 0
  /\ timer > 0
  /\ burst \in Reports
  /\ serial' = [i \in 1..Len(serial) |-> Aged(serial[i])] \o Fitting(burst)
  /\ reads' = ReadsPerSecond
  /\ gpsAge' = Older(gpsAge)
  /\ lastReport' = IF Contains(Fitting(burst), RMC("A", 0)) THEN 0 ELSE Older(lastReport)
  /\ lostFor' = IF Contains(Fitting(burst), RMC("A", 0)) THEN -1
                ELSE IF lostFor >= 0 THEN Older(lostFor)
                ELSE IF Contains(Fitting(burst), RMC("V", 0)) THEN 0
                ELSE -1
  /\ timer' = timer - 1
  /\ sent' = "none"
  /\ UNCHANGED <<signal, hasFix, satellites, backoffVars, running>>

\* The sky changes, or the receiver is unplugged or plugged in.
SignalChanges(s) ==
  /\ running /\ signal # s
  /\ signal' = s
  /\ UNCHANGED <<serial, reads, gpsVars, backoffVars, timer, sent, history, running>>

-----------------------------------------------------------------------------
(* GPSReader *)

\* Wrong on purpose: a fix that was lost, or never had, is not noticed again.
parseRMCNoReturn(s) ==
  /\ hasFix' = (hasFix /\ s.status = "A")
  /\ gpsAge' = IF s.status = "A" THEN s.age ELSE gpsAge
  /\ UNCHANGED satellites

\* Wrong on purpose: the time is taken when a fix is found, not at each report.
parseRMCOnce(s) ==
  /\ hasFix' = (s.status = "A")
  /\ gpsAge' = IF s.status = "A" /\ ~hasFix THEN s.age ELSE gpsAge
  /\ UNCHANGED satellites

parseRMC(s) ==
  /\ hasFix' = (s.status = "A")
  /\ gpsAge' = IF s.status = "A" THEN s.age ELSE gpsAge
  /\ UNCHANGED satellites

parseGGA(s) == satellites' = s.sats /\ UNCHANGED <<hasFix, gpsAge>>

\* Other sentences, and RMC or GGA that are garbled, change nothing.
ParseNMEA(s) ==
  \/ s.kind = "RMC" /\ parseRMC(s)
  \/ s.kind = "GGA" /\ parseGGA(s)
  \/ s.kind = "other" /\ UNCHANGED gpsVars

\* A tick of the read loop that finds a line. One that finds none only waits.
ReadLine ==
  /\ running /\ reads > 0 /\ serial # <<>>
  /\ serial' = Tail(serial)
  /\ reads' = reads - 1
  /\ ParseNMEA(Head(serial))
  /\ UNCHANGED <<signal, backoffVars, timer, sent, history, running>>

-----------------------------------------------------------------------------
(* BackoffManager and the broadcast *)

WaitAfter(n) ==
  LET steps == {i \in 1..Len(Ladder) : n <= Ladder[i].upto}
  IN  IF steps = {} THEN Longest
      ELSE Ladder[CHOOSE i \in steps : \A j \in steps : i <= j].wait

SignalImproved ==
  (hasFix /\ ~lastHasFix) \/ (satellites > lastSats + 2 /\ satellites > 0)

\* Wrong on purpose: the wait doubles without a limit.
NextIntervalDoubles ==
  /\ lastHasFix' = hasFix /\ lastSats' = satellites
  /\ attempts' = 0
  /\ wait' = IF hasFix THEN FixWait ELSE 2 * wait + 1

NextInterval ==
  LET base == IF SignalImproved THEN 0 ELSE attempts
      n == IF base < TopAttempt THEN base + 1 ELSE base
  IN  /\ lastHasFix' = hasFix /\ lastSats' = satellites
      /\ attempts' = IF hasFix THEN 0 ELSE n
      /\ wait' = IF hasFix THEN FixWait ELSE WaitAfter(n)

\* Errors at the interfaces' own broadcast addresses do not count.
Broadcast(delivered) == IF delivered THEN "delivered" ELSE "failed"

\* The timer fires: GetState, Broadcast (which may fail) and Reset.
TimerFires(delivered) ==
  /\ running /\ timer = 0
  /\ sent' = IF hasFix THEN Broadcast(delivered) ELSE "none"
  /\ NextInterval
  /\ timer' = wait'
  /\ UNCHANGED <<signal, serial, reads, gpsVars, history, running>>

\* SIGTERM or an interrupt.
Stop ==
  /\ running
  /\ running' = FALSE
  /\ UNCHANGED <<signal, serial, reads, gpsVars, backoffVars, timer, sent, history>>

Next ==
  \/ \E burst \in Reports : Tick(burst)
  \/ \E s \in {"fix", "nofix", "silent"} : SignalChanges(s)
  \/ ReadLine
  \/ \E delivered \in BOOLEAN : TimerFires(delivered)
  \/ Stop

Spec == Init /\ [][Next]_vars

\* Time passes, and the loop serves its ticks and its timer.
FairSpec ==
  /\ Spec
  /\ WF_vars(\E burst \in Reports : Tick(burst))
  /\ WF_vars(ReadLine)
  /\ WF_vars(\E delivered \in BOOLEAN : TimerFires(delivered))

-----------------------------------------------------------------------------
Lines == {RMC(status, age) : status \in {"A", "V"}, age \in 0..MaxAge}
           \cup {GGA(n) : n \in Sats} \cup {Other}

(* The reader's, the backoff manager's and the timer's state has its type, *)
(* and the timer never waits for longer than Longest or FixWait.           *)
GpsTypeOK ==
  /\ signal \in {"fix", "nofix", "silent"}
  /\ serial \in Seq(Lines) /\ Len(serial) <= SerialCap
  /\ reads \in 0..ReadsPerSecond
  /\ hasFix \in BOOLEAN /\ gpsAge \in 0..MaxAge /\ satellites \in Sats \cup {0}
  /\ attempts \in 0..TopAttempt /\ lastHasFix \in BOOLEAN /\ lastSats \in Sats \cup {0}
  /\ wait \in 0..(Longest + FixWait)
  /\ timer \in 0..(Longest + FixWait + FirstWait)
  /\ sent \in {"none", "failed", "delivered"}
  /\ lastReport \in 0..MaxAge /\ lostFor \in -1..MaxAge
  /\ running \in BOOLEAN

\* Seconds a line can wait in the buffers.
Lag == (SerialCap - 1) \div ReadsPerSecond

(* The time that is broadcast is that of the newest report with a fix, or  *)
(* that report is still on its way, for at most Lag seconds: the loop      *)
(* reads one line at a tick and skips none, so a receiver that writes more *)
(* lines than the loop reads makes it late by what the buffers hold, and   *)
(* by no more; and as long after the receiver has reported that the fix is *)
(* lost, it is given up (ReadLine, parseRMC). A receiver that falls silent *)
(* leaves the time as it was.                                              *)
RecentReportSent ==
  /\ hasFix => gpsAge = lastReport \/ Contains(serial, RMC("A", lastReport))
  /\ \A i \in 1..Len(serial) : serial[i].age <= Lag
  /\ hasFix => lostFor <= Lag

(* Broadcasting goes on: if the receiver has a fix for good and its        *)
(* reports get through time and again, so are broadcasts made time and     *)
(* again, however long the backoff had grown before (main, NextInterval).  *)
BroadcastsResume ==
  <>[](signal = "fix" /\ running) /\ []<>(lastReport = 0) => []<>(sent # "none")

=============================================================================

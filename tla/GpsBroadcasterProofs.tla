------------------------ MODULE GpsBroadcasterProofs ------------------------
(***************************************************************************)
(* What disco-gps-broadcaster broadcasts is recent, whatever the ladder of *)
(* waits, the number of lines in a report, the speed of the read loop and  *)
(* the size of the buffers are.                                            *)
(***************************************************************************)
EXTENDS GpsBroadcaster, SequenceTheorems, FiniteSetTheorems,
        WellFoundedInduction, TLAPS

FixReport(line) == line.kind = "RMC" /\ line.status = "A"

\* The place of a line, the reads already made in this second and the
\* seconds it has waited add up: none waits for longer than the buffers are
\* deep.
Bounded ==
  \A i \in 1..Len(serial) :
    i + (ReadsPerSecond - reads) + ReadsPerSecond * serial[i].age <= SerialCap

\* No report with a fix is behind the newest, and the reader has the newest
\* or will come to it.
NewestAhead ==
  /\ \A i \in 1..Len(serial) :
       FixReport(serial[i]) =>
         \E j \in i..Len(serial) : serial[j] = RMC("A", lastReport)
  /\ gpsAge = lastReport \/ Contains(serial, RMC("A", lastReport))

\* Once the fix is lost, the report that says so is on its way with none of
\* a fix behind it, or has been read.
LossAhead ==
  lostFor >= 0 =>
    \/ \E i \in 1..Len(serial) :
         /\ serial[i] = RMC("V", lostFor)
         /\ \A j \in i..Len(serial) : ~FixReport(serial[j])
    \/ ~hasFix /\ \A j \in 1..Len(serial) : ~FixReport(serial[j])

ReaderSound == GpsTypeOK /\ Bounded /\ NewestAhead /\ LossAhead

-----------------------------------------------------------------------------
(* Lines and bursts. *)

(* Every line that can wait in the buffers has an age, and a report of a   *)
(* fix is known by its age alone.                                          *)
LEMMA LineFacts ==
  ASSUME NEW line \in Lines
  PROVE  /\ line.age \in 0..MaxAge
         /\ line.kind \in {"RMC", "GGA", "other"}
         /\ line.kind = "RMC" => line.status \in {"A", "V"} /\ line = RMC(line.status, line.age)
         /\ line.kind # "RMC" => line.age = 0
         /\ line.kind = "GGA" => line.sats \in Sats
BY ReceiverAssumption DEF Lines, RMC, GGA, Other

(* The fields of a report of the sentence RMC.                             *)
LEMMA ReportFacts ==
  ASSUME NEW status \in {"A", "V"}, NEW age \in 0..MaxAge
  PROVE  /\ RMC(status, age) \in Lines
         /\ RMC(status, age).kind = "RMC"
         /\ RMC(status, age).status = status
         /\ RMC(status, age).age = age
BY DEF Lines, RMC

(* A line that waits for another second stays a line, and stays what it    *)
(* was but for its age.                                                    *)
LEMMA AgedFacts ==
  ASSUME NEW line \in Lines
  PROVE  /\ Aged(line) \in Lines
         /\ FixReport(Aged(line)) <=> FixReport(line)
         /\ Aged(line).age <= line.age + 1
         /\ \A status \in {"A", "V"}, age \in 0..MaxAge :
              line = RMC(status, age) => Aged(line) = RMC(status, Older(age))
<1>1. Older(line.age) \in 0..MaxAge /\ Older(line.age) <= line.age + 1
  BY LineFacts, ReceiverAssumption DEF Older
<1>2. CASE line.kind = "RMC"
  <2>1. Aged(line) = RMC(line.status, Older(line.age))
    BY <1>2 DEF Aged
  <2> QED BY <1>1, <1>2, <2>1, LineFacts, ReportFacts DEF FixReport
<1>3. CASE line.kind # "RMC"
  BY <1>3, LineFacts, ReportFacts DEF Aged, FixReport
<1> QED BY <1>2, <1>3

(* What a receiver writes in a second is a sequence of lines that are new, *)
(* whatever it sees and however many lines its reports have.               *)
LEMMA BurstFacts ==
  ASSUME NEW burst \in Reports
  PROVE  /\ burst \in Seq(Lines)
         /\ \A i \in 1..Len(burst) : burst[i].age = 0
<1>1. /\ \A status \in {"A", "V"} : RMC(status, 0) \in Lines /\ RMC(status, 0).age = 0
      /\ \A n \in Sats : GGA(n) \in Lines /\ GGA(n).age = 0
      /\ Other \in Lines /\ Other.age = 0
  <2>1. 0 \in 0..MaxAge
    BY ReceiverAssumption
  <2>2. \A status \in {"A", "V"} : RMC(status, 0) \in Lines /\ RMC(status, 0).age = 0
    BY <2>1, ReportFacts
  <2>3. \A n \in Sats : GGA(n) \in Lines /\ GGA(n).age = 0
    BY DEF Lines, GGA
  <2>4. Other \in Lines /\ Other.age = 0
    BY DEF Lines, Other
  <2> QED BY <2>2, <2>3, <2>4
<1> DEFINE rest == [i \in 1..(LinesPerReport - 2) |-> Other]
<1>2. rest \in Seq(Lines) /\ \A i \in 1..Len(rest) : rest[i].age = 0
  <2>1. CASE LinesPerReport = 1
    BY <1>1, <2>1
  <2>2. CASE LinesPerReport # 1
    BY <1>1, <2>2, ReceiverAssumption
  <2> QED BY <2>1, <2>2
<1>3. ASSUME NEW status \in {"A", "V"}, NEW g \in Lines, g.age = 0,
             burst = <<RMC(status, 0), g>> \o rest
      PROVE  burst \in Seq(Lines) /\ \A i \in 1..Len(burst) : burst[i].age = 0
  <2> HIDE DEF rest
  <2>1. /\ <<RMC(status, 0), g>> \in Seq(Lines) /\ Len(<<RMC(status, 0), g>>) = 2
        /\ \A i \in 1..2 : <<RMC(status, 0), g>>[i].age = 0
    BY <1>1, <1>3
  <2> QED BY <1>2, <1>3, <2>1, ConcatProperties
<1>4. CASE burst = <<>>
  BY <1>4
<1>5. CASE \E status \in {"A", "V"} : burst = <<RMC(status, 0)>>
  BY <1>1, <1>5
<1>6. CASE burst = <<Other>>
  BY <1>1, <1>6
<1>7. CASE \E status \in {"A", "V"}, g \in {GGA(n) : n \in Sats} \cup {Other} :
             burst = <<RMC(status, 0), g>> \o rest
  BY <1>1, <1>3, <1>7
<1> QED BY <1>4, <1>5, <1>6, <1>7 DEF Reports

(* What the buffers take of a burst: at most what there is room for.       *)
LEMMA FittingFacts ==
  ASSUME NEW burst \in Reports, serial \in Seq(Lines), Len(serial) <= SerialCap
  PROVE  /\ Fitting(burst) \in Seq(Lines)
         /\ Len(Fitting(burst)) + Len(serial) <= SerialCap
         /\ \A i \in 1..Len(Fitting(burst)) :
              Fitting(burst)[i] \in Lines /\ Fitting(burst)[i].age = 0
<1>1. Len(serial) \in Nat /\ Len(burst) \in Nat /\ SerialCap \in Nat
  BY BurstFacts, LenProperties, ReceiverAssumption
<1>2. CASE Len(burst) <= SerialCap - Len(serial)
  BY <1>1, <1>2, BurstFacts, ElementOfSeq DEF Fitting
<1>3. CASE ~(Len(burst) <= SerialCap - Len(serial))
  <2> DEFINE room == SerialCap - Len(serial)
  <2>1. room \in Nat /\ room <= Len(burst) /\ Fitting(burst) = SubSeq(burst, 1, room)
    BY <1>1, <1>3 DEF Fitting
  <2> HIDE DEF room
  <2>2. /\ Fitting(burst) \in Seq(Lines) /\ Len(Fitting(burst)) = room
        /\ \A i \in 1..room : Fitting(burst)[i] = burst[i]
    BY <1>1, <2>1, BurstFacts, SubSeqProperties
  <2>3. room + Len(serial) <= SerialCap
    BY <1>1 DEF room
  <2> QED BY <1>1, <2>1, <2>2, <2>3, BurstFacts, ElementOfSeq
<1> QED BY <1>2, <1>3

(* What waits after a second has passed: what waited, older, and behind it *)
(* what the buffers took.                                                  *)
LEMMA TickSerial ==
  ASSUME NEW burst \in Reports, Tick(burst), GpsTypeOK
  PROVE  /\ serial' \in Seq(Lines)
         /\ Len(serial') = Len(serial) + Len(Fitting(burst))
         /\ Len(serial') <= SerialCap
         /\ \A i \in 1..Len(serial) : serial'[i] = Aged(serial[i])
         /\ \A i \in 1..Len(Fitting(burst)) :
              serial'[Len(serial) + i] = Fitting(burst)[i]
<1> DEFINE kept == [i \in 1..Len(serial) |-> Aged(serial[i])]
           new == Fitting(burst)
<1>1. serial \in Seq(Lines) /\ Len(serial) \in Nat
  BY LenProperties DEF GpsTypeOK
<1>2. kept \in Seq(Lines) /\ Len(kept) = Len(serial)
  BY <1>1, AgedFacts, ElementOfSeq
<1>3. new \in Seq(Lines) /\ Len(new) \in Nat /\ Len(new) + Len(serial) <= SerialCap
  BY FittingFacts, LenProperties DEF GpsTypeOK
<1>4. serial' = kept \o new
  BY DEF Tick
<1>5. \A i \in 1..Len(serial) : kept[i] = Aged(serial[i])
  OBVIOUS
<1> HIDE DEF kept, new
<1>6. /\ kept \o new \in Seq(Lines)
      /\ Len(kept \o new) = Len(kept) + Len(new)
      /\ \A i \in 1..Len(kept) + Len(new) :
           (kept \o new)[i] = IF i <= Len(kept) THEN kept[i] ELSE new[i - Len(kept)]
  BY <1>2, <1>3, ConcatProperties, Zenon
<1>7. /\ \A i \in 1..Len(serial) : (kept \o new)[i] = kept[i]
      /\ \A i \in 1..Len(new) : (kept \o new)[Len(serial) + i] = new[i]
  <2> DEFINE both == kept \o new
  <2> HIDE DEF both
  <2>1. \A i \in 1..Len(kept) + Len(new) :
          both[i] = IF i <= Len(kept) THEN kept[i] ELSE new[i - Len(kept)]
    BY <1>6 DEF both
  <2>2. \A i \in 1..Len(new) : both[Len(serial) + i] = new[i]
    BY <1>1, <1>2, <1>3, <2>1
  <2> QED BY <1>1, <1>2, <1>3, <2>1, <2>2 DEF both
<1> QED BY <1>2, <1>3, <1>4, <1>5, <1>6, <1>7 DEF new

(* What waits after a line has been read.                                  *)
LEMMA ReadSerial ==
  ASSUME ReadLine, GpsTypeOK
  PROVE  /\ serial' \in Seq(Lines)
         /\ Len(serial) \in Nat \ {0} /\ Len(serial') = Len(serial) - 1
         /\ Head(serial) = serial[1] /\ serial[1] \in Lines
         /\ \A i \in 1..Len(serial') : serial'[i] = serial[i + 1]
<1>1. serial \in Seq(Lines) /\ serial # <<>> /\ serial' = Tail(serial)
  BY DEF ReadLine, GpsTypeOK
<1>2. Len(serial) \in Nat \ {0}
  BY <1>1, LenProperties, EmptySeq
<1> QED BY <1>1, <1>2, HeadTailProperties, ElementOfSeq

-----------------------------------------------------------------------------
(* The waits. *)

(* A finite set of numbers has a least one.                                *)
LEMMA LeastNumber ==
  ASSUME NEW T, IsFiniteSet(T), T \subseteq Int, T # {}
  PROVE  \E m \in T : \A k \in T : m <= k
<1> DEFINE HasLeast(U) == \E m \in U : \A k \in U : m <= k
           Bad == {U \in SUBSET T : U # {} /\ ~HasLeast(U)}
           R == StrictSubsetOrdering(T)
<1>1. IsWellFoundedOn(R, SUBSET T)
  BY FS_StrictSubsetOrderingWellFounded, FS_FiniteSubsetsOfFinite
<1>2. SUFFICES ASSUME Bad # {} PROVE FALSE
  OBVIOUS
<1>3. Bad \subseteq SUBSET T
  OBVIOUS
<1>4. PICK U \in Bad : \A V \in Bad : ~(<<V, U>> \in R)
  <2> HIDE DEF Bad, R
  <2> QED BY <1>1, <1>2, <1>3, WFMin
<1>5. PICK x \in U : TRUE
  OBVIOUS
<1>6. CASE U \ {x} = {}
  BY <1>5, <1>6
<1>7. CASE U \ {x} # {}
  <2>1. U \ {x} \notin Bad
    BY <1>4, <1>5 DEF StrictSubsetOrdering
  <2>2. PICK m \in U \ {x} : \A k \in U \ {x} : m <= k
    BY <2>1, <1>7
  <2>3. CASE m <= x
    BY <2>2, <2>3
  <2>4. CASE ~(m <= x)
    <3>1. \A k \in U : x <= k
      BY <2>2, <2>4, <1>5
    <3> QED BY <3>1, <1>5
  <2> QED BY <2>3, <2>4
<1> QED BY <1>6, <1>7

(* The ladder has steps, each with a number of attempts and a wait that is *)
(* not longer than Longest.                                                *)
LEMMA LadderFacts ==
  /\ Len(Ladder) \in Nat \ {0}
  /\ \A i \in 1..Len(Ladder) : Ladder[i].wait \in 1..Longest /\ Ladder[i].upto \in Nat
  /\ TopAttempt \in Nat
<1>1. Len(Ladder) \in Nat \ {0}
  BY LadderAssumption
<1>2. Ascends(Ladder, Longest)
  BY LadderAssumption
<1>3. \A i \in 1..Len(Ladder) : Ladder[i].wait \in 1..Longest /\ Ladder[i].upto \in Nat
  BY <1>2, Zenon DEF Ascends
<1>4. Len(Ladder) \in 1..Len(Ladder)
  BY <1>1
<1>5. TopAttempt \in Nat
  BY <1>3, <1>4 DEF TopAttempt
<1> QED BY <1>1, <1>3, <1>5

(* The switch of NextInterval has a wait for every number of attempts, and *)
(* none is longer than Longest.                                            *)
LEMMA WaitBounded ==
  ASSUME NEW n \in Nat
  PROVE  WaitAfter(n) \in 1..Longest
<1> DEFINE steps == {i \in 1..Len(Ladder) : n <= Ladder[i].upto}
<1>1. Len(Ladder) \in Nat /\ \A i \in 1..Len(Ladder) : Ladder[i].wait \in 1..Longest
  BY LadderFacts
<1>2. CASE steps = {}
  BY <1>2, ReceiverAssumption DEF WaitAfter
<1>3. CASE steps # {}
  <2>1. IsFiniteSet(steps) /\ steps \subseteq Int
    <3>1. IsFiniteSet(1..Len(Ladder))
      BY <1>1, FS_Interval
    <3>2. steps \subseteq 1..Len(Ladder)
      OBVIOUS
    <3>3. IsFiniteSet(steps)
      BY <3>1, <3>2, FS_Subset
    <3> QED BY <3>3
  <2>2. \E i \in steps : \A j \in steps : i <= j
    BY <1>3, <2>1, LeastNumber
  <2>3. (CHOOSE i \in steps : \A j \in steps : i <= j) \in 1..Len(Ladder)
    BY <2>2
  <2> QED BY <1>1, <1>3, <2>3 DEF WaitAfter
<1> QED BY <1>2, <1>3

(* The backoff manager keeps its types, and the timer it sets.             *)
LEMMA NextIntervalTypes ==
  ASSUME GpsTypeOK, NextInterval
  PROVE  /\ attempts' \in 0..TopAttempt
         /\ lastHasFix' \in BOOLEAN /\ lastSats' \in Sats \cup {0}
         /\ wait' \in 0..(Longest + FixWait)
<1> DEFINE base == IF SignalImproved THEN 0 ELSE attempts
           n == IF base < TopAttempt THEN base + 1 ELSE base
<1>1. TopAttempt \in Nat /\ attempts \in 0..TopAttempt
  BY LadderFacts DEF GpsTypeOK
<1>2. base \in 0..TopAttempt
  BY <1>1
<1>3. n \in 0..TopAttempt
  BY <1>1, <1>2
<1>4. /\ lastHasFix' = hasFix /\ lastSats' = satellites
      /\ attempts' = IF hasFix THEN 0 ELSE n
      /\ wait' = IF hasFix THEN FixWait ELSE WaitAfter(n)
  BY DEF NextInterval
<1> HIDE DEF n
<1>5. WaitAfter(n) \in 1..Longest
  BY <1>1, <1>3, WaitBounded
<1>6. wait' \in 0..(Longest + FixWait)
  BY <1>4, <1>5, ReceiverAssumption
<1>7. attempts' \in 0..TopAttempt
  BY <1>1, <1>3, <1>4
<1> QED BY <1>4, <1>6, <1>7 DEF GpsTypeOK

-----------------------------------------------------------------------------
(* The inductive invariant. *)

(* The loop starts with empty buffers and without a fix.                   *)
LEMMA InitReaderSound == Init => ReaderSound
<1> SUFFICES ASSUME Init PROVE ReaderSound
  OBVIOUS
<1>1. serial \in Seq(Lines) /\ Len(serial) = 0 /\ 1..Len(serial) = {}
  BY DEF Init
<1>2. TopAttempt \in Nat
  BY LadderFacts
<1>3. GpsTypeOK
  <2>1. /\ signal \in {"fix", "nofix", "silent"} /\ sent \in {"none", "failed", "delivered"}
        /\ hasFix \in BOOLEAN /\ lastHasFix \in BOOLEAN /\ running \in BOOLEAN
    BY DEF Init
  <2>2. /\ gpsAge \in 0..MaxAge /\ lastReport \in 0..MaxAge /\ lostFor \in -1..MaxAge
        /\ reads \in 0..ReadsPerSecond /\ Len(serial) <= SerialCap
    BY <1>1, ReceiverAssumption DEF Init
  <2>3. /\ satellites \in Sats \cup {0} /\ lastSats \in Sats \cup {0}
        /\ attempts \in 0..TopAttempt /\ wait \in 0..(Longest + FixWait)
        /\ timer \in 0..(Longest + FixWait + FirstWait)
    BY <1>2, ReceiverAssumption DEF Init
  <2> QED BY <1>1, <2>1, <2>2, <2>3 DEF GpsTypeOK
<1>4. Bounded /\ NewestAhead /\ LossAhead
  BY <1>1 DEF Bounded, NewestAhead, LossAhead, Init
<1> QED BY <1>3, <1>4 DEF ReaderSound

(* A second passes.                                                        *)
LEMMA TickKeepsSound ==
  ASSUME NEW burst \in Reports, Tick(burst), ReaderSound
  PROVE  ReaderSound'
<1> DEFINE new == Fitting(burst)
<1>1. /\ serial' \in Seq(Lines) /\ Len(serial) \in Nat /\ Len(new) \in Nat
      /\ Len(serial') = Len(serial) + Len(new) /\ Len(serial') <= SerialCap
      /\ \A i \in 1..Len(serial) : serial[i] \in Lines /\ serial'[i] = Aged(serial[i])
      /\ \A i \in 1..Len(new) :
           /\ serial'[Len(serial) + i] = new[i]
           /\ new[i] \in Lines /\ new[i].age = 0
  BY TickSerial, FittingFacts, LenProperties, ElementOfSeq DEF ReaderSound, GpsTypeOK
<1> HIDE DEF new
<1>2. \A i \in 1..Len(serial') :
        \/ i \in 1..Len(serial)
        \/ i - Len(serial) \in 1..Len(new) /\ serial'[i] = new[i - Len(serial)]
  <2> SUFFICES ASSUME NEW i \in 1..Len(serial'), ~(i \in 1..Len(serial))
               PROVE  /\ i - Len(serial) \in 1..Len(new)
                      /\ serial'[i] = new[i - Len(serial)]
    OBVIOUS
  <2>1. i - Len(serial) \in 1..Len(new) /\ Len(serial) + (i - Len(serial)) = i
    BY <1>1
  <2> QED BY <1>1, <2>1
<1>3. \A age \in 0..MaxAge : Older(age) \in 0..MaxAge
  BY ReceiverAssumption DEF Older
<1>4. /\ gpsAge \in 0..MaxAge /\ lastReport \in 0..MaxAge /\ lostFor \in -1..MaxAge
      /\ 0 \in 0..MaxAge
  BY ReceiverAssumption DEF ReaderSound, GpsTypeOK
<1>5. /\ gpsAge' = Older(gpsAge)
      /\ lastReport' = IF Contains(new, RMC("A", 0)) THEN 0 ELSE Older(lastReport)
      /\ lostFor' = IF Contains(new, RMC("A", 0)) THEN -1
                    ELSE IF lostFor >= 0 THEN Older(lostFor)
                    ELSE IF Contains(new, RMC("V", 0)) THEN 0
                    ELSE -1
  BY DEF Tick, new
<1>6. GpsTypeOK'
  <2>1. timer' \in 0..(Longest + FixWait + FirstWait) /\ reads' \in 0..ReadsPerSecond
    BY ReceiverAssumption DEF Tick, ReaderSound, GpsTypeOK
  <2>2. gpsAge' \in 0..MaxAge /\ lastReport' \in 0..MaxAge /\ lostFor' \in -1..MaxAge
    <3>1. gpsAge' \in 0..MaxAge /\ lastReport' \in 0..MaxAge
      BY <1>3, <1>4, <1>5
    <3>2. lostFor \in 0..MaxAge \/ ~(lostFor >= 0)
      BY <1>4
    <3>3. lostFor' \in 0..MaxAge \/ lostFor' = -1
      BY <1>3, <1>4, <1>5, <3>2
    <3> QED BY <3>1, <3>3, ReceiverAssumption
  <2>3. /\ UNCHANGED <<signal, hasFix, satellites, attempts, lastHasFix, lastSats,
                       wait, running>>
        /\ sent' = "none"
    BY DEF Tick, backoffVars
  <2> QED BY <1>1, <2>1, <2>2, <2>3 DEF ReaderSound, GpsTypeOK, TopAttempt
<1>7. Bounded'
  <2> SUFFICES ASSUME NEW i \in 1..Len(serial')
               PROVE  i + (ReadsPerSecond - reads')
                        + ReadsPerSecond * serial'[i].age <= SerialCap
    BY DEF Bounded
  <2>1. reads' = ReadsPerSecond /\ ReadsPerSecond \in Nat /\ SerialCap \in Nat
    BY ReceiverAssumption DEF Tick
  <2>2. CASE i \in 1..Len(serial)
    <3>1. reads = 0
      BY <1>1, <2>2 DEF Tick
    <3>2. i + (ReadsPerSecond - 0) + ReadsPerSecond * serial[i].age <= SerialCap
      BY <2>2, <3>1 DEF ReaderSound, Bounded
    <3>3. /\ serial[i].age \in Nat /\ serial'[i].age \in Nat
          /\ serial'[i].age <= serial[i].age + 1
      BY <1>1, <2>2, AgedFacts, LineFacts
    <3>4. \A r, a, b \in Nat : a <= b + 1 => r * a <= r * b + r
      OBVIOUS
    <3>5. ReadsPerSecond * serial'[i].age <= ReadsPerSecond * serial[i].age + ReadsPerSecond
      BY <2>1, <3>3, <3>4
    <3>6. \A x, y, k \in Int :
            k + (ReadsPerSecond - 0) + y <= SerialCap /\ x <= y + ReadsPerSecond
              => k + (ReadsPerSecond - ReadsPerSecond) + x <= SerialCap
      BY <2>1
    <3>7. ReadsPerSecond * serial'[i].age \in Int /\ ReadsPerSecond * serial[i].age \in Int
      BY <2>1, <3>3
    <3> QED BY <2>1, <2>2, <3>2, <3>5, <3>6, <3>7
  <2>3. CASE ~(i \in 1..Len(serial))
    <3>1. serial'[i].age = 0
      BY <1>1, <1>2, <2>3
    <3> QED BY <1>1, <2>1, <3>1
  <2> QED BY <2>2, <2>3
<1>8. \A i \in 1..Len(new) : FixReport(new[i]) => new[i] = RMC("A", 0)
  BY <1>1, LineFacts DEF FixReport
<1>9. /\ FixReport(RMC("A", 0))
      /\ \A i \in 1..Len(serial) : FixReport(serial'[i]) <=> FixReport(serial[i])
  BY <1>1, <1>4, AgedFacts, ReportFacts DEF FixReport
<1>10. NewestAhead'
  <2>1. CASE Contains(new, RMC("A", 0))
    <3>1. PICK k \in 1..Len(new) : new[k] = RMC("A", 0)
      BY <2>1 DEF Contains
    <3>2. lastReport' = 0 /\ Len(serial) + k \in 1..Len(serial')
          /\ serial'[Len(serial) + k] = RMC("A", lastReport')
      BY <1>1, <1>5, <2>1, <3>1
    <3>3. Contains(serial', RMC("A", lastReport'))
      BY <3>2 DEF Contains
    <3>4. ASSUME NEW i \in 1..Len(serial'), FixReport(serial'[i])
          PROVE  \E j \in i..Len(serial') : serial'[j] = RMC("A", lastReport')
      <4>1. CASE i \in 1..Len(serial)
        BY <1>1, <3>2, <4>1
      <4>2. CASE ~(i \in 1..Len(serial))
        BY <1>1, <1>2, <1>8, <3>2, <3>4, <4>2
      <4> QED BY <4>1, <4>2
    <3> QED BY <3>3, <3>4 DEF NewestAhead, Contains
  <2>2. CASE ~Contains(new, RMC("A", 0))
    <3>1. lastReport' = Older(lastReport)
      BY <1>5, <2>2
    <3>2. \A j \in 1..Len(serial) :
            serial[j] = RMC("A", lastReport) => serial'[j] = RMC("A", lastReport')
      BY <1>1, <1>4, <3>1, AgedFacts
    <3>3. ASSUME NEW i \in 1..Len(serial'), FixReport(serial'[i])
          PROVE  \E j \in i..Len(serial') : serial'[j] = RMC("A", lastReport')
      <4>1. i \in 1..Len(serial)
        BY <1>1, <1>2, <1>8, <2>2, <3>3 DEF Contains
      <4>2. PICK j \in i..Len(serial) : serial[j] = RMC("A", lastReport)
        BY <1>9, <3>3, <4>1 DEF ReaderSound, NewestAhead
      <4> QED BY <1>1, <3>2, <4>1, <4>2
    <3>4. gpsAge' = lastReport' \/ Contains(serial', RMC("A", lastReport'))
      <4>1. CASE gpsAge = lastReport
        BY <1>5, <3>1, <4>1
      <4>2. CASE Contains(serial, RMC("A", lastReport))
        BY <1>1, <3>2, <4>2 DEF Contains
      <4> QED BY <4>1, <4>2 DEF ReaderSound, NewestAhead
    <3> QED BY <3>3, <3>4 DEF NewestAhead, Contains
  <2> QED BY <2>1, <2>2
<1>11. LossAhead'
  <2> SUFFICES ASSUME lostFor' >= 0
               PROVE  \/ \E i \in 1..Len(serial') :
                           /\ serial'[i] = RMC("V", lostFor')
                           /\ \A j \in i..Len(serial') : ~FixReport(serial'[j])
                      \/ ~hasFix' /\ \A j \in 1..Len(serial') : ~FixReport(serial'[j])
    BY DEF LossAhead
  <2>1. ~Contains(new, RMC("A", 0))
    BY <1>5
  <2>2. \A j \in 1..Len(serial') : ~(j \in 1..Len(serial)) => ~FixReport(serial'[j])
    BY <1>2, <1>8, <2>1 DEF Contains
  <2>3. CASE lostFor >= 0
    <3>1. lostFor' = Older(lostFor) /\ lostFor \in 0..MaxAge
      BY <1>4, <1>5, <2>1, <2>3
    <3>2. ASSUME NEW i \in 1..Len(serial), serial[i] = RMC("V", lostFor),
                 \A j \in i..Len(serial) : ~FixReport(serial[j])
          PROVE  /\ serial'[i] = RMC("V", lostFor')
                 /\ \A j \in i..Len(serial') : ~FixReport(serial'[j])
      <4>1. serial'[i] = RMC("V", lostFor')
        BY <1>1, <3>1, <3>2, AgedFacts
      <4>2. ASSUME NEW j \in i..Len(serial') PROVE ~FixReport(serial'[j])
        <5>1. j \in 1..Len(serial')
          BY <1>1
        <5>2. CASE j \in 1..Len(serial)
          <6>1. j \in i..Len(serial)
            BY <1>1, <5>2
          <6> QED BY <1>9, <3>2, <5>2, <6>1
        <5> QED BY <2>2, <5>1, <5>2
      <4> QED BY <4>1, <4>2
    <3>3. ASSUME ~hasFix, \A j \in 1..Len(serial) : ~FixReport(serial[j])
          PROVE  ~hasFix' /\ \A j \in 1..Len(serial') : ~FixReport(serial'[j])
      BY <1>9, <2>2, <3>3 DEF Tick
    <3>4. 1..Len(serial) \subseteq 1..Len(serial')
      BY <1>1
    <3> QED BY <2>3, <3>2, <3>3, <3>4 DEF ReaderSound, LossAhead
  <2>4. CASE ~(lostFor >= 0)
    <3>1. lostFor' = 0 /\ Contains(new, RMC("V", 0))
      BY <1>4, <1>5, <2>1, <2>4
    <3>2. PICK k \in 1..Len(new) : new[k] = RMC("V", 0)
      BY <3>1 DEF Contains
    <3>3. /\ Len(serial) + k \in 1..Len(serial')
          /\ serial'[Len(serial) + k] = RMC("V", lostFor')
      BY <1>1, <3>1, <3>2
    <3>4. \A j \in (Len(serial) + k)..Len(serial') :
            j \in 1..Len(serial') /\ ~(j \in 1..Len(serial))
      BY <1>1
    <3> QED BY <2>2, <3>3, <3>4
  <2> QED BY <2>3, <2>4
<1> QED BY <1>6, <1>7, <1>10, <1>11 DEF ReaderSound

(* A line is read: what waits moves up by one place.                       *)
LEMMA ReadKeepsSound ==
  ASSUME ReadLine, ReaderSound
  PROVE  ReaderSound'
<1>1. /\ serial' \in Seq(Lines) /\ Len(serial) \in Nat \ {0}
      /\ Len(serial') = Len(serial) - 1
      /\ Head(serial) = serial[1]
      /\ \A i \in 1..Len(serial) : serial[i] \in Lines
      /\ \A i \in 1..Len(serial') : serial'[i] = serial[i + 1]
  BY ReadSerial, ElementOfSeq DEF ReaderSound, GpsTypeOK
<1>2. \A i \in 2..Len(serial) :
        i - 1 \in 1..Len(serial') /\ serial'[i - 1] = serial[i]
  <2> SUFFICES ASSUME NEW i \in 2..Len(serial)
               PROVE  i - 1 \in 1..Len(serial') /\ serial'[i - 1] = serial[i]
    OBVIOUS
  <2>1. i - 1 \in 1..Len(serial') /\ (i - 1) + 1 = i
    BY <1>1
  <2> QED BY <1>1, <2>1
<1>3. \A i \in 1..Len(serial') : i + 1 \in 2..Len(serial) /\ i + 1 \in 1..Len(serial)
  BY <1>1
<1>4. \/ FixReport(serial[1]) /\ hasFix' = TRUE /\ gpsAge' = serial[1].age
      \/ ~FixReport(serial[1]) /\ gpsAge' = gpsAge /\ (hasFix' = hasFix \/ hasFix' = FALSE)
  <2>1. ParseNMEA(serial[1])
    BY <1>1 DEF ReadLine
  <2> QED BY <2>1 DEF ParseNMEA, parseRMC, parseGGA, gpsVars, FixReport
<1>5. /\ lastReport' = lastReport /\ lostFor' = lostFor
      /\ lastReport \in 0..MaxAge /\ lostFor \in -1..MaxAge
  BY DEF ReadLine, history, ReaderSound, GpsTypeOK
<1>6. GpsTypeOK'
  <2>1. reads' \in 0..ReadsPerSecond
    BY ReceiverAssumption DEF ReadLine, ReaderSound, GpsTypeOK
  <2>2. serial[1] \in Lines
    BY <1>1
  <2>3. gpsAge' \in 0..MaxAge /\ hasFix' \in BOOLEAN
    BY <1>4, <2>2, LineFacts DEF ReaderSound, GpsTypeOK
  <2>4. satellites' \in Sats \cup {0}
    <3>1. ParseNMEA(serial[1])
      BY <1>1 DEF ReadLine
    <3> QED BY <2>2, <3>1, LineFacts
        DEF ParseNMEA, parseRMC, parseGGA, gpsVars, ReaderSound, GpsTypeOK
  <2>5. UNCHANGED <<signal, attempts, lastHasFix, lastSats, wait, timer, sent, running>>
    BY DEF ReadLine, backoffVars
  <2>6. Len(serial') <= SerialCap
    BY <1>1, ReceiverAssumption DEF ReaderSound, GpsTypeOK
  <2> QED BY <1>1, <1>5, <2>1, <2>3, <2>4, <2>5, <2>6
      DEF ReaderSound, GpsTypeOK, TopAttempt
<1>7. Bounded'
  <2> SUFFICES ASSUME NEW i \in 1..Len(serial')
               PROVE  i + (ReadsPerSecond - reads')
                        + ReadsPerSecond * serial'[i].age <= SerialCap
    BY DEF Bounded
  <2>1. /\ reads' = reads - 1 /\ reads \in Nat /\ ReadsPerSecond \in Nat /\ SerialCap \in Nat
    BY ReceiverAssumption DEF ReadLine, ReaderSound, GpsTypeOK
  <2>2. (i + 1) + (ReadsPerSecond - reads) + ReadsPerSecond * serial[i + 1].age <= SerialCap
    BY <1>3 DEF ReaderSound, Bounded
  <2>3. serial'[i] = serial[i + 1] /\ serial[i + 1].age \in Nat
    BY <1>1, <1>3, LineFacts
  <2>4. ReadsPerSecond * serial[i + 1].age \in Int
    BY <2>1, <2>3
  <2>5. \A y \in Int : (i + 1) + (ReadsPerSecond - reads) + y <= SerialCap
                         => i + (ReadsPerSecond - (reads - 1)) + y <= SerialCap
    BY <2>1
  <2> QED BY <2>1, <2>2, <2>3, <2>4, <2>5
<1>8. NewestAhead'
  <2>1. ASSUME NEW i \in 1..Len(serial'), FixReport(serial'[i])
        PROVE  \E j \in i..Len(serial') : serial'[j] = RMC("A", lastReport)
    <3>1. i + 1 \in 1..Len(serial) /\ FixReport(serial[i + 1])
      BY <1>1, <1>3, <2>1
    <3>2. PICK j \in (i + 1)..Len(serial) : serial[j] = RMC("A", lastReport)
      BY <3>1 DEF ReaderSound, NewestAhead
    <3>3. j \in 2..Len(serial) /\ j - 1 \in i..Len(serial')
      BY <1>1
    <3> QED BY <1>2, <3>2, <3>3
  <2>2. \A j \in 2..Len(serial) :
          serial[j] = RMC("A", lastReport) => Contains(serial', RMC("A", lastReport))
    BY <1>2 DEF Contains
  <2>3. FixReport(RMC("A", lastReport)) /\ RMC("A", lastReport).age = lastReport
    BY <1>5, ReportFacts DEF FixReport
  <2>4. gpsAge' = lastReport \/ Contains(serial', RMC("A", lastReport))
    <3>1. CASE FixReport(serial[1])
      <4>1. PICK j \in 1..Len(serial) : serial[j] = RMC("A", lastReport)
        BY <1>1, <3>1 DEF ReaderSound, NewestAhead
      <4>2. CASE j = 1
        BY <1>4, <2>3, <3>1, <4>1, <4>2
      <4>3. CASE j # 1
        <5>1. j \in 2..Len(serial)
          BY <1>1, <4>3
        <5> QED BY <2>2, <4>1, <5>1
      <4> QED BY <4>2, <4>3
    <3>2. CASE ~FixReport(serial[1])
      <4>1. gpsAge' = gpsAge
        BY <1>4, <3>2
      <4>2. CASE Contains(serial, RMC("A", lastReport))
        <5>1. PICK j \in 1..Len(serial) : serial[j] = RMC("A", lastReport)
          BY <4>2 DEF Contains
        <5>2. j # 1
          BY <2>3, <3>2, <5>1
        <5>3. j \in 2..Len(serial)
          BY <1>1, <5>2
        <5> QED BY <2>2, <5>1, <5>3
      <4> QED BY <4>1, <4>2 DEF ReaderSound, NewestAhead
    <3> QED BY <3>1, <3>2
  <2> QED BY <1>5, <2>1, <2>4 DEF NewestAhead, Contains
<1>9. LossAhead'
  <2> SUFFICES ASSUME lostFor >= 0
               PROVE  \/ \E i \in 1..Len(serial') :
                           /\ serial'[i] = RMC("V", lostFor)
                           /\ \A j \in i..Len(serial') : ~FixReport(serial'[j])
                      \/ ~hasFix' /\ \A j \in 1..Len(serial') : ~FixReport(serial'[j])
    BY <1>5 DEF LossAhead
  <2>1. ASSUME NEW i \in 1..Len(serial), serial[i] = RMC("V", lostFor),
               \A j \in i..Len(serial) : ~FixReport(serial[j])
        PROVE  \/ \E k \in 1..Len(serial') :
                    /\ serial'[k] = RMC("V", lostFor)
                    /\ \A j \in k..Len(serial') : ~FixReport(serial'[j])
               \/ ~hasFix' /\ \A j \in 1..Len(serial') : ~FixReport(serial'[j])
    <3>1. CASE i = 1
      <4>1. \A j \in 1..Len(serial') : ~FixReport(serial'[j])
        BY <1>1, <1>3, <2>1, <3>1
      <4>2. lostFor \in 0..MaxAge
        BY <1>5
      <4>3. serial[1].kind = "RMC" /\ serial[1].status = "V"
        BY <2>1, <3>1, <4>2, ReportFacts
      <4>4. hasFix' = FALSE
        <5>1. ParseNMEA(serial[1])
          BY <1>1 DEF ReadLine
        <5> QED BY <4>3, <5>1 DEF ParseNMEA, parseRMC
      <4> QED BY <4>1, <4>4
    <3>2. CASE i # 1
      <4>1. i \in 2..Len(serial)
        BY <1>1, <3>2
      <4>2. \A j \in (i - 1)..Len(serial') : ~FixReport(serial'[j])
        <5> SUFFICES ASSUME NEW j \in (i - 1)..Len(serial')
                     PROVE  ~FixReport(serial'[j])
          OBVIOUS
        <5>1. j \in 1..Len(serial') /\ j + 1 \in i..Len(serial)
          BY <1>1, <4>1
        <5> QED BY <1>1, <2>1, <5>1
      <4> QED BY <1>2, <2>1, <4>1, <4>2
    <3> QED BY <3>1, <3>2
  <2>2. ASSUME ~hasFix, \A j \in 1..Len(serial) : ~FixReport(serial[j])
        PROVE  ~hasFix' /\ \A j \in 1..Len(serial') : ~FixReport(serial'[j])
    <3>1. \A j \in 1..Len(serial') : ~FixReport(serial'[j])
      BY <1>1, <1>3, <2>2
    <3>2. ~FixReport(serial[1])
      BY <1>1, <2>2
    <3>3. hasFix' = hasFix \/ hasFix' = FALSE
      BY <1>4, <3>2
    <3> QED BY <2>2, <3>1, <3>3
  <2> QED BY <2>1, <2>2 DEF ReaderSound, LossAhead
<1> QED BY <1>6, <1>7, <1>8, <1>9 DEF ReaderSound

(* Every step of the broadcaster, the receiver and the clock keeps what    *)
(* the loop reads in order.                                                *)
LEMMA StepReaderSound == ReaderSound /\ [Next]_vars => ReaderSound'
<1> SUFFICES ASSUME ReaderSound, [Next]_vars PROVE ReaderSound'
  OBVIOUS
<1>1. ASSUME NEW burst \in Reports, Tick(burst) PROVE ReaderSound'
  BY <1>1, TickKeepsSound
<1>2. CASE ReadLine
  BY <1>2, ReadKeepsSound
<1>3. ASSUME UNCHANGED <<serial, reads, hasFix, gpsAge, lastReport, lostFor>>,
             GpsTypeOK'
      PROVE  ReaderSound'
  BY <1>3 DEF ReaderSound, Bounded, NewestAhead, LossAhead, Contains
<1>4. ASSUME NEW s \in {"fix", "nofix", "silent"}, SignalChanges(s) PROVE ReaderSound'
  <2>1. GpsTypeOK'
    BY <1>4 DEF SignalChanges, gpsVars, backoffVars, history, ReaderSound, GpsTypeOK,
                TopAttempt
  <2> QED BY <1>3, <1>4, <2>1 DEF SignalChanges, gpsVars, history
<1>5. ASSUME NEW delivered \in BOOLEAN, TimerFires(delivered) PROVE ReaderSound'
  <2>1. /\ attempts' \in 0..TopAttempt
        /\ lastHasFix' \in BOOLEAN /\ lastSats' \in Sats \cup {0}
        /\ wait' \in 0..(Longest + FixWait)
    BY <1>5, NextIntervalTypes DEF TimerFires, ReaderSound
  <2>2. timer' \in 0..(Longest + FixWait + FirstWait)
    BY <1>5, <2>1, ReceiverAssumption DEF TimerFires
  <2>3. sent' \in {"none", "failed", "delivered"}
    BY <1>5 DEF TimerFires, Broadcast
  <2>4. UNCHANGED <<signal, serial, reads, gpsVars, history, running>>
    BY <1>5 DEF TimerFires
  <2>5. GpsTypeOK'
    BY <2>1, <2>2, <2>3, <2>4
    DEF gpsVars, history, ReaderSound, GpsTypeOK, TopAttempt
  <2> QED BY <1>3, <2>4, <2>5 DEF gpsVars, history
<1>6. CASE Stop
  <2>1. running' \in BOOLEAN
    BY <1>6 DEF Stop
  <2>2. GpsTypeOK'
    BY <1>6, <2>1 DEF Stop, gpsVars, backoffVars, history, ReaderSound, GpsTypeOK, TopAttempt
  <2> QED BY <1>3, <1>6, <2>2 DEF Stop, gpsVars, history
<1>7. CASE UNCHANGED vars
  <2>1. GpsTypeOK'
    BY <1>7 DEF vars, gpsVars, backoffVars, history, ReaderSound, GpsTypeOK, TopAttempt
  <2> QED BY <1>3, <1>7, <2>1 DEF vars, gpsVars, history
<1> QED BY <1>1, <1>2, <1>4, <1>5, <1>6, <1>7 DEF Next

(* No line waits for longer than Lag, the time the loop needs to read      *)
(* buffers that are full.                                                  *)
LEMMA LinesNotLate ==
  ASSUME ReaderSound, NEW i \in 1..Len(serial)
  PROVE  serial[i].age <= Lag
<1>1. i + (ReadsPerSecond - reads) + ReadsPerSecond * serial[i].age <= SerialCap
  BY DEF ReaderSound, Bounded
<1>2. /\ ReadsPerSecond \in Nat \ {0} /\ SerialCap \in Nat
      /\ reads \in Nat /\ reads <= ReadsPerSecond
  BY ReceiverAssumption DEF ReaderSound, GpsTypeOK
<1>3. i \in Nat /\ i >= 1 /\ serial[i].age \in Nat
  <2>1. serial[i] \in Lines
    BY ElementOfSeq DEF ReaderSound, GpsTypeOK
  <2> QED BY <2>1, LineFacts
<1>4. ReadsPerSecond * serial[i].age \in Nat
  BY <1>2, <1>3
<1>5. \A y \in Nat : i + (ReadsPerSecond - reads) + y <= SerialCap => y <= SerialCap - 1
  BY <1>2, <1>3
<1>6. ReadsPerSecond * serial[i].age <= SerialCap - 1
  BY <1>1, <1>4, <1>5
<1>7. \A r \in Nat \ {0}, a \in Nat, c \in Int : r * a <= c => a <= c \div r
  OBVIOUS
<1>8. SerialCap - 1 \in Int
  BY <1>2
<1>9. serial[i].age <= (SerialCap - 1) \div ReadsPerSecond
  BY <1>2, <1>3, <1>6, <1>7, <1>8, Zenon
<1> QED BY <1>9 DEF Lag

(* What the loop reads stays in order, in every behaviour.                 *)
LEMMA ReaderAlwaysSound == Spec => []ReaderSound
BY InitReaderSound, StepReaderSound, PTL DEF Spec

(* The reader, the backoff manager and the timer keep their types, for     *)
(* every ladder that ascends: no wait is longer than Longest or FixWait    *)
(* (NextInterval).                                                         *)
THEOREM GpsTypeCorrect == Spec => []GpsTypeOK
<1>1. ReaderSound => GpsTypeOK
  BY DEF ReaderSound
<1> QED BY <1>1, ReaderAlwaysSound, PTL

(* The time that is broadcast is that of the newest report with a fix, or  *)
(* that report is at most Lag seconds old and on its way; and a fix that   *)
(* the receiver reports lost is given up as soon (ReadLine, parseRMC):     *)
(* whatever the speed of the loop, the size of the buffers and the length  *)
(* of the reports are.                                                     *)
THEOREM RecentReportAlwaysSent == Spec => []RecentReportSent
<1>1. ReaderSound => RecentReportSent
  <2> SUFFICES ASSUME ReaderSound PROVE RecentReportSent
    OBVIOUS
  <2>1. gpsAge = lastReport \/ Contains(serial, RMC("A", lastReport))
    BY DEF ReaderSound, NewestAhead
  <2>2. \A i \in 1..Len(serial) : serial[i].age <= Lag
    BY LinesNotLate
  <2>3. ASSUME hasFix PROVE lostFor <= Lag
    <3>1. lostFor \in -1..MaxAge /\ Lag \in Nat
      BY ReceiverAssumption DEF ReaderSound, GpsTypeOK, Lag
    <3>2. CASE lostFor >= 0
      <4>1. PICK i \in 1..Len(serial) : serial[i] = RMC("V", lostFor)
        BY <2>3, <3>2 DEF ReaderSound, LossAhead
      <4>2. serial[i].age = lostFor
        BY <3>1, <3>2, <4>1, ReportFacts
      <4> QED BY <2>2, <4>2
    <3>3. CASE ~(lostFor >= 0)
      BY <3>1, <3>3
    <3> QED BY <3>2, <3>3
  <2> QED BY <2>1, <2>2, <2>3 DEF RecentReportSent
<1> QED BY <1>1, ReaderAlwaysSound, PTL

=============================================================================

------------------------ MODULE DaemonLifecycleProofs ------------------------
(***************************************************************************)
(* Proofs about DaemonLifecycle for any number of crashes and of starts:   *)
(* when systemd is told that the daemon is ready, it serves; and only a    *)
(* daemon that shuts down takes the socket file from one that serves.      *)
(***************************************************************************)
EXTENDS DaemonLifecycle, TLAPS

Places ==
  {"off", "New", "Run", "Remove", "Listen", "Register", "Ready", "Notify",
   "running", "StopListener", "StopSocket", "Finish"}

\* What an instance holds where it stands: the port from the end of New to
\* StopListener, its own record from selfRegister on.
HoldsPort(i) == pc[i] \notin {"off", "New", "StopSocket", "Finish"}
HoldsRecord(i) ==
  pc[i] \in {"Ready", "Notify", "running", "StopListener", "StopSocket", "Finish"}

(* The inductive invariant: the states of the processes fit with the unit, *)
(* and the port and the records are held by exactly the processes that     *)
(* have come that far.                                                     *)
HeldByPlace ==
  /\ config \in [discovery : BOOLEAN, timeSync : BOOLEAN, runtimeDir : BOOLEAN]
  /\ pc \in [Instances -> Places]
  /\ path \in Instances \cup {None, NoDir}
  /\ port \in Instances \cup {None}
  /\ registered = {i \in Instances : HoldsRecord(i)}
  /\ \A i \in Instances : port = i <=> config.discovery /\ HoldsPort(i)
  /\ ready \in BOOLEAN
  /\ Alive("sys") <=> unit \in {"active", "stopping"}
  /\ ready => pc["sys"] \in {"Notify", "running"}

(* Before the first start nothing is held.                                 *)
LEMMA InitHeldByPlace == Init => HeldByPlace
<1> SUFFICES ASSUME Init PROVE HeldByPlace
  OBVIOUS
<1>1. /\ pc = [i \in Instances |-> "off"] /\ registered = {} /\ port = None
      /\ path \in {None, NoDir} /\ unit = "inactive" /\ ready = FALSE
      /\ config \in [discovery : BOOLEAN, timeSync : BOOLEAN, runtimeDir : BOOLEAN]
  BY DEF Init
<1> QED
  BY <1>1 DEF HeldByPlace, HoldsPort, HoldsRecord, Alive, Places, Instances, None

(* The end of a process, however it comes about (main, systemd).           *)
LEMMA EndKeepsHeld ==
  ASSUME HeldByPlace, NEW i \in Instances, NEW failure \in BOOLEAN,
         NEW f \in Instances \cup {None, NoDir}, End(i, failure, f), Alive(i)
  PROVE  HeldByPlace'
<1> USE DEF HeldByPlace, Instances, None, NoDir
<1>1. pc' = [pc EXCEPT ![i] = "off"] /\ config' = config
  BY DEF End
<1>2. pc' \in [Instances -> Places]
  BY <1>1 DEF Places
<1>3. path' \in Instances \cup {None, NoDir}
  BY DEF End
<1>4. port' \in Instances \cup {None}
  BY DEF End
<1>5. registered' = {j \in Instances : HoldsRecord(j)}'
  BY <1>1, <1>2 DEF End, HoldsRecord
<1>6. \A j \in Instances : port' = j <=> config.discovery /\ HoldsPort(j)'
  BY <1>1, <1>2 DEF End, HoldsPort
<1>7. ready' \in BOOLEAN /\ (ready' => pc'["sys"] \in {"Notify", "running"})
  BY <1>1 DEF End
<1>8. Alive("sys")' <=> unit' \in {"active", "stopping"}
  BY <1>1 DEF End, Alive
<1> QED
  BY <1>1, <1>2, <1>3, <1>4, <1>5, <1>6, <1>7, <1>8

(* Every step keeps what the processes hold.                               *)
LEMMA StepHeldByPlace ==
  HeldByPlace /\ [Next]_vars => HeldByPlace'
<1> SUFFICES ASSUME HeldByPlace, [Next]_vars PROVE HeldByPlace'
  OBVIOUS
<1> USE DEF Instances, None, NoDir
<1>1. ASSUME NEW i \in Instances, New(i) PROVE HeldByPlace'
  <2>1. CASE /\ config.discovery => port = None
             /\ Move(i, "New", "Run")
             /\ port' = IF config.discovery THEN i ELSE port
             /\ UNCHANGED <<config, path, registered, unit, ready, bounds>>
    BY <2>1 DEF HeldByPlace, HoldsPort, HoldsRecord, Alive, Move, Places
  <2>2. CASE pc[i] = "New" /\ End(i, TRUE, path)
    BY <2>2, EndKeepsHeld DEF HeldByPlace, Alive
  <2> QED
    BY <1>1, <2>1, <2>2 DEF New
<1>2. ASSUME NEW i \in Instances, Run(i) \/ Notify(i) PROVE HeldByPlace'
  BY <1>2 DEF HeldByPlace, HoldsPort, HoldsRecord, Alive, Move, Places, Run, Notify
<1>3. ASSUME NEW i \in Instances, Remove(i) \/ StopSocket(i) PROVE HeldByPlace'
  BY <1>3 DEF HeldByPlace, HoldsPort, HoldsRecord, Alive, Move, Places, Remove,
              StopSocket, Unlinked
<1>4. ASSUME NEW i \in Instances, Listen(i) PROVE HeldByPlace'
  <2>1. CASE /\ path = None /\ Move(i, "Listen", "Register") /\ path' = i
             /\ UNCHANGED <<config, port, registered, unit, ready, bounds>>
    BY <2>1 DEF HeldByPlace, HoldsPort, HoldsRecord, Alive, Move, Places
  <2>2. CASE pc[i] = "Listen" /\ End(i, TRUE, path)
    BY <2>2, EndKeepsHeld DEF HeldByPlace, Alive
  <2> QED
    BY <1>4, <2>1, <2>2 DEF Listen
<1>5. ASSUME NEW i \in Instances, selfRegister(i) PROVE HeldByPlace'
  BY <1>5 DEF HeldByPlace, HoldsPort, HoldsRecord, Alive, Move, Places, selfRegister
<1>6. ASSUME NEW i \in Instances, Ready(i) PROVE HeldByPlace'
  BY <1>6 DEF HeldByPlace, HoldsPort, HoldsRecord, Alive, Move, Places, Ready
<1>7. ASSUME NEW i \in Instances, ShutDown(i) PROVE HeldByPlace'
  BY <1>7 DEF HeldByPlace, HoldsPort, HoldsRecord, Alive, Move, Places, ShutDown
<1>8. ASSUME NEW i \in Instances, StopListener(i) PROVE HeldByPlace'
  BY <1>8 DEF HeldByPlace, HoldsPort, HoldsRecord, Alive, Move, Places, StopListener
<1>9. ASSUME NEW i \in Instances,
             Panic(i) \/ KilledBySignal(i) \/ Crash(i) \/ Finish(i)
      PROVE  HeldByPlace'
  <2>1. Alive(i)
    BY <1>9 DEF Panic, KilledBySignal, Signalled, Crash, Finish, Alive
  <2>2. \E failure \in BOOLEAN, f \in {path, Unlinked} : End(i, failure, f)
    BY <1>9 DEF Panic, KilledBySignal, Crash, Finish
  <2>3. {path, Unlinked} \subseteq Instances \cup {None, NoDir}
    BY DEF HeldByPlace, Unlinked
  <2> QED
    BY <2>1, <2>2, <2>3, EndKeepsHeld
<1>10. CASE StartUnit \/ Restart
  BY <1>10 DEF HeldByPlace, HoldsPort, HoldsRecord, Alive, Places, StartUnit,
               Restart, Launch
<1>11. CASE StopUnit
  BY <1>11 DEF HeldByPlace, HoldsPort, HoldsRecord, Alive, StopUnit
<1>12. CASE StartByHand
  BY <1>12 DEF HeldByPlace, HoldsPort, HoldsRecord, Alive, Places, StartByHand, Move
<1>13. CASE UNCHANGED vars
  BY <1>13 DEF HeldByPlace, HoldsPort, HoldsRecord, Alive, vars
<1> QED
  BY <1>1, <1>2, <1>3, <1>4, <1>5, <1>6, <1>7, <1>8, <1>9, <1>10, <1>11, <1>12,
     <1>13 DEF Next, GoOn

(* The inductive invariant holds throughout.                               *)
LEMMA AlwaysHeldByPlace == Spec => []HeldByPlace
BY InitHeldByPlace, StepHeldByPlace, PTL DEF Spec

(* The states of processes and unit fit together (main, End and the unit). *)
THEOREM LifecycleTypeCorrect == Spec => []LifecycleTypeOK
<1>1. HeldByPlace => LifecycleTypeOK
  BY DEF HeldByPlace, LifecycleTypeOK, HoldsPort, HoldsRecord, Alive, Instances, Places
<1> QED
  BY <1>1, AlwaysHeldByPlace, PTL

(* While systemd takes the unit to be ready, the daemon has its socket     *)
(* open, its port and its own record (Run, waitForShutdown), after any     *)
(* number of crashes, restarts and daemons run by hand.                    *)
THEOREM ReadyAlwaysServing == Spec => []ReadyMeansServing
<1>1. HeldByPlace => ReadyMeansServing
  BY DEF HeldByPlace, ReadyMeansServing, HoldsPort, HoldsRecord, Serving, Instances
<1> QED
  BY <1>1, AlwaysHeldByPlace, PTL

-----------------------------------------------------------------------------
TakenByAStopper ==
  \A i \in Instances :
    config.discovery /\ Serving(i) /\ path = i /\ Serving(i)' /\ path' # i =>
      \/ \E j \in Instances \ {i} : Stopping(j)
      \/ i = "hand" /\ config.runtimeDir /\ Alive("sys") /\ ~Alive("sys")'

(* A process that ends and leaves the file takes it from no one, unless    *)
(* systemd then removes the runtime directory.                             *)
LEMMA EndTakesNoSocket ==
  ASSUME HeldByPlace, NEW i \in Instances, NEW failure \in BOOLEAN,
         End(i, failure, path), Alive(i)
  PROVE  TakenByAStopper
<1> SUFFICES ASSUME NEW k \in Instances, Serving(k), path = k, Serving(k)', path' # k
             PROVE  k = "hand" /\ config.runtimeDir /\ Alive("sys") /\ ~Alive("sys")'
  BY DEF TakenByAStopper
<1>1. i = "sys" /\ config.runtimeDir
  BY DEF End
<1>2. pc'["sys"] = "off"
  BY <1>1 DEF End, HeldByPlace, Instances
<1> QED
  BY <1>1, <1>2 DEF Instances, Serving, Alive

(* Where discovery is enabled, only a daemon that is shutting down, or     *)
(* systemd with the runtime directory, takes the socket file from a daemon *)
(* that serves: a second daemon never gets past New, where the port is     *)
(* bound, to the os.Remove of SocketServer.Start.                          *)
THEOREM SocketOnlyTakenByAStopper == Spec => SocketTakenOnlyByAStopper
<1>1. HeldByPlace /\ [Next]_vars => [TakenByAStopper]_vars
  <2> SUFFICES ASSUME HeldByPlace, Next PROVE TakenByAStopper
    OBVIOUS
  <2>1. ASSUME NEW i \in Instances, Remove(i) PROVE TakenByAStopper
    <3> SUFFICES ASSUME NEW k \in Instances, config.discovery, Serving(k)
                 PROVE  FALSE
      BY DEF TakenByAStopper
    <3>1. HoldsPort(k) /\ HoldsPort(i) /\ k # i
      BY <2>1 DEF Serving, HoldsPort, Remove, Move
    <3> QED
      BY <3>1 DEF HeldByPlace
  <2>2. ASSUME NEW i \in Instances, StopSocket(i) \/ Finish(i) PROVE TakenByAStopper
    BY <2>2 DEF TakenByAStopper, StopSocket, Finish, Move, Stopping, Serving
  <2>3. ASSUME NEW i \in Instances,
               \/ New(i) \/ Listen(i) \/ Panic(i) \/ KilledBySignal(i) \/ Crash(i)
        PROVE  TakenByAStopper
    <3>1. CASE path' = path \/ path = None
      BY <3>1 DEF TakenByAStopper, Instances, None
    <3>2. CASE Alive(i) /\ \E failure \in BOOLEAN : End(i, failure, path)
      BY <3>2, EndTakesNoSocket
    <3> QED
      BY <2>3, <3>1, <3>2 DEF New, Listen, Panic, KilledBySignal, Signalled, Crash, Alive
  <2>4. ASSUME NEW i \in Instances,
               \/ Run(i) \/ selfRegister(i) \/ Ready(i) \/ Notify(i)
               \/ StopListener(i) \/ ShutDown(i)
        PROVE  TakenByAStopper
    BY <2>4 DEF TakenByAStopper, Run, selfRegister, Ready, Notify, StopListener, ShutDown
  <2>5. CASE StartUnit \/ Restart \/ StopUnit \/ StartByHand
    BY <2>5 DEF TakenByAStopper, StartUnit, Restart, StopUnit, StartByHand, Launch,
                Instances, NoDir
  <2> QED
    BY <2>1, <2>2, <2>3, <2>4, <2>5 DEF Next, GoOn
<1>2. [TakenByAStopper]_vars <=>
        [\A i \in Instances :
           config.discovery /\ Serving(i) /\ path = i /\ Serving(i)' /\ path' # i =>
             \/ \E j \in Instances \ {i} : Stopping(j)
             \/ i = "hand" /\ config.runtimeDir /\ Alive("sys") /\ ~Alive("sys")']_vars
  BY DEF TakenByAStopper
<1> QED
  BY <1>1, <1>2, AlwaysHeldByPlace, PTL DEF Spec, SocketTakenOnlyByAStopper

=============================================================================

--------------------------- MODULE DaemonLifecycle ---------------------------
(***************************************************************************)
(* Starts and ends of disco-daemon (main, New, Run and waitForShutdown):   *)
(* what two instances on one machine do to the socket file and to the UDP  *)
(* port they share. "sys" is started and restarted by systemd, as the unit *)
(* debian/disco-daemon.service says; "hand" is started from a shell.       *)
(*                                                                         *)
(* The kernel closes the port and the sockets of a process that ends, but  *)
(* leaves the socket file. systemd and the kernel are modelled from how    *)
(* the code and the unit use them.                                         *)
(***************************************************************************)
EXTENDS Integers

CONSTANTS MaxCrashes,  \* bound: processes killed from outside
          MaxHands     \* bound: starts from a shell

ASSUME LifecycleAssumption == MaxCrashes \in Nat /\ MaxHands \in Nat

Instances == {"sys", "hand"}
None == "none"
NoDir == "nodir"

VARIABLES config,      \* discovery.enabled, time_sync.enabled, and whether the
                       \* socket lies in the RuntimeDirectory of the unit
          pc,          \* instance |-> what it does next
          path,        \* whose socket the file is; None: no file; NoDir: no directory
          port,        \* who is bound to the UDP port
          registered,  \* instances whose store holds their own record
          unit,        \* what systemd makes of the unit
          ready,       \* it was told READY=1, and not STOPPING=1 since
          crashes, hands

vars == <<config, pc, path, port, registered, unit, ready, crashes, hands>>
bounds == <<crashes, hands>>

Init ==
  /\ config \in [discovery : BOOLEAN, timeSync : BOOLEAN, runtimeDir : BOOLEAN]
  /\ pc = [i \in Instances |-> "off"]
  /\ path = IF config.runtimeDir THEN NoDir ELSE None
  /\ port = None
  /\ registered = {}
  /\ unit = "inactive"
  /\ ready = FALSE
  /\ crashes = 0 /\ hands = 0

Alive(i) == pc[i] # "off"
Serving(i) == pc[i] \in {"Register", "Ready", "Notify", "running"}
Stopping(i) == pc[i] \in {"StopListener", "StopSocket", "Finish"}

Move(i, from, to) == pc[i] = from /\ pc' = [pc EXCEPT ![i] = to]

\* The process of i ends and leaves the file as given. Restart=on-failure.
End(i, failure, file) ==
  /\ pc' = [pc EXCEPT ![i] = "off"]
  /\ path' = IF i = "sys" /\ config.runtimeDir THEN NoDir ELSE file
  /\ port' = IF port = i THEN None ELSE port
  /\ registered' = registered \ {i}
  /\ unit' = IF i # "sys" THEN unit
             ELSE IF failure /\ unit = "active" THEN "restarting" ELSE "inactive"
  /\ ready' = (ready /\ i # "sys")
  /\ UNCHANGED config

Unlinked == IF path = NoDir THEN NoDir ELSE None

-----------------------------------------------------------------------------
(* New and Run *)

\* Wrong on purpose: the port can be shared.
NewShares(i) ==
  /\ Move(i, "New", "Run")
  /\ port' = IF config.discovery THEN i ELSE port
  /\ UNCHANGED <<config, path, registered, unit, ready, bounds>>

\* NewListener binds the port, or the process exits with status 1.
New(i) ==
  \/ /\ config.discovery => port = None
     /\ Move(i, "New", "Run")
     /\ port' = IF config.discovery THEN i ELSE port
     /\ UNCHANGED <<config, path, registered, unit, ready, bounds>>
  \/ /\ pc[i] = "New" /\ config.discovery /\ port # None
     /\ End(i, TRUE, path)
     /\ UNCHANGED bounds

\* The goroutines of the announcer, listener, detector and time sync.
Run(i) ==
  /\ Move(i, "Run", "Remove")
  /\ UNCHANGED <<config, path, port, registered, unit, ready, bounds>>

\* Wrong on purpose: a file that is left over stays.
RemoveNothing(i) ==
  /\ Move(i, "Remove", "Listen")
  /\ UNCHANGED <<config, path, port, registered, unit, ready, bounds>>

\* os.Remove, whosever socket it is.
Remove(i) ==
  /\ Move(i, "Remove", "Listen")
  /\ path' = Unlinked
  /\ UNCHANGED <<config, port, registered, unit, ready, bounds>>

\* Wrong on purpose: the host does not register itself.
ListenOnly(i) ==
  /\ path = None
  /\ Move(i, "Listen", "Ready")
  /\ path' = i
  /\ UNCHANGED <<config, port, registered, unit, ready, bounds>>

\* net.Listen needs the directory, and a path that is free.
Listen(i) ==
  \/ /\ path = None
     /\ Move(i, "Listen", "Register")
     /\ path' = i
     /\ UNCHANGED <<config, port, registered, unit, ready, bounds>>
  \/ /\ pc[i] = "Listen" /\ path # None
     /\ End(i, TRUE, path)
     /\ UNCHANGED bounds

\* An error of the DNS server, which starts first, is only logged.
selfRegister(i) ==
  /\ Move(i, "Register", "Ready")
  /\ registered' = registered \cup {i}
  /\ UNCHANGED <<config, path, port, unit, ready, bounds>>

\* Without $NOTIFY_SOCKET nobody is told.
Ready(i) ==
  /\ Move(i, "Ready", "Notify")
  /\ ready' = (ready \/ i = "sys")
  /\ UNCHANGED <<config, path, port, registered, unit, bounds>>

\* signal.Notify in waitForShutdown.
Notify(i) ==
  /\ Move(i, "Notify", "running")
  /\ UNCHANGED <<config, path, port, registered, unit, ready, bounds>>

\* processTimeMessages ranges over the channel of a listener that is nil.
Panic(i) ==
  /\ config.timeSync /\ ~config.discovery
  /\ pc[i] \notin {"off", "New", "Run"}
  /\ End(i, TRUE, path)
  /\ UNCHANGED bounds

-----------------------------------------------------------------------------
(* The end *)

\* systemctl stop and ^C. Before signal.Notify the signal ends the process.
Signalled(i) == Alive(i) /\ ~Stopping(i) /\ (i = "sys" => unit = "stopping")

KilledBySignal(i) ==
  /\ Signalled(i) /\ pc[i] # "running"
  /\ End(i, FALSE, path)
  /\ UNCHANGED bounds

\* Wrong on purpose: systemd is not told.
ShutDownQuietly(i) ==
  /\ Signalled(i) /\ Move(i, "running", "StopListener")
  /\ UNCHANGED <<config, path, port, registered, unit, ready, bounds>>

\* notify.Stopping, and stopChan is closed.
ShutDown(i) ==
  /\ Signalled(i) /\ Move(i, "running", "StopListener")
  /\ ready' = (ready /\ i # "sys")
  /\ UNCHANGED <<config, path, port, registered, unit, bounds>>

StopListener(i) ==
  /\ Move(i, "StopListener", "StopSocket")
  /\ port' = IF port = i THEN None ELSE port
  /\ UNCHANGED <<config, path, registered, unit, ready, bounds>>

\* A UnixListener that is closed unlinks the path it was opened with.
StopSocket(i) ==
  /\ Move(i, "StopSocket", "Finish")
  /\ path' = Unlinked
  /\ UNCHANGED <<config, port, registered, unit, ready, bounds>>

\* os.Remove, and main returns.
Finish(i) ==
  /\ pc[i] = "Finish"
  /\ End(i, FALSE, Unlinked)
  /\ UNCHANGED bounds

Crash(i) ==
  /\ Alive(i) /\ crashes < MaxCrashes
  /\ crashes' = crashes + 1
  /\ End(i, TRUE, path)
  /\ UNCHANGED hands

-----------------------------------------------------------------------------
(* systemd and the shell *)

Launch ==
  /\ pc' = [pc EXCEPT !["sys"] = "New"]
  /\ path' = IF path = NoDir THEN None ELSE path
  /\ unit' = "active"
  /\ UNCHANGED <<config, port, registered, ready, bounds>>

StartUnit == unit = "inactive" /\ Launch

Restart == unit = "restarting" /\ Launch

StopUnit ==
  /\ unit \in {"active", "restarting"}
  /\ unit' = IF unit = "active" THEN "stopping" ELSE "inactive"
  /\ UNCHANGED <<config, pc, path, port, registered, ready, bounds>>

StartByHand ==
  /\ hands < MaxHands
  /\ hands' = hands + 1
  /\ Move("hand", "off", "New")
  /\ UNCHANGED <<config, path, port, registered, unit, ready, crashes>>

GoOn(i) ==
  \/ New(i) \/ Run(i) \/ Remove(i) \/ Listen(i)
  \/ selfRegister(i) \/ Ready(i) \/ Notify(i)
  \/ StopListener(i) \/ StopSocket(i) \/ Finish(i)

Next ==
  \/ \E i \in Instances :
       GoOn(i) \/ Panic(i) \/ KilledBySignal(i) \/ ShutDown(i) \/ Crash(i)
  \/ StartUnit \/ Restart \/ StopUnit \/ StartByHand

\* A process goes on while it can, a goroutine that was started runs, and
\* systemd restarts after RestartSec: five seconds, so that no start limit is hit.
Spec ==
  /\ Init /\ [][Next]_vars
  /\ \A i \in Instances : WF_vars(GoOn(i)) /\ WF_vars(Panic(i))
  /\ WF_vars(Restart)

-----------------------------------------------------------------------------
(* The states of processes and unit fit together: the unit has a process   *)
(* exactly while it is active or stopping, and only a process that is      *)
(* there holds the port or a record.                                       *)
LifecycleTypeOK ==
  /\ config \in [discovery : BOOLEAN, timeSync : BOOLEAN, runtimeDir : BOOLEAN]
  /\ path \in Instances \cup {None, NoDir}
  /\ port \in Instances \cup {None}
  /\ \A i \in Instances : port = i \/ i \in registered => Alive(i)
  /\ Alive("sys") <=> unit \in {"active", "stopping"}
  /\ ready => pc["sys"] \in {"Notify", "running"}

(* When systemd starts the units that wait for this one, the daemon has    *)
(* its socket open, its port and its own record, so that lookups and local *)
(* aliases work at once, however often it was restarted (Run).             *)
ReadyMeansServing ==
  ready => /\ Serving("sys") /\ "sys" \in registered
           /\ config.discovery => port = "sys"

(* Where discovery is enabled, nobody takes the socket file from a daemon  *)
(* that serves but another one that is shutting down, or systemd when it   *)
(* removes the runtime directory of an instance of its own. Nothing in     *)
(* socket.Start asks whether the socket it removes is in use: it is the    *)
(* exclusive bind of the port, in New, that keeps a second daemon away     *)
(* (NewListener, SocketServer.Start, waitForShutdown).                     *)
SocketTakenOnlyByAStopper ==
  [][\A i \in Instances :
       config.discovery /\ Serving(i) /\ path = i /\ Serving(i)' /\ path' # i =>
         \/ \E j \in Instances \ {i} : Stopping(j)
         \/ i = "hand" /\ config.runtimeDir /\ Alive("sys") /\ ~Alive("sys")']_vars

(* A unit whose process has failed, wherever it was and whatever file it   *)
(* or another daemon left behind, serves on its socket again, unless an    *)
(* operator stops it or runs a daemon by hand. Excepted is time sync       *)
(* without discovery, where every process panics (Run, SocketServer.Start, *)
(* processTimeMessages).                                                   *)
FailedUnitServesAgain ==
  (unit = "restarting" /\ (config.timeSync => config.discovery))
    ~> \/ pc["sys"] = "running" /\ path = "sys"
       \/ unit \in {"inactive", "stopping"}
       \/ Alive("hand")

=============================================================================

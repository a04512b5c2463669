------------------------ MODULE ServiceAnnouncements ------------------------
(***************************************************************************)
(* The services this host advertises, and the three places the daemon      *)
(* keeps them in: its list of services added at run time, the announcer's  *)
(* map from which every broadcast is made, and the host's own record in    *)
(* the store. They are written by `disco service add' (AnnounceService),   *)
(* by the daemon's start (Run, selfRegister), by the service detector      *)
(* (updateServiceAnnouncements) and by the host's own broadcasts, which    *)
(* the listener hears like anyone else's (handleDiscoveryMessage).         *)
(*                                                                         *)
(* Each place has a lock of its own, held for one step; nothing is held    *)
(* from one step of a command to the next. Ports and addresses are left    *)
(* out: a service is a name and the aliases announced with it.             *)
(***************************************************************************)
EXTENDS Integers, Sequences

CONSTANTS Configured,  \* services of the configuration: name |-> aliases
          Clients,     \* runs of `disco service add'
          Request,     \* client |-> [name, aliases] it asks for
          Ports,       \* names of discovery.service_port_mapping
          Discovery,   \* discovery.enabled: there are an announcer and a listener
          NetCap       \* bound: own broadcasts on their way back

Names == DOMAIN Configured \cup Ports \cup {Request[c].name : c \in Clients}
Aliases == UNION ({Configured[n] : n \in DOMAIN Configured}
                    \cup {Request[c].aliases : c \in Clients})

ASSUME ServicesAssumption ==
  /\ Configured \in [DOMAIN Configured -> SUBSET Aliases]
  /\ "main" \notin Clients
  /\ Discovery \in BOOLEAN
  /\ NetCap \in Nat \ {0}

VARIABLES dynamicServices,  \* d.dynamicServices, as a set: its order is never used
          services,         \* a.services of the announcer: name |-> aliases
          own,              \* the host's record in the store: [names, aliases]
          pc,               \* where each client, and Run ("main"), is
          draft,            \* the record or message each of them has gathered
          ticking,          \* the announcer's loop: the message it is sending
          detected,         \* d.services of the detector: names of open ports
          todo,             \* the updater's loop: names it has still to add
          net               \* own broadcasts, sent and not yet heard

vars == <<dynamicServices, services, own, pc, draft, ticking, detected, todo, net>>

Absent == [names |-> {}, aliases |-> {}]

\* What a record or a broadcast says of the services in S.
Listing(S) ==
  [names |-> {s.name : s \in S}, aliases |-> UNION {s.aliases : s \in S}]

ConfiguredServices ==
  {[name |-> n, aliases |-> Configured[n]] : n \in DOMAIN Configured}

\* Run has handed the configured services to the announcer and started every
\* loop, the socket's among them, and is about to register the host itself.
Init ==
  /\ dynamicServices = {}
  /\ services = Configured
  /\ own = Absent
  /\ pc = [p \in Clients \cup {"main"} |->
             IF p = "main" THEN "gather" ELSE "asked"]
  /\ draft = [p \in Clients \cup {"main"} |-> Absent]
  /\ ticking = {}
  /\ detected = {}
  /\ todo = {}
  /\ net = <<>>

-----------------------------------------------------------------------------
(* The announcer. *)

\* Wrong on purpose: the map keeps the last service only.
AddServiceAlone(n, A) == services' = [m \in {n} |-> A]

\* Wrong on purpose: a new name is not added.
AddServiceKnown(n, A) ==
  services' = [m \in DOMAIN services |-> IF m = n THEN A ELSE services[m]]

AddService(n, A) ==
  services' = [m \in DOMAIN services \cup {n} |->
                 IF m = n THEN A ELSE services[m]]

createAnnouncement ==
  Listing({[name |-> n, aliases |-> services[n]] : n \in DOMAIN services})

\* A broadcast comes back to its sender; it is lost when the listener's buffer
\* is full.
sendAnnouncement(m) ==
  net' = IF Len(net) < NetCap THEN Append(net, m) ELSE net

\* The announcer's ticker: the message is made under the lock, then sent.
broadcastMake ==
  /\ Discovery /\ ticking = {}
  /\ ticking' = {createAnnouncement}
  /\ UNCHANGED <<dynamicServices, services, own, pc, draft, detected, todo, net>>

broadcastSend ==
  /\ ticking # {}
  /\ \E m \in ticking : sendAnnouncement(m)
  /\ ticking' = {}
  /\ UNCHANGED <<dynamicServices, services, own, pc, draft, detected, todo>>

-----------------------------------------------------------------------------
(* AnnounceService, one step for each lock it takes. *)

At(p, here, there) == pc[p] = here /\ pc' = [pc EXCEPT ![p] = there]

AppendDynamic(c) ==
  /\ At(c, "asked", IF Discovery THEN "add" ELSE "gather")
  /\ dynamicServices' = dynamicServices \cup {Request[c]}
  /\ UNCHANGED <<services, own, draft, ticking, detected, todo, net>>

AddToAnnouncer(c) ==
  /\ At(c, "add", "make")
  /\ AddService(Request[c].name, Request[c].aliases)
  /\ UNCHANGED <<dynamicServices, own, draft, ticking, detected, todo, net>>

BroadcastNowMake(c) ==
  /\ At(c, "make", "send")
  /\ draft' = [draft EXCEPT ![c] = createAnnouncement]
  /\ UNCHANGED <<dynamicServices, services, own, ticking, detected, todo, net>>

BroadcastNowSend(c) ==
  /\ At(c, "send", "gather")
  /\ sendAnnouncement(draft[c])
  /\ UNCHANGED <<dynamicServices, services, own, draft, ticking, detected, todo>>

\* Wrong on purpose: only what was added at run time is registered.
AllServicesDynamic == dynamicServices

AllServices == ConfiguredServices \cup dynamicServices

\* selfRegister: the services are copied under d.dynamicMu ...
selfRegisterGather(p) ==
  /\ At(p, "gather", "store")
  /\ draft' = [draft EXCEPT ![p] = Listing(AllServices)]
  /\ UNCHANGED <<dynamicServices, services, own, ticking, detected, todo, net>>

\* ... and the record made from the copy replaces the one in the store.
selfRegisterStore(p) ==
  /\ At(p, "store", "done")
  /\ own' = draft[p]
  /\ UNCHANGED <<dynamicServices, services, draft, ticking, detected, todo, net>>

Client(c) ==
  \/ AppendDynamic(c) \/ AddToAnnouncer(c)
  \/ BroadcastNowMake(c) \/ BroadcastNowSend(c)

Register(p) == selfRegisterGather(p) \/ selfRegisterStore(p)

-----------------------------------------------------------------------------
(* The detector, its updater, and the way back through the listener. *)

scan ==
  /\ Discovery
  /\ detected' \in SUBSET Ports
  /\ UNCHANGED <<dynamicServices, services, own, pc, draft, ticking, todo, net>>

updateTick ==
  /\ todo = {} /\ detected # {}
  /\ todo' = detected
  /\ UNCHANGED <<dynamicServices, services, own, pc, draft, ticking, detected, net>>

\* The updater adds a detected service with no aliases.
updateAdd ==
  /\ \E n \in todo : AddService(n, {}) /\ todo' = todo \ {n}
  /\ UNCHANGED <<dynamicServices, own, pc, draft, ticking, detected, net>>

\* The record made from a broadcast replaces the one in the store.
handleDiscoveryMessage ==
  /\ net # <<>>
  /\ own' = Head(net)
  /\ net' = Tail(net)
  /\ UNCHANGED <<dynamicServices, services, pc, draft, ticking, detected, todo>>

Next ==
  \/ \E c \in Clients : Client(c)
  \/ \E p \in Clients \cup {"main"} : Register(p)
  \/ broadcastMake
  \/ broadcastSend
  \/ scan
  \/ updateTick
  \/ updateAdd
  \/ handleDiscoveryMessage

Spec == Init /\ [][Next]_vars

\* The announcer's ticker fires for ever, and every loop and every command
\* that can go on does. Nothing is assumed of the detector.
FairSpec ==
  /\ Spec
  /\ WF_vars(broadcastMake)
  /\ WF_vars(broadcastSend)
  /\ WF_vars(handleDiscoveryMessage)
  /\ \A p \in Clients \cup {"main"} : WF_vars(Register(p))
  /\ \A c \in Clients : WF_vars(Client(c))

-----------------------------------------------------------------------------
ListingType == [names : SUBSET Names, aliases : SUBSET Aliases]

(* Records and broadcasts list services and aliases that somebody gave.    *)
TypeOK ==
  /\ dynamicServices \subseteq {Request[c] : c \in Clients}
  /\ services \in [DOMAIN services -> SUBSET Aliases]
  /\ DOMAIN services \subseteq Names
  /\ own \in ListingType
  /\ pc \in [Clients \cup {"main"} ->
               {"asked", "add", "make", "send", "gather", "store", "done"}]
  /\ draft \in [Clients \cup {"main"} -> ListingType]
  /\ ticking \subseteq ListingType
  /\ detected \subseteq Ports
  /\ todo \subseteq Ports
  /\ net \in Seq(ListingType) /\ Len(net) <= NetCap

Added(c) == pc[c] \notin {"asked", "add"}

(* A service that a command has handed to the announcer is in every        *)
(* broadcast made from then on, as docs/cli.md says of `disco service add',*)
(* whatever other commands and the detector add in the meantime.           *)
FutureBroadcastsCarry ==
  [][\A m \in ticking' \ ticking : \A c \in Clients :
       Discovery /\ Added(c) => Request[c].name \in m.names]_vars

(* Once the host has registered itself, its record lists the services of   *)
(* the configuration, whichever of its writers (selfRegister,              *)
(* handleDiscoveryMessage) wrote it last.                                  *)
ConfiguredAlwaysListed ==
  own # Absent => DOMAIN Configured \subseteq own.names

(* Whatever record a command or an old broadcast leaves in the store last, *)
(* the broadcasts that follow repair it: in the end the host's own record  *)
(* lists, for good, every service that was added (AnnounceService, the     *)
(* announcer's ticker, handleDiscoveryMessage).                            *)
AddedServicesSettle ==
  <>[](\A c \in Clients : Request[c].name \in own.names)

-----------------------------------------------------------------------------
(* What man/disco-daemon.1.md says of the services of the configuration:   *)
(* their aliases are broadcast to all peers, in each broadcast             *)
(* (createAnnouncement, updateServiceAnnouncements).                       *)
ConfiguredAliasesBroadcast ==
  [][\A m \in ticking' : \A n \in DOMAIN Configured :
       Configured[n] \subseteq m.aliases]_vars

=============================================================================

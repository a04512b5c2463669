--------------------- MODULE ServiceAnnouncementsProofs ---------------------
(***************************************************************************)
(* Proofs about ServiceAnnouncements for any configuration, any commands   *)
(* and any detected services: an added service is in every later           *)
(* broadcast, and the host's own record never loses a configured service.  *)
(***************************************************************************)
EXTENDS ServiceAnnouncements, TLAPS

Procs == Clients \cup {"main"}

Steps == {"asked", "add", "make", "send", "gather", "store", "done"}

(* What is announced is a listing of the announcer's services.             *)
LEMMA AnnouncementListing ==
  ASSUME TypeOK
  PROVE  /\ createAnnouncement \in ListingType
         /\ createAnnouncement.names = DOMAIN services
<1> DEFINE S == {[name |-> n, aliases |-> services[n]] : n \in DOMAIN services}
<1>1. \A s \in S : s.name \in DOMAIN services /\ s.aliases \in SUBSET Aliases
  BY DEF TypeOK
<1>2. ASSUME NEW n \in DOMAIN services PROVE \E s \in S : s.name = n
  <2>1. [name |-> n, aliases |-> services[n]] \in S
    OBVIOUS
  <2>2. [name |-> n, aliases |-> services[n]].name = n
    OBVIOUS
  <2> QED
    BY <2>1, <2>2
<1>3. createAnnouncement = [names   |-> {s.name : s \in S},
                            aliases |-> UNION {s.aliases : s \in S}]
  BY DEF createAnnouncement, Listing
<1>4. {s.name : s \in S} = DOMAIN services
  BY <1>1, <1>2
<1>5. UNION {s.aliases : s \in S} \in SUBSET Aliases
  BY <1>1
<1> HIDE DEF S
<1> QED
  BY <1>3, <1>4, <1>5 DEF ListingType, TypeOK

(* The names and the aliases that are configured or asked for are among    *)
(* the names and the aliases.                                              *)
LEMMA GivenNames ==
  /\ \A c \in Clients : /\ Request[c].name \in Names
                        /\ Request[c].aliases \in SUBSET Aliases
  /\ \A n \in DOMAIN Configured : n \in Names /\ Configured[n] \in SUBSET Aliases
<1>1. ASSUME NEW c \in Clients PROVE Request[c].aliases \in SUBSET Aliases
  <2> DEFINE Given == {Configured[n] : n \in DOMAIN Configured}
                        \cup {Request[d].aliases : d \in Clients}
  <2>1. Request[c].aliases \in Given
    OBVIOUS
  <2>2. \A X, Y : X \in Y => X \subseteq UNION Y
    OBVIOUS
  <2>3. Aliases = UNION Given
    BY DEF Aliases
  <2> HIDE DEF Given
  <2> QED
    BY <2>1, <2>2, <2>3
<1>2. ASSUME NEW n \in DOMAIN Configured PROVE Configured[n] \in SUBSET Aliases
  BY ServicesAssumption
<1> QED
  BY <1>1, <1>2 DEF Names

(* What is registered is a listing of the configured and the added ones.   *)
LEMMA RegisteredListing ==
  ASSUME TypeOK
  PROVE  /\ Listing(AllServices) \in ListingType
         /\ DOMAIN Configured \subseteq Listing(AllServices).names
<1>1. \A s \in AllServices : s.name \in Names /\ s.aliases \subseteq Aliases
  BY GivenNames DEF AllServices, ConfiguredServices, TypeOK
<1>2. \A n \in DOMAIN Configured :
        [name |-> n, aliases |-> Configured[n]] \in AllServices
  BY DEF AllServices, ConfiguredServices
<1>3. \A n \in DOMAIN Configured : n \in Listing(AllServices).names
  <2> SUFFICES ASSUME NEW n \in DOMAIN Configured
               PROVE  n \in Listing(AllServices).names
    OBVIOUS
  <2>1. [name |-> n, aliases |-> Configured[n]].name = n
    OBVIOUS
  <2> QED
    BY <1>2, <2>1 DEF Listing
<1> QED
  BY <1>1, <1>3 DEF Listing, ListingType

(* Adding a service keeps the map's type and everything that is in it.     *)
LEMMA AddServiceKeeps ==
  ASSUME TypeOK, NEW n \in Names, NEW A \in SUBSET Aliases, AddService(n, A)
  PROVE  /\ services' \in [DOMAIN services' -> SUBSET Aliases]
         /\ DOMAIN services' = DOMAIN services \cup {n}
         /\ DOMAIN services' \subseteq Names
BY DEF AddService, TypeOK

(* Sending keeps what is on its way, and adds at most the message sent.    *)
LEMMA SendKeeps ==
  ASSUME TypeOK, NEW m \in ListingType, sendAnnouncement(m)
  PROVE  /\ net' \in Seq(ListingType) /\ Len(net') <= NetCap
         /\ \A i \in 1..Len(net') :
              net'[i] = m \/ (i \in 1..Len(net) /\ net'[i] = net[i])
BY ServicesAssumption DEF sendAnnouncement, TypeOK

(* Hearing a broadcast takes it from what is on its way.                   *)
LEMMA HearKeeps ==
  ASSUME TypeOK, handleDiscoveryMessage
  PROVE  /\ net' \in Seq(ListingType) /\ Len(net') <= NetCap
         /\ own' = net[1] /\ 1 \in 1..Len(net) /\ own' \in ListingType
         /\ \A i \in 1..Len(net') : i + 1 \in 1..Len(net) /\ net'[i] = net[i + 1]
<1>1. net \in Seq(ListingType) /\ net # <<>> /\ Len(net) <= NetCap
      /\ net' = Tail(net) /\ own' = Head(net)
  BY DEF handleDiscoveryMessage, TypeOK
<1> QED
  BY <1>1, ServicesAssumption

(* Every step of a command, of the start, of the ticker, of the detector   *)
(* and of the listener keeps the types.                                    *)
LEMMA StepTypeOK == TypeOK /\ [Next]_vars => TypeOK'
<1> SUFFICES ASSUME TypeOK, [Next]_vars PROVE TypeOK'
  OBVIOUS
<1>1. ASSUME NEW c \in Clients, AppendDynamic(c) PROVE TypeOK'
  BY <1>1 DEF AppendDynamic, At, TypeOK
<1>2. ASSUME NEW c \in Clients, AddToAnnouncer(c) PROVE TypeOK'
  <2>1. Request[c].name \in Names /\ Request[c].aliases \in SUBSET Aliases
    BY GivenNames
  <2> QED
    BY <1>2, <2>1, AddServiceKeeps DEF AddToAnnouncer, At, TypeOK
<1>3. ASSUME NEW c \in Clients, BroadcastNowMake(c) PROVE TypeOK'
  BY <1>3, AnnouncementListing DEF BroadcastNowMake, At, TypeOK
<1>4. ASSUME NEW c \in Clients, BroadcastNowSend(c) PROVE TypeOK'
  <2>1. draft[c] \in ListingType
    BY DEF TypeOK
  <2> QED
    BY <1>4, <2>1, SendKeeps DEF BroadcastNowSend, At, TypeOK
<1>5. ASSUME NEW p \in Procs, selfRegisterGather(p) PROVE TypeOK'
  BY <1>5, RegisteredListing DEF selfRegisterGather, At, TypeOK, Procs
<1>6. ASSUME NEW p \in Procs, selfRegisterStore(p) PROVE TypeOK'
  BY <1>6 DEF selfRegisterStore, At, TypeOK, Procs
<1>7. CASE broadcastMake
  BY <1>7, AnnouncementListing DEF broadcastMake, TypeOK
<1>8. CASE broadcastSend
  BY <1>8, SendKeeps DEF broadcastSend, TypeOK
<1>9. CASE scan \/ updateTick
  BY <1>9 DEF scan, updateTick, TypeOK
<1>10. CASE updateAdd
  <2>1. PICK n \in todo : AddService(n, {}) /\ todo' = todo \ {n}
    BY <1>10 DEF updateAdd
  <2>2. n \in Names /\ {} \in SUBSET Aliases
    BY DEF TypeOK, Names
  <2> QED
    BY <1>10, <2>1, <2>2, AddServiceKeeps DEF updateAdd, TypeOK
<1>11. CASE handleDiscoveryMessage
  BY <1>11, HearKeeps DEF handleDiscoveryMessage, TypeOK
<1>12. CASE UNCHANGED vars
  BY <1>12 DEF vars, TypeOK
<1> QED
  BY <1>1, <1>2, <1>3, <1>4, <1>5, <1>6, <1>7, <1>8, <1>9, <1>10, <1>11, <1>12
     DEF Next, Client, Register, Procs

(* The type invariant.                                                     *)
THEOREM ServicesTypeCorrect == Spec => []TypeOK
<1>1. Init => TypeOK
  <2> SUFFICES ASSUME Init PROVE TypeOK
    OBVIOUS
  <2>1. Absent \in ListingType
    BY DEF Absent, ListingType
  <2>2. net \in Seq(ListingType) /\ Len(net) <= NetCap
    BY ServicesAssumption DEF Init
  <2>3. DOMAIN Configured \subseteq Names
    BY DEF Names
  <2> QED
    BY <2>1, <2>2, <2>3, ServicesAssumption DEF Init, TypeOK
<1> QED
  BY <1>1, StepTypeOK, PTL DEF Spec

-----------------------------------------------------------------------------
(* A listing that names every configured service.                          *)
Complete(m) == DOMAIN Configured \subseteq m.names

(* Whatever may be broadcast or stored names the configured services, and  *)
(* the announcer knows every service that a command has added to it.       *)
AllComplete ==
  /\ DOMAIN Configured \subseteq DOMAIN services
  /\ \A c \in Clients : Discovery /\ Added(c) => Request[c].name \in DOMAIN services
  /\ \A p \in Procs : pc[p] \in {"send", "store"} => Complete(draft[p])
  /\ \A m \in ticking : Complete(m)
  /\ \A i \in 1..Len(net) : Complete(net[i])
  /\ own # Absent => Complete(own)

(* No step makes a message or a record that lacks a configured service     *)
(* (selfRegister, AnnounceService, createAnnouncement).                     *)
LEMMA StepAllComplete ==
  TypeOK /\ AllComplete /\ [Next]_vars => AllComplete'
<1> SUFFICES ASSUME TypeOK, AllComplete, [Next]_vars PROVE AllComplete'
  OBVIOUS
<1> USE DEF AllComplete
<1>p. pc \in [Procs -> Steps] /\ draft \in [Procs -> ListingType]
      /\ Clients \subseteq Procs
  BY DEF TypeOK, Procs, Steps
<1>1. ASSUME NEW c \in Clients, AppendDynamic(c) PROVE AllComplete'
  BY <1>1, <1>p DEF AppendDynamic, At, Added
<1>2. ASSUME NEW c \in Clients, AddToAnnouncer(c) PROVE AllComplete'
  <2>1. Request[c].name \in Names /\ Request[c].aliases \in SUBSET Aliases
    BY GivenNames
  <2>2. DOMAIN services' = DOMAIN services \cup {Request[c].name}
    BY <1>2, <2>1, AddServiceKeeps DEF AddToAnnouncer
  <2> QED
    BY <1>2, <1>p, <2>2 DEF AddToAnnouncer, At, Added
<1>3. ASSUME NEW c \in Clients, BroadcastNowMake(c) PROVE AllComplete'
  <2>1. Complete(createAnnouncement)
    BY AnnouncementListing DEF Complete
  <2> QED
    BY <1>3, <1>p, <2>1 DEF BroadcastNowMake, At, Added
<1>4. ASSUME NEW c \in Clients, BroadcastNowSend(c) PROVE AllComplete'
  <2>1. draft[c] \in ListingType /\ Complete(draft[c])
    BY <1>4, <1>p DEF BroadcastNowSend, At
  <2>2. \A i \in 1..Len(net') : Complete(net'[i])
    BY <1>4, <2>1, SendKeeps DEF BroadcastNowSend
  <2> QED
    BY <1>4, <1>p, <2>2 DEF BroadcastNowSend, At, Added
<1>5. ASSUME NEW p \in Procs, selfRegisterGather(p) PROVE AllComplete'
  <2>1. Complete(Listing(AllServices))
    BY RegisteredListing DEF Complete
  <2> QED
    BY <1>5, <1>p, <2>1 DEF selfRegisterGather, At, Added
<1>6. ASSUME NEW p \in Procs, selfRegisterStore(p) PROVE AllComplete'
  BY <1>6, <1>p DEF selfRegisterStore, At, Added
<1>7. CASE broadcastMake
  <2>1. Complete(createAnnouncement)
    BY AnnouncementListing DEF Complete
  <2> QED
    BY <1>7, <2>1 DEF broadcastMake, Added
<1>8. CASE broadcastSend
  <2>1. PICK m \in ticking : sendAnnouncement(m)
    BY <1>8 DEF broadcastSend
  <2>2. \A i \in 1..Len(net') : Complete(net'[i])
    BY <2>1, SendKeeps DEF TypeOK
  <2> QED
    BY <1>8, <2>2 DEF broadcastSend, Added
<1>9. CASE scan \/ updateTick
  BY <1>9 DEF scan, updateTick, Added
<1>10. CASE updateAdd
  <2>1. PICK n \in todo : AddService(n, {})
    BY <1>10 DEF updateAdd
  <2>2. DOMAIN services \subseteq DOMAIN services'
    BY <2>1 DEF AddService
  <2> QED
    BY <1>10, <2>2 DEF updateAdd, Added
<1>11. CASE handleDiscoveryMessage
  BY <1>11, HearKeeps DEF handleDiscoveryMessage, Added
<1>12. CASE UNCHANGED vars
  BY <1>12 DEF vars, Added
<1> QED
  BY <1>1, <1>2, <1>3, <1>4, <1>5, <1>6, <1>7, <1>8, <1>9, <1>10, <1>11, <1>12
     DEF Next, Client, Register, Procs

(* So all messages and records are complete at all times.                  *)
LEMMA AlwaysAllComplete == Spec => []AllComplete
<1>1. Init => AllComplete
  <2> SUFFICES ASSUME Init PROVE AllComplete
    OBVIOUS
  <2>1. Len(net) = 0
    BY DEF Init
  <2>2. \A p \in Procs : pc[p] \in {"asked", "gather"}
    BY DEF Init, Procs
  <2>3. \A c \in Clients : ~Added(c)
    BY ServicesAssumption DEF Init, Added
  <2> QED
    BY <2>1, <2>2, <2>3 DEF Init, AllComplete
<1> QED
  BY <1>1, StepAllComplete, ServicesTypeCorrect, PTL DEF Spec

(* The host's own record always lists the configured services, whoever     *)
(* wrote it last (selfRegister, handleDiscoveryMessage).                   *)
THEOREM ConfiguredListedForEver == Spec => []ConfiguredAlwaysListed
<1>1. AllComplete => ConfiguredAlwaysListed
  BY DEF AllComplete, Complete, ConfiguredAlwaysListed
<1> QED
  BY <1>1, AlwaysAllComplete, PTL

(* A service that a command has handed to the announcer is in every later  *)
(* broadcast (AnnounceService, AddService, createAnnouncement).            *)
THEOREM BroadcastsAlwaysCarry == Spec => FutureBroadcastsCarry
<1>1. TypeOK /\ AllComplete /\ [Next]_vars
        => [\A m \in ticking' \ ticking : \A c \in Clients :
              Discovery /\ Added(c) => Request[c].name \in m.names]_vars
  <2> SUFFICES ASSUME TypeOK, AllComplete, [Next]_vars,
                      NEW m \in ticking' \ ticking, NEW c \in Clients,
                      Discovery, Added(c)
               PROVE  Request[c].name \in m.names
    OBVIOUS
  <2>1. broadcastMake
    BY DEF Next, vars, Client, Register, AppendDynamic, AddToAnnouncer,
           BroadcastNowMake, BroadcastNowSend, selfRegisterGather,
           selfRegisterStore, broadcastSend, scan, updateTick, updateAdd,
           handleDiscoveryMessage
  <2>2. m = createAnnouncement
    BY <2>1 DEF broadcastMake
  <2> QED
    BY <2>2, AnnouncementListing DEF AllComplete
<1> QED
  BY <1>1, AlwaysAllComplete, ServicesTypeCorrect, PTL
     DEF Spec, FutureBroadcastsCarry

=============================================================================

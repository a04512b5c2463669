---------------------------- MODULE RecordStore ----------------------------
(***************************************************************************)
(* The daemon's cache of hosts: RecordStore (internal/daemon/store.go)     *)
(* with the HealthTracker that judges the age of its records              *)
(* (internal/daemon/health.go), the lookups the NSS socket and the DNS    *)
(* server make on it, and the wall clock all of them read.                *)
(*                                                                         *)
(* Every method of the store holds rs.mu from its first line to its last, *)
(* so each is one step. Times are whole seconds: a Timestamp is           *)
(* time.Now().Unix(), and with durations of whole seconds "age < d" does  *)
(* not depend on the fraction of the current second.                      *)
(***************************************************************************)
EXTENDS Integers, FiniteSets, Functions

CONSTANTS Names,          \* hostnames and aliases: one name space
          Addrs,          \* IP addresses
          Services,       \* names of services
          StaticHosts,    \* static_hosts of the configuration:
                          \* name |-> [addrs, services]
          Announcements,  \* what can reach AddOrUpdate:
                          \* [host, aliases, addrs, services]
          Grace,          \* health.grace_period, seconds
          Expire,         \* health.expire_after, seconds
          MaxClock        \* bound: the last second of the wall clock

ASSUME NamesAssumption ==
  /\ StaticHosts \in
       [DOMAIN StaticHosts -> [addrs : SUBSET Addrs, services : SUBSET Services]]
  /\ DOMAIN StaticHosts \subseteq Names /\ IsFiniteSet(DOMAIN StaticHosts)
  /\ Announcements \subseteq
       [host : Names, aliases : SUBSET Names, addrs : SUBSET Addrs,
        services : SUBSET Services]

ASSUME TimesAssumption ==
  Grace \in Nat /\ Expire \in Nat /\ MaxClock \in Nat

VARIABLES records,     \* rs.records: hostname |-> record
          aliasIndex,  \* rs.aliasIndex: alias |-> hostname
          now,         \* the wall clock, seconds
          running      \* rs.stopChan is still open

vars == <<records, aliasIndex, now, running>>

Status == {"healthy", "stale", "lost", "static"}

RecordType ==
  [addrs : SUBSET Addrs, aliases : SUBSET Names, services : SUBSET Services,
   firstSeen : Nat, timestamp : Nat, isStatic : BOOLEAN, status : Status]

-----------------------------------------------------------------------------
(* health.go *)

\* Wrong on purpose: the tracker forgets the static hosts it was given.
IsStaticNever(h) == FALSE

IsStatic(h) == h \in DOMAIN StaticHosts

StaticRecord(h) ==
  [addrs |-> StaticHosts[h].addrs, aliases |-> {},
   services |-> StaticHosts[h].services, firstSeen |-> 0, timestamp |-> 0,
   isStatic |-> TRUE, status |-> "static"]

ComputeStatus(r) ==
  LET age == now - r.timestamp
  IN  IF r.isStatic THEN "static"
      ELSE IF age < Grace THEN "healthy"
      ELSE IF age < Expire THEN "stale"
      ELSE "lost"

UpdateRecordStatus(r) == [r EXCEPT !.status = ComputeStatus(r)]

\* Wrong on purpose: the sweep judges by the grace period.
ShouldExpireAtGrace(r) == ~r.isStatic /\ now - r.timestamp >= Grace

ShouldExpire(r) == ~r.isStatic /\ now - r.timestamp >= Expire

-----------------------------------------------------------------------------
(* Lookups. Each gives the set of hostnames the code may answer with: at   *)
(* most one from a map lookup, any one of several from a walk over a map.  *)

Live(h) == h \in DOMAIN records /\ ComputeStatus(records[h]) # "lost"

\* Wrong on purpose: aliases are looked up before hostnames.
GetAliasFirst(n) ==
  LET found == IF n \in DOMAIN aliasIndex THEN aliasIndex[n] ELSE n
  IN  {h \in {found} : Live(h)}

\* Wrong on purpose: the record is returned whatever its age.
GetEvenLost(n) ==
  LET found == IF n \in DOMAIN records \/ n \notin DOMAIN aliasIndex
               THEN n
               ELSE aliasIndex[n]
  IN  {h \in {found} : h \in DOMAIN records}

Get(n) ==
  LET found == IF n \in DOMAIN records \/ n \notin DOMAIN aliasIndex
               THEN n
               ELSE aliasIndex[n]
  IN  {h \in {found} : Live(h)}

GetByAddr(a) == {h \in DOMAIN records : Live(h) /\ a \in records[h].addrs}

\* internal/dns/server.go: the records that match the name of an A query.
handleAQuery(n) ==
  {h \in DOMAIN records : Live(h) /\ (h = n \/ n \in records[h].aliases)}

-----------------------------------------------------------------------------
Init ==
  /\ records = [h \in DOMAIN StaticHosts |-> StaticRecord(h)]
  /\ aliasIndex = [a \in {} |-> ""]
  /\ now \in 0..MaxClock
  /\ running = TRUE

\* Wrong on purpose: nothing is removed.
KeepAliasesForHosts(H) == aliasIndex

\* removeAliasesForHost, for all the hosts of H: the index without the entries
\* that point at one of them.
RemoveAliasesForHosts(H) ==
  Restrict(aliasIndex, {a \in DOMAIN aliasIndex : aliasIndex[a] \notin H})

NewRecord(m) ==
  [addrs     |-> m.addrs,
   aliases   |-> m.aliases,
   services  |-> m.services,
   firstSeen |-> IF m.host \in DOMAIN records
                 THEN records[m.host].firstSeen ELSE now,
   timestamp |-> now,
   isStatic  |-> FALSE,
   status    |-> "healthy"]

AddOrUpdate(m) ==
  LET kept == IF m.host \in DOMAIN records
              THEN RemoveAliasesForHosts({m.host})
              ELSE aliasIndex
  IN  /\ ~IsStatic(m.host)
      /\ records' = [h \in DOMAIN records \cup {m.host} |->
                       IF h = m.host THEN UpdateRecordStatus(NewRecord(m))
                                     ELSE records[h]]
      /\ aliasIndex' = [a \in DOMAIN kept \cup m.aliases |->
                          IF a \in m.aliases THEN m.host ELSE kept[a]]
      /\ UNCHANGED <<now, running>>

Forget(h) ==
  /\ h \in DOMAIN records /\ ~records[h].isStatic
  /\ records' = Restrict(records, DOMAIN records \ {h})
  /\ aliasIndex' = RemoveAliasesForHosts({h})
  /\ UNCHANGED <<now, running>>

MarkLost(h) ==
  /\ h \in DOMAIN records /\ ~records[h].isStatic
  /\ records' = [records EXCEPT ![h].status = "lost"]
  /\ UNCHANGED <<aliasIndex, now, running>>

\* `disco hosts' and `disco services' read every record, lost ones included,
\* and store the statuses they compute.
ListAll ==
  /\ records' = [h \in DOMAIN records |-> UpdateRecordStatus(records[h])]
  /\ UNCHANGED <<aliasIndex, now, running>>

\* A DNS query does the same on the way to its answer (handleAQuery).
GetAllRecords ==
  /\ records' = [h \in DOMAIN records |-> UpdateRecordStatus(records[h])]
  /\ UNCHANGED <<aliasIndex, now, running>>

\* Wrong on purpose: the sweep refreshes statuses and deletes nothing.
CleanupRefreshesOnly ==
  /\ running
  /\ records' = [h \in DOMAIN records |-> UpdateRecordStatus(records[h])]
  /\ UNCHANGED <<aliasIndex, now, running>>

\* One tick of the cleanup goroutine: one critical section over all records.
CleanupExpiredRecords ==
  LET expired == {h \in DOMAIN records : ShouldExpire(records[h])}
  IN  /\ running
      /\ records' = [h \in DOMAIN records \ expired |->
                       UpdateRecordStatus(records[h])]
      /\ aliasIndex' = RemoveAliasesForHosts(expired)
      /\ UNCHANGED <<now, running>>

Stop ==
  /\ running
  /\ running' = FALSE
  /\ UNCHANGED <<records, aliasIndex, now>>

Tick ==
  /\ now < MaxClock
  /\ now' = now + 1
  /\ UNCHANGED <<records, aliasIndex, running>>

\* The wall clock is set: by this daemon's time sync, by ntpd, by hand.
SetClock(t) ==
  /\ now' = t
  /\ UNCHANGED <<records, aliasIndex, running>>

StoreStep ==
  \/ \E m \in Announcements : AddOrUpdate(m)
  \/ \E h \in Names : Forget(h) \/ MarkLost(h)
  \/ ListAll
  \/ GetAllRecords
  \/ CleanupExpiredRecords
  \/ Stop

\* The clock only moves forward, a second at a time.
Next == StoreStep \/ Tick

Spec == Init /\ [][Next]_vars

\* The sweep is a goroutine woken by a ticker: it cannot be delayed for ever.
FairSpec == Spec /\ WF_vars(CleanupExpiredRecords)

\* The clock may also be set to any value, forwards or backwards.
NextSettable == Next \/ \E t \in 0..MaxClock : SetClock(t)

SettableSpec == Init /\ [][NextSettable]_vars

-----------------------------------------------------------------------------
(* Every record is one of the code's records, and the index maps names to  *)
(* names.                                                                  *)
TypeOK ==
  /\ records \in [DOMAIN records -> RecordType]
  /\ DOMAIN records \subseteq Names
  /\ aliasIndex \in [DOMAIN aliasIndex -> Names]
  /\ DOMAIN aliasIndex \subseteq Names
  /\ now \in 0..MaxClock
  /\ running \in BOOLEAN

(* An alias in the index points at a record that exists and that lists the *)
(* alias: AddOrUpdate, Forget and the sweep keep the two maps in step, in  *)
(* whatever order hosts take aliases from each other, expire and return.   *)
AliasIndexSound ==
  \A a \in DOMAIN aliasIndex :
    /\ aliasIndex[a] \in DOMAIN records
    /\ a \in records[aliasIndex[a]].aliases

(* A static host keeps its configured record and answers to its own name,  *)
(* whoever announces that name as a hostname or as an alias and whatever   *)
(* an operator forgets or marks lost (AddOrUpdate, Forget, MarkLost, Get). *)
StaticHostsResolve ==
  \A s \in DOMAIN StaticHosts :
    /\ s \in DOMAIN records
    /\ records[s] = StaticRecord(s)
    /\ Get(s) = {s}

(* What the NSS socket answers for a name (Get, through the alias index)   *)
(* is one of the records the DNS server would answer with (handleAQuery,   *)
(* by walking the records): the index never sends a client to a host that  *)
(* is lost or no longer claims the name.                                   *)
NssAnswerInDns == \A n \in Names : Get(n) \subseteq handleAQuery(n)

-----------------------------------------------------------------------------
(* The leases and alias holders the store stands for: expired records that *)
(* the sweep has not reached yet are already gone.                         *)
LeasedHosts == {h \in DOMAIN records : Live(h) /\ ~records[h].isStatic}

LeaseMap == [h \in LeasedHosts |-> records[h].timestamp]

HolderMap ==
  Restrict(aliasIndex, {a \in DOMAIN aliasIndex : aliasIndex[a] \in LeasedHosts})

Leases == INSTANCE NameLeases WITH
  Pinned <- DOMAIN StaticHosts, LeaseTime <- Expire,
  lease <- LeaseMap, holder <- HolderMap, clock <- now

(* With a clock that only moves forward, the store implements the leases   *)
(* of NameLeases: when the sweep runs, how often statuses are refreshed    *)
(* and marking a host lost make no difference to what names resolve to.    *)
ImplementsLeases == Leases!Spec

(* A record that has expired does not stay: as long as the store runs, the *)
(* sweep removes it unless its host is heard again first                   *)
(* (cleanupExpiredRecords).                                                *)
ExpiredRecordsGo ==
  \A h \in Names :
    (h \in DOMAIN records /\ ShouldExpire(records[h]) /\ running)
      ~> (h \notin DOMAIN records \/ ~ShouldExpire(records[h]) \/ ~running)

=============================================================================

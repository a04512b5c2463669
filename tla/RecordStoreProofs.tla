------------------------- MODULE RecordStoreProofs -------------------------
(***************************************************************************)
(* Theorems about RecordStore, and the views of it in StoreViews, for any  *)
(* hosts, announcements, durations and clock, with machine-checked proofs. *)
(***************************************************************************)
EXTENDS StoreViews, FiniteSetTheorems, WellFoundedInduction, TLAPS

(* Computing a status gives one of the four statuses (ComputeStatus), and  *)
(* refreshing a record gives a record (UpdateRecordStatus).                *)
LEMMA UpdatedRecord ==
  ASSUME NEW r \in RecordType
  PROVE  /\ UpdateRecordStatus(r) \in RecordType
         /\ UpdateRecordStatus(r).aliases = r.aliases
         /\ UpdateRecordStatus(r).addrs = r.addrs
         /\ UpdateRecordStatus(r).timestamp = r.timestamp
         /\ UpdateRecordStatus(r).firstSeen = r.firstSeen
         /\ UpdateRecordStatus(r).isStatic = r.isStatic
         /\ UpdateRecordStatus(r).status = ComputeStatus(r)
<1>1. ComputeStatus(r) \in Status
  BY DEF ComputeStatus, Status
<1> QED
  BY <1>1 DEF UpdateRecordStatus, RecordType

(* The record an announcement creates is well formed (AddOrUpdate).        *)
LEMMA NewRecordType ==
  ASSUME TypeOK, NEW m \in Announcements
  PROVE  NewRecord(m) \in RecordType
BY NamesAssumption, TimesAssumption
   DEF TypeOK, NewRecord, RecordType, Status

(* The initial store, which holds the static hosts, is well formed.        *)
LEMMA InitTypeOK == Init => TypeOK
<1> SUFFICES ASSUME Init PROVE TypeOK
  OBVIOUS
<1>1. \A h \in DOMAIN StaticHosts : StaticRecord(h) \in RecordType
  BY NamesAssumption DEF StaticRecord, RecordType, Status
<1> QED
  BY <1>1, NamesAssumption, TimesAssumption DEF Init, TypeOK

(* Every step of the store and of its clock keeps it well formed.          *)
LEMMA StepTypeOK == TypeOK /\ [NextSettable]_vars => TypeOK'
<1> SUFFICES ASSUME TypeOK, [NextSettable]_vars PROVE TypeOK'
  OBVIOUS
<1> USE TimesAssumption
<1>1. ASSUME NEW m \in Announcements, AddOrUpdate(m) PROVE TypeOK'
  <2>1. UpdateRecordStatus(NewRecord(m)) \in RecordType
    BY NewRecordType, UpdatedRecord
  <2>2. m.host \in Names /\ m.aliases \subseteq Names
    BY NamesAssumption
  <2> QED
    BY <1>1, <2>1, <2>2
       DEF AddOrUpdate, TypeOK, RemoveAliasesForHosts, Restrict
<1>2. ASSUME NEW h \in Names, Forget(h) PROVE TypeOK'
  BY <1>2 DEF Forget, TypeOK, RemoveAliasesForHosts, Restrict
<1>3. ASSUME NEW h \in Names, MarkLost(h) PROVE TypeOK'
  <2>1. [records[h] EXCEPT !.status = "lost"] \in RecordType
    BY <1>3 DEF MarkLost, TypeOK, RecordType, Status
  <2> QED
    BY <1>3, <2>1 DEF MarkLost, TypeOK
<1>4. CASE ListAll \/ GetAllRecords
  BY <1>4, UpdatedRecord DEF ListAll, GetAllRecords, TypeOK
<1>5. CASE CleanupExpiredRecords
  BY <1>5, UpdatedRecord
     DEF CleanupExpiredRecords, TypeOK, RemoveAliasesForHosts, Restrict
<1>6. CASE Stop
  BY <1>6 DEF Stop, TypeOK
<1>7. CASE Tick
  BY <1>7 DEF Tick, TypeOK
<1>8. ASSUME NEW t \in 0..MaxClock, SetClock(t) PROVE TypeOK'
  BY <1>8 DEF SetClock, TypeOK
<1>9. CASE UNCHANGED vars
  BY <1>9 DEF vars, TypeOK
<1> QED
  BY <1>1, <1>2, <1>3, <1>4, <1>5, <1>6, <1>7, <1>8, <1>9
     DEF NextSettable, Next, StoreStep

(* The maps of the store hold only what their types allow, whatever is     *)
(* announced and however the wall clock is set.                            *)
THEOREM TypeCorrect == SettableSpec => []TypeOK
BY InitTypeOK, StepTypeOK, PTL DEF SettableSpec

-----------------------------------------------------------------------------
(* Every step keeps the alias index in step with the records.              *)
LEMMA StepAliasIndexSound ==
  TypeOK /\ AliasIndexSound /\ [NextSettable]_vars => AliasIndexSound'
<1> SUFFICES ASSUME TypeOK, AliasIndexSound, [NextSettable]_vars
             PROVE  AliasIndexSound'
  OBVIOUS
<1>1. ASSUME NEW m \in Announcements, AddOrUpdate(m) PROVE AliasIndexSound'
  <2>1. UpdateRecordStatus(NewRecord(m)).aliases = m.aliases
    BY NewRecordType, UpdatedRecord DEF NewRecord
  <2>2. SUFFICES ASSUME NEW a \in DOMAIN aliasIndex'
                 PROVE  /\ aliasIndex'[a] \in DOMAIN records'
                        /\ a \in records'[aliasIndex'[a]].aliases
    BY DEF AliasIndexSound
  <2>3. CASE a \in m.aliases
    BY <1>1, <2>1, <2>3 DEF AddOrUpdate
  <2>4. CASE a \notin m.aliases
    <3>1. /\ a \in DOMAIN aliasIndex
          /\ aliasIndex'[a] = aliasIndex[a]
          /\ m.host \in DOMAIN records => aliasIndex[a] # m.host
      BY <1>1, <2>2, <2>4 DEF AddOrUpdate, RemoveAliasesForHosts, Restrict
    <3>2. aliasIndex[a] # m.host
      BY <3>1 DEF AliasIndexSound
    <3> QED
      BY <1>1, <3>1, <3>2 DEF AddOrUpdate, AliasIndexSound
  <2> QED
    BY <2>3, <2>4
<1>2. ASSUME NEW h \in Names, Forget(h) PROVE AliasIndexSound'
  BY <1>2 DEF Forget, AliasIndexSound, RemoveAliasesForHosts, Restrict
<1>3. ASSUME NEW h \in Names, MarkLost(h) PROVE AliasIndexSound'
  <2>1. [records[h] EXCEPT !.status = "lost"].aliases = records[h].aliases
    BY <1>3 DEF MarkLost, TypeOK, RecordType
  <2> QED
    BY <1>3, <2>1 DEF MarkLost, AliasIndexSound, TypeOK
<1>4. CASE ListAll \/ GetAllRecords
  BY <1>4, UpdatedRecord DEF ListAll, GetAllRecords, AliasIndexSound, TypeOK
<1>5. CASE CleanupExpiredRecords
  BY <1>5, UpdatedRecord
     DEF CleanupExpiredRecords, AliasIndexSound, TypeOK,
         RemoveAliasesForHosts, Restrict
<1>6. CASE Stop \/ Tick \/ UNCHANGED vars
  BY <1>6 DEF Stop, Tick, vars, AliasIndexSound
<1>7. ASSUME NEW t \in 0..MaxClock, SetClock(t) PROVE AliasIndexSound'
  BY <1>7 DEF SetClock, AliasIndexSound
<1> QED
  BY <1>1, <1>2, <1>3, <1>4, <1>5, <1>6, <1>7
     DEF NextSettable, Next, StoreStep

(* An alias never points at a record that is gone or that no longer lists  *)
(* it (removeAliasesForHost and its callers), however the clock is set.    *)
THEOREM AliasIndexAlwaysSound == SettableSpec => []AliasIndexSound
<1>1. Init => AliasIndexSound
  BY DEF Init, AliasIndexSound
<1> QED
  BY <1>1, StepAliasIndexSound, TypeCorrect, PTL DEF SettableSpec

(* The NSS socket never answers with a host that the DNS server would not  *)
(* answer with: a consequence of the soundness of the alias index.         *)
THEOREM NssAnswerAlwaysInDns == SettableSpec => []NssAnswerInDns
<1>1. AliasIndexSound => NssAnswerInDns
  BY DEF AliasIndexSound, NssAnswerInDns, Get, handleAQuery, Live
<1> QED
  BY <1>1, AliasIndexAlwaysSound, PTL

-----------------------------------------------------------------------------
(* The record of a static host is the one the configuration gives it.      *)
StaticRecordsKept ==
  \A s \in DOMAIN StaticHosts :
    s \in DOMAIN records /\ records[s] = StaticRecord(s)

(* A static record is not changed by refreshing it and never expires       *)
(* (ComputeStatus, ShouldExpire).                                          *)
LEMMA StaticRecordStable ==
  ASSUME NEW s \in DOMAIN StaticHosts
  PROVE  /\ UpdateRecordStatus(StaticRecord(s)) = StaticRecord(s)
         /\ ~ShouldExpire(StaticRecord(s))
         /\ StaticRecord(s).isStatic
         /\ ComputeStatus(StaticRecord(s)) # "lost"
<1>1. StaticRecord(s).isStatic /\ StaticRecord(s).status = "static"
  BY DEF StaticRecord
<1>2. ComputeStatus(StaticRecord(s)) = "static"
  BY <1>1 DEF ComputeStatus
<1>3. StaticRecord(s) \in RecordType
  BY NamesAssumption DEF StaticRecord, RecordType, Status
<1>4. [StaticRecord(s) EXCEPT !.status = "static"] = StaticRecord(s)
  BY <1>1, <1>3 DEF RecordType
<1> QED
  BY <1>1, <1>2, <1>4 DEF UpdateRecordStatus, ShouldExpire

(* No step touches the record of a static host.                            *)
LEMMA StepStaticRecordsKept ==
  TypeOK /\ StaticRecordsKept /\ [NextSettable]_vars => StaticRecordsKept'
<1> SUFFICES ASSUME TypeOK, StaticRecordsKept, [NextSettable]_vars,
                    NEW s \in DOMAIN StaticHosts
             PROVE  s \in DOMAIN records' /\ records'[s] = StaticRecord(s)
  BY DEF StaticRecordsKept
<1>s. s \in DOMAIN records /\ records[s] = StaticRecord(s)
  BY DEF StaticRecordsKept
<1>1. ASSUME NEW m \in Announcements, AddOrUpdate(m)
      PROVE  s \in DOMAIN records' /\ records'[s] = records[s]
  BY <1>1, <1>s DEF AddOrUpdate, IsStatic
<1>2. ASSUME NEW h \in Names, Forget(h)
      PROVE  s \in DOMAIN records' /\ records'[s] = records[s]
  BY <1>2, <1>s, StaticRecordStable DEF Forget, Restrict
<1>3. ASSUME NEW h \in Names, MarkLost(h)
      PROVE  s \in DOMAIN records' /\ records'[s] = records[s]
  BY <1>3, <1>s, StaticRecordStable DEF MarkLost, TypeOK
<1>4. CASE ListAll \/ GetAllRecords
  BY <1>4, <1>s, StaticRecordStable DEF ListAll, GetAllRecords
<1>5. CASE CleanupExpiredRecords
  BY <1>5, <1>s, StaticRecordStable DEF CleanupExpiredRecords
<1>6. CASE Stop \/ Tick \/ UNCHANGED vars
  BY <1>6, <1>s DEF Stop, Tick, vars
<1>7. ASSUME NEW t \in 0..MaxClock, SetClock(t)
      PROVE  s \in DOMAIN records' /\ records'[s] = records[s]
  BY <1>7, <1>s DEF SetClock
<1> QED
  BY <1>s, <1>1, <1>2, <1>3, <1>4, <1>5, <1>6, <1>7
     DEF NextSettable, Next, StoreStep

(* Static hosts keep their record and their name for ever, as              *)
(* docs/how-to/static-hosts.md promises: no announcement, operator command *)
(* or clock setting displaces them.                                        *)
THEOREM StaticHostsAlwaysResolve == SettableSpec => []StaticHostsResolve
<1>1. Init => StaticRecordsKept
  BY DEF Init, StaticRecordsKept
<1>2. StaticRecordsKept => StaticHostsResolve
  BY StaticRecordStable DEF StaticRecordsKept, StaticHostsResolve, Get, Live
<1> QED
  BY <1>1, <1>2, StepStaticRecordsKept, TypeCorrect, PTL DEF SettableSpec

-----------------------------------------------------------------------------
(* When the grace period is within the expiry time, a record that is not   *)
(* static is live exactly until it may expire (ComputeStatus against       *)
(* ShouldExpire): the leased hosts, by the age of their records.           *)
LEMMA LeasedHostsByAge ==
  ASSUME TypeOK, Grace <= Expire
  PROVE  LeasedHosts = {h \in DOMAIN records :
            ~records[h].isStatic /\ now - records[h].timestamp < Expire}
<1>1. \A h \in DOMAIN records : records[h].timestamp \in Int
  BY DEF TypeOK, RecordType
<1>2. now \in Int /\ Grace \in Int /\ Expire \in Int
  BY TimesAssumption DEF TypeOK
<1> QED
  BY <1>1, <1>2 DEF LeasedHosts, Live, ComputeStatus

(* The same fact about the state after a step.                             *)
LEMMA LeasedHostsByAgeNext ==
  ASSUME TypeOK', Grace <= Expire
  PROVE  LeasedHosts' = {h \in DOMAIN records' :
            ~records'[h].isStatic /\ now' - records'[h].timestamp < Expire}
<1>1. \A h \in DOMAIN records' : records'[h].timestamp \in Int
  BY DEF TypeOK, RecordType
<1>2. now' \in Int /\ Grace \in Int /\ Expire \in Int
  BY TimesAssumption DEF TypeOK
<1> QED
  BY <1>1, <1>2 DEF LeasedHosts, Live, ComputeStatus

(* With durations the other way round, or no expiry at all, the sweep and  *)
(* the lookups disagree on what is lost: this is what the next theorem     *)
(* needs, and what the configuration does not validate.                    *)
HealthOrdered == Grace <= Expire /\ 0 < Expire

(* A step that keeps, of each record, the fields the lookups use, and that *)
(* keeps the index and the clock, keeps leases and holders.                *)
LEMMA SameLeases ==
  ASSUME TypeOK, TypeOK', HealthOrdered,
         DOMAIN records' = DOMAIN records,
         \A h \in DOMAIN records :
           /\ records'[h].timestamp = records[h].timestamp
           /\ records'[h].isStatic = records[h].isStatic,
         aliasIndex' = aliasIndex, now' = now
  PROVE  LeaseMap' = LeaseMap /\ HolderMap' = HolderMap
<1>1. LeasedHosts' = LeasedHosts
  BY LeasedHostsByAge, LeasedHostsByAgeNext DEF HealthOrdered
<1>2. LeasedHosts \subseteq DOMAIN records
  BY DEF LeasedHosts
<1> QED
  BY <1>1, <1>2 DEF LeaseMap, HolderMap, Restrict

(* An announcement renews the lease of its host and moves the aliases it   *)
(* lists (AddOrUpdate).                                                    *)
LEMMA AddOrUpdateRenews ==
  ASSUME TypeOK, TypeOK', AliasIndexSound, HealthOrdered,
         NEW m \in Announcements, AddOrUpdate(m)
  PROVE  Leases!Renew(m)
<1>1. /\ UpdateRecordStatus(NewRecord(m)).timestamp = now
      /\ UpdateRecordStatus(NewRecord(m)).isStatic = FALSE
  BY NewRecordType, UpdatedRecord DEF NewRecord
<1>2. /\ DOMAIN records' = DOMAIN records \cup {m.host}
      /\ records'[m.host].timestamp = now /\ ~records'[m.host].isStatic
      /\ \A h \in DOMAIN records : h # m.host => records'[h] = records[h]
      /\ now' = now
  BY <1>1 DEF AddOrUpdate
<1>3. LeasedHosts' = LeasedHosts \cup {m.host}
  <2>1. now - now < Expire
    BY TimesAssumption DEF TypeOK, HealthOrdered
  <2> QED
    BY <1>2, <2>1, LeasedHostsByAge, LeasedHostsByAgeNext DEF HealthOrdered
<1>4. LeasedHosts \subseteq DOMAIN records
  BY DEF LeasedHosts
<1>5. LeaseMap' = [h \in DOMAIN LeaseMap \cup {m.host} |->
                    IF h = m.host THEN now ELSE LeaseMap[h]]
  BY <1>2, <1>3, <1>4 DEF LeaseMap
<1>6. /\ DOMAIN aliasIndex' =
           {a \in DOMAIN aliasIndex : aliasIndex[a] # m.host} \cup m.aliases
      /\ \A a \in DOMAIN aliasIndex' :
           aliasIndex'[a] = IF a \in m.aliases THEN m.host ELSE aliasIndex[a]
  <2>1. CASE m.host \in DOMAIN records
    BY <2>1 DEF AddOrUpdate, RemoveAliasesForHosts, Restrict
  <2>2. CASE m.host \notin DOMAIN records
    <3>1. \A a \in DOMAIN aliasIndex : aliasIndex[a] # m.host
      BY <2>2 DEF AliasIndexSound
    <3> QED
      BY <2>2, <3>1 DEF AddOrUpdate
  <2> QED
    BY <2>1, <2>2
<1>7. HolderMap' =
        [a \in {x \in DOMAIN HolderMap : HolderMap[x] # m.host} \cup m.aliases |->
           IF a \in m.aliases THEN m.host ELSE HolderMap[a]]
  BY <1>3, <1>6 DEF HolderMap, Restrict
<1> QED
  BY <1>2, <1>5, <1>7 DEF Leases!Renew, AddOrUpdate, IsStatic

(* Forgetting a host revokes its lease, or changes nothing that is leased. *)
LEMMA ForgetRevokes ==
  ASSUME TypeOK, TypeOK', HealthOrdered, NEW h \in Names, Forget(h)
  PROVE  Leases!Revoke(h) \/ UNCHANGED Leases!leaseVars
<1>1. LeasedHosts' = LeasedHosts \ {h}
  BY LeasedHostsByAge, LeasedHostsByAgeNext DEF HealthOrdered, Forget, Restrict
<1>2. LeasedHosts \subseteq DOMAIN records
  BY DEF LeasedHosts
<1>3. LeaseMap' = Restrict(LeaseMap, DOMAIN LeaseMap \ {h})
  BY <1>1, <1>2 DEF LeaseMap, Forget, Restrict
<1>4. HolderMap' = Restrict(HolderMap,
                            {a \in DOMAIN HolderMap : HolderMap[a] \notin {h}})
  BY <1>1 DEF HolderMap, Forget, RemoveAliasesForHosts, Restrict
<1>5. CASE h \in LeasedHosts
  BY <1>3, <1>4, <1>5
     DEF Leases!Revoke, Leases!EndLeases, Leases!Restrict, Restrict, LeaseMap, Forget
<1>6. CASE h \notin LeasedHosts
  <2>1. LeaseMap' = LeaseMap
    BY <1>3, <1>6 DEF LeaseMap, Restrict
  <2>2. \A a \in DOMAIN HolderMap : HolderMap[a] # h
    BY <1>6 DEF HolderMap, Restrict
  <2>3. HolderMap' = HolderMap
    BY <1>4, <2>2 DEF HolderMap, Restrict
  <2> QED
    BY <2>1, <2>3 DEF Leases!leaseVars, Forget
<1> QED
  BY <1>5, <1>6

(* The sweep removes only what no longer has a lease.                      *)
LEMMA CleanupInvisible ==
  ASSUME TypeOK, TypeOK', HealthOrdered, CleanupExpiredRecords
  PROVE  UNCHANGED Leases!leaseVars
<1> DEFINE expired == {h \in DOMAIN records : ShouldExpire(records[h])}
<1>1. /\ DOMAIN records' = DOMAIN records \ expired
      /\ \A h \in DOMAIN records' :
           /\ records'[h].timestamp = records[h].timestamp
           /\ records'[h].isStatic = records[h].isStatic
      /\ now' = now
  BY UpdatedRecord DEF CleanupExpiredRecords, TypeOK
<1>2. \A h \in DOMAIN records : records[h].timestamp \in Int
  BY DEF TypeOK, RecordType
<1>3. now \in Int /\ Expire \in Int
  BY TimesAssumption DEF TypeOK
<1>4. LeasedHosts' = LeasedHosts /\ LeasedHosts \cap expired = {}
  BY <1>1, <1>2, <1>3, LeasedHostsByAge, LeasedHostsByAgeNext
     DEF HealthOrdered, ShouldExpire
<1>5. LeasedHosts \subseteq DOMAIN records'
  BY <1>1, <1>4 DEF LeasedHosts
<1>6. LeaseMap' = LeaseMap
  BY <1>1, <1>4, <1>5 DEF LeaseMap
<1>7. HolderMap' = HolderMap
  BY <1>4 DEF HolderMap, CleanupExpiredRecords, RemoveAliasesForHosts, Restrict
<1> QED
  BY <1>1, <1>6, <1>7 DEF Leases!leaseVars

(* A second that passes ends the leases that have run out.                 *)
LEMMA TickPasses ==
  ASSUME TypeOK, TypeOK', HealthOrdered, Tick
  PROVE  Leases!Pass
<1> DEFINE lapsed == Leases!Lapsed(now + 1)
<1>1. \A h \in DOMAIN records : records[h].timestamp \in Int
  BY DEF TypeOK, RecordType
<1>2. now \in Int /\ Expire \in Int /\ now' = now + 1
  BY TimesAssumption DEF TypeOK, Tick
<1>3. LeasedHosts \subseteq DOMAIN records /\ DOMAIN LeaseMap = LeasedHosts
  BY DEF LeasedHosts, LeaseMap
<1>4. lapsed = {h \in LeasedHosts : (now + 1) - records[h].timestamp >= Expire}
  BY <1>3 DEF Leases!Lapsed, LeaseMap, lapsed
<1>5. LeasedHosts' = LeasedHosts \ lapsed
  BY <1>1, <1>2, <1>4, LeasedHostsByAge, LeasedHostsByAgeNext
     DEF HealthOrdered, Tick
<1>6. LeaseMap' = Restrict(LeaseMap, DOMAIN LeaseMap \ lapsed)
  BY <1>3, <1>5 DEF LeaseMap, Tick, Restrict
<1>7. HolderMap' = Restrict(HolderMap,
                            {a \in DOMAIN HolderMap : HolderMap[a] \notin lapsed})
  BY <1>5 DEF HolderMap, Tick, Restrict
<1> QED
  BY <1>2, <1>6, <1>7 DEF Leases!Pass, Leases!EndLeases, Leases!Restrict, Restrict

(* Every step of the store is a step of the leases, or none.               *)
LEMMA StepImplementsLeases ==
  ASSUME HealthOrdered
  PROVE  TypeOK /\ TypeOK' /\ AliasIndexSound /\ [Next]_vars
           => [Leases!Next]_(Leases!leaseVars)
<1> SUFFICES ASSUME TypeOK, TypeOK', AliasIndexSound, [Next]_vars
             PROVE  Leases!Next \/ UNCHANGED Leases!leaseVars
  OBVIOUS
<1>1. ASSUME NEW m \in Announcements, AddOrUpdate(m) PROVE Leases!Next
  BY <1>1, AddOrUpdateRenews DEF Leases!Next
<1>2. ASSUME NEW h \in Names, Forget(h)
      PROVE  Leases!Next \/ UNCHANGED Leases!leaseVars
  BY <1>2, ForgetRevokes DEF Leases!Next
<1>3. ASSUME NEW h \in Names, MarkLost(h) PROVE UNCHANGED Leases!leaseVars
  <2>1. /\ DOMAIN records' = DOMAIN records
        /\ aliasIndex' = aliasIndex /\ now' = now
    BY <1>3 DEF MarkLost
  <2>2. \A k \in DOMAIN records :
          /\ records'[k].timestamp = records[k].timestamp
          /\ records'[k].isStatic = records[k].isStatic
    <3>1. /\ [records[h] EXCEPT !.status = "lost"].timestamp = records[h].timestamp
          /\ [records[h] EXCEPT !.status = "lost"].isStatic = records[h].isStatic
      BY <1>3 DEF MarkLost, TypeOK, RecordType
    <3> QED
      BY <1>3, <3>1 DEF MarkLost, TypeOK
  <2> QED
    BY <2>1, <2>2, SameLeases DEF Leases!leaseVars
<1>4. CASE ListAll \/ GetAllRecords
  <2>1. /\ DOMAIN records' = DOMAIN records
        /\ aliasIndex' = aliasIndex /\ now' = now
        /\ \A k \in DOMAIN records :
             /\ records'[k].timestamp = records[k].timestamp
             /\ records'[k].isStatic = records[k].isStatic
    BY <1>4, UpdatedRecord DEF ListAll, GetAllRecords, TypeOK
  <2> QED
    BY <2>1, SameLeases DEF Leases!leaseVars
<1>5. CASE CleanupExpiredRecords
  BY <1>5, CleanupInvisible
<1>6. CASE Stop \/ UNCHANGED vars
  BY <1>6, SameLeases DEF Stop, vars, Leases!leaseVars
<1>7. CASE Tick
  BY <1>7, TickPasses DEF Leases!Next
<1> QED
  BY <1>1, <1>2, <1>3, <1>4, <1>5, <1>6, <1>7 DEF Next, StoreStep

(* With a clock that only moves forward and a grace period within the      *)
(* expiry time, the record store implements the leases of NameLeases.      *)
THEOREM StoreImplementsLeases ==
  ASSUME HealthOrdered
  PROVE  Spec => ImplementsLeases
<1>1. Init => Leases!Init
  <2> SUFFICES ASSUME Init PROVE Leases!Init
    OBVIOUS
  <2>1. LeasedHosts = {}
    BY DEF Init, LeasedHosts, StaticRecord
  <2> QED
    BY <2>1, TimesAssumption
       DEF Init, Leases!Init, LeaseMap, HolderMap, Restrict
<1>2. Spec => SettableSpec
  <2>1. [Next]_vars => [NextSettable]_vars
    BY DEF NextSettable
  <2> QED
    BY <2>1, PTL DEF Spec, SettableSpec
<1> QED
  BY <1>1, <1>2, StepImplementsLeases, TypeCorrect, AliasIndexAlwaysSound, PTL
     DEF Spec, ImplementsLeases, Leases!Spec

-----------------------------------------------------------------------------
(* A name under which a record lives resolves to this record, also when it *)
(* is an alias in the index: hostnames come first (Get).                   *)
LEMMA LiveNameResolvesToItself ==
  ASSUME NEW h, Live(h)
  PROVE  Get(h) = {h}
BY DEF Get, Live

(* Whatever question it answers, a view other than a lookup by name gives  *)
(* out names of records that live.                                         *)
LEMMA NamesGivenOutLive == \A h \in NamesGivenOut : Live(h)
<1> SUFFICES ASSUME NEW h \in NamesGivenOut
             PROVE  h \in List
  BY DEF List
<1>1. CASE h \in UNION {handleTXTQuery(n) : n \in Names}
  BY <1>1 DEF handleTXTQuery
<1>2. CASE h \in UNION {handleSRVQuery(s) \cup handleQueryListServices(s) : s \in Services}
  BY <1>2 DEF handleSRVQuery, handleQueryListServices
<1>3. CASE h \in UNION {handleCNAMEQuery(s, n) : s \in Services, n \in Names}
  BY <1>3 DEF handleCNAMEQuery
<1>4. CASE h \in UNION {handlePTRQuery(a) : a \in Addrs}
  BY <1>4 DEF handlePTRQuery
<1>5. CASE h \in {e.name : e \in UNION {handleQueryByAddr(a) : a \in Addrs}}
  <2>1. PICK a \in Addrs : \E e \in handleQueryByAddr(a) : h = e.name
    BY <1>5
  <2> QED
    BY <2>1 DEF handleQueryByAddr, GetByAddr, List
<1>6. CASE h \in {e.host : e \in handleQueryList \cup handleQueryListHosts}
  BY <1>6 DEF handleQueryList, handleQueryListHosts
<1> QED
  BY <1>1, <1>2, <1>3, <1>4, <1>5, <1>6 DEF NamesGivenOut

(* The list of all hosts shows exactly one entry for a host in the store.  *)
LEMMA ShownAsStored ==
  ASSUME NEW h \in DOMAIN records
  PROVE  {[name |-> e.host, addrs |-> e.addrs] : e \in handleHostsShow(h)}
           = {[name |-> h, addrs |-> records[h].addrs]}
<1>1. handleHostsShow(h) =
        {[host |-> h, addrs |-> records[h].addrs,
          services |-> records[h].services, status |-> StatusOf(h)]}
  BY DEF handleHostsShow, handleHostsList
<1> QED
  BY <1>1

(* A hostname that any answer gives out resolves, through the NSS socket,  *)
(* to the host that is shown under it, in every reachable state and for    *)
(* any number of hosts, aliases and services.                              *)
THEOREM NamesGivenOutAlwaysResolve == SettableSpec => []NamesGivenOutResolve
<1>1. NamesGivenOutResolve
  <2> SUFFICES ASSUME NEW h \in NamesGivenOut
               PROVE  handleQueryByName(h) = {[name |-> h, addrs |-> records[h].addrs]}
                      /\ h \in DOMAIN records
    BY ShownAsStored DEF NamesGivenOutResolve
  <2>1. Live(h)
    BY NamesGivenOutLive
  <2> QED
    BY <2>1, LiveNameResolvesToItself DEF handleQueryByName, Live
<1> QED
  BY <1>1, PTL

(* A resolver drops an answer about a host at most TTLStale seconds after  *)
(* the record has expired, for any TTLs and durations in the stated order. *)
THEOREM CachesAlwaysLapse == SettableSpec => []CachedAnswersLapse
<1>1. TypeOK => CachedAnswersLapse
  <2> SUFFICES ASSUME TypeOK, Grace + TTLHealthy <= Expire + TTLStale,
                      NEW h \in List, ~records[h].isStatic
               PROVE  now + getTTL(ComputeStatus(records[h]))
                        < records[h].timestamp + Expire + TTLStale
    BY DEF CachedAnswersLapse
  <2>1. /\ now \in Int /\ records[h].timestamp \in Int
        /\ Grace \in Int /\ Expire \in Int /\ TTLHealthy \in Int /\ TTLStale \in Int
    BY TimesAssumption, TTLAssumption DEF TypeOK, RecordType, List, Live
  <2>2. ComputeStatus(records[h]) # "lost"
    BY DEF List, Live
  <2> QED
    BY <2>1, <2>2 DEF ComputeStatus, getTTL
<1> QED
  BY <1>1, TypeCorrect, PTL

-----------------------------------------------------------------------------
(* Of the subsets of a finite set that have a property, one is smallest:   *)
(* the induction the next lemmas use.                                      *)
LEMMA SmallestSubset ==
  ASSUME NEW S, IsFiniteSet(S), NEW Bad \in SUBSET SUBSET S, Bad # {}
  PROVE  \E U \in Bad : \A V \in SUBSET U : V # U => V \notin Bad
<1>1. IsWellFoundedOn(StrictSubsetOrdering(S), SUBSET S)
  BY FS_StrictSubsetOrderingWellFounded, FS_FiniteSubsetsOfFinite
<1>2. PICK U \in Bad : \A V \in Bad : ~(<<V, U>> \in StrictSubsetOrdering(S))
  BY <1>1, WFMin
<1> QED BY <1>2 DEF StrictSubsetOrdering

(* A finite set of numbers has a least and a greatest one.                 *)
LEMMA Extremes ==
  ASSUME NEW T, IsFiniteSet(T), T \subseteq Int, T # {}
  PROVE  /\ Min(T) \in T /\ \A k \in T : Min(T) <= k
         /\ Max(T) \in T /\ \A k \in T : k <= Max(T)
<1> DEFINE Has(U) == /\ \E m \in U : \A k \in U : m <= k
                     /\ \E m \in U : \A k \in U : m >= k
           Bad == {U \in SUBSET T : U # {} /\ ~Has(U)}
<1>1. ASSUME Bad # {} PROVE FALSE
  <2>1. PICK U \in Bad : \A V \in SUBSET U : V # U => V \notin Bad
    <3>1. Bad \in SUBSET SUBSET T
      OBVIOUS
    <3> HIDE DEF Bad
    <3> QED BY <1>1, <3>1, SmallestSubset
  <2>2. PICK x \in U : TRUE
    BY <2>1
  <2>3. U \subseteq Int /\ x \in Int
    BY <2>1, <2>2
  <2>4. CASE U \ {x} = {}
    <3>1. \A k \in U : k = x
      BY <2>4
    <3>2. Has(U)
      BY <2>2, <2>3, <3>1
    <3> QED BY <2>1, <3>2
  <2>5. CASE U \ {x} # {}
    <3>1. Has(U \ {x})
      BY <2>1, <2>2, <2>5
    <3>2. PICK m \in U \ {x} : \A k \in U \ {x} : m <= k
      BY <3>1
    <3>3. PICK n \in U \ {x} : \A k \in U \ {x} : n >= k
      BY <3>1
    <3>4. \E y \in U : \A k \in U : y <= k
      <4>1. CASE m <= x
        BY <3>2, <4>1
      <4>2. CASE ~(m <= x)
        <5>1. \A k \in U : x <= k
          BY <2>3, <3>2, <4>2
        <5> QED BY <2>2, <5>1
      <4> QED BY <4>1, <4>2
    <3>5. \E y \in U : \A k \in U : y >= k
      <4>1. CASE n >= x
        BY <3>3, <4>1
      <4>2. CASE ~(n >= x)
        <5>1. \A k \in U : x >= k
          BY <2>3, <3>3, <4>2
        <5> QED BY <2>2, <5>1
      <4> QED BY <4>1, <4>2
    <3> QED BY <2>1, <3>4, <3>5
  <2> QED BY <2>4, <2>5
<1>2. Has(T)
  BY <1>1
<1>3. Min(T) \in T /\ \A k \in T : Min(T) <= k
  BY <1>2 DEF Min
<1>4. Max(T) \in T /\ \A k \in T : Max(T) >= k
  BY <1>2 DEF Max
<1>5. \A k \in T : k <= Max(T)
  BY <1>4
<1> QED BY <1>3, <1>4, <1>5

StoreFinite == IsFiniteSet(DOMAIN records)

(* The store stays finite: an announcement adds one host at most.          *)
LEMMA StepFinite == StoreFinite /\ [NextSettable]_vars => StoreFinite'
<1> SUFFICES ASSUME IsFiniteSet(DOMAIN records), [NextSettable]_vars
             PROVE  IsFiniteSet(DOMAIN records')
  BY DEF StoreFinite
<1>1. ASSUME NEW m \in Announcements, AddOrUpdate(m) PROVE IsFiniteSet(DOMAIN records')
  <2>1. DOMAIN records' = DOMAIN records \cup {m.host}
    BY <1>1 DEF AddOrUpdate
  <2> QED
    BY <2>1, FS_AddElement
<1>2. ASSUME DOMAIN records' \in SUBSET DOMAIN records PROVE IsFiniteSet(DOMAIN records')
  BY <1>2, FS_Subset
<1>3. ASSUME NEW h \in Names, Forget(h) \/ MarkLost(h)
      PROVE  DOMAIN records' \in SUBSET DOMAIN records
  BY <1>3 DEF Forget, MarkLost, Restrict
<1>4. CASE ListAll \/ GetAllRecords \/ CleanupExpiredRecords
  <2>1. DOMAIN records' \in SUBSET DOMAIN records
    BY <1>4 DEF ListAll, GetAllRecords, CleanupExpiredRecords
  <2> QED
    BY <1>2, <2>1
<1>5. CASE Stop \/ Tick \/ UNCHANGED vars
  BY <1>5 DEF Stop, Tick, vars
<1>6. ASSUME NEW t \in 0..MaxClock, SetClock(t) PROVE IsFiniteSet(DOMAIN records')
  BY <1>6 DEF SetClock
<1> QED
  BY <1>1, <1>2, <1>3, <1>4, <1>5, <1>6 DEF NextSettable, Next, StoreStep

(* The places of an order are finitely many numbers, and so are any of     *)
(* them.                                                                   *)
LEMMA PlacesFinite ==
  ASSUME NEW n \in Nat
  PROVE  \A u \in SUBSET (1..n) : IsFiniteSet(u) /\ u \subseteq Int
<1>1. IsFiniteSet(1..n)
  BY FS_Interval
<1>2. 1..n \subseteq Int
  OBVIOUS
<1>3. \A u \in SUBSET (1..n) : IsFiniteSet(u)
  BY <1>1, FS_Subset
<1> QED
  BY <1>2, <1>3, Zenon

(* The least of a set of numbers stays the least of it with a greater      *)
(* number added; alone, a number is its own least.                         *)
LEMMA SameLeast ==
  ASSUME NEW U, NEW m \in Int, IsFiniteSet(U), U \subseteq Int,
         \A k \in U : k <= m /\ k # m
  PROVE  Min(U \cup {m}) = IF U = {} THEN m ELSE Min(U)
<1>1. IsFiniteSet(U \cup {m}) /\ U \cup {m} \subseteq Int
  BY FS_AddElement
<1>2. /\ Min(U \cup {m}) \in U \cup {m}
      /\ \A k \in U \cup {m} : Min(U \cup {m}) <= k
  BY <1>1, Extremes
<1>3. CASE U = {}
  BY <1>2, <1>3
<1>4. CASE U # {}
  <2>1. Min(U) \in U /\ \A k \in U : Min(U) <= k
    BY <1>4, Extremes
  <2> DEFINE a == Min(U)
             b == Min(U \cup {m})
  <2>2. a \in Int /\ b \in Int /\ b <= a /\ a <= m /\ a # m /\ (b # m => a <= b)
    BY <1>2, <2>1
  <2> HIDE DEF a, b
  <2>3. a = b
    BY <2>2
  <2> QED
    BY <1>4, <2>3 DEF a, b
<1> QED
  BY <1>3, <1>4

\* The statuses merged over the places in s of an order of hosts: that of
\* the first host that is not healthy.
Unhealthy(order, s) == {i \in s : StatusOf(order[i]) # "healthy"}

FirstUnhealthy(order, s) ==
  IF s = {} THEN ""
  ELSE IF Unhealthy(order, s) = {} THEN "healthy"
  ELSE StatusOf(order[Min(Unhealthy(order, s))])

(* One more host at the end of an order changes the status shown only if   *)
(* all before it are healthy (handleServicesShow).                         *)
LEMMA MergeOneMore ==
  ASSUME NEW n \in Nat, NEW order \in [1..n -> DOMAIN records],
         \A h \in DOMAIN records : StatusOf(h) # "",
         NEW s \in SUBSET (1..n), s # {}
  PROVE  /\ Max(s) \in s
         /\ FirstUnhealthy(order, s) =
              MergeStatus(FirstUnhealthy(order, s \ {Max(s)}), order[Max(s)])
<1> DEFINE m == Max(s)
           t == s \ {m}
<1>1. \A u \in SUBSET (1..n) : IsFiniteSet(u) /\ u \subseteq Int
  BY PlacesFinite, Zenon
<1>2. m \in s /\ \A k \in s : k <= m
  BY <1>1, Extremes
<1>3. m \in 1..n /\ order[m] \in DOMAIN records /\ t \in SUBSET (1..n)
  BY <1>2
<1> HIDE DEF m
<1>4. \A W \in SUBSET t : Min(W \cup {m}) = IF W = {} THEN m ELSE Min(W)
  <2> SUFFICES ASSUME NEW W \in SUBSET t
               PROVE  Min(W \cup {m}) = IF W = {} THEN m ELSE Min(W)
    OBVIOUS
  <2>1. IsFiniteSet(W) /\ W \subseteq Int /\ m \in Int
    BY <1>1, <1>2, <1>3
  <2>2. \A k \in W : k <= m /\ k # m
    BY <1>2
  <2> QED
    BY <2>1, <2>2, SameLeast, Zenon
<1> DEFINE U == Unhealthy(order, t)
           V == Unhealthy(order, s)
<1>5. U \in SUBSET t /\ V = IF StatusOf(order[m]) = "healthy" THEN U ELSE U \cup {m}
  BY <1>2 DEF Unhealthy
<1>6. CASE U = {}
  <2>1. Min({m}) = m
    BY <1>4, Zenon
  <2> QED
    BY <1>2, <1>5, <1>6, <2>1 DEF FirstUnhealthy, MergeStatus, m
<1>7. CASE U # {}
  <2>1. Min(U) = Min(V) /\ V # {} /\ t # {}
    BY <1>4, <1>5, <1>7
  <2>2. Min(U) \in U
    BY <1>1, <1>3, <1>5, <1>7, Extremes
  <2>3. order[Min(U)] \in DOMAIN records /\ StatusOf(order[Min(U)]) # "healthy"
    BY <1>3, <1>5, <2>2 DEF Unhealthy
  <2> QED
    BY <1>2, <1>7, <2>1, <2>3 DEF FirstUnhealthy, MergeStatus, m
<1> QED
  BY <1>2, <1>6, <1>7 DEF m

(* The loop of handleServicesShow over an order of hosts ends with the     *)
(* status of the first host that is not healthy.                           *)
LEMMA MergedStatus ==
  ASSUME NEW n \in Nat, NEW order \in [1..n -> DOMAIN records],
         \A h \in DOMAIN records : StatusOf(h) # ""
  PROVE  FoldLeft(MergeStatus, "", order) = FirstUnhealthy(order, 1..n)
<1> DEFINE Step(it) == [s \in SUBSET (1..n) |->
                          IF s = {} THEN ""
                          ELSE MergeStatus(it[s \ {Max(s)}], order[Max(s)])]
           iter == CHOOSE it : it = Step(it)
           first == [s \in SUBSET (1..n) |-> FirstUnhealthy(order, s)]
<1>1. FoldLeft(MergeStatus, "", order) = iter[1..n]
  <2>1. DOMAIN order = 1..n
    OBVIOUS
  <2> QED
    BY <2>1, Zenon DEF FoldLeft, MapThenFoldSet
<1>2. first = Step(first)
  <2>1. ASSUME NEW s \in SUBSET (1..n)
        PROVE  first[s] = IF s = {} THEN ""
                          ELSE MergeStatus(first[s \ {Max(s)}], order[Max(s)])
    <3>1. s \ {Max(s)} \in SUBSET (1..n)
      OBVIOUS
    <3>2. CASE s = {}
      BY <3>2 DEF FirstUnhealthy
    <3>3. CASE s # {}
      BY <3>1, <3>3, MergeOneMore
    <3> QED
      BY <3>2, <3>3
  <2> QED
    BY <2>1
<1>3. iter = Step(iter)
  <2> HIDE DEF Step, first
  <2> QED
    BY <1>2
<1> HIDE DEF iter
<1>4. \A s \in SUBSET (1..n) :
        iter[s] = IF s = {} THEN "" ELSE MergeStatus(iter[s \ {Max(s)}], order[Max(s)])
  BY <1>3, Zenon
<1> DEFINE Bad == {s \in SUBSET (1..n) : iter[s] # FirstUnhealthy(order, s)}
<1>5. ASSUME Bad # {} PROVE FALSE
  <2>1. PICK s \in Bad : \A t \in SUBSET s : t # s => t \notin Bad
    <3>1. Bad \in SUBSET SUBSET (1..n)
      OBVIOUS
    <3>2. IsFiniteSet(1..n)
      BY PlacesFinite, Zenon
    <3> HIDE DEF Bad
    <3> QED
      BY <1>5, <3>1, <3>2, SmallestSubset
  <2>2. s # {}
    BY <1>4, <2>1 DEF FirstUnhealthy
  <2>3. /\ Max(s) \in s
        /\ FirstUnhealthy(order, s) =
             MergeStatus(FirstUnhealthy(order, s \ {Max(s)}), order[Max(s)])
    <3>1. s \in SUBSET (1..n)
      BY <2>1
    <3> QED
      BY <2>2, <3>1, MergeOneMore, Zenon
  <2>4. iter[s \ {Max(s)}] = FirstUnhealthy(order, s \ {Max(s)})
    <3>1. s \ {Max(s)} \in SUBSET s /\ s \ {Max(s)} # s /\ s \in SUBSET (1..n)
      BY <2>1, <2>3
    <3>2. s \ {Max(s)} \notin Bad /\ s \ {Max(s)} \in SUBSET (1..n)
      BY <2>1, <3>1, Zenon
    <3> QED
      BY <3>2, Zenon
  <2> QED
    BY <1>4, <2>1, <2>2, <2>3, <2>4
<1>6. 1..n \in SUBSET (1..n) /\ 1..n \notin Bad
  BY <1>5
<1> QED
  BY <1>1, <1>6

(* Showing a service says that it is healthy exactly if every host that    *)
(* offers it is shown as healthy, in whatever order the records are walked *)
(* (handleServicesShow, handleHostsList, handleServicesList): for any      *)
(* number of hosts.                                                        *)
THEOREM ShownHealthyExactly == SettableSpec => []ShownHealthyIffAllAre
<1>1. TypeOK /\ StoreFinite => ShownHealthyIffAllAre
  <2> SUFFICES ASSUME TypeOK, IsFiniteSet(DOMAIN records),
                      NEW s \in Services, Offering(s) # {},
                      NEW status \in handleServicesShow(s)
               PROVE  /\ (status = "healthy") <=>
                           \A e \in handleHostsList : s \in e.services => e.status = "healthy"
                      /\ (status = "healthy") => handleServicesList(s) = {"healthy"}
    BY DEF ShownHealthyIffAllAre, StoreFinite
  <2> DEFINE O == Offering(s)
             n == Cardinality(O)
  <2>1. \A h \in DOMAIN records : StatusOf(h) # ""
    BY DEF TypeOK, RecordType, Status, StatusOf
  <2>2. O \subseteq DOMAIN records /\ O # {}
    BY DEF Offering
  <2>3. PICK order \in SetToSeqs(O) : status = FoldLeft(MergeStatus, "", order)
    BY DEF handleServicesShow
  <2> HIDE DEF O
  <2>4. IsFiniteSet(O) /\ n \in Nat /\ n # 0
    BY <2>2, FS_Subset, FS_CardinalityType, FS_EmptySet
  <2>5. order \in [1..n -> O] /\ \A i, j \in 1..n : i # j => order[i] # order[j]
    BY <2>3 DEF SetToSeqs
  <2>6. \A h \in O : \E i \in 1..n : order[i] = h
    <3>1. order \in Injection(1..n, O)
      BY <2>5 DEF Injection, IsInjective
    <3>2. Cardinality(1..n) = n
      BY <2>4, FS_Interval
    <3>3. order \in Surjection(1..n, O)
      BY <2>4, <3>1, <3>2, FS_Injection
    <3> QED
      BY <3>3 DEF Surjection
  <2>7. status = FirstUnhealthy(order, 1..n)
    <3>1. order \in [1..n -> DOMAIN records]
      BY <2>2, <2>5
    <3> QED
      BY <2>1, <2>3, <2>4, <3>1, MergedStatus
  <2>8. (status = "healthy") <=> \A h \in O : StatusOf(h) = "healthy"
    <3>1. 1..n # {}
      BY <2>4
    <3>2. (Unhealthy(order, 1..n) = {}) <=> \A h \in O : StatusOf(h) = "healthy"
      BY <2>5, <2>6 DEF Unhealthy
    <3>3. ASSUME Unhealthy(order, 1..n) # {}
          PROVE  StatusOf(order[Min(Unhealthy(order, 1..n))]) # "healthy"
      <4>1. /\ IsFiniteSet(Unhealthy(order, 1..n))
            /\ Unhealthy(order, 1..n) \subseteq Int
        <5>1. Unhealthy(order, 1..n) \in SUBSET (1..n)
          BY DEF Unhealthy
        <5> QED
          BY <2>4, <5>1, PlacesFinite, Zenon
      <4>2. Min(Unhealthy(order, 1..n)) \in Unhealthy(order, 1..n)
        BY <3>3, <4>1, Extremes
      <4> QED
        BY <4>2 DEF Unhealthy
    <3> QED
      BY <2>7, <3>1, <3>2, <3>3 DEF FirstUnhealthy
  <2>9. (\A e \in handleHostsList : s \in e.services => e.status = "healthy")
          <=> \A h \in O : StatusOf(h) = "healthy"
    <3>1. \A h \in DOMAIN records :
            LET e == [host |-> h, addrs |-> records[h].addrs,
                      services |-> records[h].services, status |-> StatusOf(h)]
            IN  e.services = records[h].services /\ e.status = StatusOf(h)
      OBVIOUS
    <3> QED
      BY <3>1 DEF handleHostsList, Offering, O
  <2>10. (\A h \in O : StatusOf(h) = "healthy") => handleServicesList(s) = {"healthy"}
    BY <2>2 DEF handleServicesList, O
  <2> QED
    BY <2>8, <2>9, <2>10
<1>2. Init => StoreFinite
  BY NamesAssumption DEF Init, StoreFinite
<1> QED
  BY <1>1, <1>2, StepFinite, TypeCorrect, PTL DEF SettableSpec

=============================================================================

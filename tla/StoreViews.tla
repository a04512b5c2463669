----------------------------- MODULE StoreViews -----------------------------
(***************************************************************************)
(* What the outside sees of the record store: the answers of the query     *)
(* socket's handlers (internal/daemon/socket.go) and of the DNS server     *)
(* (internal/dns/server.go). A view is an operator over the store's state. *)
(* The store walks its maps in any order: where the first match wins, a    *)
(* view is the set of the hosts that the answer may name.                  *)
(*                                                                         *)
(* The DNS server gets copies, made by GetAllRecords under the lock: it    *)
(* sees the status just computed. The socket's handlers get the records    *)
(* themselves from ListAll and read the status field after the lock has    *)
(* been released: they see whatever was stored last, by ListAll itself or  *)
(* by a MarkLost that came in between.                                     *)
(*                                                                         *)
(* A service's value is host:port if the host was heard and the protocol   *)
(* if it is static, which is all that the views tell apart. Addresses are  *)
(* IPv4. Machine IDs are left out.                                         *)
(***************************************************************************)
EXTENDS RecordStore, SequencesExt

CONSTANTS TTLHealthy,  \* dns.ttl_healthy, seconds
          TTLStale     \* dns.ttl_stale, seconds

ASSUME TTLAssumption == TTLHealthy \in Nat /\ TTLStale \in Nat

\* The status field as a handler of the socket finds it.
StatusOf(h) == records[h].status

\* store.List: the records that are not lost.
List == {h \in DOMAIN records : Live(h)}

Offering(s) == {h \in DOMAIN records : s \in records[h].services}

-----------------------------------------------------------------------------
(* The query socket *)

handleQueryByName(n) == {[name |-> h, addrs |-> records[h].addrs] : h \in Get(n)}

handleQueryByAddr(a) ==
  {[name |-> h, addrs |-> records[h].addrs] : h \in GetByAddr(a)}

handleQueryList == {[host |-> h, services |-> records[h].services] : h \in List}

\* A record counts as first seen when it was last heard if it has no FirstSeen.
handleQueryListHosts ==
  {[host |-> h, services |-> records[h].services,
    firstSeen |-> IF records[h].firstSeen = 0 THEN records[h].timestamp
                                              ELSE records[h].firstSeen,
    lastSeen |-> records[h].timestamp] : h \in List}

\* The value of a static host's service is no host:port, so it is skipped.
handleQueryListServices(s) ==
  {h \in List \cap Offering(s) : ~records[h].isStatic}

handleHostsList ==
  {[host |-> h, addrs |-> records[h].addrs, services |-> records[h].services,
    status |-> StatusOf(h)] : h \in DOMAIN records}

handleHostsShow(n) == {e \in handleHostsList : e.host = n}

\* The status of the first host met is the service's.
handleServicesList(s) == {StatusOf(h) : h \in Offering(s)}

\* Wrong on purpose: the status of the last host met is the service's.
MergeStatusLast(status, h) == StatusOf(h)

\* The status so far gives way to that of host h while it is empty or healthy.
MergeStatus(status, h) == IF status \in {"", "healthy"} THEN StatusOf(h) ELSE status

\* The statuses handleServicesShow may give: one for each order of the records.
handleServicesShow(s) ==
  {FoldLeft(MergeStatus, "", order) : order \in SetToSeqs(Offering(s))}

-----------------------------------------------------------------------------
(* The DNS server, on the records GetAllRecords gives it *)

\* Wrong on purpose: the two TTLs are swapped.
getTTLSwapped(status) == IF status = "stale" THEN TTLHealthy ELSE TTLStale

getTTL(status) == IF status = "stale" THEN TTLStale ELSE TTLHealthy

handleTXTQuery(n) == {h \in List : h = n}

\* The protocol is tcp for what was heard and, by default, for static hosts.
handleSRVQuery(s) == List \cap Offering(s)

\* The question s.n for a service s of the host n.
handleCNAMEQuery(s, n) == {h \in List \cap Offering(s) : h = n}

handlePTRQuery(a) == {h \in List : a \in records[h].addrs}

-----------------------------------------------------------------------------
\* The hostnames that answers other than those to a lookup by name give out.
NamesGivenOut ==
  (UNION {handleTXTQuery(n) : n \in Names})
    \cup (UNION {handleSRVQuery(s) \cup handleQueryListServices(s) : s \in Services})
    \cup (UNION {handleCNAMEQuery(s, n) : s \in Services, n \in Names})
    \cup (UNION {handlePTRQuery(a) : a \in Addrs})
    \cup {e.name : e \in UNION {handleQueryByAddr(a) : a \in Addrs}}
    \cup {e.host : e \in handleQueryList \cup handleQueryListHosts}

(* A hostname that an answer gives out resolves, through the NSS socket,   *)
(* to the host `disco hosts show' shows: the target of an SRV or CNAME     *)
(* answer (handleSRVQuery, handleCNAMEQuery), the name of a reverse lookup *)
(* by DNS or by NSS (handlePTRQuery, handleQueryByAddr) and the hosts of a *)
(* list of the living, even when another host announces it as an alias.    *)
NamesGivenOutResolve ==
  \A h \in NamesGivenOut :
    /\ handleQueryByName(h) # {}
    /\ handleQueryByName(h) =
         {[name |-> e.host, addrs |-> e.addrs] : e \in handleHostsShow(h)}

(* In whatever order the records are walked, showing a service says that   *)
(* it is healthy exactly if the list of hosts says so of every host that   *)
(* offers it (handleServicesShow, handleHostsList), and then so does the   *)
(* list of the services, which goes by the first host it meets             *)
(* (handleServicesList); a host on its way out is never hidden behind a    *)
(* healthy one.                                                            *)
ShownHealthyIffAllAre ==
  \A s \in Services :
    Offering(s) # {} =>
      \A status \in handleServicesShow(s) :
        /\ (status = "healthy") <=>
             \A e \in handleHostsList : s \in e.services => e.status = "healthy"
        /\ (status = "healthy") => handleServicesList(s) = {"healthy"}

(* A resolver that keeps an answer of the DNS server for its TTL no longer *)
(* uses it TTLStale seconds after the host's record has expired, provided  *)
(* that the TTL of a healthy record fits between the end of the grace      *)
(* period and that moment: what bounds the use of a name that is gone is   *)
(* the shorter TTL of a record that is about to go (getTTL, ComputeStatus).*)
CachedAnswersLapse ==
  Grace + TTLHealthy <= Expire + TTLStale =>
    \A h \in List :
      ~records[h].isStatic =>
        now + getTTL(ComputeStatus(records[h]))
          < records[h].timestamp + Expire + TTLStale

=============================================================================

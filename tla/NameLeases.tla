----------------------------- MODULE NameLeases -----------------------------
(***************************************************************************)
(* What the record store of the daemon promises to those who look names   *)
(* up, with no record, index or sweep in sight: an announcement gives a   *)
(* host a lease of LeaseTime seconds on its own name and makes it the     *)
(* holder of the aliases it lists; the latest announcer of an alias holds *)
(* it; a lease that runs out, or that an operator revokes, takes the      *)
(* aliases still held along with it.                                      *)
(*                                                                         *)
(* RecordStore implements this specification (RecordStoreProofs).          *)
(***************************************************************************)
EXTENDS Integers, Functions

CONSTANTS Names,          \* every name a host or an alias can have
          Pinned,         \* names of hosts that never need a lease
          Announcements,  \* what can be announced: [host, aliases, addrs]
          LeaseTime       \* seconds a lease lasts

VARIABLES lease,   \* host |-> second its lease was last renewed
          holder,  \* alias |-> host that holds it
          clock

leaseVars == <<lease, holder, clock>>

Init ==
  /\ lease = [h \in {} |-> 0]
  /\ holder = [a \in {} |-> ""]
  /\ clock \in Nat

Lapsed(t) == {h \in DOMAIN lease : t - lease[h] >= LeaseTime}

\* The hosts H lose their leases, and the aliases they hold.
EndLeases(H) ==
  /\ lease' = Restrict(lease, DOMAIN lease \ H)
  /\ holder' = Restrict(holder, {a \in DOMAIN holder : holder[a] \notin H})

Renew(m) ==
  LET kept == {a \in DOMAIN holder : holder[a] # m.host} IN
  /\ m.host \notin Pinned
  /\ lease' = [h \in DOMAIN lease \cup {m.host} |->
                 IF h = m.host THEN clock ELSE lease[h]]
  /\ holder' = [a \in kept \cup m.aliases |->
                  IF a \in m.aliases THEN m.host ELSE holder[a]]
  /\ UNCHANGED clock

Revoke(h) ==
  /\ h \in DOMAIN lease
  /\ EndLeases({h})
  /\ UNCHANGED clock

Pass ==
  /\ clock' = clock + 1
  /\ EndLeases(Lapsed(clock + 1))

Next ==
  \/ \E m \in Announcements : Renew(m)
  \/ \E h \in Names : Revoke(h)
  \/ Pass

Spec == Init /\ [][Next]_leaseVars

=============================================================================

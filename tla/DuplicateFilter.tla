-------------------------- MODULE DuplicateFilter --------------------------
(***************************************************************************)
(* DuplicateFilter (internal/discovery/ratelimit.go): the message IDs the  *)
(* listener has met, each with the time it was met, and the goroutine that *)
(* sweeps out the old ones every TTL.                                      *)
(*                                                                         *)
(* The code compares times with time.Time.Sub, that is on the monotonic    *)
(* clock, which no clock setting disturbs. Its unit here is any fraction   *)
(* of TTL.                                                                 *)
(***************************************************************************)
EXTENDS Integers

CONSTANTS IDs,      \* message IDs
          TTL,      \* df.ttl: five minutes
          MaxTime   \* bound: the last instant of the clock

ASSUME FilterAssumption == TTL \in Nat \ {0} /\ MaxTime \in Nat

VARIABLES seen,      \* df.seen: ID |-> when it was met
          clock,     \* the monotonic clock
          due,       \* when the sweep's ticker fires next
          ticked,    \* the ticker's channel holds a tick
          sweeping,  \* the sweep's goroutine runs: df.stopChan is open
          accepted   \* history: ID |-> when Seen last answered false

filterVars == <<seen, clock, due, ticked, sweeping, accepted>>

Init ==
  /\ seen = [i \in {} |-> 0]
  /\ clock = 0
  /\ due = TTL
  /\ ticked = FALSE
  /\ sweeping = TRUE
  /\ accepted = [i \in {} |-> 0]

Extend(f, i, v) == [j \in DOMAIN f \cup {i} |-> IF j = i THEN v ELSE f[j]]

\* Seen(i) answers false. When it answers true it changes nothing.
Seen(i) ==
  /\ i \notin DOMAIN seen
  /\ seen' = Extend(seen, i, clock)
  /\ accepted' = Extend(accepted, i, clock)
  /\ UNCHANGED <<clock, due, ticked, sweeping>>

\* Wrong on purpose: an ID goes when it is exactly TTL old.
TooOldAtTTL(i) == clock - seen[i] >= TTL

\* Wrong on purpose: an ID is kept for twice as long.
TooOldLate(i) == clock - seen[i] > 2 * TTL

TooOld(i) == clock - seen[i] > TTL

cleanup ==
  /\ sweeping /\ ticked
  /\ seen' = [i \in {j \in DOMAIN seen : ~TooOld(j)} |-> seen[i]]
  /\ ticked' = FALSE
  /\ UNCHANGED <<clock, due, sweeping, accepted>>

Stop ==
  /\ sweeping
  /\ sweeping' = FALSE
  /\ UNCHANGED <<seen, clock, due, ticked, accepted>>

\* Time passes. A tick that finds the ticker's channel full is dropped.
Advance ==
  /\ clock < MaxTime
  /\ clock' = clock + 1
  /\ ticked' = (ticked \/ clock + 1 = due)
  /\ due' = IF clock + 1 = due THEN due + TTL ELSE due
  /\ UNCHANGED <<seen, sweeping, accepted>>

Next == (\E i \in IDs : Seen(i)) \/ cleanup \/ Stop \/ Advance

\* The sweep may be late by any time.
Spec == Init /\ [][Next]_filterVars

-----------------------------------------------------------------------------
(* The filter holds IDs with the time they were met.                       *)
TypeOK ==
  /\ DOMAIN seen \subseteq IDs
  /\ seen \in [DOMAIN seen -> 0..MaxTime]
  /\ DOMAIN accepted \subseteq IDs
  /\ accepted \in [DOMAIN accepted -> 0..MaxTime]
  /\ clock \in 0..MaxTime
  /\ due \in Nat
  /\ ticked \in BOOLEAN
  /\ sweeping \in BOOLEAN

(* Two copies of a message that both pass the filter are more than TTL     *)
(* apart, however late the sweep is (Seen, cleanup).                       *)
AcceptedApart ==
  [][\A i \in IDs : Seen(i) /\ i \in DOMAIN accepted
                      => clock - accepted[i] > TTL]_filterVars

(* While no tick waits for the sweep, every ID in the filter was met less  *)
(* than twice TTL ago, however late earlier sweeps were and however many   *)
(* ticks they missed: the filter's memory is bounded by the messages of    *)
(* the last ten minutes (cleanup).                                         *)
ForgottenInTime ==
  ~ticked => \A i \in DOMAIN seen : clock - seen[i] < 2 * TTL

=============================================================================

----------------------------- MODULE RateLimiter -----------------------------
(***************************************************************************)
(* The token bucket of internal/discovery/ratelimit.go and its one user,   *)
(* the loop of Announcer.Start, which asks it before every periodic        *)
(* broadcast. Times t are those of the monotonic clock, TicksPerSecond to  *)
(* the second; the bucket is filled for whole seconds only, and the rest   *)
(* of the time since the last call is lost.                                *)
(***************************************************************************)
EXTENDS Integers

CONSTANTS rate, maxBurst,   \* NewRateLimiter(10, 10)
          interval,         \* daemon.broadcast_interval, in ticks of the clock
          TicksPerSecond    \* bound: the resolution of the clock

\* Validate refuses a broadcast_interval of less than five seconds; two will do.
ASSUME LimiterAssumption ==
  /\ rate \in Nat \ {0} /\ maxBurst \in Nat \ {0, 1} /\ TicksPerSecond \in Nat \ {0}
  /\ interval \in Nat /\ interval >= 2 * TicksPerSecond

VARIABLES tokens,     \* rl.tokens
          lastTime,   \* rl.lastTime
          nextTick,   \* when the announcer's ticker fires next
          waiting     \* its channel holds a tick

limiterVars == <<tokens, lastTime, nextTick, waiting>>

\* NewAnnouncer and the beginning of Start, at time t.
InitAt(t) ==
  /\ tokens = maxBurst
  /\ lastTime = t
  /\ nextTick = t + interval
  /\ waiting = FALSE

\* The same, in a new process.
StartOver(t) ==
  /\ tokens' = maxBurst
  /\ lastTime' = t
  /\ nextTick' = t + interval
  /\ waiting' = FALSE

\* The tokens there are when Allow decides.
Filled(t) ==
  LET sum == tokens + ((t - lastTime) \div TicksPerSecond) * rate
  IN  IF sum > maxBurst THEN maxBurst ELSE sum

\* Wrong on purpose: a broadcast is charged twice.
AllowTwice(t) ==
  /\ lastTime' = t
  /\ tokens' = IF Filled(t) > 1 THEN Filled(t) - 2 ELSE 0

Allow(t) ==
  /\ lastTime' = t
  /\ tokens' = IF Filled(t) > 0 THEN Filled(t) - 1 ELSE Filled(t)

\* The loop takes a tick and asks. It may come late by any time.
broadcast(t) ==
  /\ waiting
  /\ waiting' = FALSE
  /\ Allow(t)
  /\ UNCHANGED nextTick

\* The clock moves on to t. A tick that finds the ticker's channel full is dropped.
TickerAdvances(t) ==
  /\ waiting' = (waiting \/ t = nextTick)
  /\ nextTick' = IF t = nextTick THEN nextTick + interval ELSE nextTick
  /\ UNCHANGED <<tokens, lastTime>>

=============================================================================

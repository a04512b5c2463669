------------------------------ MODULE TimeSync ------------------------------
(***************************************************************************)
(* Time synchronisation (internal/timesync): the store of GPS sources, the *)
(* selection of a time they agree on, and the adjustment of the clock, by  *)
(* the poll loop (evaluateAndAdjust) and by `disco timeset' (ForceUpdate), *)
(* which may run at the same time.                                         *)
(*                                                                         *)
(* GetValidSources hands out pointers to the sources of the store, and Add *)
(* writes through them: SelectBestTime reads a source once to see who      *)
(* agrees and again to average, and may read two different stamps.         *)
(*                                                                         *)
(* The unit of time is at least a millisecond, the step threshold of       *)
(* ForceUpdate. Root dispersions count in tenths, and none is zero: the    *)
(* 0.0001 that keeps a weight finite makes no difference to the others.    *)
(***************************************************************************)
EXTENDS Integers, FiniteSets, FiniteSetsExt, Functions

CONSTANTS Sources,            \* GPS broadcasters
          Faulty,             \* those whose time may be wrong
          Errors,             \* by how much it may be wrong
          Dispersions,        \* source |-> root dispersions it announces
          Unsigned,           \* sources that do not sign
          MustSign,           \* time_sync.require_signed, and there are keys
          MinSources, MaxSpread, MaxStale,
          StepThreshold, SlewThreshold, AllowStepBackward,
          ForceBackward,      \* what `disco timeset' may ask for
          InitialSkews,       \* how wrong the clock is at first
          MaxTime             \* bound: the last instant

ASSUME TimeSyncAssumption ==
  /\ IsFiniteSet(Sources) /\ Faulty \subseteq Sources /\ Unsigned \subseteq Sources
  /\ Errors \subseteq Int /\ InitialSkews \subseteq Int /\ MaxTime \in Nat
  /\ \A s \in Sources : Dispersions[s] \subseteq Nat \ {0}
  /\ MinSources \in Nat \ {0} /\ MaxSpread \in Nat /\ MaxStale \in Nat
  /\ StepThreshold \in Nat /\ SlewThreshold \in Nat

\* Who adjusts: the poll loop and the command.
Procs == {"poll", "force"}

VARIABLES now,      \* true time, and the monotonic clock
          skew,     \* the wall clock shows now + skew
          slewing,  \* what the kernel still has to work off
          sources,  \* s.sources: source |-> its last stamp, dispersion, arrival
          pc,       \* where the poll loop and the command are
          held,     \* the sources each has pointers to
          offset,   \* update.Offset of each
          adj,      \* the adjustment each is about to make
          status    \* s.status: whether synced, and the last error

vars == <<now, skew, slewing, sources, pc, held, offset, adj, status>>

wall == now + skew

NoAdjustment == [method |-> "none", offset |-> 0, absolute |-> 0]

Init ==
  /\ now = 0
  /\ skew \in InitialSkews
  /\ slewing = 0
  /\ sources = [s \in {} |-> 0]
  /\ pc = [p \in Procs |-> "idle"]
  /\ held = [p \in Procs |-> {}]
  /\ offset = [p \in Procs |-> 0]
  /\ adj = [p \in Procs |-> NoAdjustment]
  /\ status = [synced |-> FALSE, error |-> "none"]

-----------------------------------------------------------------------------
(* Messages of the sources. An honest source sends the true time; it       *)
(* arrives at once.                                                        *)

\* TimeSourceStore.Add
Add(s, src) ==
  sources' = [t \in DOMAIN sources \cup {s} |-> IF t = s THEN src ELSE sources[t]]

\* Wrong on purpose: the age of a source is taken from its own stamp.
ProcessMessageTrusting(s) ==
  /\ ~(MustSign /\ s \in Unsigned)
  /\ \E e \in (IF s \in Faulty THEN Errors ELSE {0}), d \in Dispersions[s] :
       Add(s, [stamp |-> now + e, disp |-> d, at |-> now + e])
  /\ UNCHANGED <<now, skew, slewing, pc, held, offset, adj, status>>

ProcessMessage(s) ==
  /\ ~(MustSign /\ s \in Unsigned)
  /\ \E e \in (IF s \in Faulty THEN Errors ELSE {0}), d \in Dispersions[s] :
       Add(s, [stamp |-> now + e, disp |-> d, at |-> now])
  /\ UNCHANGED <<now, skew, slewing, pc, held, offset, adj, status>>

GetValidSources == {s \in DOMAIN sources : now - sources[s].at <= MaxStale}

\* Time passes, and the kernel works off some of the slew, or none of it:
\* it makes the clock run faster or slower, never backward.
Tick ==
  /\ now < MaxTime
  /\ now' = now + 1
  /\ \E d \in {-1, 0, 1} :
       /\ d * slewing >= d * d
       /\ skew' = skew + d
       /\ slewing' = slewing - d
  /\ UNCHANGED <<sources, pc, held, offset, adj, status>>

-----------------------------------------------------------------------------
(* SelectBestTime *)

stamps(S) == [s \in S |-> sources[s].stamp]
Span(f) == LET R == {f[s] : s \in DOMAIN f} IN Max(R) - Min(R)

\* The limit is a literal of the code: a root dispersion of 1.0.
Usable(S) == {s \in S : sources[s].disp <= 10}

\* Wrong on purpose: only the window of the earliest source is tried.
findAgreeingSubsetFirst(S, tolerance) ==
  LET first == Min({sources[s].stamp : s \in S})
  IN  {s \in S : sources[s].stamp - first <= tolerance}

\* Of the windows that begin at a source, in the order of their stamps, the
\* first of the largest.
findAgreeingSubset(S, tolerance) ==
  LET Window(v) == {s \in S : v <= sources[s].stamp /\ sources[s].stamp - v <= tolerance}
      starts == {sources[s].stamp : s \in S}
      size == Max({Cardinality(Window(v)) : v \in starts})
  IN  Window(Min({v \in starts : Cardinality(Window(v)) = size}))

\* Wrong on purpose: an agreement of fewer than MinSources is good enough.
SelectedLoosely(S) ==
  LET valid == Usable(S)
  IN  IF Cardinality(S) < MinSources \/ Cardinality(valid) < MinSources THEN {}
      ELSE IF Span(stamps(valid)) <= MaxSpread THEN valid
      ELSE findAgreeingSubset(valid, MaxSpread \div 2)

\* The sources whose stamps are averaged; none when there is an error.
Selected(S) ==
  LET valid == Usable(S)
      agreeing == findAgreeingSubset(valid, MaxSpread \div 2)
  IN  IF Cardinality(S) < MinSources \/ Cardinality(valid) < MinSources THEN {}
      ELSE IF Span(stamps(valid)) <= MaxSpread THEN valid
      ELSE IF Cardinality(agreeing) < MinSources THEN {}
      ELSE agreeing

\* The mean of the stamps, each weighed by the inverse of its dispersion.
WeightedTime(S) ==
  LET all == FoldFunction(LAMBDA d, product : d * product, 1, [s \in S |-> sources[s].disp])
      weight == [s \in S |-> all \div sources[s].disp]
  IN  SumFunction([s \in S |-> sources[s].stamp * weight[s]]) \div SumFunction(weight)

-----------------------------------------------------------------------------
(* The poll loop and the command *)

CalculateAdjustment(off, step, slew, backward) ==
  LET size == IF off < 0 THEN -off ELSE off
      method == IF size < slew \/ (off < 0 /\ ~backward) THEN "none"
                ELSE IF size >= step THEN "step"
                ELSE "slew"
  IN  [method |-> method, offset |-> off,
       absolute |-> IF method = "step" THEN wall + off ELSE 0]

\* Its locals go out of scope.
Done(p) ==
  /\ pc' = [pc EXCEPT ![p] = "idle"]
  /\ held' = [held EXCEPT ![p] = {}]
  /\ offset' = [offset EXCEPT ![p] = 0]
  /\ adj' = [adj EXCEPT ![p] = NoAdjustment]

\* The poll loop's ticker fires; or the command is given.
Begin(p) ==
  /\ pc[p] = "idle"
  /\ pc' = [pc EXCEPT ![p] = "select"]
  /\ held' = [held EXCEPT ![p] = GetValidSources]
  /\ UNCHANGED <<now, skew, slewing, sources, offset, adj, status>>

\* A poll that fails reports the clock as not synced; a command does not.
SelectFails(p) ==
  /\ pc[p] = "select" /\ Selected(held[p]) = {}
  /\ Done(p)
  /\ status' = IF p = "poll" THEN [synced |-> FALSE, error |-> "selection"]
                             ELSE status
  /\ UNCHANGED <<now, skew, slewing, sources>>

Select(p) ==
  /\ pc[p] = "select" /\ Selected(held[p]) # {}
  /\ pc' = [pc EXCEPT ![p] = "average"]
  /\ held' = [held EXCEPT ![p] = Selected(held[p])]
  /\ UNCHANGED <<now, skew, slewing, sources, offset, adj, status>>

\* The stamps are read again.
Average(p) ==
  /\ pc[p] = "average"
  /\ offset' = [offset EXCEPT ![p] = WeightedTime(held[p]) - wall]
  /\ pc' = [pc EXCEPT ![p] = "decide"]
  /\ UNCHANGED <<now, skew, slewing, sources, held, adj, status>>

\* The clock is read again. The status says synced whatever comes of it.
Decide(p, adjustment) ==
  /\ pc[p] = "decide"
  /\ adj' = [adj EXCEPT ![p] = adjustment]
  /\ pc' = [pc EXCEPT ![p] = "apply"]
  /\ status' = [synced |-> TRUE, error |-> "none"]
  /\ UNCHANGED <<now, skew, slewing, sources, held, offset>>

\* evaluateAndAdjust
PollDecides ==
  Decide("poll", CalculateAdjustment(offset["poll"], StepThreshold, SlewThreshold,
                                     AllowStepBackward))

\* ForceUpdate steps from a millisecond on.
ForceDecides(backward) ==
  Decide("force", CalculateAdjustment(offset["force"], 1, 1, backward))

\* A step sets the clock to the time that was decided on and drops what the
\* kernel was slewing; a slew takes its place.
ApplyAdjustment(p) ==
  /\ pc[p] = "apply"
  /\ skew' = IF adj[p].method = "step" THEN adj[p].absolute - now ELSE skew
  /\ slewing' = CASE adj[p].method = "none" -> slewing
                  [] adj[p].method = "step" -> 0
                  [] adj[p].method = "slew" -> adj[p].offset
  /\ Done(p)
  /\ UNCHANGED <<now, sources, status>>

\* The kernel refuses: the daemon may not set the clock.
ApplyFails(p) ==
  /\ pc[p] = "apply" /\ adj[p].method # "none"
  /\ Done(p)
  /\ status' = [status EXCEPT !.error = "adjustment"]
  /\ UNCHANGED <<now, skew, slewing, sources>>

Next ==
  \/ Tick
  \/ \E s \in Sources : ProcessMessage(s)
  \/ \E p \in Procs :
       \/ Begin(p) \/ SelectFails(p) \/ Select(p) \/ Average(p)
       \/ ApplyAdjustment(p) \/ ApplyFails(p)
  \/ PollDecides
  \/ \E backward \in ForceBackward : ForceDecides(backward)

Spec == Init /\ [][Next]_vars

-----------------------------------------------------------------------------
(* No source was heard in the future, a process holds sources of the store *)
(* and only while it is at work (TimeSourceStore, evaluateAndAdjust).      *)
TypeOK ==
  /\ now \in 0..MaxTime /\ skew \in Int /\ slewing \in Int
  /\ DOMAIN sources \subseteq Sources
  /\ \A s \in DOMAIN sources :
       sources[s].at \in 0..now /\ sources[s].disp \in Dispersions[s]
  /\ pc \in [Procs -> {"idle", "select", "average", "decide", "apply"}]
  /\ \A p \in Procs : /\ held[p] \subseteq DOMAIN sources
                      /\ pc[p] = "idle" => held[p] = {}
                      /\ offset[p] \in Int
                      /\ adj[p].method \in {"none", "step", "slew"}
  /\ status \in [synced : BOOLEAN, error : {"none", "selection", "adjustment"}]

Near(t, u) == t - u <= MaxSpread /\ u - t <= MaxSpread

(* With fewer faulty sources than MinSources, whatever sources are chosen  *)
(* from, as long as their stamps do not change meanwhile, those selected   *)
(* are all within MaxSpread of an honest one among them, and so is their   *)
(* weighted mean (SelectBestTime, findAgreeingSubset).                     *)
AgreedNearHonest ==
  Cardinality(Faulty) < MinSources =>
    \A S \in SUBSET DOMAIN sources : Selected(S) # {} =>
      \E h \in Selected(S) \ Faulty :
        /\ \A s \in Selected(S) : Near(sources[s].stamp, sources[h].stamp)
        /\ Near(WeightedTime(Selected(S)), sources[h].stamp)

(* findAgreeingSubset finds the most sources that agree: no set of sources *)
(* that fits into the tolerance is larger than what it returns.            *)
LargestAgreement ==
  \A S \in SUBSET DOMAIN sources : S # {} =>
    \A T \in (SUBSET S) \ {{}} :
      Span(stamps(T)) <= MaxSpread \div 2 =>
        Cardinality(T) <= Cardinality(findAgreeingSubset(S, MaxSpread \div 2))

-----------------------------------------------------------------------------
(* What README.md says of allow_step_backward: when it is false, and no    *)
(* command asks otherwise, the clock is not stepped backward               *)
(* (CalculateAdjustment, ApplyAdjustment).                                 *)
NeverBackward == [][wall' >= wall]_vars

=============================================================================

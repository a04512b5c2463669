------------------------- MODULE SignedTrafficProofs -------------------------
(***************************************************************************)
(* Proofs about SignedTraffic and its parts, for any set of nodes, IDs,    *)
(* keys and hand-written key files, any TTL, rate and interval, clocks     *)
(* that differ by any constants and any number of restarts: first about    *)
(* the duplicate filter alone, then about the rate limiter, about whose    *)
(* signatures are taken, and about the filter and Verify together.         *)
(***************************************************************************)
EXTENDS SignedTraffic, TLAPS

-----------------------------------------------------------------------------
(* The duplicate filter: copies that pass are more than TTL apart, and an  *)
(* ID stays in the filter for twice TTL only while a sweep is overdue.     *)

(* Every step keeps the filter's types.                                    *)
LEMMA StepFilterTypeOK ==
  TypeOK /\ [Next]_filterVars => TypeOK'
<1> SUFFICES ASSUME TypeOK, [Next]_filterVars PROVE TypeOK'
  OBVIOUS
<1> USE FilterAssumption DEF TypeOK
<1>1. ASSUME NEW i \in IDs, Seen(i) PROVE TypeOK'
  BY <1>1 DEF Seen, Extend
<1>2. CASE cleanup
  BY <1>2 DEF cleanup
<1>3. CASE Stop \/ UNCHANGED filterVars
  BY <1>3 DEF Stop, filterVars
<1>4. CASE Advance
  <2>1. due' \in Nat
    BY <1>4 DEF Advance
  <2>2. clock' \in 0..MaxTime /\ ticked' \in BOOLEAN
    BY <1>4 DEF Advance
  <2> QED
    BY <1>4, <2>1, <2>2 DEF Advance
<1> QED
  BY <1>1, <1>2, <1>3, <1>4 DEF Next

(* The new filter is empty (NewDuplicateFilter).                           *)
LEMMA InitFilterTypeOK == Init => TypeOK
<1> SUFFICES ASSUME Init PROVE TypeOK
  OBVIOUS
<1>1. seen \in [DOMAIN seen -> 0..MaxTime] /\ DOMAIN seen = {}
  BY DEF Init
<1>2. accepted \in [DOMAIN accepted -> 0..MaxTime] /\ DOMAIN accepted = {}
  BY DEF Init
<1>3. clock \in 0..MaxTime /\ due \in Nat
  BY FilterAssumption DEF Init
<1> QED
  BY <1>1, <1>2, <1>3 DEF Init, TypeOK

(* The filter's type invariant.                                            *)
THEOREM FilterTypeCorrect == Spec => []TypeOK
BY StepFilterTypeOK, InitFilterTypeOK, PTL DEF Spec

-----------------------------------------------------------------------------
(* What the filter remembers is what passed, and it forgets nothing that   *)
(* passed within the last TTL.                                             *)
RecentRemembered ==
  /\ \A i \in DOMAIN seen : i \in DOMAIN accepted /\ seen[i] = accepted[i]
  /\ \A i \in DOMAIN accepted :
       clock - accepted[i] <= TTL => i \in DOMAIN seen

(* No step forgets what passed within the last TTL (Seen, cleanup).        *)
LEMMA StepRecentRemembered ==
  TypeOK /\ RecentRemembered /\ [Next]_filterVars => RecentRemembered'
<1> SUFFICES ASSUME TypeOK, RecentRemembered, [Next]_filterVars
             PROVE  RecentRemembered'
  OBVIOUS
<1> USE FilterAssumption DEF TypeOK, RecentRemembered
<1>1. ASSUME NEW i \in IDs, Seen(i) PROVE RecentRemembered'
  BY <1>1 DEF Seen, Extend
<1>2. CASE cleanup
  BY <1>2 DEF cleanup, TooOld
<1>3. CASE Stop \/ UNCHANGED filterVars
  BY <1>3 DEF Stop, filterVars
<1>4. CASE Advance
  BY <1>4 DEF Advance
<1> QED
  BY <1>1, <1>2, <1>3, <1>4 DEF Next

(* Two copies of a message that pass the filter (Seen answers false twice  *)
(* for one ID) are more than TTL apart, whenever the sweep runs.           *)
THEOREM CopiesAcceptedApart == Spec => AcceptedApart
<1>1. Init => RecentRemembered
  BY DEF Init, RecentRemembered
<1>2. TypeOK /\ RecentRemembered /\ [Next]_filterVars
        => [\A i \in IDs : Seen(i) /\ i \in DOMAIN accepted
                             => clock - accepted[i] > TTL]_filterVars
  BY FilterAssumption DEF TypeOK, RecentRemembered, Seen
<1> QED
  BY <1>1, <1>2, StepRecentRemembered, FilterTypeCorrect, PTL
     DEF Spec, AcceptedApart

-----------------------------------------------------------------------------
(* Where the sweep's ticker stands: when no tick is pending, the last sweep *)
(* came after the last tick, and left nothing that was then older than TTL. *)
SweptInTime ==
  /\ clock < due /\ due <= clock + TTL
  /\ ~ticked => \A i \in DOMAIN seen : due - seen[i] <= 2 * TTL

(* Every step keeps the sweep and its ticker in step (cleanup, Advance).   *)
LEMMA StepSweptInTime ==
  TypeOK /\ SweptInTime /\ [Next]_filterVars => SweptInTime'
<1> SUFFICES ASSUME TypeOK, SweptInTime, [Next]_filterVars
             PROVE  SweptInTime'
  OBVIOUS
<1> USE FilterAssumption DEF TypeOK, SweptInTime
<1>1. ASSUME NEW i \in IDs, Seen(i) PROVE SweptInTime'
  <2>1. /\ DOMAIN seen' = DOMAIN seen \cup {i}
        /\ \A j \in DOMAIN seen' :
             seen'[j] = clock \/ (j \in DOMAIN seen /\ seen'[j] = seen[j])
        /\ clock' = clock /\ due' = due /\ ticked' = ticked
    BY <1>1 DEF Seen, Extend
  <2> QED
    BY <2>1
<1>2. CASE cleanup
  <2>1. \A j \in DOMAIN seen' :
          j \in DOMAIN seen /\ seen'[j] = seen[j] /\ ~(clock - seen[j] > TTL)
    BY <1>2 DEF cleanup, TooOld
  <2> QED
    BY <1>2, <2>1 DEF cleanup
<1>3. CASE Stop \/ UNCHANGED filterVars
  BY <1>3 DEF Stop, filterVars
<1>4. CASE Advance
  <2>1. seen' = seen /\ clock' = clock + 1
    BY <1>4 DEF Advance
  <2>2. CASE clock + 1 = due
    <3>1. due' = due + TTL /\ ticked'
      BY <1>4, <2>2 DEF Advance
    <3> QED
      BY <2>1, <2>2, <3>1
  <2>3. CASE clock + 1 # due
    <3>1. due' = due /\ ticked' = ticked
      BY <1>4, <2>3 DEF Advance
    <3> QED
      BY <2>1, <2>3, <3>1
  <2> QED
    BY <2>2, <2>3
<1> QED
  BY <1>1, <1>2, <1>3, <1>4 DEF Next

(* While no tick waits for the sweep (cleanup), every ID in the filter was *)
(* met less than twice TTL ago.                                            *)
THEOREM AlwaysForgottenInTime == Spec => []ForgottenInTime
<1>1. Init => SweptInTime
  BY FilterAssumption DEF Init, SweptInTime
<1>2. TypeOK /\ SweptInTime => ForgottenInTime
  BY FilterAssumption DEF TypeOK, SweptInTime, ForgottenInTime
<1> QED
  BY <1>1, <1>2, FilterTypeCorrect, StepSweptInTime, PTL DEF Spec

-----------------------------------------------------------------------------
(* Whole seconds *)

(* What \div computes, for clocks that count TicksPerSecond to the second. *)
LEMMA WholeSeconds ==
  ASSUME NEW x \in Int, NEW d \in Nat \ {0}
  PROVE  /\ x \div d \in Int
         /\ x >= 0 => x \div d >= 0
         /\ x >= d => x \div d >= 1
         /\ x >= 2 * d => x \div d >= 2
OBVIOUS

(* Later times have no smaller numbers of seconds (time.Time.Unix).        *)
LEMMA SecondsMonotone ==
  ASSUME NEW x \in Int, NEW y \in Int, x <= y, NEW d \in Nat \ {0}
  PROVE  x \div d <= y \div d
OBVIOUS

(* k seconds later the number of seconds is greater by k.                  *)
LEMMA SecondsLater ==
  ASSUME NEW x \in Int, NEW k \in Int, NEW d \in Nat \ {0}
  PROVE  (x + k * d) \div d = x \div d + k
OBVIOUS

-----------------------------------------------------------------------------
(* The rate limiter *)

(* Two calls of Allow that are less than a second apart are followed by a  *)
(* third after at least a second: a tick that waits was sent after the     *)
(* last call, and the one after it comes an interval later. So the bucket  *)
(* is empty only if the next call comes a second after the last one.       *)
TokensLast ==
  /\ tokens \in 0..maxBurst /\ lastTime \in Nat /\ nextTick \in Nat
  /\ waiting \in BOOLEAN
  /\ lastTime <= clock /\ clock < nextTick
  /\ waiting => nextTick > lastTime + interval
  /\ tokens = 0 =>
       /\ nextTick >= lastTime + TicksPerSecond + (IF waiting THEN interval ELSE 0)
       /\ waiting => clock >= lastTime + TicksPerSecond

(* What Allow finds in the bucket: no less than there was, at least one    *)
(* token after a second, and two after two (Allow).                        *)
LEMMA BucketFilled ==
  ASSUME TypeOK, TokensLast
  PROVE  /\ Filled(clock) \in 0..maxBurst
         /\ Filled(clock) >= tokens
         /\ clock >= lastTime + TicksPerSecond => Filled(clock) >= 1
         /\ clock >= lastTime + TicksPerSecond /\ tokens >= 1 => Filled(clock) >= 2
         /\ clock >= lastTime + 2 * TicksPerSecond => Filled(clock) >= 2
<1> DEFINE x == clock - lastTime
           q == x \div TicksPerSecond
           sum == tokens + q * rate
<1>1. /\ x \in Nat /\ TicksPerSecond \in Nat \ {0} /\ rate \in Nat \ {0}
      /\ maxBurst \in Nat /\ maxBurst >= 2 /\ tokens \in 0..maxBurst
      /\ clock \in Nat /\ lastTime \in Nat
  BY FilterAssumption, LimiterAssumption DEF TypeOK, TokensLast
<1>2. /\ q \in Nat
      /\ clock >= lastTime + TicksPerSecond => q >= 1
      /\ clock >= lastTime + 2 * TicksPerSecond => q >= 2
  BY <1>1, WholeSeconds
<1> HIDE DEF q
<1>3. q * rate \in Nat /\ q * rate >= q
  BY <1>1, <1>2
<1> HIDE DEF x
<1>4. Filled(clock) = IF tokens + q * rate > maxBurst THEN maxBurst ELSE tokens + q * rate
  BY DEF Filled, q, x
<1> DEFINE filling == q * rate
<1>5. filling \in Nat /\ filling >= q
  BY <1>3
<1>6. Filled(clock) = IF tokens + filling > maxBurst THEN maxBurst ELSE tokens + filling
  BY <1>4
<1> HIDE DEF filling
<1> QED
  BY <1>1, <1>2, <1>5, <1>6

\* What a step of the traffic is to the limiter.
LimiterStep ==
  \/ broadcast(clock) /\ UNCHANGED clock
  \/ clock' = clock + 1 /\ TickerAdvances(clock + 1)
  \/ StartOver(clock) /\ UNCHANGED clock
  \/ UNCHANGED <<limiterVars, clock>>

(* Only broadcasts, time and starts of the daemon touch the limiter.       *)
LEMMA TrafficLimiterStep == [TrafficNext]_trafficVars => LimiterStep
BY DEF TrafficNext, trafficVars, LimiterStep, Announce, Send, Receive, Sweep,
       TimePasses, Start, Operate, Seen, cleanup, Advance, filterVars, limiterVars

(* Every step keeps the bucket from running dry (Allow, Announcer.Start).  *)
LEMMA StepTokensLast ==
  TypeOK /\ TokensLast /\ LimiterStep => TokensLast'
<1> SUFFICES ASSUME TypeOK, TokensLast, LimiterStep PROVE TokensLast'
  OBVIOUS
<1>1. /\ TicksPerSecond \in Nat \ {0} /\ maxBurst \in Nat /\ maxBurst >= 2
      /\ interval \in Nat /\ interval >= 2 * TicksPerSecond /\ clock \in Nat
  BY LimiterAssumption, FilterAssumption DEF TypeOK
<1>2. CASE broadcast(clock) /\ UNCHANGED clock
  <2> DEFINE F == Filled(clock)
  <2>1. /\ waiting /\ waiting' = FALSE /\ nextTick' = nextTick /\ lastTime' = clock
        /\ tokens' = IF F > 0 THEN F - 1 ELSE F
    BY <1>2 DEF broadcast, Allow
  <2>2. /\ F \in 0..maxBurst /\ F >= tokens
        /\ clock >= lastTime + TicksPerSecond => F >= 1
        /\ clock >= lastTime + TicksPerSecond /\ tokens >= 1 => F >= 2
        /\ clock >= lastTime + 2 * TicksPerSecond => F >= 2
    BY BucketFilled
  <2> HIDE DEF F
  <2>3. F >= 1
    BY <1>1, <2>1, <2>2 DEF TokensLast
  <2>4. F = 1 => nextTick >= clock + TicksPerSecond
    BY <1>1, <2>1, <2>2 DEF TokensLast
  <2>5. waiting' \in BOOLEAN /\ ~waiting'
    BY <2>1
  <2>6. /\ tokens' = F - 1 /\ clock' = clock /\ nextTick \in Nat
        /\ nextTick' = nextTick /\ lastTime' = clock /\ clock < nextTick
    BY <1>2, <2>1, <2>2, <2>3 DEF TokensLast
  <2> QED
    BY <1>1, <2>2, <2>3, <2>4, <2>5, <2>6 DEF TokensLast
<1>3. CASE clock' = clock + 1 /\ TickerAdvances(clock + 1)
  <2>1. tokens' = tokens /\ lastTime' = lastTime
    BY <1>3 DEF TickerAdvances
  <2>2. CASE clock + 1 = nextTick
    <3>1. waiting' = TRUE /\ nextTick' = nextTick + interval
      BY <1>3, <2>2 DEF TickerAdvances
    <3> QED
      BY <1>1, <1>3, <2>1, <2>2, <3>1 DEF TokensLast
  <2>3. CASE clock + 1 # nextTick
    <3>1. waiting' = waiting /\ nextTick' = nextTick
      BY <1>3, <2>3 DEF TickerAdvances, TokensLast
    <3> QED
      BY <1>1, <1>3, <2>1, <2>3, <3>1 DEF TokensLast
  <2> QED
    BY <2>2, <2>3
<1>4. CASE StartOver(clock) /\ UNCHANGED clock
  <2>1. waiting' \in BOOLEAN /\ ~waiting'
    BY <1>4 DEF StartOver
  <2>2. /\ tokens' = maxBurst /\ lastTime' = clock /\ nextTick' = clock + interval
        /\ clock' = clock
    BY <1>4 DEF StartOver
  <2> QED
    BY <1>1, <2>1, <2>2 DEF TokensLast
<1>5. CASE UNCHANGED <<limiterVars, clock>>
  BY <1>5 DEF limiterVars, TokensLast
<1> QED
  BY <1>2, <1>3, <1>4, <1>5 DEF LimiterStep

-----------------------------------------------------------------------------
(* Whose signatures are taken *)

\* The operator gives every node an ID of its own. No code checks it; the
\* theorems that need it say so.
NodeIDsDistinct ==
  \A n, m \in DOMAIN SharedFiles :
    n # m => SharedFiles[n].nodeID # SharedFiles[m].nodeID

Pair == [id : Nat, secret : Nat]

KeyFile ==
  [sharedSecret : Nat, nodeID : Nat, trustedPeers : SUBSET Pair,
   privateKey : Nat, publicKey : Nat, publicKeys : SUBSET Nat]

Manager == [id : Nat, secret : Nat, trusted : SUBSET Pair]

\* The ID and secret p are those of n's hand-written file or of one of k keys
\* that were drawn.
OwnKey(n, p, k) ==
  \/ p.id = p.secret /\ p.secret \in 1..k
  \/ /\ n \in DOMAIN SharedFiles
     /\ p.id = SharedFiles[n].nodeID /\ p.secret = SharedFiles[n].sharedSecret

\* Node n has the secret of key k, in its file or in its daemon.
Holds(n, k) == k = file[n].privateKey \/ k = km[n].secret

\* Node n was told the secret of q, or it is n's own: with its own ID or drawn.
Known(n, q) ==
  \/ q.secret \in told[n]
  \/ q.secret = km[n].secret /\ (q.id = km[n].id \/ q.secret \in 1..drawn)

KeyTypeOK ==
  /\ file \in [Nodes -> KeyFile]
  /\ peers \in [Nodes -> SUBSET Pair]
  /\ km \in [Nodes -> Manager]
  /\ drawn \in 0..MaxKeys
  /\ told \in [Nodes -> SUBSET Nat]

(* A key file is missing, or the one written by hand, or one that          *)
(* `disco key' has written.                                                *)
FilesKept ==
  \A n \in Nodes :
    \/ file[n] = NoFile
    \/ n \in DOMAIN SharedFiles /\ file[n] = SharedFiles[n]
    \/ /\ file[n].sharedSecret = 0 /\ file[n].trustedPeers = {}
       /\ file[n].publicKey = file[n].privateKey /\ file[n].privateKey \in 1..drawn

PeersTold ==
  \A n \in Nodes :
    /\ \A p \in file[n].trustedPeers : p.secret \in told[n]
    /\ \A p \in peers[n] : p.secret \in told[n] /\ \E m \in Nodes : OwnKey(m, p, drawn)

ManagersSound ==
  \A n \in Nodes :
    Started(n) => /\ OwnKey(n, km[n], drawn)
                  /\ NodeIDsDistinct => Trusts(n, n)
                  /\ \A q \in km[n].trusted : Known(n, q)

NoneShared ==
  \A n, m \in Nodes : n # m => \A k \in 1..drawn : ~(Holds(n, k) /\ Holds(m, k))

(* The inductive invariant: what a daemon trusts its operator was told, or *)
(* it is the daemon's own, and a drawn key is held by the node that drew   *)
(* it alone.                                                               *)
KeysSound == KeyTypeOK /\ FilesKept /\ PeersTold /\ ManagersSound /\ NoneShared

(* An ID goes with one secret, if no two nodes were given one ID by hand.  *)
LEMMA OneSecretPerID ==
  ASSUME NEW k \in 0..MaxKeys, NEW n, NEW m, NEW p, NEW q, NodeIDsDistinct,
         OwnKey(n, p, k), OwnKey(m, q, k), p.id = q.id
  PROVE  p.secret = q.secret
<1>1. \A i \in DOMAIN SharedFiles : SharedFiles[i].nodeID \in Nat \ (1..MaxKeys)
  BY FilesAssumption DEF HandWritten
<1>2. MaxKeys \in Nat
  BY FilesAssumption
<1> QED
  BY <1>1, <1>2 DEF OwnKey, NodeIDsDistinct

(* No key is held and nobody was told but by hand-written files at first.  *)
LEMMA InitKeysSound == InitKeys => KeysSound
<1> SUFFICES ASSUME InitKeys PROVE KeysSound
  OBVIOUS
<1>1. /\ \A n \in DOMAIN SharedFiles : SharedFiles[n] \in HandWritten
      /\ HandWritten \subseteq KeyFile /\ NoFile \in KeyFile /\ MaxKeys \in Nat
  BY FilesAssumption DEF HandWritten, KeyFile, Pair, NoFile
<1>2. /\ file \in [Nodes -> KeyFile]
      /\ \A n \in Nodes : file[n] = IF n \in DOMAIN SharedFiles THEN SharedFiles[n]
                                                                ELSE NoFile
  BY <1>1 DEF InitKeys
<1>3. /\ peers = [n \in Nodes |-> {}] /\ drawn = 0
      /\ \A n \in Nodes : km[n] = NotStarted
      /\ km = [n \in Nodes |-> NotStarted]
      /\ told = [n \in Nodes |-> {p.secret : p \in file[n].trustedPeers}]
  BY DEF InitKeys
<1>4. NotStarted \in Manager
  BY DEF NotStarted, Manager
<1>5. \A n \in Nodes : {p.secret : p \in file[n].trustedPeers} \in SUBSET Nat
  BY <1>2 DEF KeyFile, Pair
<1>6. KeyTypeOK
  BY <1>1, <1>2, <1>3, <1>4, <1>5 DEF KeyTypeOK
<1>7. FilesKept /\ PeersTold
  BY <1>2, <1>3 DEF FilesKept, PeersTold
<1>8. ManagersSound /\ NoneShared
  BY <1>3 DEF ManagersSound, NoneShared, Started
<1> QED
  BY <1>6, <1>7, <1>8 DEF KeysSound

(* What a daemon makes of a key file (parseKeyData): its own key, and      *)
(* peers whose secrets are in the file; public keys go with the own secret.*)
LEMMA ParsedKeys ==
  ASSUME KeysSound, NEW n \in Nodes, file[n] # NoFile
  PROVE  LET L == parseKeyData(file[n])
         IN  /\ L \in Manager /\ OwnKey(n, L, drawn)
             /\ \A q \in L.trusted :
                  q.secret \in told[n] \/ (q.secret = L.secret /\ q.secret \in 1..drawn)
             /\ L.secret \in 1..drawn => L.secret = file[n].privateKey
             /\ L.secret # 0
<1> DEFINE f == file[n]
           L == parseKeyData(f)
<1>1. f \in KeyFile /\ drawn \in 0..MaxKeys /\ MaxKeys \in Nat
  BY FilesAssumption DEF KeysSound, KeyTypeOK
<1>2. CASE n \in DOMAIN SharedFiles /\ f = SharedFiles[n]
  <2>1. f.sharedSecret \in Nat \ (0..MaxKeys)
    BY <1>2, FilesAssumption DEF HandWritten
  <2>2. L = [id |-> f.nodeID, secret |-> f.sharedSecret, trusted |-> f.trustedPeers]
    BY <1>1, <2>1 DEF parseKeyData
  <2>3. L \in Manager /\ OwnKey(n, L, drawn) /\ L.secret \notin 1..drawn /\ L.secret # 0
    BY <1>1, <1>2, <2>1, <2>2 DEF Manager, KeyFile, OwnKey
  <2>4. \A q \in L.trusted : q.secret \in told[n]
    BY <2>2 DEF KeysSound, PeersTold
  <2> QED
    BY <2>3, <2>4
<1>3. CASE /\ f.sharedSecret = 0 /\ f.trustedPeers = {}
           /\ f.publicKey = f.privateKey /\ f.privateKey \in 1..drawn
  <2>1. L = [id |-> f.publicKey, secret |-> f.privateKey,
             trusted |-> {[id |-> p, secret |-> f.privateKey] : p \in f.publicKeys}]
    BY <1>3 DEF parseKeyData
  <2>2. {[id |-> p, secret |-> f.privateKey] : p \in f.publicKeys} \subseteq Pair
    BY <1>1 DEF KeyFile, Pair
  <2>3. L \in Manager /\ OwnKey(n, L, drawn) /\ L.secret = f.privateKey /\ L.secret # 0
    BY <1>1, <1>3, <2>1, <2>2 DEF Manager, KeyFile, OwnKey
  <2>4. \A q \in L.trusted : q.secret = L.secret
    BY <2>1
  <2> QED
    BY <1>3, <2>3, <2>4
<1> QED
  BY <1>2, <1>3 DEF KeysSound, FilesKept

(* A daemon that starts (NewKeyManager, loadTrustedPeers) has an own key,  *)
(* from its file or new, trusts it unless two nodes were given one ID, and *)
(* knows the secrets of its peers.                                         *)
LEMMA StartedKeys ==
  ASSUME KeysSound, NEW n \in Nodes, StartKeys(n)
  PROVE  LET M == NewKeyManager(n)
         IN  /\ M \in Manager /\ M.secret # 0
             /\ OwnKey(n, M, drawn')
             /\ NodeIDsDistinct => [id |-> M.id, secret |-> M.secret] \in M.trusted
             /\ \A q \in M.trusted :
                  \/ q.secret \in told[n]
                  \/ q.secret = M.secret /\ (q.id = M.id \/ q.secret \in 1..drawn)
             /\ M.secret \in 1..drawn => M.secret = file[n].privateKey
<1> DEFINE L == loadOrGenerateKeys(n)
           ps == peers[n]
           self == [id |-> L.id, secret |-> L.secret]
           T == {q \in AddPeer(L.trusted, self) : \A p \in ps : p.id # q.id} \cup ps
<1>1. /\ drawn \in 0..MaxKeys /\ MaxKeys \in Nat
      /\ drawn' = IF file[n] = NoFile THEN drawn + 1 ELSE drawn
      /\ drawn' \in 0..MaxKeys
  BY FilesAssumption DEF KeysSound, KeyTypeOK, StartKeys
<1>2. /\ L \in Manager /\ L.secret # 0 /\ OwnKey(n, L, drawn')
      /\ \A q \in L.trusted :
           \/ q.secret \in told[n]
           \/ q.secret = L.secret /\ (q.id = L.id \/ q.secret \in 1..drawn)
      /\ L.secret \in 1..drawn => L.secret = file[n].privateKey
  <2>1. CASE file[n] = NoFile
    <3>1. L = [id |-> drawn + 1, secret |-> drawn + 1,
               trusted |-> {[id |-> drawn + 1, secret |-> drawn + 1]}]
      BY <2>1 DEF loadOrGenerateKeys, generateKeys
    <3> HIDE DEF L
    <3>2. [id |-> drawn + 1, secret |-> drawn + 1] \in Pair
      BY <1>1 DEF Pair
    <3>3. L.id = drawn + 1 /\ L.secret = drawn + 1 /\ L \in Manager
      BY <1>1, <3>1, <3>2 DEF Manager
    <3>4. OwnKey(n, L, drawn')
      BY <1>1, <2>1, <3>3 DEF OwnKey
    <3> QED
      BY <1>1, <3>1, <3>3, <3>4
  <2>2. CASE file[n] # NoFile
    <3>1. L = parseKeyData(file[n])
      BY <2>2 DEF loadOrGenerateKeys
    <3> HIDE DEF L
    <3>2. OwnKey(n, L, drawn) => OwnKey(n, L, drawn')
      BY <1>1, <2>2 DEF OwnKey
    <3> QED
      BY <2>2, <3>1, <3>2, ParsedKeys
  <2> QED
    BY <2>1, <2>2
<1>3. NewKeyManager(n) = [L EXCEPT !.trusted = T]
  BY DEF NewKeyManager, loadTrustedPeers
<1> HIDE DEF L
<1>4. ps \subseteq Pair /\ self \in Pair /\ L.trusted \subseteq Pair
  BY <1>2 DEF KeysSound, KeyTypeOK, Manager, Pair
<1>5. T \subseteq Pair
  BY <1>4 DEF AddPeer
<1>6. ASSUME NodeIDsDistinct PROVE self \in T
  <2>1. self \in AddPeer(L.trusted, self)
    BY DEF AddPeer
  <2>2. ASSUME NEW p \in ps, p.id = self.id PROVE p = self
    <3>1. PICK m \in Nodes : OwnKey(m, p, drawn)
      BY DEF KeysSound, PeersTold
    <3>2. OwnKey(m, p, drawn') /\ OwnKey(n, self, drawn')
      BY <1>1, <1>2, <3>1 DEF OwnKey
    <3>3. p.secret = self.secret
      <4>1. drawn' \in 0..MaxKeys /\ NodeIDsDistinct /\ p.id = self.id
        BY <1>1, <1>6, <2>2
      <4> HIDE DEF self
      <4>2. \A k \in 0..MaxKeys :
              OwnKey(m, p, k) /\ OwnKey(n, self, k) => p.secret = self.secret
        BY <4>1, OneSecretPerID
      <4> QED
        BY <3>2, <4>1, <4>2
    <3> QED
      BY <1>4, <2>2, <3>3 DEF Pair
  <2> QED
    BY <2>1, <2>2
<1>7. \A q \in T : \/ q.secret \in told[n]
                   \/ q.secret = L.secret /\ (q.id = L.id \/ q.secret \in 1..drawn)
  <2>1. \A p \in ps : p.secret \in told[n]
    BY DEF KeysSound, PeersTold
  <2> QED
    BY <1>2, <2>1 DEF AddPeer
<1> HIDE DEF T
<1> DEFINE M == NewKeyManager(n)
<1>8. M \in Manager /\ M.id = L.id /\ M.secret = L.secret /\ M.trusted = T
  BY <1>2, <1>3, <1>5 DEF Manager
<1>9. OwnKey(n, M, drawn')
  BY <1>2, <1>8 DEF OwnKey
<1> HIDE DEF M
<1> QED
  BY <1>2, <1>6, <1>7, <1>8, <1>9 DEF M

\* What a step of the traffic is to the keys.
KeyChange == KeyStep \/ (\E n \in Nodes : StartKeys(n)) \/ UNCHANGED keyVars

(* Every step keeps the keys apart: `disco key generate', add-trusted, a   *)
(* copy into a peers file, and the start of a daemon.                      *)
LEMMA StepKeysSound ==
  KeysSound /\ KeyChange => KeysSound'
<1> SUFFICES ASSUME KeysSound, KeyChange PROVE KeysSound'
  OBVIOUS
<1>1. /\ KeyTypeOK /\ FilesKept /\ PeersTold /\ ManagersSound /\ NoneShared
      /\ drawn \in 0..MaxKeys /\ MaxKeys \in Nat
  BY FilesAssumption DEF KeysSound, KeyTypeOK
<1>2. ASSUME NEW n \in Nodes, StartKeys(n) PROVE KeysSound'
  <2> DEFINE M == NewKeyManager(n)
  <2>1. /\ km' = [km EXCEPT ![n] = M] /\ file' = file /\ peers' = peers /\ told' = told
        /\ drawn' = IF file[n] = NoFile THEN drawn + 1 ELSE drawn
        /\ drawn' \in 0..MaxKeys
    BY <1>1, <1>2 DEF StartKeys
  <2>2. /\ M \in Manager /\ M.secret # 0 /\ OwnKey(n, M, drawn')
        /\ NodeIDsDistinct => [id |-> M.id, secret |-> M.secret] \in M.trusted
        /\ \A q \in M.trusted :
             \/ q.secret \in told[n]
             \/ q.secret = M.secret /\ (q.id = M.id \/ q.secret \in 1..drawn)
        /\ M.secret \in 1..drawn => M.secret = file[n].privateKey
    BY <1>2, StartedKeys
  <2> HIDE DEF M
  <2>3. /\ km' \in [Nodes -> Manager] /\ km'[n] = M
        /\ \A m \in Nodes : m # n => km'[m] = km[m]
    BY <1>1, <2>1, <2>2 DEF KeyTypeOK
  <2>4. KeyTypeOK'
    BY <1>1, <2>1, <2>3 DEF KeyTypeOK
  <2>5. FilesKept' /\ PeersTold'
    BY <1>1, <2>1 DEF FilesKept, PeersTold, OwnKey
  <2>6. ManagersSound'
    <3>1. ASSUME NEW m \in Nodes, m # n, Started(m)'
          PROVE  /\ OwnKey(m, km[m], drawn') /\ (NodeIDsDistinct => Trusts(m, m))
                 /\ \A q \in km[m].trusted : Known(m, q)'
      BY <1>1, <2>1, <2>3, <3>1 DEF ManagersSound, Started, OwnKey, Known
    <3>2. /\ OwnKey(n, km'[n], drawn') /\ (NodeIDsDistinct => Trusts(n, n)')
          /\ \A q \in km'[n].trusted : Known(n, q)'
      BY <1>1, <2>1, <2>2, <2>3 DEF Known, Trusts
    <3> QED
      BY <2>3, <3>1, <3>2 DEF ManagersSound, Trusts
  <2>7. NoneShared'
    <3>1. \A i \in Nodes : file[i].privateKey \in 0..drawn
      BY <1>1, FilesAssumption DEF FilesKept, NoFile, HandWritten
    <3>2. \A i \in Nodes : km[i].secret \in 1..drawn' => km[i].secret \in 1..drawn
      <4> SUFFICES ASSUME NEW i \in Nodes, km[i].secret \in 1..drawn'
                   PROVE  km[i].secret \in 1..drawn
        OBVIOUS
      <4>1. Started(i)
        BY DEF Started, NotStarted
      <4>2. \A j \in DOMAIN SharedFiles : SharedFiles[j].sharedSecret \in Nat \ (0..MaxKeys)
        BY FilesAssumption DEF HandWritten
      <4> QED
        BY <1>1, <2>1, <4>1, <4>2 DEF ManagersSound, OwnKey
    <3>3. ASSUME NEW m \in Nodes, m # n, NEW k \in 1..drawn', Holds(n, k)', Holds(m, k)'
          PROVE  FALSE
      <4>1. k \in 1..drawn /\ Holds(m, k)
        BY <1>1, <2>1, <2>3, <3>1, <3>2, <3>3 DEF Holds
      <4>2. k = file[n].privateKey
        BY <2>1, <2>2, <2>3, <3>3, <4>1 DEF Holds
      <4> QED
        BY <1>1, <3>3, <4>1, <4>2 DEF NoneShared, Holds
    <3>4. ASSUME NEW i \in Nodes, NEW m \in Nodes, i # m, i # n, m # n,
                 NEW k \in 1..drawn', Holds(i, k)', Holds(m, k)'
          PROVE  FALSE
      <4>1. k \in 1..drawn /\ Holds(i, k) /\ Holds(m, k)
        BY <1>1, <2>1, <2>3, <3>1, <3>2, <3>4 DEF Holds
      <4> QED
        BY <1>1, <3>4, <4>1 DEF NoneShared
    <3> QED
      BY <3>3, <3>4 DEF NoneShared
  <2> QED
    BY <2>4, <2>5, <2>6, <2>7 DEF KeysSound
<1>3. ASSUME NEW n \in Nodes, Generate(n) PROVE KeysSound'
  <2>1. /\ drawn' = drawn + 1 /\ drawn' \in 0..MaxKeys
        /\ file' = [file EXCEPT ![n] = GeneratedFile(drawn + 1)]
        /\ peers' = peers /\ km' = km /\ told' = told
    BY <1>1, <1>3 DEF Generate
  <2> DEFINE G == GeneratedFile(drawn + 1)
  <2>2. /\ G \in KeyFile /\ G.sharedSecret = 0 /\ G.trustedPeers = {}
        /\ G.publicKey = drawn + 1 /\ G.privateKey = drawn + 1
    BY <1>1 DEF GeneratedFile, KeyFile
  <2> HIDE DEF G
  <2>3. /\ file' \in [Nodes -> KeyFile] /\ file'[n] = G
        /\ \A m \in Nodes : m # n => file'[m] = file[m]
    BY <1>1, <2>1, <2>2 DEF KeyTypeOK, G
  <2>4. KeyTypeOK'
    BY <1>1, <2>1, <2>3 DEF KeyTypeOK
  <2>5. FilesKept'
    BY <1>1, <2>1, <2>2, <2>3 DEF FilesKept
  <2>6. PeersTold'
    <3>1. \A m \in Nodes : \A p \in file'[m].trustedPeers : p.secret \in told'[m]
      BY <1>1, <2>1, <2>2, <2>3 DEF PeersTold
    <3>2. \A m, p : OwnKey(m, p, drawn) => OwnKey(m, p, drawn')
      BY <1>1, <2>1 DEF OwnKey
    <3>3. \A m \in Nodes : \A p \in peers'[m] :
            p.secret \in told'[m] /\ \E i \in Nodes : OwnKey(i, p, drawn')
      BY <1>1, <2>1, <3>2 DEF PeersTold
    <3> QED
      BY <3>1, <3>3 DEF PeersTold
  <2>7. ManagersSound'
    BY <1>1, <2>1 DEF ManagersSound, Started, Trusts, OwnKey, Known
  <2>8. NoneShared'
    <3>1. \A i \in Nodes : file[i].privateKey \in 0..drawn
      BY <1>1, FilesAssumption DEF FilesKept, NoFile, HandWritten
    <3>2. \A i \in Nodes : km[i].secret # drawn + 1
      <4> SUFFICES ASSUME NEW i \in Nodes, km[i].secret = drawn + 1
                   PROVE  FALSE
        OBVIOUS
      <4>1. Started(i)
        BY <1>1 DEF Started, NotStarted
      <4>2. \A j \in DOMAIN SharedFiles : SharedFiles[j].sharedSecret \in Nat \ (0..MaxKeys)
        BY FilesAssumption DEF HandWritten
      <4> QED
        BY <1>1, <2>1, <4>1, <4>2 DEF ManagersSound, OwnKey
    <3> QED
      BY <1>1, <2>1, <2>2, <2>3, <3>1, <3>2 DEF NoneShared, Holds
  <2> QED
    BY <2>4, <2>5, <2>6, <2>7, <2>8 DEF KeysSound
<1>4. ASSUME NEW n \in Nodes, NEW m \in Nodes, AddTrusted(n, m) PROVE KeysSound'
  <2> DEFINE F == [file[n] EXCEPT !.publicKeys = @ \cup {file[m].publicKey}]
  <2>1. /\ file' = [file EXCEPT ![n] = F] /\ Loads(n)
        /\ peers' = peers /\ km' = km /\ told' = told /\ drawn' = drawn
    BY <1>4 DEF AddTrusted
  <2>2. file[n] \in KeyFile /\ file[m] \in KeyFile
    BY <1>1 DEF KeyTypeOK
  <2>3. /\ F \in KeyFile /\ F.sharedSecret = file[n].sharedSecret
        /\ F.trustedPeers = file[n].trustedPeers
        /\ F.publicKey = file[n].publicKey /\ F.privateKey = file[n].privateKey
    BY <2>2 DEF KeyFile
  <2> HIDE DEF F
  <2>4. /\ file' \in [Nodes -> KeyFile] /\ file'[n] = F
        /\ \A i \in Nodes : i # n => file'[i] = file[i]
    BY <1>1, <2>1, <2>3 DEF KeyTypeOK
  <2>5. KeyTypeOK'
    BY <1>1, <2>1, <2>4 DEF KeyTypeOK
  <2>6. FilesKept'
    <3>1. file[n] # NoFile
      BY <2>1 DEF Loads, NoFile
    <3>2. ~(n \in DOMAIN SharedFiles /\ file[n] = SharedFiles[n])
      BY <2>1, FilesAssumption DEF Loads, HandWritten
    <3> QED
      BY <1>1, <2>1, <2>3, <2>4, <3>1, <3>2 DEF FilesKept
  <2>7. PeersTold'
    <3>1. \A i \in Nodes : file'[i].trustedPeers = file[i].trustedPeers
      BY <2>3, <2>4
    <3> QED
      BY <1>1, <2>1, <3>1 DEF PeersTold
  <2>8. ManagersSound'
    BY <1>1, <2>1 DEF ManagersSound, Started, Trusts, Known
  <2>9. NoneShared'
    BY <1>1, <2>1, <2>3, <2>4 DEF NoneShared, Holds
  <2> QED
    BY <2>5, <2>6, <2>7, <2>8, <2>9 DEF KeysSound
<1>5. ASSUME NEW n \in Nodes, NEW m \in Nodes, CopyKeys(n, m) PROVE KeysSound'
  <2> DEFINE L == parseKeyData(file[m])
             p == [id |-> L.id, secret |-> L.secret]
  <2>1. /\ file[m] # NoFile /\ file' = file /\ km' = km /\ drawn' = drawn
        /\ peers' = [peers EXCEPT ![n] = AddPeer(@, p)]
        /\ told' = [told EXCEPT ![n] = @ \cup {p.secret}]
    BY <1>5 DEF CopyKeys
  <2>2. L \in Manager /\ OwnKey(m, L, drawn)
    BY <2>1, ParsedKeys
  <2> HIDE DEF L
  <2>3. p \in Pair /\ OwnKey(m, p, drawn) /\ p.secret \in Nat
    BY <2>2 DEF Manager, Pair, OwnKey
  <2> HIDE DEF p
  <2>4. /\ peers' \in [Nodes -> SUBSET Pair] /\ told' \in [Nodes -> SUBSET Nat]
        /\ \A i \in Nodes : told[i] \subseteq told'[i]
        /\ \A i \in Nodes : i # n => peers'[i] = peers[i]
        /\ peers'[n] \subseteq peers[n] \cup {p} /\ p.secret \in told'[n]
    BY <1>1, <2>1, <2>3 DEF KeyTypeOK, AddPeer
  <2>5. KeyTypeOK'
    BY <1>1, <2>1, <2>4 DEF KeyTypeOK
  <2>6. FilesKept'
    BY <1>1, <2>1 DEF FilesKept
  <2>7. PeersTold'
    BY <1>1, <2>1, <2>3, <2>4 DEF PeersTold
  <2>8. NoneShared'
    BY <1>1, <2>1 DEF NoneShared, Holds
  <2>9. ManagersSound'
    BY <1>1, <2>1, <2>4 DEF ManagersSound, Started, Trusts, Known
  <2> QED
    BY <2>5, <2>6, <2>7, <2>8, <2>9 DEF KeysSound
<1>6. CASE UNCHANGED keyVars
  <2>1. KeyTypeOK' /\ FilesKept' /\ PeersTold' /\ NoneShared'
    BY <1>1, <1>6 DEF keyVars, KeyTypeOK, FilesKept, PeersTold, NoneShared, Holds
  <2>2. ManagersSound'
    BY <1>1, <1>6 DEF keyVars, ManagersSound, Started, Trusts, Known
  <2> QED
    BY <2>1, <2>2 DEF KeysSound
<1> QED
  BY <1>2, <1>3, <1>4, <1>5, <1>6 DEF KeyChange, KeyStep

-----------------------------------------------------------------------------
(* The filter and Verify together *)

\* time.Now().Unix() on node n when the monotonic clock showed t.
UnixAt(n, t) == (t + Ahead[n]) \div TicksPerSecond

(* No two messages share an ID, none is stamped with a later time than its *)
(* sender's clock shows, and what was accepted was sent.                   *)
SentOnce ==
  /\ \A d \in sent : /\ d.id \in IDs /\ d.from \in Nodes /\ d.signature.stamp \in Nat
                     /\ d.signature.stamp <= UnixAt(d.from, clock)
  /\ \A d, e \in sent : d.id = e.id => d = e
  /\ DOMAIN accepted \subseteq {d.id : d \in sent}
  /\ heard \subseteq DOMAIN accepted

(* What became of a message that is in the filter was decided when it was  *)
(* met, by the keys the daemon has now; and a message that was heard was   *)
(* no earlier than its stamp when it was last accepted.                    *)
Judged ==
  \A d \in sent :
    /\ d.id \in DOMAIN seen =>
         /\ seen[d.id] <= clock
         /\ d.signature.stamp <= UnixAt(d.from, seen[d.id])
         /\ Verify(Me, d.signature, UnixAt(Me, seen[d.id])) => d.id \in heard
    /\ d.id \in heard => d.signature.stamp <= UnixAt(Me, accepted[d.id])

TrafficSound ==
  /\ TypeOK /\ RecentRemembered /\ SweptInTime
  /\ TokensLast /\ KeysSound /\ SentOnce /\ Judged

(* A node's clock shows whole seconds, and no fewer as time passes.        *)
LEMMA UnixType ==
  ASSUME NEW n \in Nodes, NEW t \in Nat
  PROVE  /\ UnixAt(n, t) \in Nat
         /\ \A u \in Nat : t <= u => UnixAt(n, t) <= UnixAt(n, u)
<1>1. Ahead[n] \in Nat /\ TicksPerSecond \in Nat \ {0}
  BY WindowAssumption, LimiterAssumption
<1>2. UnixAt(n, t) \in Nat
  BY <1>1, WholeSeconds DEF UnixAt
<1>3. ASSUME NEW u \in Nat, t <= u PROVE UnixAt(n, t) <= UnixAt(n, u)
  <2>1. t + Ahead[n] <= u + Ahead[n] /\ t + Ahead[n] \in Int /\ u + Ahead[n] \in Int
    BY <1>1, <1>3
  <2> QED
    BY <1>1, <2>1, SecondsMonotone DEF UnixAt
<1> QED
  BY <1>2, <1>3

\* A daemon that starts makes a new filter.
NewFilter ==
  /\ seen' = [i \in {} |-> 0] /\ accepted' = [i \in {} |-> 0]
  /\ due' = clock + TTL /\ ticked' = FALSE /\ sweeping' = TRUE
  /\ UNCHANGED clock

(* To the filter, a step of the traffic is one of its own or a new start.  *)
LEMMA TrafficFilterStep ==
  SentOnce /\ [TrafficNext]_trafficVars => [Next]_filterVars \/ NewFilter
<1> SUFFICES ASSUME SentOnce, [TrafficNext]_trafficVars
             PROVE  [Next]_filterVars \/ NewFilter
  OBVIOUS
<1>1. ASSUME NEW d \in sent, Receive(d) PROVE Next
  BY <1>1 DEF Receive, SentOnce, Next
<1>2. CASE Sweep \/ TimePasses
  BY <1>2 DEF Sweep, TimePasses, Next
<1>3. ASSUME NEW n \in Nodes, Start(n) PROVE UNCHANGED filterVars \/ NewFilter
  BY <1>3 DEF Start, NewFilter
<1> QED
  BY <1>1, <1>2, <1>3 DEF TrafficNext, Announce, Send, Operate, trafficVars

(* To the keys, a step of the traffic is one of their own.                 *)
LEMMA TrafficKeyStep == [TrafficNext]_trafficVars => KeyChange
BY DEF TrafficNext, trafficVars, KeyChange, Announce, Send, Receive, Sweep,
       TimePasses, Start, Operate

(* A new filter is as sound as the first one.                              *)
LEMMA NewFilterSound ==
  ASSUME TypeOK, NewFilter
  PROVE  TypeOK' /\ RecentRemembered' /\ SweptInTime'
<1>1. /\ DOMAIN seen' = {} /\ DOMAIN accepted' = {}
      /\ seen' \in [DOMAIN seen' -> 0..MaxTime]
      /\ accepted' \in [DOMAIN accepted' -> 0..MaxTime]
  BY DEF NewFilter
<1>2. clock' = clock /\ clock \in 0..MaxTime /\ due' = clock + TTL
  BY DEF NewFilter, TypeOK
<1>3. due' \in Nat /\ clock' < due' /\ due' <= clock' + TTL
  BY <1>2, FilterAssumption
<1>4. ticked' \in BOOLEAN /\ sweeping' \in BOOLEAN
  BY DEF NewFilter
<1> QED
  BY <1>1, <1>2, <1>3, <1>4 DEF TypeOK, RecentRemembered, SweptInTime

(* A broadcast (createAnnouncement) has a fresh ID and the sender's time.  *)
LEMMA SendKeepsSound ==
  ASSUME TypeOK, RecentRemembered, SentOnce, Judged, NEW n \in Nodes,
         sendAnnouncement(n), UNCHANGED <<seen, accepted, clock, heard, km>>
  PROVE  SentOnce' /\ Judged'
<1> DEFINE new == {createAnnouncement(n, i) : i \in NextID}
<1>1. sent' = sent \cup new
  BY DEF sendAnnouncement
<1>2. clock \in Nat
  BY FilterAssumption DEF TypeOK
<1>3. ASSUME NEW d \in new
      PROVE  /\ d.id \in IDs /\ d.from = n /\ d.signature.stamp = UnixAt(n, clock)
             /\ \A e \in sent : d.id # e.id
             /\ \A e \in new : d.id = e.id => d = e
             /\ d.id \notin DOMAIN accepted /\ d.id \notin DOMAIN seen /\ d.id \notin heard
  <2>1. PICK i \in NextID : d = createAnnouncement(n, i)
    OBVIOUS
  <2>2. d.id = i /\ d.from = n /\ d.signature.stamp = UnixAt(n, clock)
    BY <2>1 DEF createAnnouncement, Sign, Unix, UnixAt
  <2>3. i \in IDs /\ \A e \in sent : i # e.id
    BY DEF NextID
  <2>4. \A e \in new : d.id = e.id => d = e
    BY <2>1, <2>2 DEF createAnnouncement
  <2> QED
    BY <2>2, <2>3, <2>4 DEF SentOnce, RecentRemembered
<1>4. UnixAt(n, clock) \in Nat
  BY <1>2, UnixType
<1> HIDE DEF new
<1>5. SentOnce'
  <2>1. \A d \in sent' : /\ d.id \in IDs /\ d.from \in Nodes /\ d.signature.stamp \in Nat
                         /\ d.signature.stamp <= UnixAt(d.from, clock)
    BY <1>1, <1>3, <1>4 DEF SentOnce
  <2>2. \A d, e \in sent' : d.id = e.id => d = e
    BY <1>1, <1>3 DEF SentOnce
  <2> QED
    BY <1>1, <2>1, <2>2 DEF SentOnce, UnixAt
<1>6. Judged'
  BY <1>1, <1>3 DEF Judged, UnixAt, Verify
<1> QED
  BY <1>5, <1>6

(* A copy that is read (Listener.Start) is judged at the time it is met.   *)
LEMMA ReceiveKeepsSound ==
  ASSUME TypeOK, RecentRemembered, SentOnce, Judged, NEW d \in sent, Receive(d)
  PROVE  SentOnce' /\ Judged'
<1>1. /\ d.id \notin DOMAIN seen /\ clock' = clock /\ sent' = sent /\ km' = km
      /\ seen' = Extend(seen, d.id, clock) /\ accepted' = Extend(accepted, d.id, clock)
      /\ heard' = IF Verify(Me, d.signature, UnixAt(Me, clock)) THEN heard \cup {d.id}
                                                                 ELSE heard
  BY DEF Receive, Seen, Unix, UnixAt, keyVars
<1>2. /\ DOMAIN seen' = DOMAIN seen \cup {d.id}
      /\ DOMAIN accepted' = DOMAIN accepted \cup {d.id}
      /\ seen'[d.id] = clock /\ accepted'[d.id] = clock
      /\ \A i \in DOMAIN seen : i # d.id => seen'[i] = seen[i]
      /\ \A i \in DOMAIN accepted : i # d.id => accepted'[i] = accepted[i]
  BY <1>1 DEF Extend
<1>3. clock \in Nat /\ Me \in Nodes /\ \A i \in DOMAIN accepted : accepted[i] \in 0..MaxTime
  BY FilterAssumption, WindowAssumption DEF TypeOK
<1>4. SentOnce'
  BY <1>1, <1>2 DEF SentOnce, UnixAt
<1>5. ASSUME NEW e \in sent, e.id # d.id
      PROVE  /\ e.id \in DOMAIN seen' =>
                  /\ seen'[e.id] <= clock
                  /\ e.signature.stamp <= UnixAt(e.from, seen'[e.id])
                  /\ Verify(Me, e.signature, UnixAt(Me, seen'[e.id])) => e.id \in heard'
             /\ e.id \in heard' => e.signature.stamp <= UnixAt(Me, accepted'[e.id])
  BY <1>1, <1>2, <1>5 DEF Judged, SentOnce
<1>6. d.signature.stamp <= UnixAt(d.from, clock)
  BY DEF SentOnce
<1>7. Verify(Me, d.signature, UnixAt(Me, clock)) => d.id \in heard'
  BY <1>1
<1>8. d.id \in heard' => d.signature.stamp <= UnixAt(Me, clock)
  <2>1. CASE Verify(Me, d.signature, UnixAt(Me, clock))
    BY <1>3, <2>1, UnixType DEF Verify, SentOnce
  <2>2. CASE d.id \in heard
    <3>1. d.id \in DOMAIN accepted /\ d.signature.stamp <= UnixAt(Me, accepted[d.id])
      BY <2>2 DEF SentOnce, Judged
    <3>2. accepted[d.id] \in Nat /\ accepted[d.id] <= clock
      BY <1>1, <1>3, <3>1, FilterAssumption DEF RecentRemembered
    <3>3. UnixAt(Me, accepted[d.id]) <= UnixAt(Me, clock)
      BY <1>3, <3>2, UnixType
    <3> QED
      BY <1>3, <3>1, <3>2, <3>3, UnixType DEF SentOnce
  <2> QED
    BY <1>1, <2>1, <2>2
<1>9. ASSUME NEW e \in sent
      PROVE  /\ e.id \in DOMAIN seen' =>
                  /\ seen'[e.id] <= clock
                  /\ e.signature.stamp <= UnixAt(e.from, seen'[e.id])
                  /\ Verify(Me, e.signature, UnixAt(Me, seen'[e.id])) => e.id \in heard'
             /\ e.id \in heard' => e.signature.stamp <= UnixAt(Me, accepted'[e.id])
  <2>1. CASE e.id = d.id
    <3>1. e = d
      BY <2>1 DEF SentOnce
    <3> QED
      BY <1>2, <1>3, <1>6, <1>7, <1>8, <3>1
  <2> QED
    BY <1>5, <2>1
<1>10. Judged'
  BY <1>1, <1>9 DEF Judged, UnixAt, Verify
<1> QED
  BY <1>4, <1>10

(* Every step keeps messages, filter and keys as TrafficSound says.        *)
LEMMA StepTrafficSound ==
  TrafficSound /\ [TrafficNext]_trafficVars => TrafficSound'
<1> SUFFICES ASSUME TrafficSound, [TrafficNext]_trafficVars PROVE TrafficSound'
  OBVIOUS
<1> USE DEF TrafficSound
<1>1. TokensLast' /\ KeysSound'
  BY TrafficLimiterStep, StepTokensLast, TrafficKeyStep, StepKeysSound
<1>2. TypeOK' /\ RecentRemembered' /\ SweptInTime'
  BY TrafficFilterStep, NewFilterSound, StepFilterTypeOK, StepRecentRemembered,
     StepSweptInTime
<1>3. clock \in Nat /\ Me \in Nodes
  BY FilterAssumption, WindowAssumption DEF TypeOK
<1> SUFFICES SentOnce' /\ Judged'
  BY <1>1, <1>2
<1>4. CASE Announce
  <2>1. CASE sendAnnouncement(Me)
    BY <1>3, <1>4, <2>1, SendKeepsSound DEF Announce, filterVars, keyVars
  <2>2. CASE sent' = sent
    BY <1>4, <2>2 DEF Announce, filterVars, keyVars, SentOnce, Judged, UnixAt, Verify
  <2> QED
    BY <1>4, <2>1, <2>2 DEF Announce
<1>5. ASSUME NEW n \in Nodes, Send(n) PROVE SentOnce' /\ Judged'
  BY <1>5, SendKeepsSound DEF Send, filterVars, keyVars
<1>6. ASSUME NEW d \in sent, Receive(d) PROVE SentOnce' /\ Judged'
  BY <1>6, ReceiveKeepsSound
<1>7. CASE Sweep
  <2>1. /\ DOMAIN seen' \subseteq DOMAIN seen /\ \A i \in DOMAIN seen' : seen'[i] = seen[i]
        /\ accepted' = accepted /\ clock' = clock /\ sent' = sent /\ heard' = heard
        /\ km' = km
    BY <1>7 DEF Sweep, cleanup, keyVars
  <2> QED
    BY <2>1 DEF SentOnce, Judged, UnixAt, Verify
<1>8. CASE TimePasses
  <2>1. /\ seen' = seen /\ accepted' = accepted /\ sent' = sent /\ heard' = heard
        /\ km' = km /\ clock' = clock + 1
    BY <1>8 DEF TimePasses, Advance, keyVars
  <2>2. ASSUME NEW n \in Nodes
        PROVE  /\ UnixAt(n, clock) \in Nat /\ UnixAt(n, clock + 1) \in Nat
               /\ UnixAt(n, clock) <= UnixAt(n, clock + 1)
    <3>1. clock + 1 \in Nat /\ clock <= clock + 1
      BY <1>3
    <3> QED
      BY <1>3, <3>1, UnixType
  <2>3. ASSUME NEW d \in sent PROVE d.signature.stamp <= UnixAt(d.from, clock + 1)
    <3>1. /\ d.from \in Nodes /\ d.signature.stamp \in Nat
          /\ d.signature.stamp <= UnixAt(d.from, clock)
      BY DEF SentOnce
    <3> DEFINE u == UnixAt(d.from, clock)
               v == UnixAt(d.from, clock + 1)
               w == d.signature.stamp
    <3>2. u \in Nat /\ v \in Nat /\ u <= v /\ w \in Nat /\ w <= u
      BY <2>2, <3>1
    <3> HIDE DEF u, v, w
    <3>3. w <= v
      BY <3>2
    <3> QED
      BY <3>3 DEF v, w
  <2>4. SentOnce'
    BY <2>1, <2>3 DEF SentOnce, UnixAt
  <2>5. \A i \in DOMAIN seen : seen[i] \in 0..MaxTime
    BY DEF TypeOK
  <2> QED
    <3>1. \A i \in DOMAIN seen : seen[i] <= clock => seen[i] <= clock'
      BY <1>3, <2>1, <2>5
    <3>2. \A d \in sent : Verify(Me, d.signature, UnixAt(Me, seen[d.id]))' =>
                            Verify(Me, d.signature, UnixAt(Me, seen[d.id]))
      BY <2>1 DEF Verify, UnixAt
    <3>3. Judged'
      BY <2>1, <3>1, <3>2 DEF Judged, UnixAt
    <3> QED
      BY <2>4, <3>3
<1>9. ASSUME NEW n \in Nodes, Start(n) PROVE SentOnce' /\ Judged'
  <2>1. CASE n = Me
    <3>1. /\ DOMAIN seen' = {} /\ DOMAIN accepted' = {} /\ heard' = {}
          /\ clock' = clock /\ sent' = sent
      BY <1>9, <2>1 DEF Start
    <3> QED
      BY <3>1 DEF SentOnce, Judged, UnixAt
  <2>2. CASE n # Me
    <3>1. /\ seen' = seen /\ accepted' = accepted /\ heard' = heard /\ clock' = clock
          /\ sent' = sent /\ km'[Me] = km[Me]
      BY <1>3, <1>9, <2>2 DEF Start, filterVars, StartKeys, KeysSound, KeyTypeOK
    <3> QED
      BY <3>1 DEF SentOnce, Judged, UnixAt, Verify
  <2> QED
    BY <2>1, <2>2
<1>10. CASE Operate
  <2>1. sent' = {} /\ accepted' = accepted /\ heard' = heard /\ sent = {}
    BY <1>10 DEF Operate, filterVars
  <2> QED
    BY <2>1 DEF SentOnce, Judged
<1>11. CASE UNCHANGED trafficVars
  BY <1>11 DEF trafficVars, filterVars, keyVars, SentOnce, Judged, UnixAt, Verify
<1> QED
  BY <1>4, <1>5, <1>6, <1>7, <1>8, <1>9, <1>10, <1>11 DEF TrafficNext

(* The inductive invariant holds throughout.                               *)
LEMMA TrafficAlwaysSound == TrafficSpec => []TrafficSound
<1>1. TrafficInit => TrafficSound
  <2> SUFFICES ASSUME TrafficInit PROVE TrafficSound
    OBVIOUS
  <2>1. TypeOK /\ KeysSound /\ clock = 0
    BY InitFilterTypeOK, InitKeysSound DEF TrafficInit, Init
  <2>2. RecentRemembered /\ SweptInTime
    BY FilterAssumption DEF TrafficInit, Init, RecentRemembered, SweptInTime
  <2>3. TokensLast
    <3>1. waiting \in BOOLEAN /\ ~waiting
      BY DEF TrafficInit, InitAt
    <3>2. tokens = maxBurst /\ lastTime = 0 /\ nextTick = 0 + interval
      BY DEF TrafficInit, InitAt
    <3> QED
      BY <2>1, <3>1, <3>2, LimiterAssumption DEF TokensLast
  <2>4. SentOnce /\ Judged
    BY DEF TrafficInit, Init, SentOnce, Judged
  <2> QED
    BY <2>1, <2>2, <2>3, <2>4 DEF TrafficSound
<1> QED
  BY <1>1, StepTrafficSound, PTL DEF TrafficSpec

(* Under traffic, too, copies of a message that a daemon's filter lets     *)
(* pass are more than TTL apart (DuplicateFilter.Seen, cleanup).           *)
THEOREM TrafficAcceptedApart == TrafficSpec => AcceptedApart
<1>1. TrafficSound => [\A i \in IDs : Seen(i) /\ i \in DOMAIN accepted
                                        => clock - accepted[i] > TTL]_filterVars
  BY FilterAssumption DEF TrafficSound, TypeOK, RecentRemembered, Seen
<1> QED
  BY <1>1, TrafficAlwaysSound, PTL DEF AcceptedApart

(* Under traffic, too, and with any number of restarts, an ID stays in the *)
(* filter for less than twice TTL while no sweep is overdue (cleanup).     *)
THEOREM TrafficForgottenInTime == TrafficSpec => []ForgottenInTime
<1>1. TrafficSound => ForgottenInTime
  BY FilterAssumption DEF TrafficSound, TypeOK, SweptInTime, ForgottenInTime
<1> QED
  BY <1>1, TrafficAlwaysSound, PTL

(* No periodic broadcast is ever refused by the rate limiter (Allow,       *)
(* Announcer.Start), for any rate of at least one token a second, a burst  *)
(* of at least two and an interval of at least two seconds.                *)
THEOREM BroadcastsNeverRefused == TrafficSpec => []NeverRefused
<1>1. TrafficSound => NeverRefused
  <2> SUFFICES ASSUME TrafficSound, waiting PROVE Filled(clock) > 0
    BY DEF NeverRefused
  <2>1. TokensLast /\ TypeOK
    BY DEF TrafficSound
  <2> QED
    BY <2>1, BucketFilled DEF TokensLast
<1> QED
  BY <1>1, TrafficAlwaysSound, PTL

(* A daemon takes its own signatures (generateKeys, parseKeyData,          *)
(* loadTrustedPeers), provided that no two nodes were given one ID by      *)
(* hand: a peer with the node's own ID would replace its secret.           *)
THEOREM OwnMessagesAlwaysVerify ==
  ASSUME NodeIDsDistinct
  PROVE  TrafficSpec => []OwnMessagesVerify
<1>1. TrafficSound => OwnMessagesVerify
  BY DEF TrafficSound, KeysSound, ManagersSound, OwnMessagesVerify
<1> QED
  BY <1>1, TrafficAlwaysSound, PTL

(* A node takes the signatures of another only if its operator was told    *)
(* the other's secret (parseKeyData, loadTrustedPeers): a drawn secret is  *)
(* held by one node alone, and a node pairs its own secret with public     *)
(* keys that no other node signs with. Two nodes that were given one ID    *)
(* and one secret by hand would need no telling.                           *)
THEOREM TrustAlwaysNeedsSecret ==
  ASSUME NodeIDsDistinct
  PROVE  TrafficSpec => []TrustNeedsSecret
<1>1. TrafficSound => TrustNeedsSecret
  <2> SUFFICES ASSUME KeysSound, NEW n \in Nodes, NEW m \in Nodes, n # m, Started(m),
                      Trusts(n, m), km[m].secret \notin told[n]
               PROVE  FALSE
    BY DEF TrafficSound, TrustNeedsSecret
  <2> DEFINE q == [id |-> km[m].id, secret |-> km[m].secret]
  <2>1. q \in km[n].trusted /\ Started(n)
    BY DEF Trusts, Started, NotStarted
  <2>2. OwnKey(n, km[n], drawn) /\ OwnKey(m, km[m], drawn) /\ Known(n, q)
    BY <2>1 DEF KeysSound, ManagersSound
  <2>3. km[m].secret = km[n].secret
    BY <2>2 DEF Known
  <2>4. km[m].secret \notin 1..drawn
    BY <2>3 DEF KeysSound, NoneShared, Holds
  <2>5. km[m].id = km[n].id
    BY <2>2, <2>4 DEF Known
  <2> QED
    BY <2>2, <2>3, <2>4, <2>5 DEF OwnKey, NodeIDsDistinct
<1> QED
  BY <1>1, TrafficAlwaysSound, PTL

(* The filter suppresses no message that was not heard and would verify    *)
(* now, unless the sender's clock is ahead (Listener.Start, Verify).       *)
THEOREM NoneEverSuppressed == TrafficSpec => []NoneSuppressed
<1>1. TrafficSound => NoneSuppressed
  <2> SUFFICES ASSUME TrafficSound, NEW d \in sent, d.id \in DOMAIN seen,
                      Verify(Me, d.signature, UnixAt(Me, clock)),
                      Ahead[d.from] <= Ahead[Me]
               PROVE  d.id \in heard
    BY DEF NoneSuppressed, Verifies, Unix, UnixAt
  <2> DEFINE t == seen[d.id]
  <2>1. /\ clock \in Nat /\ Me \in Nodes /\ t \in Nat /\ t <= clock
        /\ d.from \in Nodes /\ d.signature.stamp \in Nat /\ replayTTL \in Nat
        /\ d.signature.stamp <= UnixAt(d.from, t)
    BY FilterAssumption, WindowAssumption, FilesAssumption
       DEF TrafficSound, TypeOK, SentOnce, Judged
  <2>2. UnixAt(d.from, t) <= UnixAt(Me, t) /\ UnixAt(d.from, t) \in Nat
    <3>1. /\ Ahead[d.from] \in Nat /\ Ahead[Me] \in Nat /\ TicksPerSecond \in Nat \ {0}
      BY <2>1, WindowAssumption, LimiterAssumption
    <3>2. t + Ahead[d.from] \in Int /\ t + Ahead[Me] \in Int
          /\ t + Ahead[d.from] <= t + Ahead[Me]
      BY <2>1, <3>1
    <3>3. UnixAt(d.from, t) <= UnixAt(Me, t)
      BY <3>1, <3>2, SecondsMonotone DEF UnixAt
    <3> QED
      BY <2>1, <3>3, UnixType
  <2>3. /\ UnixAt(Me, t) \in Nat /\ UnixAt(Me, clock) \in Nat
        /\ UnixAt(Me, t) <= UnixAt(Me, clock)
    BY <2>1, UnixType
  <2>4. Verify(Me, d.signature, UnixAt(Me, t))
    BY <2>1, <2>2, <2>3 DEF Verify
  <2> QED
    BY <2>4 DEF TrafficSound, Judged
<1> QED
  BY <1>1, TrafficAlwaysSound, PTL

(* A daemon hands a message on for a second time only in the last second   *)
(* of the time Verify allows it (DuplicateFilter.cleanup, Verify).         *)
THEOREM AlwaysHeardAgainOnlyAtTheEdge == TrafficSpec => HeardAgainOnlyAtTheEdge
<1>1. TrafficSound =>
        [\A d \in sent : Receive(d) /\ Verifies(d) /\ d.id \in heard
                           => Unix(Me) - d.signature.stamp = replayTTL]_trafficVars
  <2> SUFFICES ASSUME TrafficSound, NEW d \in sent, Receive(d), Verifies(d), d.id \in heard
               PROVE  Unix(Me) - d.signature.stamp = replayTTL
    OBVIOUS
  <2> DEFINE t == accepted[d.id]
  <2>1. /\ d.id \in DOMAIN accepted /\ d.id \notin DOMAIN seen
        /\ d.signature.stamp \in Nat /\ d.signature.stamp <= UnixAt(Me, t)
    BY DEF TrafficSound, SentOnce, Judged, Receive, Seen
  <2>2. /\ clock \in Nat /\ t \in Nat /\ TTL \in Nat /\ clock - t > TTL /\ Me \in Nodes
    BY <2>1, FilterAssumption, WindowAssumption DEF TrafficSound, TypeOK, RecentRemembered
  <2>3. /\ TTL = replayTTL * TicksPerSecond /\ replayTTL \in Nat
        /\ TicksPerSecond \in Nat \ {0} /\ Ahead[Me] \in Nat
    BY <2>2, WindowAssumption, FilesAssumption, LimiterAssumption
  <2>4. UnixAt(Me, t + TTL) = UnixAt(Me, t) + replayTTL
    <3>1. t + TTL + Ahead[Me] = (t + Ahead[Me]) + replayTTL * TicksPerSecond
      BY <2>2, <2>3
    <3> DEFINE x == t + Ahead[Me]
    <3>2. x \in Int /\ replayTTL \in Int /\ TicksPerSecond \in Nat \ {0}
      BY <2>2, <2>3
    <3> HIDE DEF x
    <3>3. (x + replayTTL * TicksPerSecond) \div TicksPerSecond
            = x \div TicksPerSecond + replayTTL
      BY <3>2, SecondsLater, Zenon
    <3> QED
      BY <3>1, <3>3 DEF UnixAt, x
  <2>5. t + TTL \in Nat /\ t + TTL <= clock
    BY <2>2
  <2>6. UnixAt(Me, t + TTL) <= UnixAt(Me, clock) /\ UnixAt(Me, t) \in Nat
        /\ UnixAt(Me, clock) \in Nat
    BY <2>2, <2>5, UnixType
  <2>7. Unix(Me) = UnixAt(Me, clock) /\ Unix(Me) - d.signature.stamp <= replayTTL
    BY DEF Unix, UnixAt, Verifies, Verify
  <2> DEFINE a == UnixAt(Me, t)
             b == UnixAt(Me, t + TTL)
             c == Unix(Me)
             w == d.signature.stamp
  <2>8. /\ a \in Nat /\ c \in Nat /\ w \in Nat /\ replayTTL \in Nat
        /\ b = a + replayTTL /\ b <= c /\ w <= a /\ c - w <= replayTTL
    BY <2>1, <2>3, <2>4, <2>6, <2>7
  <2> HIDE DEF a, b, c, w
  <2>9. c - w = replayTTL
    BY <2>8
  <2> QED
    BY <2>9 DEF c, w
<1> QED
  BY <1>1, TrafficAlwaysSound, PTL DEF HeardAgainOnlyAtTheEdge

=============================================================================

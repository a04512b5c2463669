----------------------------- MODULE KeyManager -----------------------------
(***************************************************************************)
(* Whose signatures a node takes: the key file and the file of trusted     *)
(* peers, as an operator edits them (`disco key', cmd/disco), what the     *)
(* daemon makes of them when it starts (internal/security/signing.go,      *)
(* loadTrustedPeers in internal/daemon/daemon.go), and Sign and Verify.    *)
(*                                                                         *)
(* Keys are numbered as random numbers are drawn: key k has the public     *)
(* part, or node ID, k and the secret part k. The secret of a message's    *)
(* HMAC stands for the signature. 0 is the empty string of a JSON field.   *)
(***************************************************************************)
EXTENDS Integers

CONSTANTS Nodes,
          SharedFiles,   \* key files written by hand: node |-> file
          MaxKeys,       \* bound: keys that are drawn
          replayTTL      \* 300 seconds

NoFile == [sharedSecret |-> 0, nodeID |-> 0, trustedPeers |-> {},
           privateKey |-> 0, publicKey |-> 0, publicKeys |-> {}]

\* NoFile stands for a file that is missing. Hand-written files have the
\* fields shared_secret, node_id and trusted_peers; as keys are drawn at
\* random, none of them is one that will be drawn.
HandWritten ==
  [sharedSecret : Nat \ (0..MaxKeys), nodeID : Nat \ (1..MaxKeys),
   trustedPeers : SUBSET [id : Nat, secret : Nat],
   privateKey : {0}, publicKey : {0}, publicKeys : {{}}]

ASSUME FilesAssumption ==
  /\ DOMAIN SharedFiles \subseteq Nodes
  /\ SharedFiles \in [DOMAIN SharedFiles -> HandWritten]
  /\ MaxKeys \in Nat /\ replayTTL \in Nat

VARIABLES file,    \* node |-> its key file (security.key_path)
          peers,   \* node |-> its peers file (security.trusted_peers): a set of
                   \* [id, secret]
          km,      \* node |-> the KeyManager of its daemon
          drawn,   \* number of keys drawn so far
          told     \* history: node |-> the others' secrets its operator was told

keyVars == <<file, peers, km, drawn, told>>

-----------------------------------------------------------------------------
(* The key manager of a daemon: [id, secret, trusted]; trusted is a set of *)
(* pairs [id, secret] with one pair to an ID.                              *)

\* AddTrustedPeerByID
AddPeer(trusted, p) == {q \in trusted : q.id # p.id} \cup {p}

generateKeys(k) ==
  [id |-> k, secret |-> k, trusted |-> {[id |-> k, secret |-> k]}]

\* Wrong on purpose: a public key is taken for the secret, too.
parseKeyDataPublic(f) ==
  IF f.sharedSecret # 0
  THEN [id |-> f.nodeID, secret |-> f.sharedSecret, trusted |-> f.trustedPeers]
  ELSE [id |-> f.publicKey, secret |-> f.privateKey,
        trusted |-> {[id |-> p, secret |-> p] : p \in f.publicKeys}]

\* In the format of `disco key', every public key goes with the own secret.
parseKeyData(f) ==
  IF f.sharedSecret # 0
  THEN [id |-> f.nodeID, secret |-> f.sharedSecret, trusted |-> f.trustedPeers]
  ELSE [id |-> f.publicKey, secret |-> f.privateKey,
        trusted |-> {[id |-> p, secret |-> f.privateKey] : p \in f.publicKeys}]

\* Wrong on purpose: the node does not add itself.
loadTrustedPeersOnly(m, ps) == [m EXCEPT !.trusted =
  {q \in @ : \A p \in ps : p.id # q.id} \cup ps]

\* The node itself, then the peers of the file.
loadTrustedPeers(m, ps) ==
  LET self == AddPeer(m.trusted, [id |-> m.id, secret |-> m.secret])
  IN  [m EXCEPT !.trusted = {q \in self : \A p \in ps : p.id # q.id} \cup ps]

\* Keys that are generated for want of a file are not saved.
loadOrGenerateKeys(n) ==
  IF file[n] = NoFile THEN generateKeys(drawn + 1) ELSE parseKeyData(file[n])

NewKeyManager(n) == loadTrustedPeers(loadOrGenerateKeys(n), peers[n])

NotStarted == [id |-> 0, secret |-> 0, trusted |-> {}]

Started(n) == km[n] # NotStarted

\* The daemon of node n starts, for the first time or again.
StartKeys(n) ==
  /\ file[n] = NoFile => drawn < MaxKeys
  /\ km' = [km EXCEPT ![n] = NewKeyManager(n)]
  /\ drawn' = IF file[n] = NoFile THEN drawn + 1 ELSE drawn
  /\ UNCHANGED <<file, peers, told>>

-----------------------------------------------------------------------------
(* The operator *)

\* The file `disco key' writes, with key k; it trusts itself.
GeneratedFile(k) ==
  [sharedSecret |-> 0, nodeID |-> 0, trustedPeers |-> {},
   privateKey |-> k, publicKey |-> k, publicKeys |-> {k}]

\* `disco key generate': whatever the file was, it is replaced.
Generate(n) ==
  /\ drawn < MaxKeys
  /\ drawn' = drawn + 1
  /\ file' = [file EXCEPT ![n] = GeneratedFile(drawn + 1)]
  /\ UNCHANGED <<peers, km, told>>

\* Load refuses a file without a key pair of the format of `disco key'.
Loads(n) == file[n].privateKey # 0

\* `disco key add-trusted', with the public key of m.
AddTrusted(n, m) ==
  /\ Loads(n) /\ file[m].publicKey # 0
  /\ file[m].publicKey \notin file[n].publicKeys
  /\ file' = [file EXCEPT ![n].publicKeys = @ \cup {file[m].publicKey}]
  /\ UNCHANGED <<peers, km, drawn, told>>

\* The operator copies the keys of m into the peers file of n.
CopyKeys(n, m) ==
  LET keys == parseKeyData(file[m])
      p == [id |-> keys.id, secret |-> keys.secret]
  IN  /\ file[m] # NoFile /\ p \notin peers[n]
      /\ peers' = [peers EXCEPT ![n] = AddPeer(@, p)]
      /\ told' = [told EXCEPT ![n] = @ \cup {p.secret}]
      /\ UNCHANGED <<file, km, drawn>>

KeyStep ==
  \E n, m \in Nodes : Generate(n) \/ (n # m /\ (AddTrusted(n, m) \/ CopyKeys(n, m)))

InitKeys ==
  /\ file = [n \in Nodes |-> IF n \in DOMAIN SharedFiles THEN SharedFiles[n] ELSE NoFile]
  /\ peers = [n \in Nodes |-> {}]
  /\ km = [n \in Nodes |-> NotStarted]
  /\ drawn = 0
  /\ told = [n \in Nodes |-> {p.secret : p \in file[n].trustedPeers}]

-----------------------------------------------------------------------------
Sign(n, time) == [signer |-> km[n].id, key |-> km[n].secret, stamp |-> time]

\* Wrong on purpose: old messages are taken.
VerifyAnyAge(n, s, time) ==
  /\ [id |-> s.signer, secret |-> s.key] \in km[n].trusted
  /\ time >= s.stamp

\* Wrong on purpose: a message of the current second is taken to be early.
VerifyLater(n, s, time) ==
  /\ [id |-> s.signer, secret |-> s.key] \in km[n].trusted
  /\ time - s.stamp <= replayTTL
  /\ time > s.stamp

Verify(n, s, time) ==
  /\ [id |-> s.signer, secret |-> s.key] \in km[n].trusted
  /\ time - s.stamp <= replayTTL
  /\ time >= s.stamp

-----------------------------------------------------------------------------
\* Node n takes what node m signs now.
Trusts(n, m) == [id |-> km[m].id, secret |-> km[m].secret] \in km[n].trusted

(* A daemon takes its own signatures, whatever its key file is and says    *)
(* and whoever it trusts: it lives on hearing its own broadcasts, which    *)
(* keep its record from expiring (generateKeys, parseKeyData,              *)
(* loadTrustedPeers).                                                      *)
OwnMessagesVerify == \A n \in Nodes : Started(n) => Trusts(n, n)

(* A node takes the signatures of another only if it was told the secret   *)
(* the other signs with, by the trusted_peers of its key file or by its    *)
(* peers file: the exchange of public keys with `disco key add-trusted'    *)
(* does not do it, nor do keys that a peer drew at its start (parseKeyData,*)
(* loadTrustedPeers).                                                      *)
TrustNeedsSecret ==
  \A n, m \in Nodes :
    n # m /\ Started(m) /\ Trusts(n, m) => km[m].secret \in told[n]

=============================================================================

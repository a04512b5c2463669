--------------------------- MODULE MCSignedTraffic ---------------------------
(* Two nodes: me, without a key file at first and with a clock half a      *)
(* second ahead, and a peer whose file was written by hand.                *)
EXTENDS SignedTraffic, TLC

CONSTANTS me, peer

MCSharedFiles ==
  peer :> [sharedSecret |-> 9, nodeID |-> 9, trustedPeers |-> {},
           privateKey |-> 0, publicKey |-> 0, publicKeys |-> {}]

MCAhead == me :> 1 @@ peer :> 0

=============================================================================

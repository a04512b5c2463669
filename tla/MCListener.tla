----------------------------- MODULE MCListener -----------------------------
(* The datagrams of the listener's runs.                                   *)
EXTENDS Listener

Dgram(i, k, dec, s, f, t) ==
  [id |-> i, kind |-> k, decodes |-> dec, sig |-> s, from |-> f, stamp |-> t]

\* An announcement that passes, one that is not signed and one that does not
\* decode; two of time, which fill the channel and the reader's hand.
MixedDatagrams ==
  {Dgram("a1", "announce", "all", "good", "host1", 1),
   Dgram("a2", "announce", "all", "none", "host2", 1),
   Dgram("a3", "announce", "nothing", "good", "host2", 1),
   Dgram("t1", "time", "all", "good", "gps1", 1),
   Dgram("t2", "time", "all", "good", "gps2", 1),
   Dgram("l1", "location", "all", "none", "gps1", 1)}

\* Two time sources and a host that signs nothing, beside a host whose
\* signature fails and a location that does not decode.
PlainDatagrams ==
  {Dgram("a1", "announce", "all", "none", "host1", 1),
   Dgram("a2", "announce", "all", "bad", "host2", 1),
   Dgram("t1", "time", "all", "none", "gps1", 1),
   Dgram("t2", "time", "all", "none", "gps2", 1),
   Dgram("l1", "location", "header", "none", "gps1", 1)}

=============================================================================

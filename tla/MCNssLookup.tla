---------------------------- MODULE MCNssLookup ----------------------------
(* Two lookups and a command on a socket with two slots.                    *)
EXTENDS NssLookup, TLC

CONSTANTS l1, l2, c1

Families == (l1 :> "v4") @@ (l2 :> "v6")
Lengths == (l1 :> 7) @@ (l2 :> 8)
\* Exactly what two addresses take, and a byte less.
Buffers == (l1 :> 48) @@ (l2 :> 79)

\* Four addresses, with one that is invalid among them and one too many;
\* a name that is refused, with no IPv4 address; one IPv6 address among more
\* than fit.
MCReplies ==
  {[goodName |-> TRUE, addrs |-> <<"v4", "invalid", "v6", "v6", "v4", "v6">>],
   [goodName |-> FALSE, addrs |-> <<"v6">>],
   [goodName |-> TRUE, addrs |-> <<"v4", "v4", "v4", "v6", "v4">>]}

=============================================================================

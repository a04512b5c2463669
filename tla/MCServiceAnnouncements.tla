----------------------- MODULE MCServiceAnnouncements -----------------------
(* A host that is configured to serve www as "web"; two commands that add  *)
(* a service each.                                                         *)
EXTENDS ServiceAnnouncements

MCConfigured == [n \in {"www"} |-> {"web"}]

MCRequest(c) ==
  IF c = "c1" THEN [name |-> "git", aliases |-> {"code"}]
              ELSE [name |-> "smtp", aliases |-> {"mail"}]

MCClients == {"c1", "c2"}

MCRequests == [c \in MCClients |-> MCRequest(c)]

=============================================================================

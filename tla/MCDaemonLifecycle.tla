-------------------------- MODULE MCDaemonLifecycle --------------------------
(* DaemonLifecycle as it stands; the cfg gives the bounds.                 *)
EXTENDS DaemonLifecycle

=============================================================================

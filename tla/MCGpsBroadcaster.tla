-------------------------- MODULE MCGpsBroadcaster --------------------------
(* A ladder of two steps, and a receiver that can write more lines than    *)
(* the loop reads.                                                         *)
EXTENDS GpsBroadcaster

MCLadder == << [upto |-> 1, wait |-> 1], [upto |-> 2, wait |-> 2] >>

=============================================================================

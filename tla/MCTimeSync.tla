----------------------------- MODULE MCTimeSync -----------------------------
(* Instances of TimeSync for TLC: three sources, of which one may lie.     *)
EXTENDS TimeSync

CONSTANTS s1, s2, s3

ThreeSources == {s1, s2, s3}
OneFaulty == {s3}
NoneFaulty == {}
\* Within the spread of 2 of an honest stamp of the same instant, out of the
\* spread of a later one.
Slow == {-2}
\* s2 may lose so many satellites that it cannot be used.
Uneven == [s \in ThreeSources |-> IF s = s2 THEN {1, 11} ELSE {1}]
Low == [s \in ThreeSources |-> {1}]
Behind == {-3}
Either == BOOLEAN
ForwardOnly == {FALSE}

=============================================================================

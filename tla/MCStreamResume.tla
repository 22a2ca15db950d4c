-------------------------- MODULE MCStreamResume ----------------------------
(* Instances of StreamResume: every stream and every replay is of one key. *)
EXTENDS StreamResume, TLC

CONSTANTS alice, p1, s1, s2

\* Other streams come with the ID of p1, or with one of their own.
FreshOrReused == [p \in Streams |-> IF p = p1 THEN {s1} ELSE {s1, s2}]

AllByAlice == [p \in Streams |-> alice]
\* The first frame alone is over the byte limit, the others have one byte.
OneLarge == [i \in 0..(MaxChunks + 2) |-> IF i = 0 THEN 0 ELSE i + 3]

AllForAlice == [r \in Readers |-> alice]
=============================================================================

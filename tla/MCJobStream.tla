------------------------------ MODULE MCJobStream -------------------------------
(* Instances of JobStream for TLC. *)
EXTENDS JobStream
CONSTANTS stdout, stderr, c1, c2

Both        == {stdout, stderr}
OnlyStdout  == {stdout}
ThreeAndOne == [p \in Both |-> IF p = stdout THEN 3 ELSE 1]
FourLines   == [p \in OnlyStdout |-> 4]
TwoLines    == [p \in OnlyStdout |-> 2]

OneClient  == {c1}
TwoClients == {c1, c2}
=============================================================================

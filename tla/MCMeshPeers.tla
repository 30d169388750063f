------------------------------ MODULE MCMeshPeers ------------------------------
(* Discovery reads three lines of peers.txt, two of them agents of one host. *)
EXTENDS MeshPeers

CONSTANTS a1, a2, b

Txt         == <<a1, b, a2>>
HostName(x) == IF x = b THEN "b" ELSE "a"
=============================================================================

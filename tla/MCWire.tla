------------------------------- MODULE MCWire -------------------------------
(* Instances of MeshWire for TLC. *)
EXTENDS MCMesh, MeshWire

(* The abstracted fields are all zero, or all different. *)
SomeRests ==
  {[f \in Abstracted |-> 0],
   [timestamp |-> 1, ttl |-> 2, dst |-> 3, srcIP |-> 4, dstIP |-> 5, port |-> 6, dstSeq |-> 7,
    lifetime |-> 8, code |-> 9]}
=============================================================================

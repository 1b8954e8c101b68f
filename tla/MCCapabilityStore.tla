---------------------------- MODULE MCCapabilityStore ----------------------------
(* Two identifiers, one of them in two versions, and files with a bad record. *)
EXTENDS CapabilityStore

A1 == [id |-> "a", version |-> 1]
A2 == [id |-> "a", version |-> 2]
B1 == [id |-> "b", version |-> 1]

MCCapabilities  == {A1, A2, B1}
FewCapabilities == {A1, B1}
MCEdits == {<<>>, <<B1, A1>>, <<A2, Bad, B1>>, <<A1, A2>>}
NoEdits == {}

ThreadSymmetry == Permutations(Threads)
================================================================================

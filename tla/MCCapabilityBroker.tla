------------------------ MODULE MCCapabilityBroker ------------------------
(* Small instances of CapabilityBroker for TLC: every bound is the size of  *)
(* a set of ids, and every set of ids that no liveness property looks at is *)
(* symmetric.                                                               *)
EXTENDS CapabilityBroker, TLC

CONSTANTS a1, p1

\* Every authority is prepared for the persona p1.
MCPersonaOf == [a \in Authorities |-> p1]

IdSymmetry ==
  Permutations(Contexts) \cup Permutations(Calls) \cup Permutations(Challenges)
    \cup Permutations(Owners) \cup Permutations(Arguments)
=============================================================================

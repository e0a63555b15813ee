-------------------------- MODULE MCManualConsent --------------------------
(* An instance of ManualConsent for TLC.                                    *)
EXTENDS ManualConsent, TLC

\* Requests, decisions and sessions differ in name only.
IdSymmetry ==
  Permutations(Requests) \cup Permutations(Decisions) \cup Permutations(Sessions)
    \cup Permutations(Authorities) \cup Permutations(Arguments)
=============================================================================

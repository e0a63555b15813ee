--------------------------- MODULE OwnerLifecycle ---------------------------
(***************************************************************************)
(* What a resource owner promises to those who wait for its retirement     *)
(* (src/resource-owner.ts): it lives, is retired once, and its retirement  *)
(* settles once.  CapabilityBroker keeps one such phase per owner;         *)
(* ResourceOwner is the code and implements this machine.                  *)
(*                                                                         *)
(*   live      issued, accepts resources                                   *)
(*   draining  retired, closers running, retirement not settled            *)
(*   released  every closer succeeded in time: retirement resolved         *)
(*   overdue   deadline exceeded: retirement rejected, closers running     *)
(*   failed    retirement rejected, no closer running                      *)
(***************************************************************************)
VARIABLE phase

Phases == {"live", "draining", "released", "overdue", "failed"}

Init == phase = "live"

Retire   == phase = "live" /\ phase' = "draining"
Release  == phase = "draining" /\ phase' = "released"
Fail     == phase = "draining" /\ phase' = "failed"
Overrun  == phase = "draining" /\ phase' = "overdue"
LateEnd  == phase = "overdue" /\ phase' = "failed"

Next == Retire \/ Release \/ Fail \/ Overrun \/ LateEnd

Spec == Init /\ [][Next]_phase
=============================================================================

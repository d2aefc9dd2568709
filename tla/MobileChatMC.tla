---------------------------- MODULE MobileChatMC ----------------------------
(* Instances of MobileChat for TLC.  Symmetry is used for safety only.      *)
EXTENDS MobileChat, TLC

Symmetry == Permutations(Deliveries) \cup Permutations(Payloads)
=============================================================================

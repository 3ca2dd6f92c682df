----------------------------- MODULE MCRadioPower -----------------------------
(* RadioPower for TLC: two phones (ro.telephony.sim.count=2).              *)
EXTENDS RadioPower, TLC

Symmetry == Permutations(Phone) \cup Permutations(Caller)
=============================================================================

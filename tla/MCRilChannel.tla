---------------------------- MODULE MCRilChannel -------------------------------
(* Small instances of RilChannel.  Serials are interchangeable: nothing    *)
(* compares them, and each is used for one request.  So are sessions.      *)
EXTENDS RilChannel, TLC

Symmetry == Permutations(Serial) \cup Permutations(Session)
================================================================================

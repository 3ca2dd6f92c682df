------------------------------ MODULE MCDataCalls ------------------------------
(* Instances of DataCalls for TLC.                                         *)
EXTENDS DataCalls
=============================================================================

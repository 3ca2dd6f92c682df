-------------------------- MODULE MCEmergencyNumbers --------------------------
(* EmergencyNumbers for TLC.  "s" and "t" are numbers of the SIM, "a" is   *)
(* on the SIM, a CTA number and in the file for both cases, "z" in the     *)
(* file for the case without a SIM, and "c" is a CTA number.               *)
EXTENDS EmergencyNumbers

MCXml == <<[ecc |-> "z", cat |-> 2, cond |-> "ECC_NO_SIM"],
           [ecc |-> "a", cat |-> 2, cond |-> "ECC_NO_SIM"],
           [ecc |-> "a", cat |-> 1, cond |-> "ECC_ALWAYS"]>>
MCCtaNumbers == <<"a", "c">>
MCSimLists == {<<>>, <<"s", "a", "t">>}
MCNetLists == {<<>>, [n \in {"s"} |-> 3]}
MCAddress == {[num |-> "s", sep |-> TRUE], [num |-> "z", sep |-> FALSE]}
=============================================================================

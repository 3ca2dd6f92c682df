------------------------------ MODULE MCMrdump ---------------------------------
(* Status texts: every one that starts with a status and has up to two     *)
(* more lines, known and unknown.                                          *)
EXTENDS Mrdump, SequencesExt

More == {Line("OUTPUT", "EXT4_DATA"), Line("OUTPUT", "VFAT_INT_STORAGE"),
         Line("OUTPUT", "?"), Line("MODE", "m1"), Line("MODE", "m2")}
MCStatuses ==
  {<<Line("OK", "")>> \o s : s \in BoundedSeq(More, 2)}
    \cup {<<Line("NONE", "")>>, <<Line("FAILED", "")>>}
Symmetry == Permutations(Proc)
================================================================================

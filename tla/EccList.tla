-------------------------------- MODULE EccList --------------------------------
(***************************************************************************)
(* The lists of emergency numbers of MtkEccList.java, as operators: the    *)
(* customized list read from ecc_list.xml, the list published in a system  *)
(* property, and the look-ups of a dialled address.                        *)
(*                                                                         *)
(* A number is an opaque value.  An entry of the customized list is        *)
(* [ecc, cat, cond]; the empty property is the empty sequence.  A dialled  *)
(* address is [num, sep]: sep says that it contains separators, which      *)
(* extractNetworkPortionAlt removes.  A trailing "+" never changes an      *)
(* answer and is not modelled.                                             *)
(***************************************************************************)
EXTENDS Sequences, FiniteSetsExt

CONSTANTS
  Number,       \* the emergency numbers there are
  CtaNumbers    \* "120", "122", "110", "119" in the code

ASSUME CtaAssumption == CtaNumbers \in Seq(Number)

Conditions == {"ECC_NO_SIM", "ECC_ALWAYS", "ECC_FOR_MMI"}
EccEntry == [ecc: Number, cat: Nat, cond: Conditions]

-----------------------------------------------------------------------------
(* parseEccList: a CTA number replaces the first entry for it or is added. *)

CtaEntry(n) == [ecc |-> n, cat |-> 0, cond |-> "ECC_FOR_MMI"]

AddCta(list, n) ==
  LET found == {i \in DOMAIN list : list[i].ecc = n}
  IN  IF found = {} THEN Append(list, CtaEntry(n)) ELSE [list EXCEPT ![Min(found)] = CtaEntry(n)]

AddCtaNumbers(xml) ==
  LET added[i \in 0 .. Len(CtaNumbers)] ==
        IF i = 0 THEN xml ELSE AddCta(added[i - 1], CtaNumbers[i])
  IN  added[Len(CtaNumbers)]

(* All outcomes: the whole file, or an exception after some of its entries *)
(* (none if the file is missing), which also skips the CTA numbers.        *)
parseEccList(xml, sIsCtaSet) ==
  {IF sIsCtaSet THEN AddCtaNumbers(xml) ELSE xml}
    \cup {SubSeq(xml, 1, k) : k \in 0 .. Len(xml)}

-----------------------------------------------------------------------------
(* updateEmergencyNumbersProperty, for one of the two properties.          *)

(* The numbers of the entries with one of the conditions.                  *)
Numbers(list, Cond) ==
  LET nums[i \in 0 .. Len(list)] ==
        IF i = 0 THEN <<>>
        ELSE IF list[i].cond \in Cond THEN Append(nums[i - 1], list[i].ecc)
        ELSE nums[i - 1]
  IN  nums[Len(list)]

FixedList(custom) == Numbers(custom, Conditions \ {"ECC_NO_SIM"})
FixedListNoSim(custom) == Numbers(custom, {"ECC_NO_SIM"})

removeAll(list, other) ==
  LET kept[i \in 0 .. Len(list)] ==
        IF i = 0 THEN <<>>
        ELSE IF list[i] \in other THEN kept[i - 1]
        ELSE Append(kept[i - 1], list[i])
  IN  kept[Len(list)]

(* list.removeAll(other); list.addAll(other)                               *)
MoveToEnd(list, other) == removeAll(list, Range(other)) \o other

Merged(numbers, custom) ==
  LET withFixed == MoveToEnd(numbers, FixedList(custom))
  IN  IF numbers = <<>> THEN MoveToEnd(withFixed, FixedListNoSim(custom)) ELSE withFixed

-----------------------------------------------------------------------------
(* The look-ups.  net is mHashMapForNetworkEccCategory, a function from    *)
(* numbers to categories.                                                  *)

extractNetworkPortionAlt(a) == [a EXCEPT !.sep = FALSE]

Equals(n, a) == n = a.num /\ ~a.sep

InNetwork(net, a) == \E n \in DOMAIN net : Equals(n, a)

InList(numbers, a) == \E n \in Range(numbers) : Equals(n, a)

(* Step 3 of isEmergencyNumberExt: with a SIM, all but the no-SIM numbers. *)
InCustom(custom, bSIMInserted, a) ==
  \E e \in Range(custom) :
    /\ bSIMInserted => e.cond # "ECC_NO_SIM"
    /\ Equals(e.ecc, a)

getServiceCategoryFromEcc(net, custom, a) ==
  LET found == {i \in DOMAIN custom : Equals(custom[i].ecc, a)}
  IN  IF InNetwork(net, a) THEN net[a.num]
      ELSE IF found # {} THEN custom[Min(found)].cat
      ELSE 0
=============================================================================

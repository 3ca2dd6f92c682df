------------------------- MODULE EmergencyNumbersProofs -------------------------
(***************************************************************************)
(* Proofs about the emergency numbers: types, the published lists are      *)
(* exact, and without a SIM every customized number is recognised, for all *)
(* lists, addresses and bounds.                                            *)
(*                                                                         *)
(* The loops of EccList are recursive functions over a list.  The first    *)
(* part justifies recursion and induction up to a number from the least    *)
(* number principle; the second says what each loop computes; the third    *)
(* is the inductive invariant.                                             *)
(***************************************************************************)
EXTENDS EmergencyNumbers, WellFoundedInduction, TLAPS

-----------------------------------------------------------------------------
(* Induction and recursion up to a number.                                 *)

(* Every non-empty set of natural numbers has a least element.             *)
LEMMA LeastNumber ==
  ASSUME NEW S, S \subseteq Nat, S # {}
  PROVE  \E x \in S : \A y \in S : x <= y
<1> DEFINE R == OpToRel(<, Nat)
<1>1. IsWellFoundedOn(R, Nat)
  BY NatLessThanWellFounded, Zenon
<1>2. \A x, y \in Nat : x < y => <<x, y>> \in R
  BY DEF OpToRel
<1> HIDE DEF R
<1>3. PICK x \in S : \A y \in S : <<y, x>> \notin R
  BY <1>1, WFMin, Zenon
<1>4. ASSUME NEW y \in S PROVE x <= y
  <2>1. x \in Nat /\ y \in Nat /\ ~(y < x)
    BY <1>2, <1>3, Zenon
  <2> QED BY <2>1
<1> QED BY <1>4

(* Induction up to n, for a set instead of a predicate.                    *)
LEMMA Induction ==
  ASSUME NEW n \in Nat, NEW S, 0 \in S, \A i \in 1 .. n : i - 1 \in S => i \in S
  PROVE  0 .. n \subseteq S
<1> DEFINE bad == (0 .. n) \ S
<1> SUFFICES ASSUME bad # {} PROVE FALSE
  OBVIOUS
<1>1. bad \subseteq Nat
  OBVIOUS
<1>2. PICK x \in bad : \A y \in bad : x <= y
  <2> HIDE DEF bad
  <2> QED BY <1>1, LeastNumber, Zenon
<1>3. x \in 1 .. n /\ x - 1 \in S
  BY <1>2
<1> QED BY <1>3

(* f is the sequence of values of a loop of n turns that starts with b and *)
(* whose turn i makes g[i][t] of t.                                        *)
Loop(n, T, g) == g \in [1 .. n -> [T -> T]]
Runs(n, T, b, g, f) ==
  f \in [0 .. n -> T] /\ f[0] = b /\ \A i \in 1 .. n : f[i] = g[i][f[i - 1]]

(* Such a loop has its values: what makes the recursive functions of       *)
(* EccList well defined.                                                   *)
LEMMA Recursion ==
  ASSUME NEW n \in Nat, NEW T, NEW b \in T, NEW g, Loop(n, T, g)
  PROVE  \E f : Runs(n, T, b, g, f)
<1> USE DEF Loop
<1> DEFINE Upto(k, f) == f[0] = b /\ \A i \in 1 .. k : f[i] = g[i][f[i - 1]]
           S == {k \in 0 .. n : \E f \in [0 .. n -> T] : Upto(k, f)}
<1>1. 0 \in S
  <2> DEFINE h == [i \in 0 .. n |-> b]
  <2>1. h \in [0 .. n -> T] /\ Upto(0, h)
    OBVIOUS
  <2> HIDE DEF h, Upto
  <2> QED BY <2>1
<1>2. ASSUME NEW k \in 1 .. n, k - 1 \in S PROVE k \in S
  <2>1. PICK f \in [0 .. n -> T] : Upto(k - 1, f)
    BY <1>2
  <2> DEFINE h == [f EXCEPT ![k] = g[k][f[k - 1]]]
  <2>2. k \in 0 .. n /\ k - 1 \in 0 .. n /\ f[k - 1] \in T
    OBVIOUS
  <2>3. h \in [0 .. n -> T]
    BY <2>2
  <2>4. h[k] = g[k][h[k - 1]] /\ h[0] = b
    BY <2>1, <2>2
  <2>5. ASSUME NEW i \in 1 .. k - 1 PROVE h[i] = g[i][h[i - 1]]
    <3>1. i \in 0 .. n /\ i - 1 \in 0 .. n /\ i # k /\ i - 1 # k
      OBVIOUS
    <3>2. h[i] = f[i] /\ h[i - 1] = f[i - 1]
      BY <3>1
    <3> QED BY <2>1, <3>2
  <2>6. Upto(k, h)
    <3> HIDE DEF h
    <3> QED BY <2>4, <2>5
  <2> HIDE DEF h, Upto
  <2> QED BY <2>2, <2>3, <2>6
<1>3. n \in S
  <2> HIDE DEF S
  <2>1. 0 .. n \subseteq S BY <1>1, <1>2, Induction, Zenon
  <2> QED BY <2>1
<1> QED BY <1>3 DEF Runs

-----------------------------------------------------------------------------
(* What the operators of EccList compute.                                  *)

(* What Append does to the elements of a sequence, and when it keeps them  *)
(* distinct (ArrayList.add).                                               *)
LEMMA AppendSet ==
  ASSUME NEW S, NEW s \in Seq(S), NEW e \in S
  PROVE  /\ Append(s, e) \in Seq(S) /\ Range(Append(s, e)) = Range(s) \cup {e}
         /\ IsInjective(s) /\ e \notin Range(s) => IsInjective(Append(s, e))
<1> DEFINE t == Append(s, e)
<1>1. /\ t \in Seq(S) /\ DOMAIN t = 1 .. Len(s) + 1 /\ DOMAIN s = 1 .. Len(s) /\ Len(s) \in Nat
      /\ \A i \in 1 .. Len(s) : t[i] = s[i]
      /\ t[Len(s) + 1] = e
  OBVIOUS
<1> HIDE DEF t
<1>2. Range(t) = Range(s) \cup {e}
  <2>1. ASSUME NEW x \in Range(t) PROVE x \in Range(s) \cup {e}
    BY <1>1, <2>1 DEF Range
  <2>2. ASSUME NEW x \in Range(s) \cup {e} PROVE x \in Range(t)
    BY <1>1, <2>2 DEF Range
  <2> QED BY <2>1, <2>2
<1>3. ASSUME IsInjective(s), e \notin Range(s) PROVE IsInjective(t)
  BY <1>1, <1>3 DEF IsInjective, Range
<1> QED BY <1>1, <1>2, <1>3 DEF t

(* The same for the concatenation of two sequences (addAll).               *)
LEMMA ConcatSet ==
  ASSUME NEW S, NEW s \in Seq(S), NEW t \in Seq(S)
  PROVE  /\ s \o t \in Seq(S) /\ Range(s \o t) = Range(s) \cup Range(t)
         /\ IsInjective(s) /\ IsInjective(t) /\ Range(s) \cap Range(t) = {} => IsInjective(s \o t)
<1> DEFINE u == s \o t
<1>1. /\ u \in Seq(S) /\ DOMAIN u = 1 .. Len(s) + Len(t)
      /\ DOMAIN s = 1 .. Len(s) /\ DOMAIN t = 1 .. Len(t) /\ Len(s) \in Nat /\ Len(t) \in Nat
      /\ \A i \in 1 .. Len(s) + Len(t) : u[i] = IF i <= Len(s) THEN s[i] ELSE t[i - Len(s)]
  OBVIOUS
<1> HIDE DEF u
<1>2. \A i \in 1 .. Len(t) : i + Len(s) \in DOMAIN u /\ u[i + Len(s)] = t[i]
  BY <1>1
<1>3. \A i \in 1 .. Len(s) : i \in DOMAIN u /\ u[i] = s[i]
  BY <1>1
<1>4. Range(u) = Range(s) \cup Range(t)
  <2>1. ASSUME NEW x \in Range(u) PROVE x \in Range(s) \cup Range(t)
    <3>1. PICK i \in 1 .. Len(s) + Len(t) : x = u[i]
      BY <1>1 DEF Range
    <3>2. CASE i <= Len(s)
      <4>1. i \in DOMAIN s /\ x = s[i]
        BY <1>1, <3>1, <3>2
      <4> QED BY <4>1 DEF Range
    <3>3. CASE i > Len(s)
      <4>1. i - Len(s) \in DOMAIN t /\ x = t[i - Len(s)]
        BY <1>1, <3>1, <3>3
      <4> QED BY <4>1 DEF Range
    <3> QED BY <1>1, <3>2, <3>3
  <2>2. ASSUME NEW x \in Range(s) PROVE x \in Range(u)
    BY <1>1, <1>3 DEF Range
  <2>3. ASSUME NEW x \in Range(t) PROVE x \in Range(u)
    BY <1>1, <1>2, Zenon DEF Range
  <2> QED BY <2>1, <2>2, <2>3
<1>5. ASSUME IsInjective(s), IsInjective(t), Range(s) \cap Range(t) = {} PROVE IsInjective(u)
  <2> SUFFICES ASSUME NEW i \in DOMAIN u, NEW j \in DOMAIN u, u[i] = u[j] PROVE i = j
    BY DEF IsInjective
  <2>1. \A k \in DOMAIN u : \/ k \in DOMAIN s /\ u[k] = s[k] /\ k <= Len(s)
                            \/ k - Len(s) \in DOMAIN t /\ u[k] = t[k - Len(s)] /\ k > Len(s)
    BY <1>1
  <2>2. \A k \in DOMAIN s, l \in DOMAIN t : s[k] # t[l]
    BY <1>5 DEF Range
  <2>3. CASE i \in DOMAIN s /\ j \in DOMAIN s
    BY <1>1, <1>3, <1>5, <2>3 DEF IsInjective
  <2>4. CASE i \notin DOMAIN s /\ j \notin DOMAIN s
    <3>1. i - Len(s) \in DOMAIN t /\ j - Len(s) \in DOMAIN t /\ t[i - Len(s)] = t[j - Len(s)]
      BY <2>1, <2>4
    <3>2. i - Len(s) = j - Len(s)
      BY <1>5, <3>1 DEF IsInjective
    <3> QED BY <1>1, <3>2
  <2> QED BY <2>1, <2>2, <2>3, <2>4
<1> QED BY <1>1, <1>4, <1>5 DEF u

(* Numbers (the loop of updateEmergencyNumbersProperty over the customized *)
(* list) collects the numbers of the entries with one of the conditions,   *)
(* and no others.                                                          *)
LEMMA NumbersOf ==
  ASSUME NEW list \in Seq(EccEntry), NEW Cond
  PROVE  /\ Numbers(list, Cond) \in Seq(Number)
         /\ Range(Numbers(list, Cond)) = {e.ecc : e \in {x \in Range(list) : x.cond \in Cond}}
<1> DEFINE n == Len(list)
           T == Seq(Number)
           Step(i, t) == IF list[i].cond \in Cond THEN Append(t, list[i].ecc) ELSE t
           Def(f) == f = [i \in 0 .. n |-> IF i = 0 THEN <<>> ELSE Step(i, f[i - 1])]
           nums == CHOOSE f : Def(f)
           Before(i) == {e.ecc : e \in {x \in {list[j] : j \in 1 .. i} : x.cond \in Cond}}
<1>1. n \in Nat /\ DOMAIN list = 1 .. n /\ Range(list) = {list[j] : j \in 1 .. n}
  BY DEF Range
<1>2. \A i \in 1 .. n : list[i].ecc \in Number
  <2>1. \A i \in 1 .. n : list[i] \in EccEntry BY <1>1
  <2> QED BY <2>1 DEF EccEntry
<1>3. Numbers(list, Cond) = nums[n]
  BY DEF Numbers
<1> HIDE DEF n
<1>4. ASSUME NEW i \in 1 .. n, NEW t \in T
      PROVE  /\ Step(i, t) \in T
             /\ Range(t) = Before(i - 1) => Range(Step(i, t)) = Before(i)
  <2>1. {list[j] : j \in 1 .. i} = {list[j] : j \in 1 .. i - 1} \cup {list[i]}
    BY <1>1
  <2>2. Before(i) = Before(i - 1) \cup (IF list[i].cond \in Cond THEN {list[i].ecc} ELSE {})
    BY <2>1
  <2>3. Append(t, list[i].ecc) \in T /\ Range(Append(t, list[i].ecc)) = Range(t) \cup {list[i].ecc}
    BY <1>2, AppendSet
  <2> HIDE DEF Before, T
  <2> QED BY <2>2, <2>3
<1>5. <<>> \in T /\ Range(<<>>) = Before(0)
  BY DEF Range
<1> HIDE DEF Step, T, Before
<1>6. \E f : Def(f)
  <2> DEFINE g == [i \in 1 .. n |-> [t \in T |-> Step(i, t)]]
  <2>1. Loop(n, T, g)
    BY <1>4 DEF Loop
  <2>2. \A i \in 1 .. n, t \in T : g[i][t] = Step(i, t)
    OBVIOUS
  <2> HIDE DEF g
  <2>3. PICK f : Runs(n, T, <<>>, g, f)
    BY <1>1, <1>5, <2>1, Recursion
  <2>4. \A i \in 1 .. n : f[i - 1] \in T
    BY <1>1, <2>3 DEF Runs
  <2>5. Def(f)
    BY <1>1, <2>2, <2>3, <2>4 DEF Runs
  <2> QED BY <2>5, Zenon
<1>7. Def(nums)
  <2> HIDE DEF Def
  <2> QED BY <1>6
<1> HIDE DEF nums
<1>8. nums[0] = <<>> /\ \A i \in 1 .. n : nums[i] = Step(i, nums[i - 1])
  BY <1>1, <1>7
<1> DEFINE S == {i \in 0 .. n : nums[i] \in T /\ Range(nums[i]) = Before(i)}
<1>9. 0 \in S
  BY <1>1, <1>5, <1>8
<1>10. ASSUME NEW i \in 1 .. n, i - 1 \in S PROVE i \in S
  BY <1>1, <1>4, <1>8, <1>10
<1>11. 0 .. n \subseteq S
  <2> HIDE DEF S
  <2> QED BY <1>1, <1>9, <1>10, Induction, Zenon
<1>12. nums[n] \in T /\ Range(nums[n]) = Before(n)
  BY <1>1, <1>11
<1> QED BY <1>1, <1>3, <1>12 DEF T, Before

(* removeAll removes every occurrence of the other list's numbers, keeps   *)
(* the rest, and repeats nothing.                                          *)
LEMMA RemovedOf ==
  ASSUME NEW list \in Seq(Number), NEW other
  PROVE  /\ removeAll(list, other) \in Seq(Number)
         /\ Range(removeAll(list, other)) = Range(list) \ other
         /\ IsInjective(list) => IsInjective(removeAll(list, other))
<1> DEFINE n == Len(list)
           T == Seq(Number)
           Step(i, t) == IF list[i] \in other THEN t ELSE Append(t, list[i])
           Def(f) == f = [i \in 0 .. n |-> IF i = 0 THEN <<>> ELSE Step(i, f[i - 1])]
           kept == CHOOSE f : Def(f)
           Good(i, t) == /\ Range(t) = {list[j] : j \in 1 .. i} \ other
                         /\ IsInjective(list) => IsInjective(t)
<1>1. n \in Nat /\ DOMAIN list = 1 .. n /\ Range(list) = {list[j] : j \in 1 .. n}
      /\ \A i \in 1 .. n : list[i] \in Number
  BY DEF Range
<1>2. removeAll(list, other) = kept[n]
  BY DEF removeAll
<1> HIDE DEF n
<1>3. ASSUME NEW i \in 1 .. n, NEW t \in T
      PROVE  Step(i, t) \in T /\ (Good(i - 1, t) => Good(i, Step(i, t)))
  <2>1. {list[j] : j \in 1 .. i} = {list[j] : j \in 1 .. i - 1} \cup {list[i]}
    BY <1>1
  <2>2. IsInjective(list) => list[i] \notin {list[j] : j \in 1 .. i - 1}
    BY <1>1 DEF IsInjective
  <2>3. /\ Append(t, list[i]) \in T /\ Range(Append(t, list[i])) = Range(t) \cup {list[i]}
        /\ IsInjective(t) /\ list[i] \notin Range(t) => IsInjective(Append(t, list[i]))
    BY <1>1, AppendSet
  <2> HIDE DEF T
  <2> QED BY <2>1, <2>2, <2>3
<1>4. <<>> \in T /\ Good(0, <<>>)
  BY DEF Range, IsInjective
<1> HIDE DEF Step, T, Good
<1>5. \E f : Def(f)
  <2> DEFINE g == [i \in 1 .. n |-> [t \in T |-> Step(i, t)]]
  <2>1. Loop(n, T, g)
    BY <1>3 DEF Loop
  <2>2. \A i \in 1 .. n, t \in T : g[i][t] = Step(i, t)
    OBVIOUS
  <2> HIDE DEF g
  <2>3. PICK f : Runs(n, T, <<>>, g, f)
    BY <1>1, <1>4, <2>1, Recursion
  <2>4. \A i \in 1 .. n : f[i - 1] \in T
    BY <1>1, <2>3 DEF Runs
  <2>5. Def(f)
    BY <1>1, <2>2, <2>3, <2>4 DEF Runs
  <2> QED BY <2>5, Zenon
<1>6. Def(kept)
  <2> HIDE DEF Def
  <2> QED BY <1>5
<1> HIDE DEF kept
<1>7. kept[0] = <<>> /\ \A i \in 1 .. n : kept[i] = Step(i, kept[i - 1])
  BY <1>1, <1>6
<1> DEFINE S == {i \in 0 .. n : kept[i] \in T /\ Good(i, kept[i])}
<1>8. 0 \in S
  BY <1>1, <1>4, <1>7
<1>9. ASSUME NEW i \in 1 .. n, i - 1 \in S PROVE i \in S
  BY <1>1, <1>3, <1>7, <1>9
<1>10. 0 .. n \subseteq S
  <2> HIDE DEF S
  <2> QED BY <1>1, <1>8, <1>9, Induction, Zenon
<1>11. kept[n] \in T /\ Good(n, kept[n])
  BY <1>1, <1>10
<1> QED BY <1>1, <1>2, <1>11 DEF T, Good

(* The loop of parseEccList over the CTA numbers keeps a list of entries   *)
(* one.                                                                    *)
LEMMA CtaEntries ==
  ASSUME NEW xml \in Seq(EccEntry) PROVE AddCtaNumbers(xml) \in Seq(EccEntry)
<1> DEFINE n == Len(CtaNumbers)
           T == Seq(EccEntry)
           Step(i, t) == AddCta(t, CtaNumbers[i])
           Def(f) == f = [i \in 0 .. n |-> IF i = 0 THEN xml ELSE Step(i, f[i - 1])]
           added == CHOOSE f : Def(f)
<1>1. n \in Nat /\ \A i \in 1 .. n : CtaNumbers[i] \in Number
  BY CtaAssumption
<1>2. AddCtaNumbers(xml) = added[n]
  BY DEF AddCtaNumbers
<1> HIDE DEF n
<1>3. ASSUME NEW i \in 1 .. n, NEW t \in T PROVE Step(i, t) \in T
  <2> DEFINE e == CtaEntry(CtaNumbers[i])
             found == {j \in DOMAIN t : t[j].ecc = CtaNumbers[i]}
  <2>1. e \in EccEntry
    BY <1>1 DEF CtaEntry, EccEntry, Conditions
  <2> HIDE DEF e
  <2>2. Append(t, e) \in T /\ \A j \in 1 .. Len(t) : [t EXCEPT ![j] = e] \in T
    BY <2>1
  <2>3. CASE found = {}
    <3>1. Step(i, t) = Append(t, e)
      BY <2>3 DEF AddCta, e
    <3> QED BY <2>2, <3>1
  <2>4. CASE found # {}
    <3>1. found \subseteq Nat OBVIOUS
    <3>2. PICK j \in found : \A k \in found : j <= k
      BY <2>4, <3>1, LeastNumber, Zenon
    <3>3. Min(found) \in found
      BY <3>2 DEF Min
    <3>4. Step(i, t) = [t EXCEPT ![Min(found)] = e]
      BY <2>4, <3>3 DEF AddCta, e
    <3> QED BY <2>2, <3>3, <3>4
  <2> QED BY <2>3, <2>4
<1> HIDE DEF Step, T
<1>4. xml \in T
  BY DEF T
<1>5. \E f : Def(f)
  <2> DEFINE g == [i \in 1 .. n |-> [t \in T |-> Step(i, t)]]
  <2>1. Loop(n, T, g)
    BY <1>3 DEF Loop
  <2>2. \A i \in 1 .. n, t \in T : g[i][t] = Step(i, t)
    OBVIOUS
  <2> HIDE DEF g
  <2>3. PICK f : Runs(n, T, xml, g, f)
    BY <1>1, <1>4, <2>1, Recursion
  <2>4. \A i \in 1 .. n : f[i - 1] \in T
    BY <1>1, <2>3 DEF Runs
  <2>5. Def(f)
    BY <1>1, <2>2, <2>3, <2>4 DEF Runs
  <2> QED BY <2>5, Zenon
<1>6. Def(added)
  <2> HIDE DEF Def
  <2> QED BY <1>5
<1> HIDE DEF added
<1>7. added[0] = xml /\ \A i \in 1 .. n : added[i] = Step(i, added[i - 1])
  BY <1>1, <1>6
<1> DEFINE S == {i \in 0 .. n : added[i] \in T}
<1>8. 0 \in S
  BY <1>1, <1>4, <1>7
<1>9. ASSUME NEW i \in 1 .. n, i - 1 \in S PROVE i \in S
  BY <1>1, <1>3, <1>7, <1>9
<1>10. 0 .. n \subseteq S
  <2> HIDE DEF S
  <2> QED BY <1>1, <1>8, <1>9, Induction, Zenon
<1>11. added[n] \in T
  BY <1>1, <1>10
<1> QED BY <1>2, <1>11 DEF T

(* Whatever the outcome of parseEccList, the customized list is a list of  *)
(* entries.                                                                *)
LEMMA ParsedEntries ==
  ASSUME NEW cta \in BOOLEAN, NEW list \in parseEccList(Xml, cta) PROVE list \in Seq(EccEntry)
<1>1. Xml \in Seq(EccEntry) /\ AddCtaNumbers(Xml) \in Seq(EccEntry)
  BY XmlAssumption, CtaEntries
<1>2. ASSUME NEW k \in 0 .. Len(Xml) PROVE SubSeq(Xml, 1, k) \in Seq(EccEntry)
  BY <1>1
<1> QED BY <1>1, <1>2 DEF parseEccList

(* A list without elements is the empty list.                              *)
LEMMA EmptySet ==
  ASSUME NEW S, NEW s \in Seq(S) PROVE Range(s) = {} <=> s = <<>>
<1>1. ASSUME s # <<>> PROVE s[1] \in Range(s)
  BY <1>1 DEF Range
<1> QED BY <1>1 DEF Range

(* removeAll followed by addAll: the union of the two lists, without a     *)
(* repetition unless one of them has one.                                  *)
LEMMA MovedToEnd ==
  ASSUME NEW list \in Seq(Number), NEW other \in Seq(Number)
  PROVE  /\ MoveToEnd(list, other) \in Seq(Number)
         /\ Range(MoveToEnd(list, other)) = Range(list) \cup Range(other)
         /\ IsInjective(list) /\ IsInjective(other) => IsInjective(MoveToEnd(list, other))
<1> DEFINE r == removeAll(list, Range(other))
<1>1. r \in Seq(Number) /\ Range(r) = Range(list) \ Range(other) /\ (IsInjective(list) => IsInjective(r))
  BY RemovedOf
<1> HIDE DEF r
<1>2. /\ r \o other \in Seq(Number) /\ Range(r \o other) = Range(r) \cup Range(other)
      /\ IsInjective(r) /\ IsInjective(other) /\ Range(r) \cap Range(other) = {}
           => IsInjective(r \o other)
  BY <1>1, ConcatSet
<1>3. MoveToEnd(list, other) = r \o other
  BY DEF MoveToEnd, r
<1> QED BY <1>1, <1>2, <1>3

(* What updateEmergencyNumbersProperty makes of the numbers it read:       *)
(* those, the customized ones, and if there were none also the customized  *)
(* ones for that case.                                                     *)
LEMMA MergedOf ==
  ASSUME NEW numbers \in Seq(Number), NEW custom \in Seq(EccEntry)
  PROVE  /\ Merged(numbers, custom) \in Seq(Number)
         /\ Range(Merged(numbers, custom)) =
              Range(numbers) \cup Range(FixedList(custom))
                \cup (IF numbers = <<>> THEN Range(FixedListNoSim(custom)) ELSE {})
         /\ IsInjective(numbers) /\ IsInjective(FixedList(custom)) /\ IsInjective(FixedListNoSim(custom))
              => IsInjective(Merged(numbers, custom))
<1> DEFINE f == FixedList(custom)
           z == FixedListNoSim(custom)
           m == MoveToEnd(numbers, f)
<1>1. f \in Seq(Number) /\ z \in Seq(Number)
  BY NumbersOf DEF FixedList, FixedListNoSim
<1> HIDE DEF f, z
<1>2. /\ m \in Seq(Number) /\ Range(m) = Range(numbers) \cup Range(f)
      /\ IsInjective(numbers) /\ IsInjective(f) => IsInjective(m)
  BY <1>1, MovedToEnd
<1> HIDE DEF m
<1>3. /\ MoveToEnd(m, z) \in Seq(Number) /\ Range(MoveToEnd(m, z)) = Range(m) \cup Range(z)
      /\ IsInjective(m) /\ IsInjective(z) => IsInjective(MoveToEnd(m, z))
  BY <1>1, <1>2, MovedToEnd
<1>4. Merged(numbers, custom) = IF numbers = <<>> THEN MoveToEnd(m, z) ELSE m
  BY DEF Merged, m, f, z
<1> QED BY <1>2, <1>3, <1>4 DEF f, z

(* The two lists updateEmergencyNumbersProperty merges hold together every *)
(* number of the customized list.                                          *)
LEMMA CustomNumbers ==
  ASSUME NEW custom \in Seq(EccEntry)
  PROVE  /\ FixedList(custom) \in Seq(Number) /\ FixedListNoSim(custom) \in Seq(Number)
         /\ Range(FixedList(custom)) \cup Range(FixedListNoSim(custom)) = {e.ecc : e \in Range(custom)}
<1> DEFINE some == Conditions \ {"ECC_NO_SIM"}
           C == Range(custom)
<1>1. /\ FixedList(custom) \in Seq(Number) /\ FixedListNoSim(custom) \in Seq(Number)
      /\ Range(FixedList(custom)) = {e.ecc : e \in {x \in C : x.cond \in some}}
      /\ Range(FixedListNoSim(custom)) = {e.ecc : e \in {x \in C : x.cond \in {"ECC_NO_SIM"}}}
  BY NumbersOf DEF FixedList, FixedListNoSim
<1>2. \A e \in C : e.cond \in Conditions
  <2>1. \A e \in C : e \in EccEntry BY DEF Range
  <2> QED BY <2>1 DEF EccEntry
<1>3. C = {x \in C : x.cond \in some} \cup {x \in C : x.cond \in {"ECC_NO_SIM"}}
  BY <1>2
<1> HIDE DEF C, some
<1> QED BY <1>1, <1>3 DEF C

-----------------------------------------------------------------------------
(* The inductive invariant.                                                *)

(* Receiver k has still to refresh slot k from the answer for it.          *)
Pending(k) == replies[k] > 0 \/ (rpc[k][1] # "idle" /\ rpc[k][2] <= k)

(* Slot k holds what updateEmergencyNumbersProperty is to publish.         *)
Published(k) == Range(ecclist[k]) = ToPublish(k)

(* The customized list has no number twice for one of the two cases.       *)
Distinct ==
  IsInjective(FixedList(mCustomizedEccList)) /\ IsInjective(FixedListNoSim(mCustomizedEccList))

(* No list has a number twice, neither a published nor a merged one.       *)
InjInv == Distinct => \A k \in Sub : IsInjective(ecclist[k]) /\ IsInjective(rlist[k])

(* A slot that is not raced is published, or it is as the vendor RIL left  *)
(* it and its refresh is still to come, failed, or there was none at all.  *)
SlotInv ==
  \A k \in Sub \ raced :
    Published(k) \/ (ecclist[k] = sim[k] /\ (Pending(k) \/ overflowed \/ ~refreshed))

(* A receiver that is past slot 0 has left it published, unless a new      *)
(* answer for it has come since.                                           *)
FirstInv ==
  \A i \in Sub : rpc[i][1] # "idle" /\ rpc[i][2] = 1 /\ 0 \notin raced =>
    Published(0) \/ (ecclist[0] = sim[0] /\ (Pending(0) \/ overflowed))

(* What a receiver is about to write is right for the slot.                *)
WriteInv ==
  \A i \in Sub, k \in Sub \ raced :
    rpc[i] = <<"write", k>> => Range(rlist[i]) = ToPublish(k)

(* The address dialled is none of the customized numbers.                  *)
NotCustom == \A e \in Range(mCustomizedEccList) : e.ecc # daddr.num

(* What dial knows while it searches: without an excuse there is no SIM,   *)
(* and a first list that was not empty has ruled the customized numbers    *)
(* out.                                                                    *)
DialInv ==
  /\ dpc # "idle" /\ ~dexcused => ~AnySim(sim) /\ raced = {}
  /\ dpc = "sim2" /\ dsim /\ ~dexcused => NotCustom
  /\ dpc \in {"sim1", "sim2", "category"} => sent = <<>>
  /\ dpc = "emergency" => \E m : sent = <<m>>

IInv ==
  TypeOK /\ InjInv /\ SlotInv /\ FirstInv /\ WriteInv /\ DialInv /\ NoSimNumbersRecognised

(* The parts of TypeOK that the proofs below use.                          *)
LEMMA Types ==
  ASSUME TypeOK
  PROVE  \A k \in Sub :
           /\ ecclist[k] \in Seq(Number) /\ sim[k] \in Seq(Number) /\ rlist[k] \in Seq(Number)
           /\ rpc[k] = <<rpc[k][1], rpc[k][2]>>
           /\ rpc[k][1] \in {"idle", "read", "write"} /\ rpc[k][2] \in {0, 1}
           /\ replies[k] \in 0 .. answers /\ replies[k] \in Int
<1> SUFFICES ASSUME NEW k \in Sub
             PROVE  /\ ecclist[k] \in Seq(Number) /\ sim[k] \in Seq(Number) /\ rlist[k] \in Seq(Number)
                    /\ rpc[k] = <<rpc[k][1], rpc[k][2]>>
                    /\ rpc[k][1] \in {"idle", "read", "write"} /\ rpc[k][2] \in {0, 1}
                    /\ replies[k] \in 0 .. answers /\ replies[k] \in Int
  OBVIOUS
<1>1. ecclist[k] \in Seq(Number) /\ rlist[k] \in Seq(Number)
  BY DEF TypeOK
<1>2. sim[k] \in Seq(Number)
  <2>1. SimLists \subseteq Seq(Number) /\ <<>> \in Seq(Number)
    BY SimListsAssumption
  <2>2. sim[k] \in SimLists \cup {<<>>}
    BY DEF TypeOK
  <2> QED BY <2>1, <2>2, Zenon
<1>3. rpc[k] \in {"idle", "read", "write"} \X {0, 1}
  BY DEF TypeOK, Sub
<1>4. replies[k] \in 0 .. answers /\ answers \in 0 .. MaxAnswers
  BY DEF TypeOK
<1> QED BY <1>1, <1>2, <1>3, <1>4, BoundAssumption

(* A refresh of a list the vendor RIL has just written, and a second       *)
(* refresh of one that was refreshed before, both make the list that is to *)
(* be published: updateEmergencyNumbersProperty is idempotent.             *)
LEMMA MergedRight ==
  ASSUME TypeOK, NEW k \in Sub, Published(k) \/ ecclist[k] = sim[k]
  PROVE  Range(Merged(ecclist[k], mCustomizedEccList)) = ToPublish(k)
<1> DEFINE F == Range(FixedList(mCustomizedEccList))
           N == Range(FixedListNoSim(mCustomizedEccList))
<1>1. Range(Merged(ecclist[k], mCustomizedEccList)) =
        Range(ecclist[k]) \cup F \cup (IF ecclist[k] = <<>> THEN N ELSE {})
  BY Types, MergedOf DEF TypeOK
<1>2. ToPublish(k) = Range(sim[k]) \cup F \cup (IF sim[k] = <<>> THEN N ELSE {})
  BY DEF ToPublish
<1>3. /\ Range(ecclist[k]) = {} <=> ecclist[k] = <<>>
      /\ Range(sim[k]) = {} <=> sim[k] = <<>>
  BY Types, EmptySet, Zenon
<1> HIDE DEF F, N
<1>4. CASE Published(k)
  BY <1>1, <1>2, <1>3, <1>4 DEF Published
<1>5. CASE ecclist[k] = sim[k]
  BY <1>1, <1>2, <1>5
<1> QED BY <1>4, <1>5

(* Without a SIM, a list that is not empty holds every customized number.  *)
LEMMA NoSimComplete ==
  ASSUME TypeOK, NEW k \in Sub, sim[k] = <<>>, Published(k) \/ ecclist[k] = sim[k],
         ecclist[k] # <<>>
  PROVE  \A e \in Range(mCustomizedEccList) : e.ecc \in Range(ecclist[k])
<1>1. Range(ecclist[k]) = ToPublish(k)
  BY DEF Published
<1>2. Range(FixedList(mCustomizedEccList)) \cup Range(FixedListNoSim(mCustomizedEccList))
        = {e.ecc : e \in Range(mCustomizedEccList)}
  BY CustomNumbers DEF TypeOK
<1> QED BY <1>1, <1>2 DEF ToPublish

(* IInv holds when the phone starts.                                       *)
LEMMA InitIInv == Init => IInv
<1> SUFFICES ASSUME Init PROVE IInv
  OBVIOUS
<1>1. mCustomizedEccList \in Seq(EccEntry)
  BY ParsedEntries DEF Init
<1>2. (CHOOSE a \in Address : TRUE) \in Address
  BY AddressAssumption
<1>3. \A s : s = <<>> => IsInjective(s) /\ s \in Seq(Number) /\ Len(s) = 0
  BY DEF IsInjective
<1>4. TypeOK
  <2>1. ecclist \in [Sub -> Seq(Number)] /\ \A k \in Sub : Len(ecclist[k]) <= PropMax
    BY <1>3, BoundAssumption DEF Init
  <2>2. netlist \in NetLists /\ dnet \in NetLists \cup {<<>>} /\ daddr \in Address
    BY <1>2 DEF Init
  <2>3. answers \in 0 .. MaxAnswers /\ replies \in [Sub -> 0 .. answers]
    BY BoundAssumption DEF Init
  <2>4. rpc \in [Sub -> {"idle", "read", "write"} \X Sub] /\ rlist \in [Sub -> Seq(Number)]
    BY <1>3 DEF Init, Sub
  <2>5. dpc \in {"idle", "sim1", "sim2", "category", "emergency"} /\ Len(sent) <= 2
    BY DEF Init
  <2>6. sim \in [Sub -> SimLists \cup {<<>>}] /\ raced \subseteq Sub
    BY DEF Init
  <2>7. {dsim, overflowed, refreshed, dexcused} \subseteq BOOLEAN
    BY Zenon DEF Init
  <2> QED BY <1>1, <2>1, <2>2, <2>3, <2>4, <2>5, <2>6, <2>7 DEF TypeOK
<1>5. InjInv /\ SlotInv /\ FirstInv /\ WriteInv
  BY <1>3 DEF Init, InjInv, SlotInv, FirstInv, WriteInv, Sub
<1>6. DialInv /\ NoSimNumbersRecognised
  BY DEF Init, DialInv, NoSimNumbersRecognised
<1> QED BY <1>4, <1>5, <1>6 DEF IInv

(* The vendor RIL keeps IInv when it writes a property and answers.        *)
LEMMA VendorIInv ==
  ASSUME IInv, NEW i \in Sub, NEW list \in SimLists, VendorAnswer(i, list)
  PROVE  IInv'
<1> USE DEF IInv
<1>0. list \in Seq(Number) /\ IsInjective(list) /\ Len(list) <= PropMax
  BY SimListsAssumption
<1>a. /\ mCustomizedEccList' = mCustomizedEccList /\ rpc' = rpc /\ rlist' = rlist
      /\ overflowed' = overflowed /\ refreshed' = refreshed /\ dpc' = dpc /\ daddr' = daddr
      /\ dnet' = dnet /\ dsim' = dsim /\ sent' = sent /\ netlist' = netlist
  BY DEF VendorAnswer, recvVars
<1>b. /\ DOMAIN ecclist = Sub /\ DOMAIN sim = Sub /\ DOMAIN replies = Sub
      /\ ecclist' = [ecclist EXCEPT ![i] = list] /\ sim' = [sim EXCEPT ![i] = list]
      /\ replies' = [replies EXCEPT ![i] = @ + 1] /\ answers' = answers + 1 /\ answers < MaxAnswers
  BY DEF VendorAnswer, TypeOK
<1>c. \A k \in Sub : /\ ecclist'[k] = IF k = i THEN list ELSE ecclist[k]
                     /\ sim'[k] = IF k = i THEN list ELSE sim[k]
                     /\ replies'[k] = IF k = i THEN replies[k] + 1 ELSE replies[k]
  BY <1>b
<1>d. /\ raced' = IF \E j \in Sub : rpc[j] = <<"write", i>> THEN raced \cup {i} ELSE raced \ {i}
      /\ dexcused' = (dexcused \/ AnySim(sim') \/ raced' # {})
  BY DEF VendorAnswer
<1>e. Pending(i)' /\ ecclist'[i] = sim'[i]
  BY <1>c, Types DEF Pending
<1>f. \A k \in Sub : k # i => /\ (Published(k)' <=> Published(k)) /\ (Pending(k)' <=> Pending(k))
                              /\ (k \in raced' <=> k \in raced) /\ ToPublish(k)' = ToPublish(k)
  BY <1>a, <1>c, <1>d DEF Published, Pending, ToPublish
<1>1. TypeOK'
  <2>1. ecclist' \in [Sub -> Seq(Number)] /\ \A k \in Sub : Len(ecclist'[k]) <= PropMax
    <3>1. ecclist \in [Sub -> Seq(Number)] /\ \A k \in Sub : Len(ecclist[k]) <= PropMax
      BY DEF TypeOK
    <3> QED BY <1>0, <1>b, <1>c, <3>1
  <2>2. answers' \in 0 .. MaxAnswers /\ replies' \in [Sub -> 0 .. answers']
    <3>1. answers \in 0 .. MaxAnswers /\ replies \in [Sub -> 0 .. answers] /\ MaxAnswers \in Nat
      BY BoundAssumption DEF TypeOK
    <3> QED BY <1>b, <3>1
  <2>3. sim' \in [Sub -> SimLists \cup {<<>>}]
    BY <1>b DEF TypeOK
  <2>4. raced' \subseteq Sub
    BY <1>d DEF TypeOK
  <2>5. dexcused' \in BOOLEAN
    BY <1>d
  <2> QED BY <1>a, <2>1, <2>2, <2>3, <2>4, <2>5, Zenon DEF TypeOK
<1>2. InjInv'
  BY <1>0, <1>a, <1>c DEF InjInv, Distinct
<1>3. SlotInv'
  BY <1>a, <1>c, <1>e, <1>f DEF SlotInv
<1>4. FirstInv'
  BY <1>a, <1>c, <1>e, <1>f DEF FirstInv, Sub
<1>5. WriteInv'
  <2> SUFFICES ASSUME NEW j \in Sub, NEW k \in Sub \ raced', rpc[j] = <<"write", k>>
               PROVE  Range(rlist[j]) = ToPublish(k)'
    BY <1>a DEF WriteInv
  <2>1. k # i
    BY <1>d
  <2> QED BY <1>f, <2>1 DEF WriteInv
<1>6. DialInv' /\ NoSimNumbersRecognised'
  <2>1. ~dexcused' => ~dexcused /\ ~AnySim(sim') /\ raced' = {}
    BY <1>d, Zenon
  <2> QED BY <1>a, <2>1 DEF DialInv, NoSimNumbersRecognised, NotCustom, AnySim
<1> QED BY <1>1, <1>2, <1>3, <1>4, <1>5, <1>6

(* A receiver keeps IInv when it takes an answer.                          *)
LEMMA ReceiveIInv ==
  ASSUME IInv, NEW i \in Sub, Receive(i)
  PROVE  IInv'
<1> USE DEF IInv
<1>a. /\ UNCHANGED <<mCustomizedEccList, ecclist, netlist, answers, sim, raced,
                 rlist, overflowed, refreshed, dpc, daddr, dnet, dsim, sent, dexcused>>
      /\ rpc[i][1] = "idle" /\ replies[i] > 0
      /\ replies' = [replies EXCEPT ![i] = @ - 1] /\ rpc' = [rpc EXCEPT ![i] = <<"read", 0>>]
  BY DEF Receive, dialVars
<1>b. \A k \in Sub : /\ replies'[k] = IF k = i THEN replies[k] - 1 ELSE replies[k]
                     /\ rpc'[k] = IF k = i THEN <<"read", 0>> ELSE rpc[k]
  BY <1>a DEF TypeOK
<1>c. \A k \in Sub : (Published(k)' <=> Published(k)) /\ ToPublish(k)' = ToPublish(k)
  BY <1>a DEF Published, ToPublish
<1>d. \A k \in Sub : Pending(k) => Pending(k)'
  BY <1>b, Types DEF Pending, Sub
<1>1. TypeOK'
  <2>1. replies' \in [Sub -> 0 .. answers']
    <3>1. answers \in 0 .. MaxAnswers /\ replies \in [Sub -> 0 .. answers] /\ MaxAnswers \in Nat
      BY BoundAssumption DEF TypeOK
    <3> QED BY <1>a, <3>1
  <2>2. rpc' \in [Sub -> {"idle", "read", "write"} \X Sub]
    BY <1>a DEF TypeOK, Sub
  <2> QED BY <1>a, <2>1, <2>2, Zenon DEF TypeOK
<1>2. InjInv'
  BY <1>a DEF InjInv, Distinct
<1>3. SlotInv'
  BY <1>a, <1>c, <1>d, Zenon DEF SlotInv
<1>4. FirstInv'
  <2> SUFFICES ASSUME NEW j \in Sub, rpc'[j][1] # "idle", rpc'[j][2] = 1, 0 \notin raced
               PROVE  Published(0)' \/ (ecclist'[0] = sim'[0] /\ (Pending(0)' \/ overflowed'))
    BY <1>a, Zenon DEF FirstInv
  <2>1. rpc[j][1] # "idle" /\ rpc[j][2] = 1
    BY <1>a, <1>b
  <2>2. Published(0) \/ (ecclist[0] = sim[0] /\ (Pending(0) \/ overflowed))
    BY <2>1 DEF FirstInv
  <2>3. 0 \in Sub
    BY DEF Sub
  <2> QED BY <1>a, <1>c, <1>d, <2>2, <2>3
<1>5. WriteInv'
  BY <1>a, <1>b, <1>c DEF WriteInv
<1>6. DialInv' /\ NoSimNumbersRecognised'
  BY <1>a DEF DialInv, NoSimNumbersRecognised, NotCustom, AnySim
<1> QED BY <1>1, <1>2, <1>3, <1>4, <1>5, <1>6

(* A receiver keeps IInv when it reads a property and merges it.           *)
LEMMA ReadIInv ==
  ASSUME IInv, NEW i \in Sub, RefreshRead(i)
  PROVE  IInv'
<1> USE DEF IInv
<1> DEFINE m == Merged(ecclist[rpc[i][2]], mCustomizedEccList)
<1>a. /\ UNCHANGED <<mCustomizedEccList, ecclist, netlist, answers, replies, sim, raced,
                 overflowed, refreshed, dpc, daddr, dnet, dsim, sent, dexcused>>
      /\ rpc[i][1] = "read"
      /\ rlist' = [rlist EXCEPT ![i] = m] /\ rpc' = [rpc EXCEPT ![i] = <<"write", @[2]>>]
  BY DEF RefreshRead, dialVars, radioVars
<1>b. m \in Seq(Number) /\ (Distinct => IsInjective(m))
  BY Types, MergedOf, Zenon DEF TypeOK, InjInv, Distinct, Sub
<1>e. \A k \in Sub \ raced : rpc[i][2] = k => Range(m) = ToPublish(k)
  BY MergedRight DEF SlotInv
<1> HIDE DEF m
<1>c. \A k \in Sub : /\ rlist'[k] = IF k = i THEN m ELSE rlist[k]
                     /\ rpc'[k] = IF k = i THEN <<"write", rpc[k][2]>> ELSE rpc[k]
  BY <1>a, Types, Zenon DEF TypeOK
<1>d. \A k \in Sub : /\ (Published(k)' <=> Published(k)) /\ ToPublish(k)' = ToPublish(k)
                     /\ (Pending(k)' <=> Pending(k))
  <2>1. \A k \in Sub : (Published(k)' <=> Published(k)) /\ ToPublish(k)' = ToPublish(k)
    BY <1>a DEF Published, ToPublish
  <2>2. \A k \in Sub : Pending(k)' <=> Pending(k)
    BY <1>a, <1>c DEF Pending
  <2> QED BY <2>1, <2>2
<1>1. TypeOK'
  <2>1. rlist' \in [Sub -> Seq(Number)]
    BY <1>a, <1>b DEF TypeOK
  <2>2. rpc' \in [Sub -> {"idle", "read", "write"} \X Sub]
    <3>1. rpc \in [Sub -> {"idle", "read", "write"} \X Sub] BY DEF TypeOK
    <3> QED BY <1>a, <3>1
  <2> QED BY <1>a, <2>1, <2>2 DEF TypeOK
<1>2. InjInv'
  BY <1>a, <1>b, <1>c DEF InjInv, Distinct
<1>3. SlotInv'
  BY <1>a, <1>d, Zenon DEF SlotInv
<1>4. FirstInv'
  <2> SUFFICES ASSUME NEW j \in Sub, rpc'[j][1] # "idle", rpc'[j][2] = 1, 0 \notin raced
               PROVE  Published(0)' \/ (ecclist'[0] = sim'[0] /\ (Pending(0)' \/ overflowed'))
    BY <1>a, Zenon DEF FirstInv
  <2>1. rpc[j][1] # "idle" /\ rpc[j][2] = 1
    BY <1>a, <1>c
  <2>2. Published(0) \/ (ecclist[0] = sim[0] /\ (Pending(0) \/ overflowed))
    BY <2>1 DEF FirstInv
  <2>3. 0 \in Sub
    BY DEF Sub
  <2> QED BY <1>a, <1>d, <2>2, <2>3
<1>5. WriteInv'
  <2> SUFFICES ASSUME NEW j \in Sub, NEW k \in Sub \ raced, rpc'[j] = <<"write", k>>
               PROVE  Range(rlist'[j]) = ToPublish(k)
    BY <1>a, <1>d DEF WriteInv
  <2>1. CASE j = i
    <3>1. <<"write", rpc[i][2]>> = <<"write", k>> /\ rlist'[j] = m
      BY <1>c, <2>1, Zenon
    <3>2. rpc[i][2] = k
      BY <3>1
    <3> QED BY <1>e, <3>1, <3>2
  <2>2. CASE j # i
    BY <1>c, <2>2, Zenon DEF WriteInv
  <2> QED BY <2>1, <2>2
<1>6. DialInv' /\ NoSimNumbersRecognised'
  BY <1>a DEF DialInv, NoSimNumbersRecognised, NotCustom, AnySim
<1> QED BY <1>1, <1>2, <1>3, <1>4, <1>5, <1>6

(* A receiver keeps IInv when it writes a property, and when the value is  *)
(* too long for it.                                                        *)
LEMMA WriteIInv ==
  ASSUME IInv, NEW i \in Sub, RefreshWrite(i)
  PROVE  IInv'
<1> USE DEF IInv
<1>0. PICK k \in Sub : rpc[i] = <<"write", k>>
  BY Types DEF RefreshWrite, Sub
<1>a. /\ UNCHANGED <<mCustomizedEccList, netlist, answers, replies, sim, raced,
                     dpc, daddr, dnet, dsim, sent, dexcused>>
      /\ rlist' = [rlist EXCEPT ![i] = <<>>]
  BY DEF RefreshWrite, dialVars, radioVars
<1>b. \A j \in Sub : rlist'[j] = IF j = i THEN <<>> ELSE rlist[j]
  BY <1>a DEF TypeOK
<1>c. <<>> \in Seq(Number) /\ IsInjective(<<>>)
  BY DEF IsInjective
<1>d. \A j \in Sub : ToPublish(j)' = ToPublish(j)
  BY <1>a DEF ToPublish
<1>e. rlist' \in [Sub -> Seq(Number)]
  BY <1>a, <1>c DEF TypeOK
<1>f. /\ NoSimNumbersRecognised' /\ DialInv'
  BY <1>a DEF DialInv, NoSimNumbersRecognised, NotCustom, AnySim
<1>g. Len(rlist[i]) \in Nat /\ PropMax \in Nat
  BY BoundAssumption, Types
<1>1. CASE Len(rlist[i]) <= PropMax
  <2>a. /\ ecclist' = [ecclist EXCEPT ![k] = rlist[i]]
        /\ rpc' = [rpc EXCEPT ![i] = IF k = 0 THEN <<"read", 1>> ELSE <<"idle", 0>>]
        /\ refreshed' = (refreshed \/ k = 1) /\ overflowed' = overflowed
    <3>1. rpc[i][2] = k /\ ~(Len(rlist[i]) > PropMax)
      BY <1>0, <1>1, <1>g
    <3> QED BY <3>1, Zenon DEF RefreshWrite
  <2>b. \A j \in Sub : /\ ecclist'[j] = IF j = k THEN rlist[i] ELSE ecclist[j]
                       /\ rpc'[j] = IF j = i THEN IF k = 0 THEN <<"read", 1>> ELSE <<"idle", 0>>
                                    ELSE rpc[j]
    BY <2>a DEF TypeOK
  <2>c. k \notin raced => Published(k)'
    BY <1>0, <1>d, <2>b DEF WriteInv, Published
  <2>d. \A j \in Sub : j # k => (Published(j)' <=> Published(j)) /\ ecclist'[j] = ecclist[j]
    BY <1>d, <2>b DEF Published
  <2>e. \A j \in Sub : j # k => (Pending(j)' <=> Pending(j))
    BY <1>0, <1>a, <2>b DEF Pending, Sub
  <2>1. TypeOK'
    <3>1. ecclist' \in [Sub -> Seq(Number)] /\ \A j \in Sub : Len(ecclist'[j]) <= PropMax
      BY <1>1, <2>a, <2>b, Types, Zenon DEF TypeOK
    <3>2. rpc' \in [Sub -> {"idle", "read", "write"} \X Sub]
      BY <2>a DEF TypeOK, Sub
    <3>3. refreshed' \in BOOLEAN /\ overflowed' \in BOOLEAN
      BY <2>a DEF TypeOK
    <3> QED BY <1>a, <1>e, <3>1, <3>2, <3>3, Zenon DEF TypeOK
  <2>2. InjInv'
    BY <1>a, <1>b, <1>c, <2>b DEF InjInv, Distinct
  <2>3. SlotInv'
    <3> SUFFICES ASSUME NEW j \in Sub \ raced, j # k
                 PROVE  \/ Published(j)'
                        \/ ecclist'[j] = sim'[j] /\ (Pending(j)' \/ overflowed' \/ ~refreshed')
      BY <1>a, <2>c DEF SlotInv
    <3>1. CASE k = 0
      <4>0. ~(k = 1)
        BY <3>1
      <4>1. refreshed' => refreshed
        BY <2>a, <4>0, Zenon
      <4> QED BY <1>a, <2>a, <2>d, <2>e, <3>1, <4>1 DEF SlotInv
    <3>2. CASE k = 1
      <4>1. j = 0 /\ (Published(0) \/ (ecclist[0] = sim[0] /\ (Pending(0) \/ overflowed)))
        BY <1>0, <3>2 DEF FirstInv, Sub
      <4> QED BY <1>a, <2>a, <2>d, <2>e, <3>2, <4>1 DEF Sub
    <3> QED BY <3>1, <3>2 DEF Sub
  <2>4. FirstInv'
    <3>1. CASE k = 0
      BY <1>a, <2>c, <3>1 DEF FirstInv
    <3>2. CASE k = 1
      BY <1>a, <2>a, <2>b, <2>d, <2>e, <3>2 DEF FirstInv, Sub
    <3> QED BY <3>1, <3>2 DEF Sub
  <2>5. WriteInv'
    BY <1>a, <1>b, <1>d, <2>b DEF WriteInv
  <2> QED BY <1>f, <2>1, <2>2, <2>3, <2>4, <2>5
<1>2. CASE Len(rlist[i]) > PropMax
  <2>a. /\ rpc' = [rpc EXCEPT ![i] = <<"idle", 0>>] /\ overflowed' = TRUE
        /\ ecclist' = ecclist /\ refreshed' = refreshed
    <3>1. ~(Len(rlist[i]) <= PropMax)
      BY <1>2, <1>g
    <3> QED BY <3>1, Zenon DEF RefreshWrite
  <2>b. \A j \in Sub : rpc'[j] = IF j = i THEN <<"idle", 0>> ELSE rpc[j]
    BY <2>a DEF TypeOK
  <2>c. \A j \in Sub : Published(j)' <=> Published(j)
    BY <1>d, <2>a DEF Published
  <2>1. TypeOK'
    <3>1. rpc' \in [Sub -> {"idle", "read", "write"} \X Sub]
      BY <2>a DEF TypeOK, Sub
    <3>2. refreshed' \in BOOLEAN /\ overflowed' \in BOOLEAN
      BY <2>a DEF TypeOK
    <3> QED BY <1>a, <1>e, <2>a, <3>1, <3>2 DEF TypeOK
  <2>2. InjInv'
    BY <1>a, <1>b, <1>c, <2>a DEF InjInv, Distinct
  <2>3. SlotInv'
    BY <1>a, <2>a, <2>c DEF SlotInv
  <2>4. FirstInv'
    <3>1. 0 \in Sub
      BY DEF Sub
    <3>2. ASSUME NEW j \in Sub, rpc'[j][1] # "idle" PROVE rpc'[j] = rpc[j]
      BY <2>b, <3>2
    <3> QED BY <1>a, <2>a, <2>c, <3>1, <3>2 DEF FirstInv
  <2>5. WriteInv'
    BY <1>a, <1>b, <1>d, <2>b DEF WriteInv
  <2> QED BY <1>f, <2>1, <2>2, <2>3, <2>4, <2>5
<1> QED BY <1>1, <1>2, <1>g

(* dial's look into the first property: if it is not empty and the number  *)
(* is not in it, the number is not a customized one.                       *)
LEMMA Sim1IInv ==
  ASSUME IInv, DialSim1 PROVE DialInv' /\ NoSimNumbersRecognised'
<1> USE DEF IInv
<1>a. /\ UNCHANGED <<mCustomizedEccList, sim, raced, daddr, dexcused, sent>> /\ dpc = "sim1"
      /\ \/ dpc' = "category"
         \/ /\ ~InList(ecclist[0], extractNetworkPortionAlt(daddr))
            /\ dpc' = "sim2" /\ dsim' = (ecclist[0] # <<>>)
  BY Zenon DEF DialSim1, Recognised, radioVars
<1>1. ASSUME dpc' = "sim2", dsim', ~dexcused PROVE NotCustom
  <2>1. sim[0] = <<>> /\ raced = {} /\ 0 \in Sub
    BY <1>a, <1>1 DEF DialInv, AnySim, Sub
  <2>2. ecclist[0] # <<>> /\ ~InList(ecclist[0], extractNetworkPortionAlt(daddr))
    BY <1>a, <1>1, Zenon
  <2>3. \A e \in Range(mCustomizedEccList) : e.ecc \in Range(ecclist[0])
    BY <2>1, <2>2, NoSimComplete DEF SlotInv
  <2>4. daddr.num \notin Range(ecclist[0])
    BY <2>2, AddressAssumption DEF TypeOK, InList, Equals, extractNetworkPortionAlt
  <2> QED BY <2>3, <2>4 DEF NotCustom
<1> QED BY <1>a, <1>1 DEF DialInv, NotCustom, AnySim, NoSimNumbersRecognised

(* dial's look into the second property and the customized list.           *)
LEMMA Sim2IInv ==
  ASSUME IInv, DialSim2 PROVE DialInv' /\ NoSimNumbersRecognised'
<1> USE DEF IInv
<1> DEFINE a == extractNetworkPortionAlt(daddr)
           inserted == dsim \/ ecclist[1] # <<>>
<1>a. /\ UNCHANGED <<mCustomizedEccList, sim, raced, daddr, dexcused, dsim>> /\ dpc = "sim2"
      /\ \/ dpc' = "category" /\ sent' = sent
         \/ /\ ~InList(ecclist[1], a) /\ ~InCustom(mCustomizedEccList, inserted, a)
            /\ dpc' = "idle" /\ sent' = <<[msg |-> "DIAL"]>>
  BY Zenon DEF DialSim2, Recognised, radioVars
<1>b. a.num = daddr.num /\ a.sep = FALSE
  BY AddressAssumption DEF TypeOK, extractNetworkPortionAlt
<1> HIDE DEF a
<1>1. ASSUME dpc' = "idle", ~dexcused PROVE NotCustom
  <2>1. sim[1] = <<>> /\ raced = {} /\ 1 \in Sub
    BY <1>a, <1>1, Zenon DEF DialInv, AnySim, Sub
  <2>2. ~InList(ecclist[1], a) /\ ~InCustom(mCustomizedEccList, inserted, a)
    BY <1>a, <1>1
  <2>3. CASE dsim
    BY <1>a, <1>1, <2>3 DEF DialInv
  <2>4. CASE ~dsim /\ ecclist[1] # <<>>
    <3>1. \A e \in Range(mCustomizedEccList) : e.ecc \in Range(ecclist[1])
      BY <2>1, <2>4, NoSimComplete DEF SlotInv
    <3>2. daddr.num \notin Range(ecclist[1])
      BY <1>b, <2>2 DEF InList, Equals
    <3> QED BY <3>1, <3>2 DEF NotCustom
  <2>5. CASE ~inserted
    BY <1>b, <2>2, <2>5 DEF InCustom, Equals, NotCustom
  <2> QED BY <2>3, <2>4, <2>5
<1> QED BY <1>a, <1>1 DEF DialInv, NotCustom, AnySim, NoSimNumbersRecognised

(* A sequence of one message to which one is appended has two.             *)
LEMMA TwoSent ==
  ASSUME NEW m, NEW e PROVE Len(Append(<<m>>, e)) = 2 /\ \A x : Append(<<m>>, e) # <<x>>
<1>1. <<m>> \in Seq({m, e})
  OBVIOUS
<1>2. Len(Append(<<m>>, e)) = 2
  BY <1>1
<1> QED BY <1>2

(* The conjuncts about the lists depend on these variables only.           *)
LEMMA FrameIInv ==
  ASSUME IInv, UNCHANGED <<mCustomizedEccList, ecclist, replies, sim, raced, recvVars>>
  PROVE  InjInv' /\ SlotInv' /\ FirstInv' /\ WriteInv'
<1> USE DEF IInv, recvVars
<1>1. \A k \in Sub : /\ ToPublish(k)' = ToPublish(k) /\ (Published(k)' <=> Published(k))
                     /\ (Pending(k)' <=> Pending(k))
  BY DEF ToPublish, Published, Pending
<1>2. InjInv'
  BY DEF InjInv, Distinct
<1>3. SlotInv'
  BY <1>1 DEF SlotInv
<1>4. FirstInv'
  BY <1>1 DEF FirstInv, Sub
<1>5. WriteInv'
  BY <1>1 DEF WriteInv
<1> QED BY <1>2, <1>3, <1>4, <1>5

(* No step of dial breaks IInv.                                            *)
LEMMA DialIInv ==
  ASSUME IInv, Dial PROVE IInv'
<1> USE DEF IInv
<1>a. UNCHANGED <<mCustomizedEccList, ecclist, radioVars, recvVars>>
  BY Zenon DEF Dial, DialBegin, DialSim1, DialSim2, DialCategory, DialEmergency
<1>1. InjInv' /\ SlotInv' /\ FirstInv' /\ WriteInv'
  BY <1>a, FrameIInv DEF radioVars
<1>2. DialInv' /\ NoSimNumbersRecognised'
  <2>1. CASE DialSim1
    BY <2>1, Sim1IInv
  <2>2. CASE DialSim2
    BY <2>2, Sim2IInv
  <2>3. CASE DialCategory
    BY <2>3, Zenon DEF DialCategory, radioVars, DialInv, AnySim, NoSimNumbersRecognised
  <2>4. CASE DialEmergency
    <3>1. PICK m : sent = <<m>>
      BY <2>4 DEF DialEmergency, DialInv
    <3>2. sent' = Append(<<m>>, [msg |-> "EMERGENCY_DIAL"])
      BY <2>4, <3>1 DEF DialEmergency
    <3>3. sent' # <<[msg |-> "DIAL"]>>
      BY <3>2, TwoSent
    <3> QED BY <2>4, <3>3, Zenon DEF DialEmergency, DialInv, NoSimNumbersRecognised
  <2>5. ASSUME NEW a \in Address, DialBegin(a) PROVE DialInv' /\ NoSimNumbersRecognised'
    BY <2>5, Zenon DEF DialBegin, radioVars, DialInv, AnySim, NoSimNumbersRecognised
  <2> QED BY <2>1, <2>2, <2>3, <2>4, <2>5 DEF Dial
<1>3. TypeOK'
  <2>1. /\ dpc' \in {"idle", "sim1", "sim2", "category", "emergency"} /\ daddr' \in Address
        /\ dnet' \in NetLists \cup {<<>>} /\ dsim' \in BOOLEAN /\ dexcused' \in BOOLEAN
    BY Zenon DEF Dial, DialBegin, DialSim1, DialSim2, DialCategory, DialEmergency, Recognised, TypeOK
  <2>2. Len(sent') <= 2
    <3>1. CASE DialEmergency
      <4>1. PICK m : sent = <<m>>
        BY <3>1 DEF DialEmergency, DialInv
      <4>2. sent' = Append(<<m>>, [msg |-> "EMERGENCY_DIAL"])
        BY <3>1, <4>1 DEF DialEmergency
      <4> QED BY <4>2, TwoSent
    <3>2. CASE DialCategory
      BY <3>2 DEF DialCategory
    <3>3. CASE DialSim1 \/ DialSim2
      <4>1. sent' = sent \/ sent' = <<[msg |-> "DIAL"]>>
        BY <3>3, Zenon DEF DialSim1, DialSim2, Recognised
      <4>2. Len(sent) <= 2
        BY DEF TypeOK
      <4>3. Len(<<[msg |-> "DIAL"]>>) <= 2
        OBVIOUS
      <4> QED BY <4>1, <4>2, <4>3, Zenon
    <3>4. CASE \E a \in Address : DialBegin(a)
      BY <3>4 DEF DialBegin
    <3> QED BY <3>1, <3>2, <3>3, <3>4 DEF Dial
  <2> QED BY <1>a, <2>1, <2>2 DEF radioVars, recvVars, TypeOK
<1> QED BY <1>1, <1>2, <1>3

(* A new list from the network, or a step of something else, keeps IInv.   *)
LEMMA StutterIInv ==
  ASSUME IInv, UNCHANGED <<mCustomizedEccList, ecclist, answers, replies, sim, raced, recvVars, dialVars>>,
         netlist' \in NetLists
  PROVE  IInv'
<1> USE DEF IInv
<1>2. TypeOK'
  BY DEF TypeOK, recvVars, dialVars
<1>3. InjInv' /\ SlotInv' /\ FirstInv' /\ WriteInv'
  BY FrameIInv
<1>4. DialInv' /\ NoSimNumbersRecognised'
  BY DEF dialVars, DialInv, NotCustom, AnySim, NoSimNumbersRecognised
<1> QED BY <1>2, <1>3, <1>4

-----------------------------------------------------------------------------
(* Theorems.                                                               *)

(* IInv is an invariant: the induction over the steps of the vendor RIL,   *)
(* of the two receivers and of dial.                                       *)
THEOREM Inductive == Spec => []IInv
<1>1. ASSUME IInv, [Next]_vars PROVE IInv'
  <2>1. ASSUME NEW i \in Sub, Receiver(i) PROVE IInv'
    BY <1>1, <2>1, ReceiveIInv, ReadIInv, WriteIInv DEF Receiver
  <2>2. ASSUME NEW i \in Sub, NEW list \in SimLists, VendorAnswer(i, list) PROVE IInv'
    BY <1>1, <2>2, VendorIInv
  <2>3. ASSUME NEW m \in NetLists, NetworkUpdate(m) PROVE IInv'
    <3>1. /\ UNCHANGED <<mCustomizedEccList, ecclist, answers, replies, sim, raced, recvVars, dialVars>>
          /\ netlist' \in NetLists
      BY <2>3 DEF NetworkUpdate
    <3> QED BY <1>1, <3>1, StutterIInv
  <2>4. CASE Dial
    BY <1>1, <2>4, DialIInv
  <2>5. CASE UNCHANGED vars
    <3>1. /\ UNCHANGED <<mCustomizedEccList, ecclist, answers, replies, sim, raced, recvVars, dialVars>>
          /\ netlist' \in NetLists
      BY <1>1, <2>5 DEF vars, radioVars, IInv, TypeOK
    <3> QED BY <1>1, <3>1, StutterIInv
  <2> QED BY <1>1, <2>1, <2>2, <2>3, <2>4, <2>5 DEF Next
<1> QED BY <1>1, InitIInv, PTL DEF Spec

(* The variables keep their types, and no published list is longer than    *)
(* its property, for all lists, addresses and bounds.                      *)
THEOREM TypeCorrect == Spec => []TypeOK
<1>1. IInv => TypeOK
  BY DEF IInv
<1> QED BY <1>1, Inductive, PTL

(* refreshEmergencyList publishes the right lists: once the receivers have *)
(* dealt with every answer, every slot the vendor RIL last wrote outside a *)
(* refresh holds exactly the numbers of its SIM and the customized ones,   *)
(* however the refreshes of the two receivers overlapped.  No list has a   *)
(* number twice.                                                           *)
THEOREM ListsAreExact == Spec => []ListsExact
<1>1. IInv => ListsExact
  <2> SUFFICES ASSUME IInv PROVE ListsExact
    OBVIOUS
  <2>1. ASSUME Settled, ~overflowed, NEW k \in Sub \ raced PROVE Range(ecclist[k]) = ToPublish(k)
    <3>1. refreshed /\ ~Pending(k)
      BY <2>1 DEF Settled, Pending
    <3> QED BY <2>1, <3>1 DEF IInv, SlotInv, Published
  <2>2. Distinct => \A k \in Sub : IsInjective(ecclist[k])
    BY DEF IInv, InjInv
  <2> QED BY <2>1, <2>2 DEF ListsExact, Distinct
<1> QED BY <1>1, Inductive, PTL

(* At every moment of every refresh, also of one that throws, a slot that  *)
(* is not raced holds the numbers of its SIM or all that is to be          *)
(* published (updateEmergencyNumbersProperty, SystemProperties.set).       *)
THEOREM SlotsAreWhole == Spec => []SlotWhole
<1>1. IInv => SlotWhole
  <2> SUFFICES ASSUME IInv, NEW k \in Sub \ raced
               PROVE  Range(ecclist[k]) \in {Range(sim[k]), ToPublish(k)}
    BY DEF SlotWhole
  <2>1. CASE Published(k)
    BY <2>1 DEF Published
  <2>2. CASE ecclist[k] = sim[k]
    BY <2>2
  <2> QED BY <2>1, <2>2 DEF IInv, SlotInv
<1> QED BY <1>1, Inductive, PTL

(* isEmergencyNumberExt recognises every customized number dialled while   *)
(* no SIM is present and no slot is raced, at every moment of every        *)
(* refresh.                                                                *)
THEOREM NoSimNumbersAreRecognised == Spec => []NoSimNumbersRecognised
<1>1. IInv => NoSimNumbersRecognised
  BY DEF IInv
<1> QED BY <1>1, Inductive, PTL
=============================================================================

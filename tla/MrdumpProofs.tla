----------------------------- MODULE MrdumpProofs ------------------------------
(***************************************************************************)
(* Proofs about Mrdump, for every set of processes, every set of status    *)
(* texts and every number of crashes: the block of the last crash          *)
(* survives, a clear that succeeded is seen by all, one that reached the   *)
(* partition is final, and what is reported is what the text says.         *)
(***************************************************************************)
EXTENDS Mrdump, WellFoundedInduction, TLAPS

-----------------------------------------------------------------------------
(* Induction and recursion up to a number.                                 *)

(* Every non-empty set of natural numbers has a least element.             *)
LEMMA LeastNumber ==
  ASSUME NEW S, S \subseteq Nat, S # {}
  PROVE  \E x \in S : \A y \in S : x <= y
<1> DEFINE R == OpToRel(<, Nat)
<1>1. IsWellFoundedOn(R, Nat)
  BY NatLessThanWellFounded, Zenon
<1>2. \A x, y \in Nat : x < y => <<x, y>> \in R
  BY DEF OpToRel
<1> HIDE DEF R
<1>3. PICK x \in S : \A y \in S : <<y, x>> \notin R
  BY <1>1, WFMin, Zenon
<1>4. ASSUME NEW y \in S PROVE x <= y
  <2>1. x \in Nat /\ y \in Nat /\ ~(y < x)
    BY <1>2, <1>3, Zenon
  <2> QED BY <2>1
<1> QED BY <1>4

(* Induction up to n, for a set instead of a predicate.                    *)
LEMMA Induction ==
  ASSUME NEW n \in Nat, NEW S, 0 \in S, \A i \in 1 .. n : i - 1 \in S => i \in S
  PROVE  0 .. n \subseteq S
<1> DEFINE bad == (0 .. n) \ S
<1> SUFFICES ASSUME bad # {} PROVE FALSE
  OBVIOUS
<1>1. bad \subseteq Nat
  OBVIOUS
<1>2. PICK x \in bad : \A y \in bad : x <= y
  <2> HIDE DEF bad
  <2> QED BY <1>1, LeastNumber, Zenon
<1>3. x \in 1 .. n /\ x - 1 \in S
  BY <1>2
<1> QED BY <1>3

(* f is the sequence of values of a loop of n turns that starts with b and *)
(* whose turn i makes g[i][t] of t.                                        *)
Loop(n, T, g) == g \in [1 .. n -> [T -> T]]
Runs(n, T, b, g, f) ==
  f \in [0 .. n -> T] /\ f[0] = b /\ \A i \in 1 .. n : f[i] = g[i][f[i - 1]]

(* Such a loop has its values: what makes the recursive function of        *)
(* ParseLines well defined.                                                *)
LEMMA Recursion ==
  ASSUME NEW n \in Nat, NEW T, NEW b \in T, NEW g, Loop(n, T, g)
  PROVE  \E f : Runs(n, T, b, g, f)
<1> USE DEF Loop
<1> DEFINE Upto(k, f) == f[0] = b /\ \A i \in 1 .. k : f[i] = g[i][f[i - 1]]
           S == {k \in 0 .. n : \E f \in [0 .. n -> T] : Upto(k, f)}
<1>1. 0 \in S
  <2> DEFINE h == [i \in 0 .. n |-> b]
  <2>1. h \in [0 .. n -> T] /\ Upto(0, h)
    OBVIOUS
  <2> HIDE DEF h, Upto
  <2> QED BY <2>1
<1>2. ASSUME NEW k \in 1 .. n, k - 1 \in S PROVE k \in S
  <2>1. PICK f \in [0 .. n -> T] : Upto(k - 1, f)
    BY <1>2
  <2> DEFINE h == [f EXCEPT ![k] = g[k][f[k - 1]]]
  <2>2. k \in 0 .. n /\ k - 1 \in 0 .. n /\ f[k - 1] \in T
    OBVIOUS
  <2>3. h \in [0 .. n -> T]
    BY <2>2
  <2>4. h[k] = g[k][h[k - 1]] /\ h[0] = b
    BY <2>1, <2>2
  <2>5. ASSUME NEW i \in 1 .. k - 1 PROVE h[i] = g[i][h[i - 1]]
    <3>1. i \in 0 .. n /\ i - 1 \in 0 .. n /\ i # k /\ i - 1 # k
      OBVIOUS
    <3>2. h[i] = f[i] /\ h[i - 1] = f[i - 1]
      BY <3>1
    <3> QED BY <2>1, <3>2
  <2>6. Upto(k, h)
    <3> HIDE DEF h
    <3> QED BY <2>4, <2>5
  <2> HIDE DEF h, Upto
  <2> QED BY <2>2, <2>3, <2>6
<1>3. n \in S
  <2> HIDE DEF S
  <2>1. 0 .. n \subseteq S BY <1>1, <1>2, Induction, Zenon
  <2> QED BY <2>1
<1> QED BY <1>3 DEF Runs

-----------------------------------------------------------------------------
(* The block.                                                              *)

(* A block as the last crash left it, or cleared since.                    *)
Current(block) ==
  /\ block \in [sig: BOOLEAN, text: Texts, log: Nat]
  /\ block.log = dumps /\ (block.sig <=> dumps > 0)
  /\ block.text \in {last, ClearText}

(* The inductive invariant: the copies in the processes' hands are of the  *)
(* last crash as well, because no process survives one; and the cache is   *)
(* never behind the partition.                                             *)
IInv ==
  /\ dumps \in Nat /\ pc \in [Proc -> {"idle", "write"}] /\ DOMAIN buf = Proc
  /\ Current(disk) /\ Current(cache)
  /\ \A p \in Proc : pc[p] = "write" => Current(buf[p])
  /\ disk.text = ClearText => cache.text = ClearText
  /\ cleared => cache.text = ClearText

-----------------------------------------------------------------------------
(* Setting the status of a block of the last crash to CLEAR.               *)
LEMMA ClearedBlock ==
  ASSUME NEW b, Current(b)
  PROVE  /\ Current([b EXCEPT !.text = ClearText])
         /\ [b EXCEPT !.text = ClearText].text = ClearText
BY DEF Current, Texts

(* The partition starts blank.                                             *)
LEMMA InitInv == Init => IInv
<1> SUFFICES ASSUME Init PROVE IInv
  OBVIOUS
<1>1. Current(Blank) BY DEF Init, Current, Blank, Texts
<1>2. Blank.text # ClearText BY DEF Blank, ClearText
<1> QED BY <1>1, <1>2 DEF Init, IInv

(* A restart from a block that describes the last crash.                   *)
LEMMA RestartInv ==
  ASSUME NEW block, Restart(block), Current(block)', dumps' \in Nat
  PROVE  IInv'
BY DEF Restart, IInv

(* Every step of the processes, the kernel and the boot loader.            *)
LEMMA NextInv == IInv /\ [Next]_vars => IInv'
<1> SUFFICES ASSUME IInv, [Next]_vars PROVE IInv'
  OBVIOUS
<1> USE DEF IInv
<1>1. CASE WriteBack
  BY <1>1 DEF WriteBack, Current
<1>2. CASE PowerLoss
  <2>1. Current(disk)' BY <1>2 DEF PowerLoss, Restart, Current
  <2>2. Restart(disk) /\ disk' = disk /\ dumps' = dumps BY <1>2 DEF PowerLoss, Restart
  <2> QED BY <2>1, <2>2 DEF Restart
<1>3. ASSUME NEW text \in Statuses, Crash(text) PROVE IInv'
  <2> DEFINE block == [sig |-> TRUE, text |-> text, log |-> dumps + 1]
  <2>1. Restart(block) /\ dumps' = dumps + 1 /\ last' = text
    BY <1>3 DEF Crash
  <2>2. block.sig /\ block.text = text /\ block.log = dumps'
        /\ block \in [sig: BOOLEAN, text: Texts, log: Nat]
    BY <2>1 DEF Texts
  <2>3. disk' = block /\ cache' = block BY <2>1 DEF Restart
  <2> HIDE DEF block
  <2>4. Current(disk)' /\ Current(cache)'
    BY <2>1, <2>2, <2>3 DEF Current
  <2> QED BY <2>1, <2>3, <2>4 DEF Restart
<1>4. ASSUME NEW p \in Proc,
             mrdump_is_supported(p) \/ \E cmd \in {"status-get", "status-log"} : StatusGet(p, cmd)
      PROVE  IInv'
  <2>1. UNCHANGED <<disk, cache, pc, buf, cleared, last, dumps>>
    BY <1>4, Zenon DEF mrdump_is_supported, StatusGet
  <2> QED BY <2>1 DEF Current
<1>5. ASSUME NEW p \in Proc, ClearRead(p) PROVE IInv'
  <2>1. UNCHANGED <<disk, cache, cleared, last, dumps>> BY <1>5, Zenon DEF ClearRead
  <2>2. /\ pc' \in [Proc -> {"idle", "write"}] /\ DOMAIN buf' = Proc
        /\ \A q \in Proc : pc'[q] = "write" =>
             (pc[q] = "write" /\ buf'[q] = buf[q]) \/ buf'[q] = cache
    BY <1>5, Zenon DEF ClearRead
  <2> QED BY <2>1, <2>2 DEF Current
<1>6. ASSUME NEW p \in Proc, ClearWrite(p) PROVE IInv'
  <2> DEFINE new == [buf[p] EXCEPT !.text = ClearText]
  <2>1. UNCHANGED <<disk, last, dumps>> BY <1>6, Zenon DEF ClearWrite
  <2>2. /\ pc' \in [Proc -> {"idle", "write"}] /\ DOMAIN buf' = Proc
        /\ \A q \in Proc : pc'[q] = "write" => pc[q] = "write" /\ buf'[q] = buf[q]
    BY <1>6, Zenon DEF ClearWrite
  <2>3. Current(new) /\ new.text = ClearText
    BY <1>6, ClearedBlock, Zenon DEF ClearWrite
  <2>4. cache' = new \/ (cache' = cache /\ cleared' = cleared)
    BY <1>6, Zenon DEF ClearWrite
  <2> HIDE DEF new
  <2>5. Current(cache)' BY <2>1, <2>3, <2>4 DEF Current
  <2>6. (cache' = cache /\ cleared' = cleared) \/ cache'.text = ClearText
    BY <2>3, <2>4
  <2> QED BY <2>1, <2>2, <2>5, <2>6 DEF Current
<1>7. CASE UNCHANGED vars
  BY <1>7 DEF vars, Current
<1> QED BY <1>1, <1>2, <1>3, <1>4, <1>5, <1>6, <1>7 DEF Next

(* The invariant holds in every reachable state.                           *)
LEMMA Invariance == Spec => []IInv
BY InitInv, NextInv, PTL DEF Spec

-----------------------------------------------------------------------------
(* Log, signature and status of the last crash survive every interleaving  *)
(* of reads, clears, failures and power losses.                            *)
THEOREM BlockKept == Spec => []BlockOfLastCrash
<1>1. IInv => BlockOfLastCrash BY DEF IInv, Current, BlockOfLastCrash
<1> QED BY <1>1, Invariance, PTL

(* After mrdump_status_clear has returned true, mrdump_status_get reports  *)
(* no dump to anybody until the system restarts.                           *)
THEOREM ClearSeen == Spec => []ClearedIsNone
<1>1. IInv => ClearedIsNone
  <2> SUFFICES ASSUME IInv, cleared PROVE Parse(cache).status = "NONE" /\ cache.text = ClearText
    BY DEF ClearedIsNone
  <2>1. cache.text = ClearText BY DEF IInv
  <2>2. ClearText # <<>> /\ ClearText[1].key = "CLEAR" BY Zenon DEF ClearText, Line
  <2>3. cache.sig \in BOOLEAN BY DEF IInv, Current
  <2>4. CASE cache.sig
    <3>1. Parse(cache) = [NoResult EXCEPT !.ok = TRUE, !.line = cache.text, !.log = cache.log]
      BY <2>1, <2>2, <2>4 DEF Parse
    <3> QED BY <2>1, <3>1 DEF NoResult
  <2>5. CASE ~cache.sig
    <3>1. Parse(cache) = NoResult BY <2>5 DEF Parse
    <3>2. NoResult.status = "NONE" BY DEF NoResult
    <3> QED BY <2>1, <3>1, <3>2
  <2> QED BY <2>3, <2>4, <2>5
<1> QED BY <1>1, Invariance, PTL

(* A clear that has reached the partition stays until the next crash.      *)
THEOREM ClearFinal == Spec => ClearStays
<1>1. IInv /\ [Next]_vars =>
        [disk.text = ClearText /\ dumps' = dumps => disk'.text = ClearText]_vars
  <2> SUFFICES ASSUME IInv, Next, disk.text = ClearText, dumps' = dumps
               PROVE  disk'.text = ClearText
    OBVIOUS
  <2>0. dumps \in Nat BY DEF IInv
  <2>1. ASSUME NEW text \in Statuses, Crash(text) PROVE FALSE
    <3>1. dumps' = dumps + 1 BY <2>1 DEF Crash
    <3> QED BY <2>0, <3>1
  <2>2. disk' = disk \/ disk' = cache
    BY <2>1, Zenon DEF Next, WriteBack, PowerLoss, Restart, StatusGet, mrdump_is_supported,
       ClearRead, ClearWrite
  <2> QED BY <2>2 DEF IInv
<1> QED BY <1>1, Invariance, PTL DEF Spec, ClearStays

-----------------------------------------------------------------------------
(* The parser.                                                             *)

(* The outputs mrdump_status_get knows, and what it may return.            *)
Known == {"EXT4_DATA", "VFAT_INT_STORAGE"}

Result == [ok: BOOLEAN, status: {"NONE", "OK", "FAILED"}, output: Known \cup {"NULL"},
           mode: Mode \cup {""}, line: Texts, log: 0 .. MaxDumps]

(* What the lines of t up to line i say of r.                              *)
SaysOk(t, i, r) ==
  r.ok <=> \A j \in 2 .. i : t[j].key = "OUTPUT" => t[j].val \in Known
SaysOutput(t, i, r) ==
  /\ \A j \in 2 .. i : t[j].key = "OUTPUT" /\ (\A k \in j + 1 .. i : t[k].key # "OUTPUT")
                         => r.output = t[j].val
  /\ (\A j \in 2 .. i : t[j].key # "OUTPUT") => r.output = "NULL"
SaysMode(t, i, r) ==
  \A j \in 2 .. i : t[j].key = "MODE" /\ (\A k \in j + 1 .. i : t[k].key # "MODE")
                      => r.mode = t[j].val
Says(t, i, r) == SaysOk(t, i, r) /\ (r.ok => SaysOutput(t, i, r) /\ SaysMode(t, i, r))

(* Every status text is a sequence of lines, and its modes are known.      *)
LEMMA TextLines ==
  ASSUME NEW t \in Texts
  PROVE  /\ t \in Seq(Lines)
         /\ \A i \in 1 .. Len(t) : t[i].key = "MODE" => t[i].val \in Mode
<1>1. t \in Seq(Lines)
  <2>1. Line("CLEAR", "") \in Lines
    BY DEF Line, Lines
  <2>2. \A l \in Lines : <<l>> \in Seq(Lines)
    OBVIOUS
  <2>3. ClearText \in Seq(Lines)
    BY <2>1, <2>2, Zenon DEF ClearText
  <2>4. <<>> \in Seq(Lines)
    OBVIOUS
  <2> QED BY <2>3, <2>4, StatusesAssumption, Zenon DEF Texts
<1>2. \A l \in Lines : l.key = "MODE" => l.val \in Mode
  BY Zenon DEF Lines
<1> QED BY <1>1, <1>2

(* One turn of the loop of mrdump_status_get: if the result says what the  *)
(* lines before say, it then also says what this one does.                 *)
LEMMA LineParsed ==
  ASSUME NEW t \in Texts, NEW i \in 2 .. Len(t), NEW r \in Result
  PROVE  /\ ParseLine(r, t[i]) \in Result
         /\ ParseLine(r, t[i]).line = r.line /\ ParseLine(r, t[i]).log = r.log
         /\ ParseLine(r, t[i]).status = r.status
         /\ Says(t, i - 1, r) => Says(t, i, ParseLine(r, t[i]))
<1> DEFINE l == t[i]
           q == ParseLine(r, l)
<1>1. /\ i \in 1 .. Len(t) /\ Len(t) \in Nat /\ (l.key = "MODE" => l.val \in Mode)
  BY TextLines
<1> HIDE DEF l
<1>2. CASE ~r.ok
  <2>1. q = r
    BY <1>2 DEF ParseLine
  <2>2. SaysOk(t, i - 1, r) => SaysOk(t, i, r)
    BY <1>1, <1>2 DEF SaysOk
  <2> QED BY <1>2, <2>1, <2>2 DEF Says, l
<1>3. CASE r.ok /\ l.key = "OUTPUT" /\ l.val \in Known
  <2>1. q = [r EXCEPT !.output = l.val]
    BY <1>3 DEF ParseLine, Known
  <2>2. q \in Result /\ q.line = r.line /\ q.log = r.log /\ q.status = r.status
        /\ q.ok = r.ok /\ q.mode = r.mode /\ q.output = l.val
    BY <1>3, <2>1, Zenon DEF Result
  <2> HIDE DEF q
  <2>3. SaysOk(t, i - 1, r) => SaysOk(t, i, q)
    BY <1>1, <1>3, <2>2 DEF SaysOk, l
  <2>4. SaysOutput(t, i, q)
    BY <1>1, <1>3, <2>2 DEF SaysOutput, l
  <2>5. SaysMode(t, i - 1, r) => SaysMode(t, i, q)
    BY <1>1, <1>3, <2>2 DEF SaysMode, l
  <2> QED BY <1>3, <2>2, <2>3, <2>4, <2>5 DEF Says, q, l
<1>4. CASE r.ok /\ l.key = "OUTPUT" /\ l.val \notin Known
  <2>1. q = [r EXCEPT !.ok = FALSE]
    BY <1>4 DEF ParseLine, Known
  <2>2. q \in Result /\ q.line = r.line /\ q.log = r.log /\ q.status = r.status /\ ~q.ok
    BY <2>1, Zenon DEF Result
  <2> HIDE DEF q
  <2>3. SaysOk(t, i, q)
    BY <1>1, <1>4, <2>2 DEF SaysOk, l
  <2> QED BY <2>2, <2>3 DEF Says, q, l
<1>5. CASE r.ok /\ l.key = "MODE"
  <2>1. q = [r EXCEPT !.mode = l.val]
    BY <1>5 DEF ParseLine
  <2>2. q \in Result /\ q.line = r.line /\ q.log = r.log /\ q.status = r.status
        /\ q.ok = r.ok /\ q.output = r.output /\ q.mode = l.val
    BY <1>1, <1>5, <2>1, Zenon DEF Result
  <2> HIDE DEF q
  <2>3. SaysOk(t, i - 1, r) => SaysOk(t, i, q)
    BY <1>1, <1>5, <2>2 DEF SaysOk, l
  <2>4. SaysOutput(t, i - 1, r) => SaysOutput(t, i, q)
    BY <1>1, <1>5, <2>2 DEF SaysOutput, l
  <2>5. SaysMode(t, i, q)
    BY <1>1, <1>5, <2>2 DEF SaysMode, l
  <2> QED BY <1>5, <2>2, <2>3, <2>4, <2>5 DEF Says, q, l
<1>6. CASE r.ok /\ l.key \notin {"OUTPUT", "MODE"}
  <2>1. q = r
    BY <1>6 DEF ParseLine
  <2>3. SaysOk(t, i - 1, r) => SaysOk(t, i, r)
    BY <1>1, <1>6 DEF SaysOk, l
  <2>4. SaysOutput(t, i - 1, r) => SaysOutput(t, i, r)
    BY <1>1, <1>6 DEF SaysOutput, l
  <2>5. SaysMode(t, i - 1, r) => SaysMode(t, i, r)
    BY <1>1, <1>6 DEF SaysMode, l
  <2> QED BY <2>1, <2>3, <2>4, <2>5 DEF Says, l
<1> QED BY <1>2, <1>3, <1>4, <1>5, <1>6

(* The whole loop, by induction over the lines.                            *)
LEMMA LinesParsed ==
  ASSUME NEW t \in Texts, t # <<>>, NEW r \in Result, r.ok, r.output = "NULL"
  PROVE  /\ ParseLines(r, t) \in Result
         /\ ParseLines(r, t).line = r.line /\ ParseLines(r, t).log = r.log
         /\ ParseLines(r, t).status = r.status
         /\ Says(t, Len(t), ParseLines(r, t))
<1> DEFINE n == Len(t) - 1
           T == Result
           Step(i, q) == ParseLine(q, t[i + 1])
           Def(f) == f = [i \in 0 .. n |-> IF i = 0 THEN r ELSE Step(i, f[i - 1])]
           parsed == CHOOSE f : Def(f)
           Good(i, q) == q.line = r.line /\ q.log = r.log /\ q.status = r.status /\ Says(t, i + 1, q)
<1>1. n \in Nat /\ Len(t) \in Nat /\ \A i \in 1 .. n : i + 1 \in 2 .. Len(t) /\ (i + 1) - 1 = (i - 1) + 1
  BY TextLines
<1>2. ParseLines(r, t) = parsed[n] /\ n + 1 = Len(t)
  BY <1>1 DEF ParseLines
<1> HIDE DEF n
<1>3. ASSUME NEW i \in 1 .. n, NEW q \in T
      PROVE  Step(i, q) \in T /\ (Good(i - 1, q) => Good(i, Step(i, q)))
  BY <1>1, LineParsed
<1>4. r \in T /\ Good(0, r)
  BY DEF Says, SaysOk, SaysOutput, SaysMode
<1> HIDE DEF Step, T, Good
<1>5. \E f : Def(f)
  <2> DEFINE g == [i \in 1 .. n |-> [q \in T |-> Step(i, q)]]
  <2>1. Loop(n, T, g)
    BY <1>3 DEF Loop
  <2>2. \A i \in 1 .. n, q \in T : g[i][q] = Step(i, q)
    OBVIOUS
  <2> HIDE DEF g
  <2>3. PICK f : Runs(n, T, r, g, f)
    BY <1>1, <1>4, <2>1, Recursion, Zenon
  <2>4. \A i \in 1 .. n : f[i - 1] \in T
    BY <1>1, <2>3 DEF Runs
  <2>5. Def(f)
    BY <1>1, <2>2, <2>3, <2>4 DEF Runs
  <2> QED BY <2>5, Zenon
<1>6. Def(parsed)
  <2> HIDE DEF Def
  <2> QED BY <1>5
<1> HIDE DEF parsed
<1>7. parsed[0] = r /\ \A i \in 1 .. n : parsed[i] = Step(i, parsed[i - 1])
  BY <1>1, <1>6
<1> DEFINE S == {i \in 0 .. n : parsed[i] \in T /\ Good(i, parsed[i])}
<1>8. 0 \in S
  BY <1>1, <1>4, <1>7
<1>9. ASSUME NEW i \in 1 .. n, i - 1 \in S PROVE i \in S
  BY <1>1, <1>3, <1>7, <1>9
<1>10. 0 .. n \subseteq S
  <2> HIDE DEF S
  <2> QED BY <1>1, <1>8, <1>9, Induction, Zenon
<1>11. parsed[n] \in T /\ Good(n, parsed[n])
  BY <1>1, <1>10
<1> QED BY <1>1, <1>2, <1>11 DEF T, Good

(* The result of a call that fails at once.                                *)
LEMMA NothingRead == NoResult \in Result /\ ~NoResult.ok
BY MaxDumpsAssumption DEF NoResult, Result, Texts

(* Of the lines with some property there is a last one.                    *)
LEMMA LastLine ==
  ASSUME NEW n \in Nat, NEW S, S \subseteq 2 .. n, S # {}
  PROVE  \E i \in S : \A j \in i + 1 .. n : j \notin S
<1> DEFINE D == {n - j : j \in S}
<1>1. D \subseteq Nat /\ D # {}
  <2>1. \A j \in S : n - j \in Nat
    OBVIOUS
  <2> QED BY <2>1, Zenon
<1>2. PICK d \in D : \A e \in D : d <= e
  <2> HIDE DEF D
  <2> QED BY <1>1, LeastNumber, Zenon
<1>3. PICK i \in S : d = n - i
  OBVIOUS
<1>4. ASSUME NEW j \in i + 1 .. n, j \in S PROVE FALSE
  BY <1>2, <1>3, <1>4
<1> QED BY <1>4

(* mrdump_status_get, for every block: the type of its result, the text    *)
(* and the log it returns, and what it makes of the lines.                 *)
LEMMA Parsed ==
  ASSUME NEW b \in Block
  PROVE  /\ Parse(b) \in Result
         /\ Parse(b).ok => b.sig /\ Parse(b).line = b.text /\ Parse(b).log = b.log
         /\ b.sig /\ b.text # <<>> /\ b.text[1].key = "OK" => Says(b.text, Len(b.text), Parse(b))
<1> DEFINE t == b.text
           got == [NoResult EXCEPT !.ok = TRUE, !.line = t, !.log = b.log]
           ok == [got EXCEPT !.status = "OK"]
           failed == [got EXCEPT !.status = "FAILED"]
<1>1. b.sig \in BOOLEAN /\ t \in Texts /\ b.log \in 0 .. MaxDumps
  BY DEF Block
<1>2. NoResult \in Result /\ ~NoResult.ok
  BY NothingRead
<1>3. /\ got \in Result /\ got.line = t /\ got.log = b.log /\ got.status = "NONE"
      /\ failed \in Result /\ failed.line = t /\ failed.log = b.log
      /\ ok \in Result /\ ok.line = t /\ ok.log = b.log /\ ok.ok /\ ok.output = "NULL"
  BY <1>1, Zenon DEF NoResult, Result
<1>4. CASE ~b.sig \/ t = <<>>
  <2>1. Parse(b) = NoResult
    BY <1>4 DEF Parse
  <2> QED BY <1>2, <1>4, <2>1
<1>5. CASE b.sig /\ t # <<>> /\ t[1].key = "OK"
  <2>1. Parse(b) = ParseLines(ok, t)
    BY <1>5 DEF Parse
  <2> HIDE DEF ok, got, failed, t
  <2>2. /\ ParseLines(ok, t) \in Result /\ ParseLines(ok, t).line = t /\ ParseLines(ok, t).log = b.log
        /\ Says(t, Len(t), ParseLines(ok, t))
    BY <1>1, <1>3, <1>5, LinesParsed
  <2> QED BY <1>5, <2>1, <2>2 DEF t
<1>6. CASE b.sig /\ t # <<>> /\ t[1].key # "OK"
  <2>1. Parse(b) = got \/ Parse(b) = failed
    BY <1>6 DEF Parse
  <2> HIDE DEF got, failed
  <2> QED BY <1>3, <1>6, <2>1
<1> QED BY <1>1, <1>4, <1>5, <1>6

(* mrdump_tool prints something for every result, and a log only as it was *)
(* read.                                                                   *)
LEMMA PrintedOut ==
  ASSUME NEW cmd \in {"status-get", "status-log"}, NEW r \in Result
  PROVE  /\ Printed(cmd, r) \in Out
         /\ Printed(cmd, r).msg = "log" => /\ r.ok /\ Printed(cmd, r).line = r.line
                                           /\ Printed(cmd, r).log = r.log
<1>1. Silent \in Out /\ Silent.msg = ""
  BY MaxDumpsAssumption DEF Silent, Out, Texts
<1>2. \A m \in {"NONE", "FAILED", "Ok", "log", "get status failed"} : Say(m) \in Out /\ Say(m).msg = m
  BY <1>1, Zenon DEF Say, Out
<1>3. r.ok \in BOOLEAN /\ r.line \in Texts /\ r.log \in 0 .. MaxDumps /\ r.mode \in Mode \cup {""}
      /\ r.status \in {"NONE", "OK", "FAILED"} /\ r.output \in Known \cup {"NULL"}
  BY Zenon DEF Result
<1>4. CASE ~r.ok
  <2>1. Printed(cmd, r) = Say("get status failed")
    BY <1>4, Zenon DEF Printed
  <2> QED BY <1>2, <2>1, Zenon
<1>5. CASE r.ok /\ cmd = "status-log"
  <2>1. Printed(cmd, r) = [Say("log") EXCEPT !.line = r.line, !.log = r.log]
    BY <1>5 DEF Printed
  <2> QED BY <1>2, <1>3, <1>5, <2>1, Zenon DEF Out
<1>6. CASE r.ok /\ cmd = "status-get" /\ r.status = "OK"
  <2>1. Printed(cmd, r) = dump_status_ok(r)
    BY <1>6 DEF Printed
  <2>2. PICK o \in {"null", "ext4/data partition", "vfat/internal partition"} :
          dump_status_ok(r) = [Say("Ok") EXCEPT !.mode = r.mode, !.output = o]
    BY <1>3, Zenon DEF dump_status_ok, Known
  <2> DEFINE x == [Say("Ok") EXCEPT !.mode = r.mode, !.output = o]
  <2>3. x \in Out
    BY <1>2, <1>3, Zenon DEF Out
  <2>4. x.msg = "Ok"
    BY <1>2, Zenon DEF Out
  <2> QED BY <2>1, <2>2, <2>3, <2>4, Zenon
<1>7. CASE r.ok /\ cmd = "status-get" /\ r.status # "OK"
  <2>1. Printed(cmd, r) = Say(r.status)
    BY <1>7 DEF Printed
  <2> QED BY <1>2, <1>3, <1>7, <2>1, Zenon
<1> QED BY <1>3, <1>4, <1>5, <1>6, <1>7, Zenon

(* A log that was printed is that of the last crash: no process keeps its  *)
(* output through a restart.                                               *)
LogInv ==
  \A p \in Proc : out[p].msg = "log" => out[p].log = dumps /\ out[p].line \in {last, ClearText}

TInv == TypeOK /\ LogInv

(* TInv holds at first.                                                    *)
LEMMA InitT == Init => TInv
<1>1. Blank \in Block /\ Silent \in Out /\ Silent.msg = ""
  BY MaxDumpsAssumption DEF Blank, Block, Silent, Out, Texts
<1>2. 0 \in 0 .. MaxDumps /\ <<>> \in Texts
  BY MaxDumpsAssumption DEF Texts
<1>3. Init => TypeOK
  BY <1>1, <1>2, Zenon DEF Init, TypeOK
<1>4. Init => LogInv
  BY <1>1, Zenon DEF Init, LogInv
<1> QED BY <1>3, <1>4 DEF TInv

(* Every step keeps TInv; StatusGet because the block it reads is that of  *)
(* the last crash (IInv).                                                  *)
LEMMA NextT == IInv /\ TInv /\ [Next]_vars => TInv'
<1> SUFFICES ASSUME IInv, TInv, [Next]_vars PROVE TInv'
  OBVIOUS
<1> USE DEF TInv
<1>0. Blank \in Block /\ Silent \in Out /\ Silent.msg = ""
  BY MaxDumpsAssumption DEF Blank, Block, Silent, Out, Texts
<1>a. \A m \in {"support ok", "not support", "clear failed"} : Say(m) \in Out /\ Say(m).msg = m
  BY <1>0, Zenon DEF Say, Out
<1>b. \A b \in Block : [b EXCEPT !.text = ClearText] \in Block
  BY DEF Block, Texts
<1>c. ASSUME NEW p \in Proc, NEW o \in Out, out' = [out EXCEPT ![p] = o],
             last' = last, dumps' = dumps,
             o.msg = "log" => o.log = dumps /\ o.line \in {last, ClearText}
      PROVE  out' \in [Proc -> Out] /\ LogInv'
  BY <1>c DEF TypeOK, LogInv
<1>1. CASE WriteBack
  BY <1>1 DEF WriteBack, TypeOK, LogInv
<1>2. ASSUME NEW block \in Block, Restart(block), last' \in Texts, dumps' \in 0 .. MaxDumps
      PROVE  TInv'
  <2>1. /\ disk' \in Block /\ cache' \in Block /\ cleared' \in BOOLEAN
        /\ pc' \in [Proc -> {"idle", "write"}] /\ buf' \in [Proc -> Block]
        /\ out' \in [Proc -> Out] /\ \A p \in Proc : out'[p].msg # "log"
    BY <1>0, <1>2, Zenon DEF Restart
  <2> QED BY <1>2, <2>1 DEF TypeOK, LogInv
<1>3. CASE PowerLoss
  <2>1. disk \in Block /\ Restart(disk) /\ last' \in Texts /\ dumps' \in 0 .. MaxDumps
    BY <1>3 DEF PowerLoss, TypeOK
  <2> QED BY <1>2, <2>1
<1>4. ASSUME NEW text \in Statuses, Crash(text) PROVE TInv'
  <2> DEFINE block == [sig |-> TRUE, text |-> text, log |-> dumps + 1]
  <2>1. dumps \in 0 .. MaxDumps /\ dumps < MaxDumps /\ dumps' = dumps + 1 /\ last' = text /\ Restart(block)
    BY <1>4 DEF Crash, TypeOK
  <2>2. dumps + 1 \in 0 .. MaxDumps /\ text \in Texts
    BY <2>1, MaxDumpsAssumption DEF Texts
  <2>3. block \in Block
    BY <2>2 DEF Block
  <2> HIDE DEF block
  <2> QED BY <1>2, <2>1, <2>2, <2>3
<1>5. ASSUME NEW p \in Proc, mrdump_is_supported(p) PROVE TInv'
  <2>1. PICK m \in {"support ok", "not support"} : out' = [out EXCEPT ![p] = Say(m)]
    BY <1>5, Zenon DEF mrdump_is_supported
  <2>2. UNCHANGED <<disk, cache, pc, buf, cleared, last, dumps>>
    BY <1>5, Zenon DEF mrdump_is_supported
  <2>3. Say(m) \in Out /\ Say(m).msg # "log"
    BY <1>a, Zenon
  <2>4. out' \in [Proc -> Out] /\ LogInv'
    BY <1>c, <2>1, <2>2, <2>3, Zenon
  <2> QED BY <2>2, <2>4, Zenon DEF TypeOK
<1>6. ASSUME NEW p \in Proc, NEW cmd \in {"status-get", "status-log"}, StatusGet(p, cmd) PROVE TInv'
  <2>1. PICK r \in {Parse(cache), NoResult} : out' = [out EXCEPT ![p] = Printed(cmd, r)]
    BY <1>6, Zenon DEF StatusGet
  <2>2. UNCHANGED <<disk, cache, pc, buf, cleared, last, dumps>>
    BY <1>6 DEF StatusGet
  <2>3. cache \in Block /\ cache.log = dumps /\ cache.text \in {last, ClearText}
    BY DEF TypeOK, IInv, Current
  <2>4. NoResult \in Result /\ ~NoResult.ok
    BY NothingRead
  <2>5. r \in Result /\ (r.ok => r.line = cache.text /\ r.log = cache.log)
    BY <2>1, <2>3, <2>4, Parsed
  <2>6. /\ Printed(cmd, r) \in Out
        /\ Printed(cmd, r).msg = "log" => Printed(cmd, r).log = dumps /\ Printed(cmd, r).line \in {last, ClearText}
    BY <2>3, <2>5, PrintedOut
  <2>7. out' \in [Proc -> Out] /\ LogInv'
    BY <1>c, <2>1, <2>2, <2>6, Zenon
  <2> QED BY <2>2, <2>7 DEF TypeOK
<1>7. ASSUME NEW p \in Proc, ClearRead(p) PROVE TInv'
  <2>1. UNCHANGED <<disk, cache, cleared, last, dumps>> BY <1>7, Zenon DEF ClearRead
  <2>2. pc' \in [Proc -> {"idle", "write"}] /\ buf' \in [Proc -> Block]
    BY <1>7, Zenon DEF ClearRead, TypeOK
  <2>3. out' \in [Proc -> Out] /\ LogInv'
    <3>1. CASE out' = out
      BY <2>1, <3>1 DEF TypeOK, LogInv
    <3>2. CASE out' = [out EXCEPT ![p] = Say("clear failed")]
      BY <1>a, <1>c, <2>1, <3>2, Zenon
    <3> QED BY <1>7, <3>1, <3>2, Zenon DEF ClearRead
  <2> QED BY <2>1, <2>2, <2>3 DEF TypeOK
<1>8. ASSUME NEW p \in Proc, ClearWrite(p) PROVE TInv'
  <2>1. UNCHANGED <<disk, last, dumps>> BY <1>8, Zenon DEF ClearWrite
  <2>2. pc' \in [Proc -> {"idle", "write"}] /\ buf' \in [Proc -> Block]
    BY <1>0, <1>8, Zenon DEF ClearWrite, TypeOK
  <2>3. buf[p] \in Block /\ cache \in Block
    BY DEF TypeOK
  <2>4. cache' \in Block /\ cleared' \in BOOLEAN
    BY <1>8, <1>b, <2>3, Zenon DEF ClearWrite, TypeOK
  <2>5. out' \in [Proc -> Out] /\ LogInv'
    <3>1. PICK o \in {Silent, Say("clear failed")} : out' = [out EXCEPT ![p] = o]
      BY <1>8, Zenon DEF ClearWrite
    <3>2. o \in Out /\ o.msg # "log"
      BY <1>0, <1>a, <3>1, Zenon
    <3> QED BY <1>c, <2>1, <3>1, <3>2, Zenon
  <2> QED BY <2>1, <2>2, <2>4, <2>5 DEF TypeOK
<1>9. CASE UNCHANGED vars
  BY <1>9 DEF vars, TypeOK, LogInv
<1> QED BY <1>1, <1>3, <1>4, <1>5, <1>6, <1>7, <1>8, <1>9 DEF Next

(* TInv holds in every reachable state.                                    *)
LEMMA TypeInvariance == Spec => []TInv
BY InitT, NextT, Invariance, PTL DEF Spec

(* Blocks, copies and everything mrdump_tool prints have their shapes:     *)
(* dump_status_ok has a text for every output the parser lets through.     *)
THEOREM TypeCorrect == Spec => []TypeOK
<1>1. TInv => TypeOK BY DEF TInv
<1> QED BY <1>1, TypeInvariance, PTL

(* mrdump_status_get reports what the text says, for status texts of every *)
(* length; status-log prints the log of the last crash, never that of an   *)
(* earlier one.                                                            *)
THEOREM ReportsAreTrue == Spec => []ReportsTheText
<1>1. TInv => ReportsTheText
  <2> SUFFICES ASSUME TInv PROVE ReportsTheText
    OBVIOUS
  <2> DEFINE t == cache.text
             r == Parse(cache)
             Last1(k) == {i \in 2 .. Len(t) : t[i].key = k /\ \A j \in i + 1 .. Len(t) : t[j].key # k}
             known == \A i \in 2 .. Len(t) : t[i].key = "OUTPUT" => t[i].val \in Known
  <2>1. cache \in Block /\ Len(t) \in Nat
    BY TextLines DEF TInv, TypeOK, Block
  <2>2. ASSUME cache.sig, t # <<>>, t[1].key = "OK"
        PROVE  /\ r.ok <=> known
               /\ known => /\ \A i \in Last1("OUTPUT") : r.output = t[i].val
                           /\ \A i \in Last1("MODE") : r.mode = t[i].val
                           /\ Last1("OUTPUT") = {} => r.output = "NULL"
    <3>1. Says(t, Len(t), r)
      BY <2>1, <2>2, Parsed
    <3> HIDE DEF r, t
    <3>2. r.ok <=> known
      BY <3>1 DEF Says, SaysOk
    <3>3. ASSUME known PROVE SaysOutput(t, Len(t), r) /\ SaysMode(t, Len(t), r)
      BY <3>1, <3>2, <3>3 DEF Says
    <3>4. ASSUME Last1("OUTPUT") = {} PROVE \A j \in 2 .. Len(t) : t[j].key # "OUTPUT"
      <4> DEFINE S == {j \in 2 .. Len(t) : t[j].key = "OUTPUT"}
      <4> SUFFICES ASSUME S # {} PROVE FALSE
        OBVIOUS
      <4>1. PICK i \in S : \A j \in i + 1 .. Len(t) : j \notin S
        <5>1. S \subseteq 2 .. Len(t)
          OBVIOUS
        <5> HIDE DEF S
        <5> QED BY <2>1, <5>1, LastLine, Zenon
      <4>2. i \in Last1("OUTPUT")
        BY <2>1, <4>1
      <4> QED BY <3>4, <4>2
    <3> QED BY <3>2, <3>3, <3>4 DEF SaysOutput, SaysMode
  <2> QED BY <2>2 DEF ReportsTheText, TInv, LogInv, Known
<1> QED BY <1>1, TypeInvariance, PTL
=============================================================================

----------------------------- MODULE TestmodeProofs ----------------------------
(***************************************************************************)
(* Proofs about Testmode, for every number of attributes, every report and *)
(* every size of the buffer: replies and commands are not mixed up, a      *)
(* report that was printed holds what the kernel sent and is as long as    *)
(* fits, and a command that passes the result on succeeds exactly if the   *)
(* kernel has executed it.                                                 *)
(***************************************************************************)
EXTENDS Testmode, SequenceTheorems, WellFoundedInduction, TLAPS

-----------------------------------------------------------------------------
(* Induction and recursion up to a number.                                 *)

(* Every non-empty set of natural numbers has a least element.             *)
LEMMA LeastNumber ==
  ASSUME NEW S, S \subseteq Nat, S # {}
  PROVE  \E x \in S : \A y \in S : x <= y
<1> DEFINE R == OpToRel(<, Nat)
<1>1. IsWellFoundedOn(R, Nat)
  BY NatLessThanWellFounded, Zenon
<1>2. \A x, y \in Nat : x < y => <<x, y>> \in R
  BY DEF OpToRel
<1> HIDE DEF R
<1>3. PICK x \in S : \A y \in S : <<y, x>> \notin R
  BY <1>1, WFMin, Zenon
<1>4. ASSUME NEW y \in S PROVE x <= y
  <2>1. x \in Nat /\ y \in Nat /\ ~(y < x)
    BY <1>2, <1>3, Zenon
  <2> QED BY <2>1
<1> QED BY <1>4

(* Induction up to n, for a set instead of a predicate.                    *)
LEMMA Induction ==
  ASSUME NEW n \in Nat, NEW S, 0 \in S, \A i \in 1 .. n : i - 1 \in S => i \in S
  PROVE  0 .. n \subseteq S
<1> DEFINE bad == (0 .. n) \ S
<1> SUFFICES ASSUME bad # {} PROVE FALSE
  OBVIOUS
<1>1. bad \subseteq Nat
  OBVIOUS
<1>2. PICK x \in bad : \A y \in bad : x <= y
  <2> HIDE DEF bad
  <2> QED BY <1>1, LeastNumber, Zenon
<1>3. x \in 1 .. n /\ x - 1 \in S
  BY <1>2
<1> QED BY <1>3

(* f is the sequence of values of a loop of n turns that starts with b and *)
(* whose turn i makes g[i][t] of t.                                        *)
Loop(n, T, g) == g \in [1 .. n -> [T -> T]]
Runs(n, T, b, g, f) ==
  f \in [0 .. n -> T] /\ f[0] = b /\ \A i \in 1 .. n : f[i] = g[i][f[i - 1]]

(* Such a loop has its values: what makes the recursive functions of       *)
(* PrintPieces and SumTo well defined.                                     *)
LEMMA Recursion ==
  ASSUME NEW n \in Nat, NEW T, NEW b \in T, NEW g, Loop(n, T, g)
  PROVE  \E f : Runs(n, T, b, g, f)
<1> USE DEF Loop
<1> DEFINE Upto(k, f) == f[0] = b /\ \A i \in 1 .. k : f[i] = g[i][f[i - 1]]
           S == {k \in 0 .. n : \E f \in [0 .. n -> T] : Upto(k, f)}
<1>1. 0 \in S
  <2> DEFINE h == [i \in 0 .. n |-> b]
  <2>1. h \in [0 .. n -> T] /\ Upto(0, h)
    OBVIOUS
  <2> HIDE DEF h, Upto
  <2> QED BY <2>1
<1>2. ASSUME NEW k \in 1 .. n, k - 1 \in S PROVE k \in S
  <2>1. PICK f \in [0 .. n -> T] : Upto(k - 1, f)
    BY <1>2
  <2> DEFINE h == [f EXCEPT ![k] = g[k][f[k - 1]]]
  <2>2. k \in 0 .. n /\ k - 1 \in 0 .. n /\ f[k - 1] \in T
    OBVIOUS
  <2>3. h \in [0 .. n -> T]
    BY <2>2
  <2>4. h[k] = g[k][h[k - 1]] /\ h[0] = b
    BY <2>1, <2>2
  <2>5. ASSUME NEW i \in 1 .. k - 1 PROVE h[i] = g[i][h[i - 1]]
    <3>1. i \in 0 .. n /\ i - 1 \in 0 .. n /\ i # k /\ i - 1 # k
      OBVIOUS
    <3>2. h[i] = f[i] /\ h[i - 1] = f[i - 1]
      BY <3>1
    <3> QED BY <2>1, <3>2
  <2>6. Upto(k, h)
    <3> HIDE DEF h
    <3> QED BY <2>4, <2>5
  <2> HIDE DEF h, Upto
  <2> QED BY <2>2, <2>3, <2>6
<1>3. n \in S
  <2> HIDE DEF S
  <2>1. 0 .. n \subseteq S BY <1>1, <1>2, Induction, Zenon
  <2> QED BY <2>1
<1> QED BY <1>3 DEF Runs

-----------------------------------------------------------------------------
(* The command and its replies.                                            *)

Message == [cmd: Number, what: {"data", "ack", "error", "ENOBUFS"},
            attrs: SUBSET Attributes, parses: BOOLEAN]

(* What there is and where it may be: the socket is empty unless a command *)
(* waits for it, and an answer with data comes before the acknowledgement. *)
Shape ==
  /\ cmd \in Number /\ op \in Ops \cup {"none"} /\ err \in {-1, 0, 1}
  /\ filled \subseteq Attributes /\ TURNKEY_WLAN \in BOOLEAN
  /\ request \in BOOLEAN /\ omitted \in BOOLEAN /\ lost \in BOOLEAN
  /\ socket \in Seq(Message) /\ Len(socket) <= 2
  /\ pc # "recv" => socket = <<>> /\ ~request
  /\ socket # <<>> => ~request /\ err = 1
  /\ request => err = 1
  /\ \A i \in 1 .. Len(socket) : socket[i].cmd = cmd
  /\ Len(socket) = 2 => socket[1].what \in {"data", "ENOBUFS"}

(* How far the answer to a report has come that is complete.               *)
Progress ==
  pc = "recv" /\ op \in Reports /\ ~lost /\ ~omitted /\ ~request =>
    /\ Len(socket) = 2 => /\ socket[1].what = "data" /\ socket[1].attrs = Attributes
                          /\ socket[1].parses /\ socket[2].what = "ack"
    /\ Len(socket) = 1 => \/ socket[1].what = "error"
                          \/ socket[1].what = "ack" /\ filled = Attributes
    /\ socket = <<>> => err = -1 \/ filled = Attributes

IInv == Shape /\ Progress /\ ReportIsFilled

-----------------------------------------------------------------------------
(* Nothing is in the socket before the first command.                      *)
LEMMA InitInv == Init => IInv
<1> SUFFICES ASSUME Init PROVE IInv
  OBVIOUS
<1>1. TURNKEY_WLAN \in BOOLEAN BY BuildsAssumption DEF Init
<1>2. socket \in Seq(Message) /\ Len(socket) = 0 /\ socket = <<>> BY DEF Init
<1>3. op = "none" /\ op \notin Reports BY DEF Init, Reports
<1>4. Shape
  <2>1. \A i \in 1 .. Len(socket) : socket[i].cmd = cmd BY <1>2
  <2>2. cmd \in Number /\ err \in {-1, 0, 1} /\ filled \subseteq Attributes
    BY DEF Init, Number
  <2>3. request \in BOOLEAN /\ omitted \in BOOLEAN /\ lost \in BOOLEAN /\ ~request
    BY Zenon DEF Init
  <2> QED BY <1>1, <1>2, <1>3, <2>1, <2>2, <2>3 DEF Shape
<1> QED BY <1>3, <1>4 DEF IInv, Progress, ReportIsFilled

(* A report whose transaction failed is not printed.                       *)
LEMMA FailedReport ==
  ASSUME op \in Reports PROVE driver_cmd(op, -1, buflen) = -1
BY DEF Reports, driver_cmd, wpa_driver_get_sta_statistics, wpa_driver_get_sta_link_detect

(* All handlers do the same with the attributes of a message.              *)
LEMMA HandlerFills ==
  ASSUME NEW m \in Message, filled \subseteq Attributes
  PROVE  /\ valid_handler(m) \subseteq Attributes
         /\ op \in Reports /\ m.parses /\ m.attrs = Attributes => valid_handler(m) = Attributes
BY DEF Message, valid_handler, testmode_sta_statistics_handler, testmode_sta_link_detect_handler,
       testmode_beamplus_go_ready_handler, Handler, Reports

(* driver_cmd and wpa_driver_nl80211_testmode.                             *)
LEMMA SendInv ==
  ASSUME IInv,
         \/ \E o \in Ops, len \in BufLens : Begin(o, len)
         \/ wpa_driver_nl80211_testmode
  PROVE  IInv'
<1> USE DEF localVars, history
<1>1. ASSUME NEW o \in Ops, NEW len \in BufLens, Begin(o, len) PROVE IInv'
  <2>1. pc' # "recv" /\ socket = <<>> /\ ~request /\ UNCHANGED <<socket, request, err, TURNKEY_WLAN>>
    BY <1>1 DEF Begin, IInv, Shape
  <2>2. cmd' \in Number BY <1>1 DEF Begin, IInv, Shape, Number
  <2>3. op' = o /\ filled' = {} /\ ~omitted' /\ ~lost' /\ omitted' \in BOOLEAN /\ lost' \in BOOLEAN
    BY <1>1, Zenon DEF Begin
  <2>4. Shape' BY <2>1, <2>2, <2>3 DEF IInv, Shape
  <2>5. pc' = "idle" /\ op' \in Reports => ~(result' > 0)
    BY <1>1 DEF Begin, MayEndEarly, Reports
  <2> QED BY <2>1, <2>4, <2>5 DEF IInv, Progress, ReportIsFilled
<1>2. CASE wpa_driver_nl80211_testmode
  <2>1. socket = <<>> /\ ~request /\ UNCHANGED <<localVars, filled, socket, history>>
    BY <1>2 DEF wpa_driver_nl80211_testmode, IInv, Shape
  <2>2. CASE TURNKEY_WLAN /\ pc' = "recv" /\ err' = 1 /\ request' = TRUE
    BY <2>1, <2>2 DEF IInv, Shape, Progress, ReportIsFilled
  <2>3. CASE TURNKEY_WLAN /\ Return(-1) /\ UNCHANGED <<err, request>>
    <3>1. op \in Reports => result' = -1 BY <2>3, FailedReport DEF Return
    <3>2. pc' = "idle" BY <2>3 DEF Return
    <3> QED BY <2>1, <2>3, <3>1, <3>2 DEF IInv, Shape, Progress, ReportIsFilled
  <2>4. CASE ~TURNKEY_WLAN /\ Return(0) /\ UNCHANGED <<err, request>>
    <3>1. pc' = "idle" BY <2>4 DEF Return
    <3> QED BY <2>1, <2>4, <3>1 DEF IInv, Shape, Progress, ReportIsFilled
  <2> QED BY <1>2, <2>2, <2>3, <2>4, Zenon DEF wpa_driver_nl80211_testmode
<1> QED BY <1>1, <1>2

(* The loop of send_and_recv_msgs takes one message.                       *)
LEMMA RecvInv == IInv /\ send_and_recv_msgs => IInv'
<1> SUFFICES ASSUME IInv, send_and_recv_msgs PROVE IInv'
  OBVIOUS
<1> USE DEF localVars, history
<1> DEFINE m == Head(socket)
<1>1. /\ pc = "recv" /\ socket # <<>> /\ socket' = Tail(socket)
      /\ UNCHANGED <<pc, localVars, result, request, history>>
      /\ err' = CASE m.what = "ack" -> 0 [] m.what = "error" -> -1 [] OTHER -> err
      /\ filled' = IF m.what = "data" THEN valid_handler(m) ELSE filled
  BY DEF send_and_recv_msgs
<1>a. socket \in Seq(Message) /\ Len(socket) <= 2 BY DEF IInv, Shape
<1>b. Len(socket) = 1 \/ Len(socket) = 2
  <2>1. Len(socket) \in Nat \ {0} BY <1>1, <1>a, EmptySeq
  <2>2. PICK n \in Nat \ {0} : n = Len(socket) BY <2>1
  <2>3. n <= 2 BY <1>a, <2>2
  <2>4. n = 1 \/ n = 2 BY <2>3
  <2> QED BY <2>2, <2>4
<1>c. m = socket[1] /\ m \in Message
  BY <1>1, <1>a, HeadTailProperties
<1>d. socket' \in Seq(Message) /\ Len(socket') = Len(socket) - 1
  BY <1>1, <1>a, HeadTailProperties
<1>e. Len(socket) = 2 => socket'[1] = socket[2]
  BY <1>1, <1>a, <1>d, HeadTailProperties
<1> HIDE DEF m
<1>3. filled' \subseteq Attributes BY <1>1, <1>c, HandlerFills DEF IInv, Shape
<1>4. ~request /\ err = 1 BY <1>1 DEF IInv, Shape
<1>5. err' \in {-1, 0, 1} BY <1>1, <1>4
<1>6. Len(socket) = 2 => err' = 1
  <2>1. Len(socket) = 2 => m.what \in {"data", "ENOBUFS"} BY <1>c DEF IInv, Shape
  <2> QED BY <1>1, <1>4, <2>1
<1>7. Shape'
  <2>1. Len(socket') = 0 \/ Len(socket') = 1 BY <1>b, <1>d
  <2>2. \A i \in 1 .. Len(socket') : socket'[i].cmd = cmd'
    <3>1. CASE Len(socket) = 1 BY <1>d, <3>1
    <3>2. CASE Len(socket) = 2
      <4>1. socket'[1].cmd = cmd BY <1>a, <1>e, <3>2 DEF IInv, Shape
      <4> QED BY <1>1, <1>d, <3>2, <4>1
    <3> QED BY <1>b, <3>1, <3>2
  <2>3. socket' # <<>> => Len(socket) = 2 BY <1>b, <1>d, EmptySeq
  <2>4. socket' # <<>> => ~request' /\ err' = 1 BY <1>1, <1>4, <1>6, <2>3
  <2>5. Len(socket') <= 2 /\ Len(socket') # 2 BY <2>1
  <2>6. /\ cmd' \in Number /\ op' \in Ops \cup {"none"} /\ TURNKEY_WLAN' \in BOOLEAN
        /\ request' \in BOOLEAN /\ omitted' \in BOOLEAN /\ lost' \in BOOLEAN
        /\ ~request' /\ pc' = "recv"
    BY <1>1, <1>4 DEF IInv, Shape
  <2> QED BY <1>3, <1>5, <1>d, <2>2, <2>4, <2>5, <2>6 DEF Shape
<1>8. Progress'
  <2> SUFFICES ASSUME op \in Reports, ~lost, ~omitted
               PROVE  /\ Len(socket') # 2
                      /\ Len(socket') = 1 => socket'[1].what = "ack" /\ filled' = Attributes
                      /\ socket' = <<>> => err' = -1 \/ filled' = Attributes
    BY <1>1 DEF Progress
  <2>1. CASE Len(socket) = 2
    <3>1. /\ socket[1].what = "data" /\ socket[1].attrs = Attributes /\ socket[1].parses
          /\ socket[2].what = "ack"
      BY <1>1, <1>4, <2>1 DEF IInv, Progress
    <3>2. filled' = Attributes BY <1>1, <1>c, <3>1, HandlerFills DEF IInv, Shape
    <3>3. Len(socket') = 1 BY <1>d, <2>1
    <3> QED BY <1>e, <2>1, <3>1, <3>2, <3>3
  <2>2. CASE Len(socket) = 1
    <3>1. \/ socket[1].what = "error"
          \/ socket[1].what = "ack" /\ filled = Attributes
      BY <1>1, <1>4, <2>2 DEF IInv, Progress
    <3>2. err' = -1 \/ filled' = Attributes BY <1>1, <1>c, <3>1
    <3>3. Len(socket') = 0 BY <1>d, <2>2
    <3> QED BY <3>2, <3>3
  <2> QED BY <1>b, <2>1, <2>2
<1>9. ReportIsFilled' BY <1>1 DEF ReportIsFilled
<1> QED BY <1>7, <1>8, <1>9 DEF IInv

(* The loop has ended, and nothing is left in the socket.                  *)
LEMMA FinishInv == IInv /\ Finish => IInv'
<1> SUFFICES ASSUME IInv, Finish PROVE IInv'
  OBVIOUS
<1> USE DEF localVars, history
<1>1. /\ pc = "recv" /\ err \in {-1, 0} /\ pc' = "idle" /\ result' = driver_cmd(op, err, buflen)
      /\ UNCHANGED <<localVars, err, filled, request, socket, history>>
  BY DEF Finish, Return, IInv, Shape
<1>2. socket = <<>> /\ ~request BY <1>1 DEF IInv, Shape
<1>3. Shape' BY <1>1, <1>2 DEF IInv, Shape
<1>4. ReportIsFilled'
  <2> SUFFICES ASSUME op \in Reports, ~lost, ~omitted, result' > 0 PROVE filled = Attributes
    BY <1>1 DEF ReportIsFilled
  <2>1. err # -1
    <3>1. err = -1 => result' = -1 BY <1>1, FailedReport
    <3> QED BY <3>1
  <2> QED BY <1>1, <1>2, <2>1 DEF IInv, Progress
<1> QED BY <1>1, <1>3, <1>4 DEF IInv, Progress

(* The kernel answers: one message, or two of which the first has data.    *)
LEMMA KernelInv == IInv /\ KernelReplies => IInv'
<1> SUFFICES ASSUME IInv, KernelReplies PROVE IInv'
  OBVIOUS
<1> USE DEF localVars
<1>1. /\ request /\ ~request' /\ request' \in BOOLEAN
      /\ UNCHANGED <<pc, localVars, err, filled, result, lost>>
  BY Zenon DEF KernelReplies
<1>2. pc = "recv" /\ err = 1 /\ socket = <<>> BY <1>1 DEF IInv, Shape
<1>3. cmd \in Number BY DEF IInv, Shape
<1>4. SUFFICES ASSUME socket' \in Seq(Message), Len(socket') = 1 \/ Len(socket') = 2,
                      \A j \in 1 .. Len(socket') : socket'[j].cmd = cmd,
                      Len(socket') = 2 => socket'[1].what \in {"data", "ENOBUFS"},
                      omitted' \in BOOLEAN, Progress'
               PROVE  IInv'
  <2>1. ASSUME NEW m \in Message, m.cmd = cmd, socket' = Append(socket, m)
        PROVE  /\ socket' \in Seq(Message) /\ Len(socket') = 1 /\ socket'[1] = m
               /\ \A j \in 1 .. Len(socket') : socket'[j].cmd = cmd
    BY <1>2, <2>1
  <2>2. CASE /\ socket' = Append(socket, Msg("error", {}, TRUE)) /\ UNCHANGED omitted
    <3> DEFINE m == Msg("error", {}, TRUE)
    <3>1. m \in Message /\ m.cmd = cmd /\ m.what = "error" BY <1>3 DEF Msg, Message
    <3> HIDE DEF m
    <3>2. socket' \in Seq(Message) /\ Len(socket') = 1 /\ socket'[1] = m
          /\ \A j \in 1 .. Len(socket') : socket'[j].cmd = cmd
      BY <2>1, <2>2, <3>1, Zenon DEF m
    <3>3. omitted' \in BOOLEAN BY <2>2 DEF IInv, Shape
    <3>4. socket' # <<>> BY <3>2
    <3>5. Progress' BY <3>1, <3>2, <3>4 DEF Progress
    <3> QED BY <1>4, <3>2, <3>3, <3>5
  <2>3. CASE /\ op \notin Reports \cup {"get_beamplus"}
             /\ socket' = Append(socket, Msg("ack", {}, TRUE)) /\ UNCHANGED omitted
    <3> DEFINE m == Msg("ack", {}, TRUE)
    <3>1. m \in Message /\ m.cmd = cmd BY <1>3 DEF Msg, Message
    <3> HIDE DEF m
    <3>2. socket' \in Seq(Message) /\ Len(socket') = 1
          /\ \A j \in 1 .. Len(socket') : socket'[j].cmd = cmd
      BY <2>1, <2>3, <3>1, Zenon DEF m
    <3>3. omitted' \in BOOLEAN BY <2>3 DEF IInv, Shape
    <3>4. Progress' BY <1>1, <2>3 DEF Progress
    <3> QED BY <1>4, <3>2, <3>3, <3>4
  <2>4. ASSUME NEW A \in SUBSET Attributes, NEW p \in BOOLEAN,
               socket' = socket \o <<Msg("data", A, p), Msg("ack", {}, TRUE)>>,
               omitted' = (A # Attributes \/ ~p)
        PROVE  IInv'
    <3> DEFINE d == Msg("data", A, p)
               a == Msg("ack", {}, TRUE)
    <3>1. /\ d \in Message /\ d.cmd = cmd /\ d.what = "data" /\ d.attrs = A /\ d.parses = p
          /\ a \in Message /\ a.cmd = cmd /\ a.what = "ack"
      BY <1>3 DEF Msg, Message
    <3> HIDE DEF d, a
    <3>2. socket' = <<d, a>> BY <1>2, <2>4, <3>1 DEF d, a
    <3>3. socket' \in Seq(Message) /\ Len(socket') = 2 /\ socket'[1] = d /\ socket'[2] = a
      BY <3>1, <3>2
    <3>4. \A j \in 1 .. Len(socket') : socket'[j].cmd = cmd
      BY <3>1, <3>3
    <3>5. omitted' \in BOOLEAN BY <2>4
    <3>6. ~omitted' => A = Attributes /\ p BY <2>4, Zenon
    <3>7. Progress'
      <4>1. socket' # <<>> /\ Len(socket') # 1 BY <3>3
      <4>2. ~omitted' => d.attrs = Attributes /\ d.parses BY <3>1, <3>6
      <4> QED BY <3>1, <3>3, <4>1, <4>2, Zenon DEF Progress
    <3> QED BY <1>4, <3>1, <3>3, <3>4, <3>5, <3>7
  <2> QED BY <2>2, <2>3, <2>4, Zenon DEF KernelReplies
<1>5. Shape'
  <2>1. Len(socket') <= 2 BY <1>4
  <2> QED BY <1>1, <1>2, <1>4, <2>1 DEF IInv, Shape
<1>6. ReportIsFilled' BY <1>1, <1>2 DEF ReportIsFilled
<1> QED BY <1>4, <1>5, <1>6 DEF IInv

(* A message is lost; the command is excused, and the others still belong  *)
(* to it.                                                                  *)
LEMMA OverflowInv ==
  ASSUME IInv, NEW i \in 1 .. 2, Overflow(i)
  PROVE  IInv'
<1> USE DEF localVars
<1>1. /\ i \in DOMAIN socket /\ lost' = TRUE
      /\ socket' = [socket EXCEPT ![i].what = "ENOBUFS", ![i].attrs = {}]
      /\ UNCHANGED <<pc, localVars, err, filled, result, request, executed, omitted>>
  BY DEF Overflow
<1>2. socket \in Seq(Message) /\ i \in 1 .. Len(socket) /\ Len(socket) <= 2
  BY <1>1 DEF IInv, Shape
<1> DEFINE e == [socket[i] EXCEPT !.what = "ENOBUFS", !.attrs = {}]
<1>3. e \in Message /\ e.cmd = socket[i].cmd /\ e.what = "ENOBUFS"
  <2>1. socket[i] \in Message BY <1>2
  <2> QED BY <2>1, Zenon DEF Message
<1>4. socket' = [socket EXCEPT ![i] = e] BY <1>1, <1>2, Zenon
<1> HIDE DEF e
<1>5. /\ socket' \in Seq(Message) /\ Len(socket') = Len(socket)
      /\ \A j \in 1 .. Len(socket) : socket'[j] = IF j = i THEN e ELSE socket[j]
  BY <1>2, <1>3, <1>4, ExceptSeq
<1>6. \A j \in 1 .. Len(socket') : socket'[j].cmd = cmd'
  BY <1>1, <1>2, <1>3, <1>5 DEF IInv, Shape
<1>7. Len(socket') = 2 => socket'[1].what \in {"data", "ENOBUFS"}
  BY <1>3, <1>5 DEF IInv, Shape
<1>8. socket # <<>> BY <1>2, EmptySeq
<1>9. Shape'
  <2>1. Len(socket') <= 2 BY <1>2, <1>5
  <2>2. pc = "recv" /\ ~request /\ err = 1 BY <1>8 DEF IInv, Shape
  <2>3. lost' \in BOOLEAN BY <1>1
  <2> QED BY <1>1, <1>5, <1>6, <1>7, <2>1, <2>2, <2>3 DEF IInv, Shape
<1> QED BY <1>1, <1>9 DEF IInv, Progress, ReportIsFilled

(* A new process has a new socket.                                         *)
LEMMA RestartInv == IInv /\ Restart => IInv'
<1> SUFFICES ASSUME IInv, Restart PROVE IInv'
  OBVIOUS
<1>1. /\ pc' = "idle" /\ op' = "none" /\ err' = 0 /\ filled' = {} /\ socket' = <<>>
      /\ UNCHANGED <<TURNKEY_WLAN, cmd, buflen>>
  BY DEF Restart
<1>2. request' = FALSE /\ lost' = FALSE /\ omitted' = FALSE BY DEF Restart
<1>3. Len(socket') = 0 /\ socket' \in Seq(Message) BY <1>1
<1>4. op' \notin Reports BY <1>1 DEF Reports
<1>5. Shape'
  <2>1. err' \in {-1, 0, 1} /\ filled' \subseteq Attributes /\ op' \in Ops \cup {"none"}
    BY <1>1
  <2>2. request' \in BOOLEAN /\ omitted' \in BOOLEAN /\ lost' \in BOOLEAN /\ ~request'
    BY <1>2, Zenon
  <2>3. \A i \in 1 .. Len(socket') : socket'[i].cmd = cmd' BY <1>3
  <2>4. Len(socket') <= 2 /\ Len(socket') # 2 BY <1>3
  <2>5. cmd' \in Number /\ TURNKEY_WLAN' \in BOOLEAN BY <1>1 DEF IInv, Shape
  <2> QED BY <1>1, <1>3, <2>1, <2>2, <2>3, <2>4, <2>5 DEF Shape
<1> QED BY <1>1, <1>4, <1>5 DEF IInv, Progress, ReportIsFilled

(* Every step of wpa_supplicant, the kernel and the socket.                *)
LEMMA NextInv == IInv /\ [Next]_vars => IInv'
<1> SUFFICES ASSUME IInv, [Next]_vars PROVE IInv'
  OBVIOUS
<1>1. CASE UNCHANGED vars
  BY <1>1 DEF vars, localVars, history, IInv, Shape, Progress, ReportIsFilled
<1> QED BY <1>1, SendInv, RecvInv, FinishInv, KernelInv, OverflowInv, RestartInv DEF Next

(* The inductive invariant holds throughout.                               *)
THEOREM Invariance == Spec => []IInv
BY InitInv, NextInv, PTL DEF Spec

(* No reply is taken for the reply to another command.                     *)
THEOREM RepliesNotMixed == Spec => []ReplyOfThisCommand
<1>1. IInv => ReplyOfThisCommand
  <2> SUFFICES ASSUME IInv PROVE ReplyOfThisCommand
    OBVIOUS
  <2>1. DOMAIN socket = 1 .. Len(socket) BY DEF IInv, Shape
  <2>2. \A i \in DOMAIN socket : socket # <<>> BY <2>1, EmptySeq DEF IInv, Shape
  <2> QED BY <2>1, <2>2 DEF IInv, Shape, ReplyOfThisCommand
<1> QED BY <1>1, Invariance, PTL

(* A report holds only what the kernel has sent for it, however many       *)
(* values it has.                                                          *)
THEOREM ReportsFilled == Spec => []ReportIsFilled
<1>1. IInv => ReportIsFilled BY DEF IInv
<1> QED BY <1>1, Invariance, PTL

-----------------------------------------------------------------------------
(* The pieces of a report are not empty.                                   *)
LEMMA PieceTypes ==
  Len(Pieces) \in Nat /\ \A i \in 1 .. Len(Pieces) : Pieces[i] \in Nat \ {0}
BY PiecesAssumption

(* SumTo(k) is the length of the first k pieces.                           *)
LEMMA Sums ==
  /\ SumTo(0) = 0
  /\ \A k \in 0 .. Len(Pieces) : SumTo(k) \in Nat
  /\ \A k \in 1 .. Len(Pieces) : SumTo(k) = SumTo(k - 1) + Pieces[k]
<1> DEFINE n == Len(Pieces)
           Step(i, x) == x + Pieces[i]
           Def(f) == f = [i \in 0 .. n |-> IF i = 0 THEN 0 ELSE Step(i, f[i - 1])]
           sum == CHOOSE f : Def(f)
<1>1. n \in Nat
  BY PieceTypes
<1>2. \A k : SumTo(k) = sum[k]
  BY DEF SumTo
<1> HIDE DEF n
<1>3. \A i \in 1 .. n, x \in Nat : Step(i, x) \in Nat
  BY PieceTypes DEF n
<1> HIDE DEF Step
<1>4. \E f : Def(f)
  <2> DEFINE g == [i \in 1 .. n |-> [x \in Nat |-> Step(i, x)]]
  <2>1. Loop(n, Nat, g)
    BY <1>3 DEF Loop
  <2>2. \A i \in 1 .. n, x \in Nat : g[i][x] = Step(i, x)
    OBVIOUS
  <2> HIDE DEF g
  <2>3. PICK f : Runs(n, Nat, 0, g, f)
    BY <1>1, <2>1, Recursion
  <2>4. \A i \in 1 .. n : f[i - 1] \in Nat
    BY <1>1, <2>3 DEF Runs
  <2>5. Def(f)
    BY <1>1, <2>2, <2>3, <2>4 DEF Runs
  <2> QED BY <2>5, Zenon
<1>5. Def(sum)
  <2> HIDE DEF Def
  <2> QED BY <1>4
<1> HIDE DEF sum
<1>6. sum[0] = 0 /\ \A i \in 1 .. n : sum[i] = Step(i, sum[i - 1])
  BY <1>1, <1>5
<1> DEFINE S == {i \in 0 .. n : sum[i] \in Nat}
<1>7. 0 \in S
  BY <1>1, <1>6
<1>8. ASSUME NEW i \in 1 .. n, i - 1 \in S PROVE i \in S
  BY <1>1, <1>3, <1>6, <1>8
<1>9. 0 .. n \subseteq S
  <2> HIDE DEF S
  <2> QED BY <1>1, <1>7, <1>8, Induction
<1> QED BY <1>2, <1>6, <1>9, Zenon DEF n, Step

(* More pieces are longer.                                                 *)
LEMMA SumsGrow ==
  \A k \in 0 .. Len(Pieces), j \in 0 .. Len(Pieces) : j < k => SumTo(j) < SumTo(k)
<1> DEFINE n == Len(Pieces)
           S == {k \in 0 .. n : \A j \in 0 .. n : j < k => SumTo(j) < SumTo(k)}
<1>1. n \in Nat
  BY PieceTypes
<1>2. 0 \in S
  BY <1>1
<1>3. ASSUME NEW k \in 1 .. n, k - 1 \in S PROVE k \in S
  <2> SUFFICES ASSUME NEW j \in 0 .. n, j < k PROVE SumTo(j) < SumTo(k)
    BY <1>1
  <2>1. SumTo(k) = SumTo(k - 1) + Pieces[k] /\ Pieces[k] \in Nat \ {0}
        /\ SumTo(k - 1) \in Nat /\ SumTo(j) \in Nat
    BY <1>1, Sums, PieceTypes
  <2>2. j = k - 1 \/ j < k - 1
    BY <1>1
  <2>3. SumTo(j) <= SumTo(k - 1)
    BY <1>3, <2>1, <2>2
  <2> QED BY <2>1, <2>3
<1>4. 0 .. n \subseteq S
  <2> HIDE DEF S, n
  <2> QED BY <1>1, <1>2, <1>3, Induction
<1> QED BY <1>4

(* After i pieces, the first m of them are in the buffer.                  *)
Holds(len, i, r, m) ==
  /\ r.pos = SumTo(m) /\ (m = 0 \/ SumTo(m) < len)
  /\ r.fits <=> m = i
  /\ m < i => SumTo(m + 1) >= len

(* One os_snprintf: it adds its piece, or it was the first that did not    *)
(* fit, or it comes after that one and adds nothing.                       *)
LEMMA PieceAdded ==
  ASSUME NEW len \in Nat, NEW i \in 1 .. Len(Pieces), NEW r \in [pos: Nat, fits: BOOLEAN]
  PROVE  /\ AddPiece(r, len, Pieces[i]) \in [pos: Nat, fits: BOOLEAN]
         /\ \A m \in 0 .. i - 1 : Holds(len, i - 1, r, m) =>
              \E k \in 0 .. i : Holds(len, i, AddPiece(r, len, Pieces[i]), k)
<1> DEFINE q == AddPiece(r, len, Pieces[i])
<1>0. Pieces[i] \in Nat \ {0} /\ r.pos \in Nat /\ r.fits \in BOOLEAN /\ i \in Nat
      /\ SumTo(i) = SumTo(i - 1) + Pieces[i] /\ SumTo(i - 1) \in Nat /\ i - 1 \in 0 .. Len(Pieces)
  BY PieceTypes, Sums
<1>1. CASE r.fits /\ r.pos + Pieces[i] < len
  <2>1. q \in [pos: Nat, fits: BOOLEAN] /\ q.pos = r.pos + Pieces[i] /\ q.fits
    BY <1>0, <1>1 DEF AddPiece
  <2> HIDE DEF q
  <2>2. ASSUME NEW m \in 0 .. i - 1, Holds(len, i - 1, r, m) PROVE Holds(len, i, q, i)
    BY <1>0, <1>1, <2>1, <2>2 DEF Holds
  <2> QED BY <1>0, <2>1, <2>2 DEF q
<1>2. CASE r.fits /\ ~(r.pos + Pieces[i] < len)
  <2>1. q \in [pos: Nat, fits: BOOLEAN] /\ q.pos = r.pos /\ ~q.fits
    BY <1>0, <1>2, Zenon DEF AddPiece
  <2> HIDE DEF q
  <2>2. ASSUME NEW m \in 0 .. i - 1, Holds(len, i - 1, r, m) PROVE Holds(len, i, q, i - 1)
    <3>1. m = i - 1 /\ r.pos = SumTo(i - 1) /\ (i - 1 = 0 \/ SumTo(i - 1) < len)
      BY <1>2, <2>2 DEF Holds
    <3>2. (i - 1) + 1 = i /\ SumTo(i) >= len
      BY <1>0, <1>2, <3>1
    <3> QED BY <1>0, <2>1, <3>1, <3>2 DEF Holds
  <2> QED BY <1>0, <2>1, <2>2 DEF q
<1>3. CASE ~r.fits
  <2>1. q \in [pos: Nat, fits: BOOLEAN] /\ q.pos = r.pos /\ ~q.fits
    BY <1>0, <1>3, Zenon DEF AddPiece
  <2> HIDE DEF q
  <2>2. ASSUME NEW m \in 0 .. i - 1, Holds(len, i - 1, r, m) PROVE Holds(len, i, q, m)
    BY <1>0, <1>3, <2>1, <2>2 DEF Holds
  <2> QED BY <1>0, <2>1, <2>2 DEF q
<1> QED BY <1>0, <1>1, <1>2, <1>3

(* All of them: a prefix of the pieces is in the buffer.                   *)
LEMMA PiecesPrinted ==
  ASSUME NEW len \in Nat
  PROVE  /\ PrintPieces(len) \in [pos: Nat, fits: BOOLEAN]
         /\ \E m \in 0 .. Len(Pieces) : Holds(len, Len(Pieces), PrintPieces(len), m)
<1> DEFINE n == Len(Pieces)
           T == [pos: Nat, fits: BOOLEAN]
           b == [pos |-> 0, fits |-> TRUE]
           Step(i, r) == AddPiece(r, len, Pieces[i])
           Def(f) == f = [i \in 0 .. n |-> IF i = 0 THEN b ELSE Step(i, f[i - 1])]
           printed == CHOOSE f : Def(f)
           Good(i, r) == \E m \in 0 .. i : Holds(len, i, r, m)
<1>1. n \in Nat
  BY PieceTypes
<1>2. PrintPieces(len) = printed[n]
  BY DEF PrintPieces
<1>3. ASSUME NEW i \in 1 .. n, NEW r \in T
      PROVE  Step(i, r) \in T /\ (Good(i - 1, r) => Good(i, Step(i, r)))
  BY PieceAdded, Zenon
<1>4. b \in T /\ Good(0, b)
  <2>1. Holds(len, 0, b, 0)
    BY Sums DEF Holds
  <2> QED BY <2>1
<1> HIDE DEF n, Step, T, Good, b
<1>5. \E f : Def(f)
  <2> DEFINE g == [i \in 1 .. n |-> [r \in T |-> Step(i, r)]]
  <2>1. Loop(n, T, g)
    BY <1>3 DEF Loop
  <2>2. \A i \in 1 .. n, r \in T : g[i][r] = Step(i, r)
    OBVIOUS
  <2> HIDE DEF g
  <2>3. PICK f : Runs(n, T, b, g, f)
    BY <1>1, <1>4, <2>1, Recursion
  <2>4. \A i \in 1 .. n : f[i - 1] \in T
    BY <1>1, <2>3 DEF Runs
  <2>5. Def(f)
    BY <1>1, <2>2, <2>3, <2>4 DEF Runs
  <2> QED BY <2>5, Zenon
<1>6. Def(printed)
  <2> HIDE DEF Def
  <2> QED BY <1>5
<1> HIDE DEF printed
<1>7. printed[0] = b /\ \A i \in 1 .. n : printed[i] = Step(i, printed[i - 1])
  BY <1>1, <1>6
<1> DEFINE S == {i \in 0 .. n : printed[i] \in T /\ Good(i, printed[i])}
<1>8. 0 \in S
  BY <1>1, <1>4, <1>7
<1>9. ASSUME NEW i \in 1 .. n, i - 1 \in S PROVE i \in S
  BY <1>1, <1>3, <1>7, <1>9
<1>10. 0 .. n \subseteq S
  <2> HIDE DEF S
  <2> QED BY <1>1, <1>8, <1>9, Induction
<1>11. printed[n] \in T /\ Good(n, printed[n])
  BY <1>1, <1>10
<1> QED BY <1>2, <1>11 DEF T, Good, n

(* The prefixes that fit, and the longest one, as in ReportFits.           *)
Fit(len) == {k \in 0 .. Len(Pieces) : k = 0 \/ SumTo(k) < len}
Most(len) == CHOOSE k \in Fit(len) : \A j \in Fit(len) : j <= k

(* It is the longest prefix that fits with its terminating zero.           *)
LEMMA MostPrinted ==
  ASSUME NEW len \in Nat
  PROVE  /\ PrintPieces(len).pos = SumTo(Most(len)) /\ PrintPieces(len).pos \in Nat
         /\ PrintPieces(len).fits <=> Most(len) = Len(Pieces)
<1> DEFINE n == Len(Pieces)
           r == PrintPieces(len)
<1>1. PICK m \in 0 .. n : Holds(len, n, r, m)
  BY PiecesPrinted
<1>2. r \in [pos: Nat, fits: BOOLEAN]
  BY PiecesPrinted, Zenon
<1> HIDE DEF r
<1>3. n \in Nat
  BY PieceTypes
<1>4. m \in Fit(len)
  BY <1>1 DEF Fit, Holds
<1>5. ASSUME NEW j \in Fit(len) PROVE j <= m
  <2> SUFFICES ASSUME m < j PROVE FALSE
    BY <1>3 DEF Fit
  <2>1. j \in 0 .. n /\ m + 1 \in 0 .. n /\ SumTo(j) < len /\ SumTo(m + 1) >= len /\ m + 1 <= j
    BY <1>1, <1>3 DEF Fit, Holds
  <2>2. SumTo(m + 1) \in Nat /\ SumTo(j) \in Nat
    BY <2>1, Sums
  <2>3. m + 1 = j \/ SumTo(m + 1) < SumTo(j)
    BY <1>3, <2>1, SumsGrow
  <2> QED BY <2>1, <2>2, <2>3
<1>6. Most(len) = m
  <2>1. \A k \in Fit(len) : (\A j \in Fit(len) : j <= k) => k = m
    BY <1>3, <1>4, <1>5 DEF Fit
  <2> QED BY <1>4, <1>5, <2>1, Zenon DEF Most
<1> QED BY <1>1, <1>2, <1>6 DEF Holds, r

-----------------------------------------------------------------------------
(* What a command returns.                                                 *)

(* What the command, the socket and the kernel know of each other.         *)
Outcome ==
  /\ TURNKEY_WLAN \in Builds /\ pc \in {"idle", "testmode", "recv"}
  /\ buflen \in BufLens \cup {0} /\ executed \in {"no", "refused", "done"}
  /\ result \in Int /\ result >= -1
  /\ pc # "idle" => op \in Ops \ {"wapi-msg-send"}
  /\ pc = "testmode" \/ request => executed = "no"
  /\ pc = "recv" => (err = 0 => executed = "done") /\ (err = -1 => executed = "refused")
  /\ \A i \in 1 .. Len(socket) :
       /\ socket[i].what = "ack" => executed = "done"
       /\ socket[i].what = "error" => executed = "refused"

(* The second inductive invariant, relative to the first.                  *)
OInv == Outcome /\ SuccessMeansExecuted /\ ReportFits

(* What a command returns: -1 at least; the commands that pass the result  *)
(* of the transaction on fail exactly if it failed; and the two reports    *)
(* are as long as ReportFits says.                                         *)
LEMMA Results ==
  ASSUME NEW o \in Ops \ {"wapi-msg-send"}, NEW ret \in {-1, 0}, NEW len \in Nat
  PROVE  /\ driver_cmd(o, ret, len) \in Int /\ driver_cmd(o, ret, len) >= -1
         /\ o \in Propagating => (driver_cmd(o, ret, len) >= 0 <=> ret = 0)
         /\ o \in Reports /\ driver_cmd(o, ret, len) >= 0 =>
              driver_cmd(o, ret, len) =
                IF o = "GET_STA_LINK_DETECT" \/ Most(len) = Len(Pieces) THEN SumTo(Most(len)) ELSE 0
<1> DEFINE p == PrintPieces(len)
<1>1. p.pos = SumTo(Most(len)) /\ p.pos \in Nat /\ (p.fits <=> Most(len) = Len(Pieces))
  BY MostPrinted
<1> HIDE DEF p
<1>2. CASE o = "GET_STA_STATISTICS"
  <2>1. driver_cmd(o, ret, len) = IF ret < 0 THEN -1 ELSE IF p.fits THEN p.pos ELSE 0
    BY <1>2 DEF driver_cmd, wpa_driver_get_sta_statistics, print_sta_statistics, p
  <2> QED BY <1>1, <1>2, <2>1
<1>3. CASE o = "GET_STA_LINK_DETECT"
  <2>1. driver_cmd(o, ret, len) = IF ret < 0 THEN -1 ELSE p.pos
    BY <1>3 DEF driver_cmd, wpa_driver_get_sta_link_detect, p
  <2> QED BY <1>1, <1>3, <2>1
<1>4. CASE o \notin Reports
  <2>1. o \in {"get_beamplus", "set_beamplus", "sw_cmd", "STA-BLOCK",
               "set-wapi-key", "wfd_data_update", "p2p_set_sleep"}
    BY <1>4 DEF Ops
  <2>2. driver_cmd(o, ret, len) \in {-1, 0}
    BY <2>1 DEF driver_cmd, wpas_driver_beamplus, wpa_driver_nl80211_driver_sw_cmd,
                wpa_driver_hotspot_block_list_update, wpa_driver_nl80211_set_wapi_key,
                wpas_wfd_data_update, wpas_p2p_sigma_test_mode
  <2>3. o \in Propagating => driver_cmd(o, ret, len) = ret
    BY <2>1 DEF Propagating, Reports, driver_cmd, wpa_driver_hotspot_block_list_update,
                wpas_wfd_data_update
  <2> HIDE DEF driver_cmd
  <2> QED BY <1>4, <2>2, <2>3
<1> QED BY <1>2, <1>3, <1>4 DEF Reports

(* The size of a buffer is a number.                                       *)
LEMMA BufferSizes == BufLens \cup {0} \subseteq Nat
BY PiecesAssumption

(* No command has returned yet.                                            *)
LEMMA InitO == Init => OInv
<1> SUFFICES ASSUME Init PROVE OInv
  OBVIOUS
<1>1. op \notin Reports /\ op \notin Propagating
  BY DEF Init, Reports, Propagating
<1>2. Outcome
  BY DEF Init, Outcome
<1> QED BY <1>1, <1>2 DEF OInv, SuccessMeansExecuted, ReportFits

(* A command that returns: what it made of the outcome.                    *)
LEMMA ReturnO ==
  ASSUME IInv, OInv, pc # "idle", NEW ret \in {-1, 0}, Return(ret),
         UNCHANGED <<localVars, err, request, socket, executed>>, ~request, socket = <<>>,
         TURNKEY_WLAN => (ret = 0 <=> executed = "done")
  PROVE  OInv'
<1> USE DEF localVars
<1>1. op \in Ops \ {"wapi-msg-send"} /\ buflen \in Nat
  BY BufferSizes DEF OInv, Outcome
<1>2. pc' = "idle" /\ result' = driver_cmd(op, ret, buflen)
  BY DEF Return
<1>3. /\ result' \in Int /\ result' >= -1
      /\ op \in Propagating => (result' >= 0 <=> ret = 0)
      /\ op \in Reports /\ result' >= 0 =>
           result' = IF op = "GET_STA_LINK_DETECT" \/ Most(buflen) = Len(Pieces)
                     THEN SumTo(Most(buflen)) ELSE 0
  BY <1>1, <1>2, Results
<1>4. Outcome'
  BY <1>2, <1>3 DEF OInv, Outcome
<1>5. SuccessMeansExecuted'
  BY <1>2, <1>3 DEF SuccessMeansExecuted
<1>6. ReportFits'
  BY <1>2, <1>3 DEF ReportFits, Most, Fit
<1> QED BY <1>4, <1>5, <1>6 DEF OInv

(* driver_cmd and wpa_driver_nl80211_testmode, and the outcome.            *)
LEMMA SendO ==
  ASSUME IInv, OInv,
         \/ \E o \in Ops, len \in BufLens : Begin(o, len)
         \/ wpa_driver_nl80211_testmode
  PROVE  OInv'
<1> USE DEF localVars, history
<1>1. ASSUME NEW o \in Ops, NEW len \in BufLens, Begin(o, len) PROVE OInv'
  <2>1. socket = <<>> /\ ~request /\ UNCHANGED <<socket, request, err, TURNKEY_WLAN>>
        /\ op' = o /\ buflen' = len /\ executed' = "no"
    BY <1>1 DEF Begin, IInv, Shape
  <2>2. \/ o # "wapi-msg-send" /\ pc' = "testmode" /\ result' = result
        \/ pc' = "idle" /\ o \notin Reports /\ o \notin Propagating /\ result' \in {0, -1}
        \/ pc' = "idle" /\ result' = -1
    BY <1>1 DEF Begin, MayEndEarly, Reports, Propagating
  <2>3. Outcome'
    <3>1. result' \in Int /\ result' >= -1 /\ pc' \in {"idle", "testmode"}
      BY <2>2 DEF OInv, Outcome
    <3>2. pc' # "idle" => op' \in Ops \ {"wapi-msg-send"}
      BY <2>1, <2>2
    <3>3. Len(socket') = 0 /\ ~request' /\ buflen' \in BufLens \cup {0} /\ TURNKEY_WLAN' \in Builds
      BY <2>1 DEF OInv, Outcome
    <3> QED BY <2>1, <3>1, <3>2, <3>3 DEF Outcome
  <2>4. SuccessMeansExecuted' /\ ReportFits'
    BY <2>1, <2>2 DEF SuccessMeansExecuted, ReportFits
  <2> QED BY <2>3, <2>4 DEF OInv
<1>2. CASE wpa_driver_nl80211_testmode
  <2>1. pc = "testmode" /\ socket = <<>> /\ ~request /\ executed = "no"
        /\ UNCHANGED <<localVars, filled, socket, history>>
    BY <1>2 DEF wpa_driver_nl80211_testmode, IInv, Shape, OInv, Outcome
  <2>2. CASE TURNKEY_WLAN /\ pc' = "recv" /\ err' = 1 /\ request' = TRUE /\ UNCHANGED result
    <3>1. Outcome'
      <4>1. Len(socket') = 0 /\ executed' = "no" /\ op' = op /\ op \in Ops \ {"wapi-msg-send"}
        BY <2>1 DEF OInv, Outcome
      <4>2. TURNKEY_WLAN' \in Builds /\ buflen' \in BufLens \cup {0} /\ result' \in Int /\ result' >= -1
        BY <2>1, <2>2, Zenon DEF OInv, Outcome
      <4> QED BY <2>2, <4>1, <4>2 DEF Outcome
    <3> QED BY <2>2, <3>1 DEF OInv, SuccessMeansExecuted, ReportFits
  <2>3. CASE TURNKEY_WLAN /\ Return(-1) /\ UNCHANGED <<err, request>>
    BY <2>1, <2>3, ReturnO
  <2>4. CASE ~TURNKEY_WLAN /\ Return(0) /\ UNCHANGED <<err, request>>
    BY <2>1, <2>4, ReturnO
  <2> QED BY <1>2, <2>2, <2>3, <2>4, Zenon DEF wpa_driver_nl80211_testmode
<1> QED BY <1>1, <1>2

(* A message ends the loop only if it says what the kernel did.            *)
LEMMA RecvO == IInv /\ OInv /\ send_and_recv_msgs => OInv'
<1> SUFFICES ASSUME IInv, OInv, send_and_recv_msgs PROVE OInv'
  OBVIOUS
<1> USE DEF localVars, history
<1> DEFINE m == Head(socket)
<1>1. /\ pc = "recv" /\ socket # <<>> /\ socket' = Tail(socket)
      /\ UNCHANGED <<pc, localVars, result, request, history>>
      /\ err' = CASE m.what = "ack" -> 0 [] m.what = "error" -> -1 [] OTHER -> err
  BY DEF send_and_recv_msgs
<1>2. socket \in Seq(Message) /\ err = 1 /\ ~request
  BY <1>1 DEF IInv, Shape
<1>3. m = socket[1] /\ 1 \in 1 .. Len(socket)
  BY <1>1, <1>2, HeadTailProperties, EmptySeq
<1>4. \A i \in 1 .. Len(socket') : i + 1 \in 1 .. Len(socket) /\ socket'[i] = socket[i + 1]
  BY <1>1, <1>2, HeadTailProperties
<1> HIDE DEF m
<1>5. err' = 0 => executed = "done"
  BY <1>1, <1>2, <1>3 DEF OInv, Outcome
<1>6. err' = -1 => executed = "refused"
  BY <1>1, <1>2, <1>3 DEF OInv, Outcome
<1>7. Outcome'
  BY <1>1, <1>4, <1>5, <1>6 DEF OInv, Outcome
<1> QED BY <1>1, <1>7 DEF OInv, SuccessMeansExecuted, ReportFits

(* The loop has ended: err is what the kernel did.                         *)
LEMMA FinishO == IInv /\ OInv /\ Finish => OInv'
<1> SUFFICES ASSUME IInv, OInv, Finish PROVE OInv'
  OBVIOUS
<1>1. /\ pc = "recv" /\ err \in {-1, 0} /\ Return(err)
      /\ UNCHANGED <<localVars, err, filled, request, socket, history>>
  BY DEF Finish, IInv, Shape
<1>2. socket = <<>> /\ ~request
  BY <1>1 DEF IInv, Shape
<1>3. err = 0 <=> executed = "done"
  BY <1>1 DEF OInv, Outcome
<1> QED BY <1>1, <1>2, <1>3, ReturnO DEF history

(* The kernel says what it does.                                           *)
LEMMA KernelO == IInv /\ OInv /\ KernelReplies => OInv'
<1> SUFFICES ASSUME IInv, OInv, KernelReplies PROVE OInv'
  OBVIOUS
<1> USE DEF localVars
<1>1. request /\ ~request' /\ UNCHANGED <<pc, localVars, err, filled, result, lost>>
  BY DEF KernelReplies
<1>2. pc = "recv" /\ err = 1 /\ socket = <<>> /\ cmd \in Number
  BY <1>1 DEF IInv, Shape
<1>3. executed' \in {"refused", "done"}
      /\ \A i \in 1 .. Len(socket') : /\ socket'[i].what = "ack" => executed' = "done"
                                      /\ socket'[i].what = "error" => executed' = "refused"
  <2>1. CASE socket' = Append(socket, Msg("error", {}, TRUE)) /\ executed' = "refused"
    BY <1>2, <2>1 DEF Msg
  <2>2. CASE socket' = Append(socket, Msg("ack", {}, TRUE)) /\ executed' = "done"
    BY <1>2, <2>2 DEF Msg
  <2>3. ASSUME NEW A \in SUBSET Attributes, NEW p \in BOOLEAN,
               socket' = socket \o <<Msg("data", A, p), Msg("ack", {}, TRUE)>>,
               executed' = "done"
        PROVE  \A i \in 1 .. Len(socket') : socket'[i].what # "error"
    <3> DEFINE d == Msg("data", A, p)
               a == Msg("ack", {}, TRUE)
    <3>1. d.what = "data" /\ a.what = "ack"
      BY DEF Msg
    <3> HIDE DEF d, a
    <3>2. socket' = <<d, a>>
      BY <1>2, <2>3 DEF d, a
    <3> QED BY <3>1, <3>2
  <2> QED BY <2>1, <2>2, <2>3, Zenon DEF KernelReplies
<1>4. Outcome'
  BY <1>1, <1>2, <1>3 DEF OInv, Outcome
<1> QED BY <1>1, <1>2, <1>4 DEF OInv, SuccessMeansExecuted, ReportFits

(* A lost message says nothing, so it says nothing wrong.                  *)
LEMMA OverflowO ==
  ASSUME IInv, OInv, NEW i \in 1 .. 2, Overflow(i)
  PROVE  OInv'
<1> USE DEF localVars
<1>1. /\ i \in DOMAIN socket
      /\ socket' = [socket EXCEPT ![i].what = "ENOBUFS", ![i].attrs = {}]
      /\ UNCHANGED <<pc, localVars, err, filled, result, request, executed, omitted>>
  BY DEF Overflow
<1>2. socket \in Seq(Message) /\ i \in 1 .. Len(socket)
  BY <1>1 DEF IInv, Shape
<1> DEFINE e == [socket[i] EXCEPT !.what = "ENOBUFS", !.attrs = {}]
<1>3. e \in Message /\ e.what = "ENOBUFS"
  <2>1. socket[i] \in Message BY <1>2
  <2> QED BY <2>1, Zenon DEF Message
<1>4. socket' = [socket EXCEPT ![i] = e] BY <1>1, <1>2, Zenon
<1> HIDE DEF e
<1>5. /\ Len(socket') = Len(socket)
      /\ \A j \in 1 .. Len(socket) : socket'[j] = IF j = i THEN e ELSE socket[j]
  BY <1>2, <1>3, <1>4, ExceptSeq
<1>6. Outcome'
  BY <1>1, <1>3, <1>5 DEF OInv, Outcome
<1> QED BY <1>1, <1>6 DEF OInv, SuccessMeansExecuted, ReportFits

(* After a restart no command has returned.                                *)
LEMMA RestartO == IInv /\ OInv /\ Restart => OInv'
<1> SUFFICES ASSUME IInv, OInv, Restart PROVE OInv'
  OBVIOUS
<1>1. op' \notin Reports /\ op' \notin Propagating
  BY DEF Restart, Reports, Propagating
<1>2. Outcome'
  BY DEF Restart, OInv, Outcome
<1> QED BY <1>1, <1>2 DEF OInv, SuccessMeansExecuted, ReportFits

(* Every step, and the outcome.                                            *)
LEMMA NextO == IInv /\ OInv /\ [Next]_vars => OInv'
<1> SUFFICES ASSUME IInv, OInv, [Next]_vars PROVE OInv'
  OBVIOUS
<1>1. CASE UNCHANGED vars
  BY <1>1 DEF vars, localVars, history, OInv, Outcome, SuccessMeansExecuted, ReportFits
<1> QED BY <1>1, SendO, RecvO, FinishO, KernelO, OverflowO, RestartO DEF Next

(* The second invariant holds throughout.                                  *)
THEOREM OutcomeInvariance == Spec => []OInv
BY InitO, NextO, Invariance, PTL DEF Spec

(* The command, the socket and the history keep their shapes; in           *)
(* particular driver_cmd has a result for every command that reaches the   *)
(* kernel.                                                                 *)
THEOREM TypeCorrect == Spec => []TypeOK
<1>1. IInv /\ OInv => TypeOK
  <2> SUFFICES ASSUME IInv, OInv PROVE TypeOK
    OBVIOUS
  <2>1. \A i \in DOMAIN socket : socket[i] \in Message
    BY DEF IInv, Shape
  <2>2. {omitted, lost} \subseteq BOOLEAN
    BY DEF IInv, Shape
  <2> QED BY <2>1, <2>2 DEF IInv, Shape, OInv, Outcome, TypeOK, Message
<1> QED BY <1>1, Invariance, OutcomeInvariance, PTL

(* The commands that pass the result on succeed exactly if the kernel has  *)
(* executed the request, whatever was refused, incomplete or dropped.      *)
THEOREM SuccessIsExecution == Spec => []SuccessMeansExecuted
<1>1. OInv => SuccessMeansExecuted BY DEF OInv
<1> QED BY <1>1, OutcomeInvariance, PTL

(* A report is as long as what fits of it, for all pieces and buffers: the *)
(* two functions that print one lose no piece that fits, and leave room    *)
(* for the terminating zero.                                               *)
THEOREM ReportsFit == Spec => []ReportFits
<1>1. OInv => ReportFits BY DEF OInv
<1> QED BY <1>1, OutcomeInvariance, PTL
================================================================================

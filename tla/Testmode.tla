-------------------------------- MODULE Testmode --------------------------------
(***************************************************************************)
(* The commands of the MediaTek driver library that talk to the kernel     *)
(* driver over the netlink socket of wpa_supplicant                        *)
(* (wpa_driver_nl80211_testmode and send_and_recv_msgs), from building the *)
(* message to what driver_cmd returns.  wpa_supplicant runs in one thread; *)
(* the kernel is external, and the socket may drop what it holds when it   *)
(* overflows.                                                              *)
(*                                                                         *)
(* The values of counters are left out: of a reply it matters which        *)
(* attributes it has, and of a report how long its pieces are.  Error      *)
(* codes are all -1.                                                       *)
(***************************************************************************)
EXTENDS Integers, Sequences

CONSTANTS
  Builds,       \* values of CONFIG_MTK_TURNKEY_WLAN the library is built with
  NUM,          \* attributes of a reply are numbered 1 .. NUM - 1
  Pieces,       \* lengths of the pieces a report is printed from
  BufLens       \* sizes of the buffer for the report

ASSUME BuildsAssumption == Builds \subseteq BOOLEAN
ASSUME NUMAssumption == NUM \in Nat \ {0}
ASSUME PiecesAssumption == Pieces \in Seq(Nat \ {0}) /\ BufLens \subseteq Nat

Reports == {"GET_STA_STATISTICS", "GET_STA_LINK_DETECT"}
Ops == Reports \cup {"get_beamplus", "set_beamplus", "sw_cmd", "STA-BLOCK",
                     "set-wapi-key", "wapi-msg-send", "wfd_data_update", "p2p_set_sleep"}
Attributes == 1 .. NUM - 1

(* Commands are numbered modulo three: two live ones are never confused.   *)
Number == 0 .. 2

VARIABLES
  TURNKEY_WLAN, \* CONFIG_MTK_TURNKEY_WLAN, fixed when the library is built
  pc, cmd, op, buflen, \* position; number, name and buffer of the command
  err,      \* the local of send_and_recv_msgs: 1 while it waits
  filled,   \* attributes the handler has stored in the caller's structure
  result,   \* what driver_cmd returned last
  request,  \* kernel: it has a request
  socket,   \* messages from the kernel
  executed, \* history: what the kernel did about the command
  omitted,  \* history: its reply did not have all attributes
  lost      \* history: a message of this command was dropped

localVars == <<TURNKEY_WLAN, cmd, op, buflen>>
history == <<executed, omitted, lost>>
vars == <<pc, localVars, err, filled, result, request, socket, history>>

Init ==
  /\ TURNKEY_WLAN \in Builds
  /\ pc = "idle" /\ cmd = 0 /\ op = "none" /\ buflen = 0
  /\ err = 0 /\ filled = {} /\ result = 0
  /\ request = FALSE /\ socket = <<>>
  /\ executed = "no" /\ omitted = FALSE /\ lost = FALSE

-----------------------------------------------------------------------------
(* What a command makes of the result of the transaction.                  *)

(* Mutant of AddPiece: the terminating zero is forgotten.                  *)
AddPieceNoZero(r, len, n) ==
  IF r.fits /\ r.pos + n <= len THEN [r EXCEPT !.pos = @ + n] ELSE [r EXCEPT !.fits = FALSE]

(* One os_snprintf(pos, end - pos, ...) and the test behind it.            *)
AddPiece(r, len, n) ==
  IF r.fits /\ r.pos + n < len THEN [r EXCEPT !.pos = @ + n] ELSE [r EXCEPT !.fits = FALSE]

PrintPieces(len) ==
  LET printed[i \in 0 .. Len(Pieces)] ==
        IF i = 0 THEN [pos |-> 0, fits |-> TRUE] ELSE AddPiece(printed[i - 1], len, Pieces[i])
  IN  printed[Len(Pieces)]

(* Returns 0 as soon as something does not fit.                            *)
print_sta_statistics(len) == IF PrintPieces(len).fits THEN PrintPieces(len).pos ELSE 0

wpa_driver_get_sta_statistics(ret, len) == IF ret < 0 THEN -1 ELSE print_sta_statistics(len)

(* Returns what did fit.                                                   *)
wpa_driver_get_sta_link_detect(ret, len) == IF ret < 0 THEN -1 ELSE PrintPieces(len).pos

(* The result of the transaction is dropped.                               *)
wpa_driver_nl80211_driver_sw_cmd == 0
wpa_driver_nl80211_set_wapi_key == 0
wpas_p2p_sigma_test_mode == 0

(* driver_cmd does not assign ret in these branches.                       *)
wpas_driver_beamplus == -1

wpas_wfd_data_update(ret) == ret
wpa_driver_hotspot_block_list_update(ret) == IF ret # 0 THEN -1 ELSE 0

(* Mutant of driver_cmd: the block list ignores the result as well.        *)
driver_cmdNoTest(o, ret, len) ==
  CASE o = "GET_STA_STATISTICS"  -> wpa_driver_get_sta_statistics(ret, len)
    [] o = "GET_STA_LINK_DETECT" -> wpa_driver_get_sta_link_detect(ret, len)
    [] OTHER                     -> 0

driver_cmd(o, ret, len) ==
  CASE o = "GET_STA_STATISTICS"  -> wpa_driver_get_sta_statistics(ret, len)
    [] o = "GET_STA_LINK_DETECT" -> wpa_driver_get_sta_link_detect(ret, len)
    [] o \in {"get_beamplus", "set_beamplus"} -> wpas_driver_beamplus
    [] o = "sw_cmd"              -> wpa_driver_nl80211_driver_sw_cmd
    [] o = "STA-BLOCK"           -> wpa_driver_hotspot_block_list_update(ret)
    [] o = "set-wapi-key"        -> wpa_driver_nl80211_set_wapi_key
    [] o = "wfd_data_update"     -> wpas_wfd_data_update(ret)
    [] o = "p2p_set_sleep"       -> wpas_p2p_sigma_test_mode

Return(ret) == pc' = "idle" /\ result' = driver_cmd(op, ret, buflen)

-----------------------------------------------------------------------------
(* The steps of a command.                                                 *)

(* These commands may end with -1 before anything is sent: the address or  *)
(* the number does not parse, the key sequence is too long, or there is no *)
(* buffer.                                                                 *)
MayEndEarly == {"GET_STA_STATISTICS", "STA-BLOCK", "p2p_set_sleep", "sw_cmd",
                "set-wapi-key", "get_beamplus", "set_beamplus"}

(* driver_cmd finds the branch; wapi-msg-send never sends anything.        *)
Begin(o, len) ==
  /\ pc = "idle"
  /\ cmd' = (cmd + 1) % 3 /\ op' = o /\ buflen' = len
  /\ filled' = {} /\ executed' = "no" /\ omitted' = FALSE /\ lost' = FALSE
  /\ \/ o # "wapi-msg-send" /\ pc' = "testmode" /\ UNCHANGED result
     \/ o = "wapi-msg-send" /\ result' \in {0, -1} /\ UNCHANGED pc
     \/ o \in MayEndEarly /\ result' = -1 /\ UNCHANGED pc
  /\ UNCHANGED <<TURNKEY_WLAN, err, request, socket>>

(* wpa_driver_nl80211_testmode up to the loop of send_and_recv_msgs.       *)
(* Without CONFIG_MTK_TURNKEY_WLAN it is "return 0".  Allocating, filling  *)
(* or sending the message may fail.                                        *)
wpa_driver_nl80211_testmode ==
  /\ pc = "testmode"
  /\ \/ TURNKEY_WLAN /\ pc' = "recv" /\ err' = 1 /\ request' = TRUE /\ UNCHANGED result
     \/ TURNKEY_WLAN /\ Return(-1) /\ UNCHANGED <<err, request>>
     \/ ~TURNKEY_WLAN /\ Return(0) /\ UNCHANGED <<err, request>>
  /\ UNCHANGED <<localVars, filled, socket, history>>

(* Mutant of Handler: the loop runs one too far, to the number behind the  *)
(* last attribute.                                                         *)
HandlerPastEnd(m) == IF m.parses THEN filled \cup m.attrs \cup {NUM} ELSE filled

(* Mutant of Handler: the loop leaves out the last attribute.              *)
HandlerShort(m) == IF m.parses THEN filled \cup (m.attrs \ {NUM - 1}) ELSE filled

(* A handler: nothing if the nested attributes do not parse, else each one *)
(* that is there.  What is missing is not touched.                         *)
Handler(m) == IF m.parses THEN filled \cup m.attrs ELSE filled

testmode_sta_statistics_handler(m) == Handler(m)
testmode_sta_link_detect_handler(m) == Handler(m)
testmode_beamplus_go_ready_handler(m) == Handler(m)

valid_handler(m) ==
  CASE op = "GET_STA_STATISTICS"  -> testmode_sta_statistics_handler(m)
    [] op = "GET_STA_LINK_DETECT" -> testmode_sta_link_detect_handler(m)
    [] op = "get_beamplus"        -> testmode_beamplus_go_ready_handler(m)
    [] OTHER                      -> filled

(* Mutant of send_and_recv_msgs: it does not wait for the end of a reply.  *)
RecvStopsOnData ==
  /\ pc = "recv" /\ err > 0 /\ socket # <<>>
  /\ LET m == Head(socket) IN
       /\ err' = CASE m.what \in {"ack", "data"} -> 0 [] m.what = "error" -> -1 [] OTHER -> err
       /\ filled' = IF m.what = "data" THEN valid_handler(m) ELSE filled
  /\ socket' = Tail(socket)
  /\ UNCHANGED <<pc, localVars, result, request, history>>

(* Mutant of send_and_recv_msgs: an acknowledgement is not looked at.      *)
RecvNoAck ==
  /\ pc = "recv" /\ err > 0 /\ socket # <<>>
  /\ err' = IF Head(socket).what = "error" THEN -1 ELSE err
  /\ socket' = Tail(socket)
  /\ UNCHANGED <<pc, localVars, filled, result, request, history>>

(* One nl_recvmsgs of the loop of send_and_recv_msgs and the callback it   *)
(* makes; if it fails itself, that is only logged.                         *)
send_and_recv_msgs ==
  /\ pc = "recv" /\ err > 0 /\ socket # <<>>
  /\ LET m == Head(socket) IN
       /\ err' = CASE m.what = "ack" -> 0 [] m.what = "error" -> -1 [] OTHER -> err
       /\ filled' = IF m.what = "data" THEN valid_handler(m) ELSE filled
  /\ socket' = Tail(socket)
  /\ UNCHANGED <<pc, localVars, result, request, history>>

(* The loop has ended.                                                     *)
Finish ==
  /\ pc = "recv" /\ err <= 0
  /\ Return(err)
  /\ UNCHANGED <<localVars, err, filled, request, socket, history>>

-----------------------------------------------------------------------------
(* External.                                                               *)

Msg(what, attrs, parses) == [cmd |-> cmd, what |-> what, attrs |-> attrs, parses |-> parses]

(* The kernel refuses the request, or executes it; a query is answered by  *)
(* a message with data before the acknowledgement.                         *)
KernelReplies ==
  /\ request /\ request' = FALSE
  /\ \/ /\ socket' = Append(socket, Msg("error", {}, TRUE))
        /\ executed' = "refused" /\ UNCHANGED omitted
     \/ /\ op \notin Reports \cup {"get_beamplus"}
        /\ socket' = Append(socket, Msg("ack", {}, TRUE))
        /\ executed' = "done" /\ UNCHANGED omitted
     \/ /\ op \in Reports \cup {"get_beamplus"}
        /\ \E A \in SUBSET Attributes, p \in BOOLEAN :
             /\ socket' = socket \o <<Msg("data", A, p), Msg("ack", {}, TRUE)>>
             /\ omitted' = (A # Attributes \/ ~p)
        /\ executed' = "done"
  /\ UNCHANGED <<pc, localVars, err, filled, result, lost>>

(* The socket overflows: instead of a message there is an ENOBUFS.         *)
Overflow(i) ==
  /\ i \in DOMAIN socket /\ socket[i].what # "ENOBUFS"
  /\ socket' = [socket EXCEPT ![i].what = "ENOBUFS", ![i].attrs = {}]
  /\ lost' = TRUE
  /\ UNCHANGED <<pc, localVars, err, filled, result, request, executed, omitted>>

(* wpa_supplicant is killed and started again.                             *)
Restart ==
  /\ pc = "recv"
  /\ pc' = "idle" /\ op' = "none" /\ result' = 0 /\ err' = 0 /\ filled' = {}
  /\ request' = FALSE /\ socket' = <<>> /\ lost' = FALSE /\ omitted' = FALSE
  /\ executed' = "no"
  /\ UNCHANGED <<TURNKEY_WLAN, cmd, buflen>>

Next ==
  \/ wpa_driver_nl80211_testmode \/ send_and_recv_msgs \/ Finish
  \/ \E o \in Ops, len \in BufLens : Begin(o, len)
  \/ KernelReplies \/ Restart \/ \E i \in 1 .. 2 : Overflow(i)

Spec == Init /\ [][Next]_vars

(* The thread of wpa_supplicant goes on, and the kernel answers.           *)
FairSpec ==
  /\ Spec
  /\ WF_vars(wpa_driver_nl80211_testmode) /\ WF_vars(send_and_recv_msgs \/ Finish)
  /\ WF_vars(KernelReplies)

-----------------------------------------------------------------------------
(* The command, the socket and the history have their shapes.              *)
TypeOK ==
  /\ TURNKEY_WLAN \in Builds
  /\ pc \in {"idle", "testmode", "recv"} /\ cmd \in Number /\ op \in Ops \cup {"none"}
  /\ buflen \in BufLens \cup {0} /\ err \in {-1, 0, 1} /\ filled \subseteq Attributes
  /\ result >= -1 /\ request \in BOOLEAN /\ Len(socket) <= 2
  /\ \A i \in DOMAIN socket :
       socket[i] \in [cmd: Number, what: {"data", "ack", "error", "ENOBUFS"},
                      attrs: SUBSET Attributes, parses: BOOLEAN]
  /\ executed \in {"no", "refused", "done"} /\ {omitted, lost} \subseteq BOOLEAN

(* A reply is never taken for the reply to another command: everything in  *)
(* the socket belongs to the command that runs, and nothing is left over   *)
(* when one returns, whatever was refused, incomplete or dropped.          *)
ReplyOfThisCommand ==
  /\ \A i \in DOMAIN socket : pc = "recv" /\ socket[i].cmd = cmd
  /\ pc # "recv" => ~request

Propagating == Reports \cup {"STA-BLOCK", "wfd_data_update"}

(* The commands that pass the result on succeed exactly if the kernel has  *)
(* executed the request.                                                   *)
SuccessMeansExecuted ==
  TURNKEY_WLAN /\ pc = "idle" /\ op \in Propagating => (result >= 0 <=> executed = "done")

(* A report holds only values the kernel has sent for it, unless its reply *)
(* had no such value or did not arrive.                                    *)
ReportIsFilled ==
  TURNKEY_WLAN /\ pc = "idle" /\ op \in Reports /\ result > 0 /\ ~omitted /\ ~lost
    => filled = Attributes

SumTo(k) ==
  LET sum[i \in 0 .. Len(Pieces)] == IF i = 0 THEN 0 ELSE sum[i - 1] + Pieces[i]
  IN  sum[k]

(* GET_STA_STATISTICS returns the whole report or nothing, and             *)
(* GET_STA_LINK_DETECT as many whole pieces as fit, in each case with room *)
(* for the terminating zero.                                               *)
ReportFits ==
  pc = "idle" /\ op \in Reports /\ result >= 0 =>
    LET fit == {k \in 0 .. Len(Pieces) : k = 0 \/ SumTo(k) < buflen}
        most == CHOOSE k \in fit : \A j \in fit : j <= k
    IN  result = IF op = "GET_STA_LINK_DETECT" \/ most = Len(Pieces) THEN SumTo(most) ELSE 0

(* A command ends, unless a message of its reply was dropped: then         *)
(* send_and_recv_msgs may wait for an acknowledgement that never comes.    *)
CommandEnds == pc # "idle" ~> pc = "idle" \/ lost

(* What the comment before wpa_driver_nl80211_send_msg says: "send some    *)
(* information to driver", "Returns: 0 on success, -1 on failure".         *)
WapiMessageSent ==
  pc = "idle" /\ op = "wapi-msg-send" /\ result = 0 => executed = "done"

(* What the comment before wpas_get_sta_statistics says: "Move             *)
(* GET_STA_STATISTICS to "DRIVER GET_STA_STATISTICS", implement in 3rd     *)
(* part lib".  A report without one value from the kernel is none.         *)
StatisticsImplemented ==
  pc = "idle" /\ op = "GET_STA_STATISTICS" /\ result > 0 => filled # {}
================================================================================

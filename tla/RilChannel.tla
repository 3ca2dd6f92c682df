------------------------------ MODULE RilChannel -------------------------------
(***************************************************************************)
(* The traffic of one RIL instance of MT6735.java: requests of the         *)
(* framework in mRequestList, the RILReceiver thread that takes replies    *)
(* and unsolicited messages from the rild socket one at a time             *)
(* (processSolicited, processUnsolicited), and the requests that the       *)
(* handlers of unsolicited messages send themselves.                       *)
(*                                                                         *)
(* rild, the modem and the superclass RIL are external.  Requests sent     *)
(* with a null Message have no caller to answer: they are followed on      *)
(* their way to rild (toRild), not in mRequestList.                        *)
(***************************************************************************)
EXTENDS Naturals, Sequences

CONSTANTS
  Serial,     \* serials of the framework's requests, each used once
  Session,    \* session ids of suspended registrations
  MaxSocket,  \* bound on messages waiting in either direction
  MaxLosses   \* bound on the number of lost connections

ASSUME BoundsAssumption == MaxSocket \in Nat /\ MaxLosses \in Nat

(* "own": decoded by processSolicited itself (EMERGENCY_DIAL, SETUP_DATA_  *)
(* CALL, ...); "sim": GET_SIM_STATUS; "other": left to the superclass.     *)
Types == {"own", "sim", "other"}

(* The reply carries bytes that decode, bytes that do not, or none.        *)
Payload == {"good", "bad", "none"}

Reply == [what: {"reply"}, ser: Serial, error: BOOLEAN, payload: Payload]
Suspension == [what: {"suspended"}, session: Session]
Unsolicited ==
  [what: {"incoming", "callEnd", "callInfo", "attachApn", "ussd", "psState", "psState4"},
   payload: {"good", "bad"}]
Parsed == {"incoming", "callInfo", "ussd", "psState"}  \* may be malformed
Command == ({"resume"} \X Session) \cup ({"attach"} \X {"empty", "apn"})
           \cup ({"callIndication"} \X {""})

VARIABLES
  req,       \* the framework's requests
  listed,    \* mRequestList: their serials
  atRild,    \* requests rild has not answered yet
  socket,    \* messages from rild the receiver has not read
  toRild,    \* requests without a caller on their way to rild
  up,        \* the socket to rild is connected
  losses,    \* number of connections lost
  cut,       \* history: sessions that were suspended when a connection was lost
  suspended, \* modem: sessions whose registration is suspended
  attachApn, \* modem: the initial attach APN, "none" blocks LTE attach
  overwrote, \* history: an empty APN replaced one of the framework's
  notified   \* registrants notified by this step

reqVars == <<req, listed, atRild>>
modemVars == <<suspended, attachApn, overwrote>>
linkVars == <<up, losses, cut>>
vars == <<reqVars, socket, toRild, linkVars, modemVars, notified>>

Init ==
  /\ req = [s \in Serial |-> [type |-> "other", fate |-> "new"]]
  /\ listed = {} /\ atRild = {} /\ socket = <<>> /\ toRild = <<>>
  /\ up = TRUE /\ losses = 0 /\ cut = {}
  /\ suspended = {} /\ attachApn = "none" /\ overwrote = FALSE
  /\ notified = {}

-----------------------------------------------------------------------------
(* The framework.                                                          *)

(* send(rr) of a request with a caller (external: the superclass).         *)
Send(s, type) ==
  /\ up /\ req[s].fate = "new"
  /\ req' = [req EXCEPT ![s].type = type, ![s].fate = "pending"]
  /\ listed' = listed \cup {s} /\ atRild' = atRild \cup {s}
  /\ notified' = {}
  /\ UNCHANGED <<socket, toRild, linkVars, modemVars>>

(* setInitialAttachApn: the request is obtained with a null Message.       *)
setInitialAttachApn(apn) == toRild' = Append(toRild, <<"attach", apn>>)

FrameworkApn ==
  /\ up /\ Len(toRild) < MaxSocket
  /\ attachApn # "apn" /\ <<"attach", "apn">> \notin {toRild[i] : i \in 1 .. Len(toRild)}
  /\ setInitialAttachApn("apn")
  /\ notified' = {}
  /\ UNCHANGED <<reqVars, socket, linkVars, modemVars>>

-----------------------------------------------------------------------------
(* The receiver thread: the connection.                                    *)

(* Mutant of Disconnect: every request made so far is failed.              *)
DisconnectFailsAll(r) ==
  /\ up' = FALSE /\ losses' = losses + 1 /\ cut' = suspended
  /\ req' = [s \in Serial |-> IF r[s].fate # "new"
                              THEN [r[s] EXCEPT !.fate = "failed"] ELSE r[s]]
  /\ listed' = {} /\ atRild' = {} /\ socket' = <<>> /\ toRild' = <<>>

(* External: the superclass leaves its read loop, drops the connection and *)
(* fails every request still in mRequestList.  A request that was taken    *)
(* out of it before is not among them.  Neither is one that stayed in the  *)
(* list after it was answered: processSolicited has released it, and the   *)
(* superclass's release() nulls mResult, so that there is no caller to     *)
(* fail a second time.  Nothing sent to rild is repeated.                  *)
Disconnect(r) ==
  /\ up' = FALSE /\ losses' = losses + 1 /\ cut' = suspended
  /\ req' = [s \in Serial |-> IF s \in listed /\ r[s].fate = "pending"
                              THEN [r[s] EXCEPT !.fate = "failed"] ELSE r[s]]
  /\ listed' = {} /\ atRild' = {} /\ socket' = <<>> /\ toRild' = <<>>

ConnectionLost ==
  /\ up /\ losses < MaxLosses
  /\ Disconnect(req)
  /\ notified' = {}
  /\ UNCHANGED modemVars

Reconnect ==
  /\ ~up /\ up' = TRUE
  /\ notified' = {}
  /\ UNCHANGED <<reqVars, socket, toRild, losses, cut, modemVars>>

-----------------------------------------------------------------------------
(* The receiver thread: solicited replies.                                 *)

Answer(s, fate) == req' = [req EXCEPT ![s].fate = fate]

Head1(what) == up /\ socket # <<>> /\ Head(socket).what = what

Rest == UNCHANGED <<atRild, toRild, linkVars, modemVars>>

(* The test of the pre-processing block: tr != null and there is something *)
(* to decode.                                                              *)
Decodable(m) == m.ser \in listed /\ (~m.error \/ m.payload # "none")

(* Mutant of ReceiveOwn: the request is looked up and not removed.         *)
ReceiveOwnKeeps ==
  /\ Head1("reply")
  /\ LET m == Head(socket) IN
       /\ Decodable(m) /\ req[m.ser].type = "own"
       /\ Answer(m.ser, "answered") /\ socket' = Tail(socket)
  /\ notified' = {} /\ UNCHANGED listed /\ Rest

(* The requests processSolicited decodes itself.  The request leaves the   *)
(* list before it is decoded, and an exception of the decoder is caught by *)
(* nobody here: the caller is never answered and the receiver gives up the *)
(* connection.  The result is delivered without looking at error again.    *)
(* ALLOW_DATA also notifies the voice network registrants.                 *)
ReceiveOwn ==
  /\ Head1("reply")
  /\ LET m == Head(socket) IN
       /\ Decodable(m) /\ req[m.ser].type = "own"
       /\ \/ /\ m.payload # "bad"
             /\ Answer(m.ser, "answered") /\ listed' = listed \ {m.ser}
             /\ socket' = Tail(socket) /\ notified' \in {{}, {"voice"}}
             /\ Rest
          \/ /\ m.payload = "bad"
             /\ Disconnect([req EXCEPT ![m.ser].fate = "lost"])
             /\ notified' = {}
             /\ UNCHANGED modemVars

(* Mutant of ReceiveSimThrows: the exception is swallowed.                 *)
ReceiveSimThrowsSilent ==
  /\ Head1("reply")
  /\ LET m == Head(socket) IN
       /\ Decodable(m) /\ req[m.ser].type = "sim"
       /\ socket' = Tail(socket)
  /\ notified' = {} /\ UNCHANGED <<req, listed>> /\ Rest

(* refreshEmergencyList throws (a list does not fit its property): the     *)
(* caller gets the exception, the superclass is not called and the request *)
(* stays in mRequestList.                                                  *)
ReceiveSimThrows ==
  /\ Head1("reply")
  /\ LET m == Head(socket) IN
       /\ Decodable(m) /\ req[m.ser].type = "sim"
       /\ Answer(m.ser, "failed")
       /\ socket' = Tail(socket)
  /\ notified' = {} /\ UNCHANGED listed /\ Rest

(* super.processSolicited: removes the request and answers it, also when   *)
(* its decoder throws (external).                                          *)
ReceiveSuper ==
  /\ Head1("reply")
  /\ LET m == Head(socket) IN
       /\ ~(Decodable(m) /\ req[m.ser].type = "own")
       /\ listed' = listed \ {m.ser}
       /\ IF m.ser \in listed
          THEN Answer(m.ser, IF m.error \/ m.payload = "bad" THEN "failed" ELSE "answered")
          ELSE UNCHANGED req
       /\ socket' = Tail(socket)
  /\ notified' = {} /\ Rest

-----------------------------------------------------------------------------
(* The receiver thread: unsolicited messages.                              *)

(* A handler that cannot parse its message throws out of                   *)
(* processUnsolicited, and the receiver gives up the connection.           *)
ReceiveMalformed ==
  /\ up /\ socket # <<>>
  /\ Head(socket).what \in Parsed /\ Head(socket).payload = "bad"
  /\ Disconnect(req)
  /\ notified' = {}
  /\ UNCHANGED modemVars

Handled(command, registrants) ==
  /\ toRild' = toRild \o command
  /\ notified' = registrants
  /\ socket' = Tail(socket)
  /\ UNCHANGED <<reqVars, linkVars, modemVars>>

(* Mutant of responseRegSuspended: the session is not copied.              *)
responseRegSuspendedNoSession ==
  /\ Head1("suspended") /\ Len(toRild) < MaxSocket
  /\ Handled(<< <<"resume", "">> >>, {})

(* Mutant of responseRegSuspended: the message is handled in both switches *)
(* of processUnsolicited.                                                  *)
responseRegSuspendedTwice ==
  /\ Head1("suspended") /\ Len(toRild) + 1 < MaxSocket
  /\ LET resume == <<"resume", Head(socket).session>>
     IN  Handled(<<resume, resume>>, {})

(* Mutant of responseRegSuspended: no request is sent.                     *)
responseRegSuspendedIgnores ==
  Head1("suspended") /\ Len(toRild) < MaxSocket /\ Handled(<<>>, {})

(* responseRegSuspended: RESUME_REGISTRATION for the session in the        *)
(* message.                                                                *)
responseRegSuspended ==
  /\ Head1("suspended") /\ Len(toRild) < MaxSocket
  /\ Handled(<< <<"resume", Head(socket).session>> >>, {})

(* responseIncomingCallIndication: SET_CALL_INDICATION, then the call      *)
(* state registrants.                                                      *)
responseIncomingCallIndication ==
  /\ Head1("incoming") /\ Head(socket).payload = "good" /\ Len(toRild) < MaxSocket
  /\ Handled(<< <<"callIndication", "">> >>, {"call"})

(* responseCallProgress returns null, and the registrants are notified,    *)
(* only for a call termination.                                            *)
responseCallProgress ==
  \/ Head1("callEnd") /\ Handled(<<>>, {"call"})
  \/ Head1("callInfo") /\ Head(socket).payload = "good" /\ Handled(<<>>, {})

(* Mutant of responseSetAttachApn: the message is dropped.                 *)
responseSetAttachApnIgnores ==
  Head1("attachApn") /\ Len(toRild) < MaxSocket /\ Handled(<<>>, {})

(* responseSetAttachApn: setInitialAttachApn with an empty APN.            *)
responseSetAttachApn ==
  /\ Head1("attachApn") /\ Len(toRild) < MaxSocket
  /\ Handled(<< <<"attach", "empty">> >>, {})

(* RIL_UNSOL_ON_USSD.                                                      *)
OnUssd == Head1("ussd") /\ Head(socket).payload = "good" /\ Handled(<<>>, {"ussd"})

(* RIL_UNSOL_RESPONSE_PS_NETWORK_STATE_CHANGED: state 4 is not passed on.  *)
OnPsState ==
  \/ Head1("psState") /\ Head(socket).payload = "good" /\ Handled(<<>>, {"voice"})
  \/ Head1("psState4") /\ Handled(<<>>, {})

Receiver ==
  \/ ReceiveOwn \/ ReceiveSimThrows \/ ReceiveSuper
  \/ ReceiveMalformed \/ responseRegSuspended \/ responseIncomingCallIndication
  \/ responseCallProgress \/ responseSetAttachApn \/ OnUssd \/ OnPsState

-----------------------------------------------------------------------------
(* rild and the modem (external).                                          *)

Emit(m) ==
  /\ up /\ Len(socket) < MaxSocket
  /\ socket' = Append(socket, m)

(* A reply that cannot be decoded costs a connection: count it as one.     *)
RildReply(s, error, payload) ==
  /\ s \in atRild
  /\ payload = "bad" => losses < MaxLosses
  /\ payload = "none" => error
  /\ Emit([what |-> "reply", ser |-> s, error |-> error, payload |-> payload])
  /\ atRild' = atRild \ {s}
  /\ notified' = {}
  /\ UNCHANGED <<req, listed, toRild, linkVars, modemVars>>

RildSuspends(id) ==
  /\ id \notin suspended
  /\ Emit([what |-> "suspended", session |-> id])
  /\ suspended' = suspended \cup {id}
  /\ notified' = {}
  /\ UNCHANGED <<reqVars, toRild, linkVars, attachApn, overwrote>>

(* The stack asks for an attach APN, again and again, until it has one.    *)
RildAsksApn ==
  /\ attachApn = "none"
  /\ \A i \in 1 .. Len(socket) : socket[i].what # "attachApn"
  /\ Emit([what |-> "attachApn", payload |-> "good"])
  /\ notified' = {}
  /\ UNCHANGED <<reqVars, toRild, linkVars, modemVars>>

RildEvent(m) ==
  /\ m.what # "attachApn"
  /\ m.payload = "bad" => m.what \in Parsed /\ losses < MaxLosses
  /\ socket = <<>> /\ Emit(m)
  /\ notified' = {}
  /\ UNCHANGED <<reqVars, toRild, linkVars, modemVars>>

RildExecutes ==
  /\ up /\ toRild # <<>>
  /\ LET op == Head(toRild)[1]
         arg == Head(toRild)[2]
     IN  /\ suspended' = IF op = "resume" THEN suspended \ {arg} ELSE suspended
         /\ attachApn' = IF op = "attach" THEN arg ELSE attachApn
         /\ overwrote' = (overwrote \/ (attachApn = "apn" /\ attachApn' = "empty"))
  /\ toRild' = Tail(toRild)
  /\ notified' = {}
  /\ UNCHANGED <<reqVars, socket, linkVars>>

Rild ==
  \/ RildAsksApn \/ RildExecutes
  \/ \E s \in Serial, e \in BOOLEAN, p \in Payload : RildReply(s, e, p)
  \/ \E id \in Session : RildSuspends(id)
  \/ \E m \in Unsolicited : RildEvent(m)

Next ==
  \/ Receiver \/ Rild \/ ConnectionLost \/ Reconnect \/ FrameworkApn
  \/ \E s \in Serial, t \in Types : Send(s, t)

Spec == Init /\ [][Next]_vars

(* The receiver thread runs and reconnects; rild executes what it is sent, *)
(* answers each request and repeats its demand for an APN.                 *)
Fairness ==
  /\ WF_vars(Receiver) /\ WF_vars(Reconnect)
  /\ WF_vars(RildExecutes) /\ SF_vars(RildAsksApn)
  /\ \A s \in Serial : SF_vars(\E e \in BOOLEAN, p \in Payload : RildReply(s, e, p))

FairSpec == Spec /\ Fairness

-----------------------------------------------------------------------------
(* The requests, the list, the socket and the modem have their shapes.     *)
TypeOK ==
  /\ req \in [Serial -> [type: Types,
                         fate: {"new", "pending", "answered", "failed", "lost"}]]
  /\ listed \subseteq Serial /\ atRild \subseteq Serial
  /\ socket \in Seq(Reply \cup Suspension \cup Unsolicited) /\ Len(socket) <= MaxSocket
  /\ toRild \in Seq(Command) /\ Len(toRild) <= MaxSocket
  /\ up \in BOOLEAN /\ losses \in 0 .. MaxLosses /\ cut \subseteq Session
  /\ suspended \subseteq Session /\ attachApn \in {"none", "empty", "apn"}
  /\ overwrote \in BOOLEAN /\ notified \subseteq {"call", "voice", "ussd"}

(* The serials of the replies in the socket.                               *)
Replies == {socket[i].ser : i \in {j \in 1 .. Len(socket) : socket[j].what = "reply"}}

(* A caller that waits is always served by somebody: its request is in     *)
(* mRequestList, and rild has it or its reply is in the socket.  No path   *)
(* through processSolicited, and no lost connection, leaves a waiting      *)
(* caller behind.                                                          *)
WaitingIsListed ==
  \A s \in Serial : req[s].fate = "pending" => s \in listed /\ s \in atRild \cup Replies

(* The sessions whose suspension is in the socket, and those whose         *)
(* RESUME_REGISTRATION is on its way.                                      *)
Noticed == {id \in Session : \E i \in 1 .. Len(socket) :
                               socket[i].what = "suspended" /\ socket[i].session = id}
Resumed == {id \in Session : \E i \in 1 .. Len(toRild) : toRild[i] = <<"resume", id>>}

(* A suspended registration is never forgotten, and none is resumed that   *)
(* is not suspended: as long as no lost connection took it, either the     *)
(* message waits for responseRegSuspended (lines 162-184) or the resume    *)
(* for exactly that session is on its way to rild, behind whatever else    *)
(* the handlers and the framework have sent, and never both.               *)
ResumeUnderWay ==
  /\ suspended \ cut = Noticed \cup Resumed
  /\ Noticed \cap Resumed = {}

(* After an answer the request is out of mRequestList, except a            *)
(* GET_SIM_STATUS whose refresh threw: that entry stays until the          *)
(* connection is lost.                                                     *)
OnlySimStatusStays ==
  \A s \in listed : req[s].fate # "pending" => req[s].type = "sim" /\ req[s].fate = "failed"

(* An error reply without payload never reaches a caller as a success,     *)
(* although processSolicited delivers what it decodes without the error.   *)
EmptyErrorIsFailure ==
  [][\A s \in Serial :
       req[s].fate = "pending" /\ req'[s].fate = "answered"
         => ~(Head(socket).error /\ Head(socket).payload = "none")]_vars

(* Each suspended registration is resumed, unless a connection was lost    *)
(* while it was suspended.                                                 *)
SuspensionEnds ==
  \A id \in Session : id \in suspended ~> (id \notin suspended \/ id \in cut)

(* The stack gets an initial attach APN in the end, also over lost         *)
(* connections: it asks again.                                             *)
AttachUnblocks == attachApn = "none" ~> attachApn # "none"

(* The channel implements what RequestReply promises, and settles every    *)
(* request.                                                                *)
Promise == INSTANCE RequestReply WITH fate <- [s \in Serial |-> req[s].fate]
ImplementsPromise == Promise!Spec
RequestsSettle == Promise!Settled

(* What the comment in the catch clause of processSolicited wants:         *)
(* "Exceptions here usually mean invalid RIL responses", and the caller    *)
(* of a request with an invalid response gets the exception.               *)
InvalidResponseAnswered == \A s \in Serial : req[s].fate # "lost"

(* What the comment in responseSetAttachApn wants: "Set an empty one to    *)
(* unblock"; an APN the framework has set is not replaced.                 *)
EmptyApnOnlyUnblocks == ~overwrote
================================================================================

--------------------------- MODULE RilChannelProofs ----------------------------
(***************************************************************************)
(* Proofs about RilChannel for any sets of serials and sessions and any    *)
(* bounds: no path through processSolicited leaves a waiting caller        *)
(* behind, and the channel implements RequestReply.                        *)
(*                                                                         *)
(* The invariant that carries the proof is about the replies in the        *)
(* socket: each belongs to a request that waits and is listed, rild does   *)
(* not have that request any more, and no request has two of them.         *)
(* SessionInv does the same for suspended registrations: the notice and    *)
(* the resume of a session occur once between them.                        *)
(***************************************************************************)
EXTENDS RilChannel, SequenceTheorems, TLAPS

Message == Reply \cup Suspension \cup Unsolicited

IsReply(m) == m.what = "reply"

(* What rild has not answered is listed and waits.                         *)
AtRildInv == \A s \in atRild : s \in listed /\ req[s].fate = "pending"

(* A reply in the socket is the reply to a request that waits for it.      *)
ReplyInv ==
  \A i \in 1 .. Len(socket) :
    IsReply(socket[i]) =>
      /\ socket[i].ser \in listed /\ socket[i].ser \notin atRild
      /\ req[socket[i].ser].fate = "pending"

(* No request has two replies in the socket.                               *)
OneReply ==
  \A i, j \in 1 .. Len(socket) :
    IsReply(socket[i]) /\ IsReply(socket[j]) /\ socket[i].ser = socket[j].ser => i = j

(* A message that will cost the connection is covered by the bound.        *)
BadInv ==
  \A i \in 1 .. Len(socket) :
    socket[i].what # "suspended" /\ socket[i].payload = "bad" => losses < MaxLosses

(* A request that waits is listed, and rild has it or its reply has been   *)
(* sent.                                                                   *)
WaitInv ==
  \A s \in Serial : req[s].fate = "pending" =>
    /\ s \in listed
    /\ s \in atRild \/ \E i \in 1 .. Len(socket) : IsReply(socket[i]) /\ socket[i].ser = s

ReqInv == AtRildInv /\ ReplyInv /\ OneReply /\ WaitInv /\ OnlySimStatusStays

IInv == TypeOK /\ BadInv /\ ReqInv

-----------------------------------------------------------------------------
(* A message whose what says so is a reply.                                *)
LEMMA ReplyType ==
  ASSUME NEW m \in Message, IsReply(m)
  PROVE  m \in Reply
BY DEF Message, Suspension, Unsolicited, Reply, IsReply

(* What is left of the socket after its head was read.                     *)
LEMMA TailOfSocket ==
  ASSUME TypeOK, socket # <<>>
  PROVE  /\ Head(socket) \in Message /\ Head(socket) = socket[1]
         /\ Tail(socket) \in Seq(Message) /\ Len(Tail(socket)) <= MaxSocket
         /\ Len(socket) \in Nat /\ Len(socket) >= 1
         /\ Len(Tail(socket)) = Len(socket) - 1
         /\ \A i \in 1 .. Len(Tail(socket)) :
              i + 1 \in 1 .. Len(socket) /\ Tail(socket)[i] = socket[i + 1]
<1>1. socket \in Seq(Message) /\ Len(socket) <= MaxSocket
  BY DEF TypeOK, Message
<1>2. Len(socket) \in Nat /\ Len(socket) >= 1
  BY <1>1, EmptySeq, LenProperties
<1>3. Head(socket) \in Message /\ Tail(socket) \in Seq(Message)
      /\ Len(Tail(socket)) = Len(socket) - 1
      /\ \A i \in 1 .. Len(Tail(socket)) : Tail(socket)[i] = socket[i + 1]
  BY <1>1, HeadTailProperties
<1>4. Head(socket) = socket[1]
  BY <1>1, <1>2
<1>5. QED
  BY <1>1, <1>2, <1>3, <1>4, BoundsAssumption

(* The socket after rild has sent a message.                               *)
LEMMA SocketAppend ==
  ASSUME TypeOK, NEW m \in Message, Emit(m)
  PROVE  /\ socket' \in Seq(Message) /\ Len(socket') <= MaxSocket
         /\ Len(socket) \in Nat
         /\ Len(socket') = Len(socket) + 1
         /\ socket'[Len(socket) + 1] = m
         /\ \A i \in 1 .. Len(socket) : socket'[i] = socket[i]
<1>1. socket \in Seq(Message)
  BY DEF TypeOK, Message
<1>2. QED
  BY <1>1, AppendProperties, BoundsAssumption DEF Emit

-----------------------------------------------------------------------------
(* The requests' invariants do not depend on anything but the requests and *)
(* the replies in the socket: steps that leave the requests alone and add  *)
(* or take no reply preserve them.                                         *)
LEMMA FrameReq ==
  ASSUME ReqInv, UNCHANGED reqVars, UNCHANGED socket
  PROVE  ReqInv'
BY DEF ReqInv, AtRildInv, ReplyInv, OneReply, WaitInv, OnlySimStatusStays,
       reqVars, IsReply

(* A step that takes from the socket a message that is no reply.           *)
LEMMA TailReq ==
  ASSUME TypeOK, ReqInv, UNCHANGED reqVars,
         socket # <<>>, ~IsReply(Head(socket)), socket' = Tail(socket)
  PROVE  ReqInv'
<1> USE DEF reqVars
<1>1. AtRildInv' /\ OnlySimStatusStays'
  BY DEF ReqInv, AtRildInv, OnlySimStatusStays
<1>2. ReplyInv' /\ OneReply'
  BY TailOfSocket DEF ReqInv, ReplyInv, OneReply, IsReply
<1>3. WaitInv'
  <2> SUFFICES ASSUME NEW s \in Serial, req[s].fate = "pending", s \notin atRild
               PROVE  s \in listed /\ \E i \in 1 .. Len(socket') :
                        IsReply(socket'[i]) /\ socket'[i].ser = s
    BY Zenon DEF ReqInv, WaitInv, IsReply
  <2>1. PICK i \in 1 .. Len(socket) : IsReply(socket[i]) /\ socket[i].ser = s
    BY DEF ReqInv, WaitInv
  <2>2. i # 1
    BY <2>1, TailOfSocket
  <2>3. i - 1 \in 1 .. Len(socket') /\ socket'[i - 1] = socket[i]
    BY <2>2, TailOfSocket
  <2>4. QED
    BY <2>1, <2>3, Zenon DEF ReqInv, WaitInv
<1>4. QED
  BY <1>1, <1>2, <1>3 DEF ReqInv

(* A step of rild that sends a message that is no reply.                   *)
LEMMA EmitReq ==
  ASSUME TypeOK, ReqInv, UNCHANGED reqVars,
         NEW m \in Message, ~IsReply(m), Emit(m)
  PROVE  ReqInv'
<1> USE DEF reqVars
<1>1. AtRildInv' /\ OnlySimStatusStays'
  BY DEF ReqInv, AtRildInv, OnlySimStatusStays
<1>2. \A i \in 1 .. Len(socket') : IsReply(socket'[i]) =>
        i \in 1 .. Len(socket) /\ socket'[i] = socket[i]
  BY SocketAppend
<1>a. ReplyInv'
  BY <1>2 DEF ReqInv, ReplyInv, IsReply
<1>b. OneReply'
  BY <1>2 DEF ReqInv, OneReply, IsReply
<1>3. WaitInv'
  BY SocketAppend DEF ReqInv, WaitInv, IsReply
<1>4. QED
  BY <1>1, <1>a, <1>b, <1>3 DEF ReqInv

(* A lost connection settles every request that waits.  The request s the  *)
(* receiver had in hand, if any, is settled in r already.                  *)
LEMMA DisconnectReq ==
  ASSUME TypeOK, ReqInv, NEW r, Disconnect(r),
         DOMAIN r = Serial,
         \A s \in Serial :
           /\ r[s] \in [type: Types,
                        fate: {"new", "pending", "answered", "failed", "lost"}]
           /\ r[s].fate = "pending" => req[s].fate = "pending"
  PROVE  ReqInv' /\ \A s \in Serial : req'[s].fate # "pending"
<1>1. listed' = {} /\ atRild' = {} /\ socket' = <<>> /\ Len(socket') = 0
  BY EmptySeq DEF Disconnect
<1>2. \A s \in Serial : req'[s].fate # "pending"
  <2> TAKE s \in Serial
  <2>1. CASE s \in listed /\ r[s].fate = "pending"
    BY <2>1 DEF Disconnect
  <2>2. CASE ~(s \in listed /\ r[s].fate = "pending")
    BY <2>2 DEF Disconnect, ReqInv, WaitInv
  <2>3. QED
    BY <2>1, <2>2
<1>3. QED
  BY <1>1, <1>2 DEF ReqInv, AtRildInv, ReplyInv, OneReply, WaitInv, OnlySimStatusStays

(* What the invariant says of the reply at the head of the socket.         *)
LEMMA HeadReply ==
  ASSUME TypeOK, ReqInv, Head1("reply")
  PROVE  /\ socket # <<>> /\ Head(socket) \in Reply
         /\ Head(socket).ser \in Serial /\ Head(socket).ser \in listed
         /\ Head(socket).ser \notin atRild
         /\ req[Head(socket).ser].fate = "pending"
         /\ \A i \in 1 .. Len(Tail(socket)) :
              IsReply(Tail(socket)[i]) => Tail(socket)[i].ser # Head(socket).ser
<1>1. socket # <<>> /\ IsReply(Head(socket))
  BY DEF Head1, IsReply
<1>2. Head(socket) \in Reply /\ Head(socket).ser \in Serial
  BY <1>1, TailOfSocket, ReplyType DEF Reply
<1>3. 1 \in 1 .. Len(socket) /\ IsReply(socket[1]) /\ Head(socket) = socket[1]
  BY <1>1, TailOfSocket
<1>4. /\ Head(socket).ser \in listed /\ Head(socket).ser \notin atRild
      /\ req[Head(socket).ser].fate = "pending"
  BY <1>3 DEF ReqInv, ReplyInv
<1>5. ASSUME NEW i \in 1 .. Len(Tail(socket)), IsReply(Tail(socket)[i])
      PROVE  Tail(socket)[i].ser # Head(socket).ser
  <2>1. i + 1 \in 1 .. Len(socket) /\ Tail(socket)[i] = socket[i + 1] /\ i + 1 # 1
    BY <1>1, TailOfSocket
  <2>2. QED
    BY <1>3, <1>5, <2>1 DEF ReqInv, OneReply
<1>6. QED
  BY <1>1, <1>2, <1>4, <1>5

(* A reply that settles its request, and either takes it out of            *)
(* mRequestList or is the failure of a GET_SIM_STATUS.                     *)
LEMMA TakeReply ==
  ASSUME TypeOK, ReqInv, Head1("reply"), socket' = Tail(socket),
         UNCHANGED atRild,
         NEW f \in {"answered", "failed"}, Answer(Head(socket).ser, f),
         \/ listed' = listed \ {Head(socket).ser}
         \/ listed' = listed /\ f = "failed" /\ req[Head(socket).ser].type = "sim"
  PROVE  ReqInv'
<1> DEFINE n == Head(socket).ser
<1>1. /\ socket # <<>> /\ n \in Serial /\ n \in listed /\ n \notin atRild
      /\ req[n].fate = "pending"
      /\ \A i \in 1 .. Len(Tail(socket)) : IsReply(Tail(socket)[i]) => Tail(socket)[i].ser # n
  BY HeadReply
<1>2. /\ DOMAIN req = Serial
      /\ req'[n].fate = f /\ req'[n].type = req[n].type
      /\ \A s \in Serial \ {n} : req'[s] = req[s]
  BY <1>1 DEF Answer, TypeOK
<1>t. /\ \A i \in 1 .. Len(Tail(socket)) :
           i + 1 \in 1 .. Len(socket) /\ Tail(socket)[i] = socket[i + 1]
      /\ Len(Tail(socket)) = Len(socket) - 1 /\ Len(socket) \in Nat
      /\ Head(socket) = socket[1] /\ Tail(socket) \in Seq(Message)
  BY <1>1, TailOfSocket
<1> HIDE DEF n
<1>3. AtRildInv'
  BY <1>1, <1>2 DEF ReqInv, AtRildInv, TypeOK, n
<1>4. ReplyInv'
  <2> SUFFICES ASSUME NEW i \in 1 .. Len(Tail(socket)), IsReply(Tail(socket)[i])
               PROVE  LET m == Tail(socket)[i] IN
                        /\ m.ser \in listed' /\ m.ser \notin atRild
                        /\ req'[m.ser].fate = "pending"
    BY DEF ReplyInv, IsReply
  <2> DEFINE m == Tail(socket)[i]
  <2>1. m \in Message /\ m.ser # n /\ IsReply(m)
    BY <1>1, <1>t, ElementOfSeq
  <2>2. m.ser \in Serial
    BY <2>1, ReplyType DEF Reply
  <2>3. /\ m.ser \in listed /\ m.ser \notin atRild
        /\ req[m.ser].fate = "pending"
    BY <1>t, <2>1 DEF ReqInv, ReplyInv
  <2>4. m.ser \in listed'
    BY <2>1, <2>3 DEF n
  <2>5. req'[m.ser] = req[m.ser]
    BY <1>2, <2>1, <2>2
  <2>6. QED
    BY <2>3, <2>4, <2>5
<1>5. OneReply'
  BY <1>t DEF ReqInv, OneReply, IsReply
<1>6. WaitInv'
  <2> SUFFICES ASSUME NEW s \in Serial, req'[s].fate = "pending"
               PROVE  /\ s \in listed'
                      /\ s \in atRild \/ \E i \in 1 .. Len(Tail(socket)) :
                           IsReply(Tail(socket)[i]) /\ Tail(socket)[i].ser = s
    BY DEF WaitInv, IsReply
  <2>1. s # n /\ req[s].fate = "pending"
    BY <1>2
  <2>2. s \in listed'
    BY <2>1 DEF ReqInv, WaitInv, n
  <2>3. ASSUME s \notin atRild
        PROVE  \E i \in 1 .. Len(Tail(socket)) :
                 IsReply(Tail(socket)[i]) /\ Tail(socket)[i].ser = s
    <3>1. PICK i \in 1 .. Len(socket) : IsReply(socket[i]) /\ socket[i].ser = s
      BY <2>1, <2>3 DEF ReqInv, WaitInv
    <3>2. i # 1
      BY <1>t, <2>1, <3>1 DEF n
    <3>3. i - 1 \in 1 .. Len(Tail(socket)) /\ Tail(socket)[i - 1] = socket[i]
      BY <1>t, <3>2
    <3>4. QED
      BY <3>1, <3>3, Zenon
  <2>4. QED
    BY <2>2, <2>3
<1>7. OnlySimStatusStays'
  BY <1>1, <1>2 DEF ReqInv, OnlySimStatusStays, TypeOK, n
<1>8. QED
  BY <1>3, <1>4, <1>5, <1>6, <1>7 DEF ReqInv

(* A request is sent.                                                      *)
LEMMA SendReq ==
  ASSUME TypeOK, ReqInv, NEW s \in Serial, NEW type \in Types, Send(s, type)
  PROVE  ReqInv'
<1>1. /\ DOMAIN req = Serial /\ req[s].fate = "new"
      /\ req'[s].fate = "pending" /\ req'[s].type = type
      /\ \A x \in Serial \ {s} : req'[x] = req[x]
      /\ listed' = listed \cup {s} /\ atRild' = atRild \cup {s} /\ socket' = socket
  BY DEF Send, TypeOK
<1>2. AtRildInv'
  BY <1>1 DEF ReqInv, AtRildInv, TypeOK
<1>3. ReplyInv'
  <2> SUFFICES ASSUME NEW i \in 1 .. Len(socket), IsReply(socket[i])
               PROVE  LET m == socket[i] IN
                        /\ m.ser \in listed' /\ m.ser \notin atRild'
                        /\ req'[m.ser].fate = "pending"
    BY <1>1 DEF ReplyInv, IsReply
  <2> DEFINE m == socket[i]
  <2>1. m \in Message /\ m.ser \in Serial
    BY ReplyType, ElementOfSeq DEF TypeOK, Message, Reply
  <2>2. /\ m.ser \in listed /\ m.ser \notin atRild
        /\ req[m.ser].fate = "pending"
    BY DEF ReqInv, ReplyInv
  <2>3. m.ser # s
    BY <1>1, <2>2
  <2>4. req'[m.ser] = req[m.ser]
    BY <1>1, <2>1, <2>3
  <2>5. QED
    BY <1>1, <2>2, <2>3, <2>4
<1>4. OneReply'
  BY <1>1 DEF ReqInv, OneReply, IsReply
<1>5. WaitInv'
  BY <1>1 DEF ReqInv, WaitInv, IsReply
<1>6. OnlySimStatusStays'
  BY <1>1 DEF ReqInv, OnlySimStatusStays, TypeOK
<1>7. QED
  BY <1>2, <1>3, <1>4, <1>5, <1>6 DEF ReqInv

(* rild answers a request it holds.                                        *)
LEMMA RildReplyReq ==
  ASSUME TypeOK, ReqInv, NEW s \in Serial, NEW error \in BOOLEAN, NEW payload \in Payload,
         RildReply(s, error, payload)
  PROVE  ReqInv'
<1> DEFINE m0 == [what |-> "reply", ser |-> s, error |-> error, payload |-> payload]
<1>1. /\ DOMAIN req = Serial /\ s \in atRild /\ s \in listed /\ req[s].fate = "pending"
      /\ req' = req /\ listed' = listed /\ atRild' = atRild \ {s}
  BY DEF RildReply, TypeOK, ReqInv, AtRildInv
<1>2. m0 \in Message /\ Emit(m0) /\ IsReply(m0) /\ m0.ser = s /\ m0.payload = payload
  BY DEF RildReply, Message, Reply, IsReply
<1> HIDE DEF m0
<1>3. /\ Len(socket) \in Nat /\ Len(socket') = Len(socket) + 1
      /\ socket'[Len(socket) + 1] = m0
      /\ \A i \in 1 .. Len(socket) : socket'[i] = socket[i]
  BY <1>2, SocketAppend
<1>4. ASSUME NEW i \in 1 .. Len(socket), IsReply(socket[i])
      PROVE  /\ socket[i].ser \in Serial /\ socket[i].ser # s
             /\ socket[i].ser \in listed /\ socket[i].ser \notin atRild
             /\ req[socket[i].ser].fate = "pending"
  <2>1. socket[i] \in Message /\ socket[i].ser \in Serial
    BY <1>4, ReplyType, ElementOfSeq DEF TypeOK, Message, Reply
  <2>2. QED
    BY <1>1, <1>4, <2>1 DEF ReqInv, ReplyInv
<1>5. AtRildInv'
  BY <1>1 DEF ReqInv, AtRildInv, TypeOK
<1>6. ReplyInv'
  <2> SUFFICES ASSUME NEW i \in 1 .. Len(socket'), IsReply(socket'[i])
               PROVE  LET m == socket'[i] IN
                        /\ m.ser \in listed' /\ m.ser \notin atRild'
                        /\ req'[m.ser].fate = "pending"
    BY DEF ReplyInv, IsReply
  <2>1. CASE i = Len(socket) + 1
    BY <1>1, <1>2, <1>3, <2>1
  <2>2. CASE i \in 1 .. Len(socket)
    <3>1. socket'[i] = socket[i] /\ IsReply(socket[i])
      BY <1>3, <2>2
    <3>2. QED
      BY <1>1, <1>4, <2>2, <3>1
  <2>3. QED
    BY <1>3, <2>1, <2>2
<1>7. OneReply'
  <2> SUFFICES ASSUME NEW i \in 1 .. Len(socket'), NEW j \in 1 .. Len(socket'),
                      IsReply(socket'[i]), IsReply(socket'[j]), socket'[i].ser = socket'[j].ser
               PROVE  i = j
    BY DEF OneReply, IsReply
  <2>1. CASE i \in 1 .. Len(socket) /\ j \in 1 .. Len(socket)
    BY <1>3, <2>1 DEF ReqInv, OneReply
  <2>2. CASE i = Len(socket) + 1 /\ j \in 1 .. Len(socket)
    BY <1>2, <1>3, <1>4, <2>2
  <2>3. CASE j = Len(socket) + 1 /\ i \in 1 .. Len(socket)
    BY <1>2, <1>3, <1>4, <2>3
  <2>4. QED
    BY <1>3, <2>1, <2>2, <2>3
<1>8. WaitInv'
  <2> SUFFICES ASSUME NEW x \in Serial, req'[x].fate = "pending"
               PROVE  /\ x \in listed'
                      /\ x \in atRild' \/ \E i \in 1 .. Len(socket') :
                           IsReply(socket'[i]) /\ socket'[i].ser = x
    BY DEF WaitInv, IsReply
  <2>1. CASE x = s
    BY <1>1, <1>2, <1>3, <2>1
  <2>2. CASE x # s
    <3>1. req[x].fate = "pending" /\ x \in listed'
      BY <1>1, <2>2 DEF ReqInv, WaitInv
    <3>2. x \in atRild \/ \E i \in 1 .. Len(socket) : IsReply(socket[i]) /\ socket[i].ser = x
      BY <3>1 DEF ReqInv, WaitInv
    <3>3. QED
      BY <1>1, <1>3, <2>2, <3>1, <3>2
  <2>3. QED
    BY <2>1, <2>2
<1>9. OnlySimStatusStays'
  BY <1>1 DEF ReqInv, OnlySimStatusStays, TypeOK
<1>10. QED
  BY <1>5, <1>6, <1>7, <1>8, <1>9 DEF ReqInv

(* The reply that cannot be decoded: its request is lost, the others that  *)
(* wait fail with the connection.                                          *)
LEMMA ReceiveOwnReq ==
  ASSUME TypeOK, ReqInv, ReceiveOwn
  PROVE  ReqInv'
<1> DEFINE m == Head(socket)
<1>1. /\ m \in Reply /\ m.ser \in Serial /\ m.ser \in listed
      /\ req[m.ser].fate = "pending"
      /\ Head1("reply") /\ req[m.ser].type = "own"
  BY HeadReply DEF ReceiveOwn
<1>2. CASE m.payload # "bad"
  <2>1. /\ Answer(m.ser, "answered") /\ listed' = listed \ {m.ser}
        /\ socket' = Tail(socket) /\ UNCHANGED atRild
    BY <1>2 DEF ReceiveOwn, Rest
  <2>2. QED
    BY <1>1, <2>1, TakeReply
<1>3. CASE m.payload = "bad"
  <2> DEFINE r == [req EXCEPT ![m.ser].fate = "lost"]
  <2>1. Disconnect(r)
    BY <1>3 DEF ReceiveOwn
  <2>2. /\ DOMAIN r = Serial
        /\ r[m.ser] = [req[m.ser] EXCEPT !.fate = "lost"]
        /\ \A s \in Serial \ {m.ser} : r[s] = req[s]
    BY <1>1 DEF TypeOK
  <2>3. ASSUME NEW s \in Serial
        PROVE  /\ r[s] \in [type: Types,
                            fate: {"new", "pending", "answered", "failed", "lost"}]
               /\ r[s].fate = "pending" => req[s].fate = "pending"
    <3>1. req[s] \in [type: Types,
                      fate: {"new", "pending", "answered", "failed", "lost"}]
      BY DEF TypeOK
    <3>2. CASE s = m.ser
      BY <1>1, <1>3, <2>2, <3>1, <3>2
    <3>3. CASE s # m.ser
      BY <2>2, <3>1, <3>3
    <3>4. QED
      BY <3>2, <3>3
  <2> HIDE DEF r
  <2>4. QED
    BY <2>1, <2>2, <2>3, DisconnectReq
<1>4. QED
  BY <1>2, <1>3

(* A GET_SIM_STATUS reply whose refresh threw: the request stays.          *)
LEMMA ReceiveSimThrowsReq ==
  ASSUME TypeOK, ReqInv, ReceiveSimThrows
  PROVE  ReqInv'
<1>1. /\ Head1("reply") /\ req[Head(socket).ser].type = "sim"
      /\ Answer(Head(socket).ser, "failed") /\ listed' = listed
      /\ socket' = Tail(socket) /\ UNCHANGED atRild
  BY DEF ReceiveSimThrows, Rest
<1>2. QED
  BY <1>1, TakeReply

(* A reply the superclass decodes.                                         *)
LEMMA ReceiveSuperReq ==
  ASSUME TypeOK, ReqInv, ReceiveSuper
  PROVE  ReqInv'
<1> DEFINE m == Head(socket)
           f == IF m.error \/ m.payload = "bad" THEN "failed" ELSE "answered"
<1>1. Head1("reply") /\ m.ser \in listed
  BY HeadReply DEF ReceiveSuper
<1>2. /\ Answer(m.ser, f) /\ listed' = listed \ {m.ser} /\ f \in {"answered", "failed"}
      /\ socket' = Tail(socket) /\ UNCHANGED atRild
  BY <1>1 DEF ReceiveSuper, Rest
<1> HIDE DEF f
<1>3. QED
  BY <1>1, <1>2, TakeReply

(* The connection goes while no request is in the receiver's hands.        *)
LEMMA DropReq ==
  ASSUME TypeOK, ReqInv, Disconnect(req)
  PROVE  ReqInv'
<1>1. DOMAIN req = Serial
  BY DEF TypeOK
<1>2. \A s \in Serial :
        req[s] \in [type: Types, fate: {"new", "pending", "answered", "failed", "lost"}]
  BY DEF TypeOK
<1>3. QED
  BY <1>1, <1>2, DisconnectReq

(* An unsolicited message that a handler takes is no concern of requests.  *)
LEMMA HandledReq ==
  ASSUME TypeOK, ReqInv, NEW what, what # "reply", Head1(what),
         NEW command, NEW registrants, Handled(command, registrants)
  PROVE  ReqInv'
<1>1. socket # <<>> /\ ~IsReply(Head(socket)) /\ socket' = Tail(socket) /\ UNCHANGED reqVars
  BY DEF Head1, IsReply, Handled
<1>2. QED
  BY <1>1, TailReq

(* Every step preserves what is said of the requests.                      *)
LEMMA ReqStep ==
  ASSUME TypeOK, ReqInv, [Next]_vars
  PROVE  ReqInv'
<1>1. CASE UNCHANGED vars
  BY <1>1, FrameReq DEF vars
<1>2. ASSUME NEW s \in Serial, NEW t \in Types, Send(s, t)
      PROVE  ReqInv'
  BY <1>2, SendReq
<1>3. CASE ConnectionLost
  BY <1>3, DropReq DEF ConnectionLost
<1>4. CASE Reconnect \/ FrameworkApn \/ RildExecutes
  BY <1>4, FrameReq DEF Reconnect, FrameworkApn, RildExecutes
<1>5. CASE ReceiveOwn
  BY <1>5, ReceiveOwnReq
<1>6. CASE ReceiveSimThrows
  BY <1>6, ReceiveSimThrowsReq
<1>7. CASE ReceiveSuper
  BY <1>7, ReceiveSuperReq
<1>8. CASE ReceiveMalformed
  BY <1>8, DropReq DEF ReceiveMalformed
<1>9. CASE responseRegSuspended
  BY <1>9, HandledReq DEF responseRegSuspended
<1>10. CASE responseIncomingCallIndication
  BY <1>10, HandledReq, Zenon DEF responseIncomingCallIndication
<1>11. CASE responseCallProgress
  BY <1>11, HandledReq DEF responseCallProgress
<1>12. CASE responseSetAttachApn
  BY <1>12, HandledReq DEF responseSetAttachApn
<1>13. CASE OnUssd
  BY <1>13, HandledReq DEF OnUssd
<1>14. CASE OnPsState
  BY <1>14, HandledReq DEF OnPsState
<1>15. ASSUME NEW s \in Serial, NEW e \in BOOLEAN, NEW p \in Payload, RildReply(s, e, p)
       PROVE  ReqInv'
  BY <1>15, RildReplyReq
<1>16. ASSUME NEW id \in Session, RildSuspends(id)
       PROVE  ReqInv'
  <2>1. /\ [what |-> "suspended", session |-> id] \in Message
        /\ ~IsReply([what |-> "suspended", session |-> id])
    BY DEF Message, Suspension, IsReply
  <2>2. QED
    BY <1>16, <2>1, EmitReq DEF RildSuspends
<1>17. CASE RildAsksApn
  <2>1. /\ [what |-> "attachApn", payload |-> "good"] \in Message
        /\ ~IsReply([what |-> "attachApn", payload |-> "good"])
    BY DEF Message, Unsolicited, IsReply
  <2>2. QED
    BY <1>17, <2>1, EmitReq DEF RildAsksApn
<1>18. ASSUME NEW m \in Unsolicited, RildEvent(m)
       PROVE  ReqInv'
  <2>1. m \in Message /\ ~IsReply(m)
    BY DEF Message, Unsolicited, IsReply
  <2>2. QED
    BY <1>18, <2>1, EmitReq DEF RildEvent
<1>19. QED
  BY <1>1, <1>2, <1>3, <1>4, <1>5, <1>6, <1>7, <1>8, <1>9, <1>10, <1>11, <1>12, <1>13,
     <1>14, <1>15, <1>16, <1>17, <1>18 DEF Next, Receiver, Rild

-----------------------------------------------------------------------------
(* Types, and the bound on the connections lost.                           *)

ReqType ==
  /\ req \in [Serial -> [type: Types,
                         fate: {"new", "pending", "answered", "failed", "lost"}]]
  /\ listed \subseteq Serial /\ atRild \subseteq Serial
SocketType == socket \in Seq(Message) /\ Len(socket) <= MaxSocket
ToRildType == toRild \in Seq(Command) /\ Len(toRild) <= MaxSocket
LinkType == up \in BOOLEAN /\ losses \in 0 .. MaxLosses /\ cut \subseteq Session
ModemType ==
  /\ suspended \subseteq Session /\ attachApn \in {"none", "empty", "apn"}
  /\ overwrote \in BOOLEAN
NotifiedType == notified \subseteq {"call", "voice", "ussd"}

(* The parts of the type invariant after a step make it up.                *)
LEMMA TypeParts ==
  ReqType' /\ SocketType' /\ ToRildType' /\ LinkType' /\ ModemType' /\ NotifiedType'
    => TypeOK'
BY DEF TypeOK, ReqType, SocketType, ToRildType, LinkType, ModemType, NotifiedType, Message

(* The types and BadInv after a lost connection.                           *)
LEMMA DisconnectType ==
  ASSUME IInv, losses < MaxLosses, NEW r, Disconnect(r), notified' = {}, UNCHANGED modemVars,
         r \in [Serial -> [type: Types,
                           fate: {"new", "pending", "answered", "failed", "lost"}]]
  PROVE  TypeOK' /\ BadInv'
<1>1. ReqType'
  BY DEF Disconnect, ReqType
<1>2. socket' = <<>> /\ Len(socket') = 0 /\ toRild' = <<>> /\ Len(toRild') = 0
      /\ socket' \in Seq(Message) /\ toRild' \in Seq(Command)
  BY EmptySeq DEF Disconnect
<1>3. SocketType' /\ ToRildType'
  BY <1>2, BoundsAssumption DEF SocketType, ToRildType
<1>4. LinkType'
  <2>1. /\ up' = FALSE /\ losses' = losses + 1 /\ losses \in 0 .. MaxLosses
        /\ cut' \subseteq Session
    BY DEF Disconnect, IInv, TypeOK
  <2>2. losses' \in 0 .. MaxLosses
    BY <2>1, BoundsAssumption
  <2>3. QED
    BY <2>1, <2>2, Zenon DEF LinkType
<1>5. ModemType' /\ NotifiedType'
  BY DEF ModemType, NotifiedType, modemVars, IInv, TypeOK
<1>6. BadInv'
  BY <1>2 DEF BadInv
<1>7. QED
  BY <1>1, <1>3, <1>4, <1>5, <1>6, TypeParts

(* A message the receiver takes from the socket and handles.               *)
LEMMA TakeType ==
  ASSUME IInv, socket # <<>>, socket' = Tail(socket), UNCHANGED linkVars, UNCHANGED modemVars,
         ReqType', ToRildType', NotifiedType'
  PROVE  TypeOK' /\ BadInv'
<1>1. SocketType'
  BY TailOfSocket DEF SocketType, IInv
<1>2. LinkType' /\ ModemType'
  BY DEF LinkType, ModemType, linkVars, modemVars, IInv, TypeOK
<1>3. BadInv'
  BY TailOfSocket DEF BadInv, IInv, linkVars
<1>4. QED
  BY <1>1, <1>2, <1>3, TypeParts

(* The types after a handler has taken an unsolicited message.             *)
LEMMA HandledType ==
  ASSUME IInv, NEW what, Head1(what), NEW registrants \in SUBSET {"call", "voice", "ussd"},
         NEW command, Handled(command, registrants),
         \/ command = <<>>
         \/ Len(toRild) < MaxSocket /\ \E c \in Command : command = <<c>>
  PROVE  TypeOK' /\ BadInv'
<1>1. /\ socket # <<>> /\ socket' = Tail(socket) /\ UNCHANGED <<reqVars, linkVars, modemVars>>
      /\ toRild' = toRild \o command /\ notified' = registrants
      /\ toRild \in Seq(Command) /\ Len(toRild) \in Nat /\ Len(toRild) <= MaxSocket
  BY LenProperties DEF Head1, Handled, IInv, TypeOK
<1>2. ToRildType'
  <2>1. CASE command = <<>>
    BY <1>1, <2>1, ConcatEmptySeq DEF ToRildType
  <2>2. ASSUME Len(toRild) < MaxSocket, NEW c \in Command, command = <<c>>
        PROVE  ToRildType'
    <3>1. command \in Seq(Command) /\ Len(command) = 1
      BY <2>2
    <3>2. toRild' \in Seq(Command) /\ Len(toRild') = Len(toRild) + 1
      <4>1. toRild \in Seq(Command) BY <1>1
      <4>2. /\ toRild \o command \in Seq(Command)
            /\ Len(toRild \o command) = Len(toRild) + Len(command)
        BY <3>1, <4>1, ConcatProperties, Zenon
      <4> QED BY <1>1, <3>1, <4>2
    <3>3. QED
      BY <1>1, <2>2, <3>2, BoundsAssumption DEF ToRildType
  <2>3. QED
    BY <2>1, <2>2
<1>3. ReqType' /\ NotifiedType'
  BY <1>1 DEF ReqType, NotifiedType, reqVars, IInv, TypeOK
<1>4. QED
  BY <1>1, <1>2, <1>3, TakeType

(* A message of rild.                                                      *)
LEMMA EmitType ==
  ASSUME IInv, NEW m \in Message, Emit(m),
         m.what # "suspended" /\ m.payload = "bad" => losses < MaxLosses,
         UNCHANGED <<toRild, linkVars>>, notified' = {}, ReqType', ModemType'
  PROVE  TypeOK' /\ BadInv'
<1>1. SocketType'
  BY SocketAppend DEF SocketType, IInv
<1>2. LinkType' /\ ToRildType' /\ NotifiedType'
  BY DEF LinkType, ToRildType, NotifiedType, linkVars, IInv, TypeOK
<1>3. BadInv'
  BY SocketAppend DEF BadInv, IInv, linkVars
<1>4. QED
  BY <1>1, <1>2, <1>3, TypeParts

(* Every step preserves the types and BadInv.                              *)
LEMMA TypeStep ==
  ASSUME IInv, [Next]_vars
  PROVE  TypeOK' /\ BadInv'
<1> DEFINE RequestSet == [type: Types,
                          fate: {"new", "pending", "answered", "failed", "lost"}]
<1>r. TypeOK /\ ReqInv /\ req \in [Serial -> RequestSet]
  BY DEF IInv, TypeOK
<1>1. CASE UNCHANGED vars
  BY <1>1 DEF IInv, TypeOK, BadInv, vars, reqVars, linkVars, modemVars
<1>2. ASSUME NEW s \in Serial, NEW t \in Types, Send(s, t)
      PROVE  TypeOK' /\ BadInv'
  <2>1. ReqType'
    BY <1>2 DEF Send, ReqType, IInv, TypeOK
  <2>2. UNCHANGED <<socket, toRild, linkVars, modemVars>> /\ notified' = {}
    BY <1>2 DEF Send
  <2>3. QED
    BY <2>1, <2>2 DEF ReqType, IInv, TypeOK, BadInv, linkVars, modemVars
<1>3. CASE ConnectionLost
  BY <1>3, <1>r, DisconnectType DEF ConnectionLost
<1>4. CASE Reconnect
  BY <1>4 DEF Reconnect, IInv, TypeOK, BadInv, reqVars, modemVars
<1>5. CASE FrameworkApn
  <2>1. /\ toRild' = Append(toRild, <<"attach", "apn">>) /\ Len(toRild) < MaxSocket
        /\ toRild \in Seq(Command) /\ <<"attach", "apn">> \in Command
    BY <1>5, Zenon DEF FrameworkApn, setInitialAttachApn, Command, IInv, TypeOK
  <2>2. ToRildType'
    BY <2>1, AppendProperties, LenProperties, BoundsAssumption DEF ToRildType
  <2>3. UNCHANGED <<reqVars, socket, linkVars, modemVars>> /\ notified' = {}
    BY <1>5 DEF FrameworkApn
  <2>4. QED
    BY <2>2, <2>3 DEF ToRildType, IInv, TypeOK, BadInv, reqVars, linkVars, modemVars
<1>6. CASE ReceiveOwn
  <2>1. /\ Head(socket) \in Reply /\ Head(socket).ser \in Serial
        /\ socket # <<>> /\ Head(socket) = socket[1] /\ 1 \in 1 .. Len(socket)
    BY <1>6, <1>r, HeadReply, TailOfSocket DEF ReceiveOwn
  <2>2. CASE Head(socket).payload # "bad"
    <3>1. /\ req' = [req EXCEPT ![Head(socket).ser].fate = "answered"]
          /\ listed' = listed \ {Head(socket).ser} /\ socket' = Tail(socket)
          /\ notified' \in {{}, {"voice"}}
          /\ UNCHANGED <<atRild, toRild, linkVars, modemVars>>
      BY <1>6, <2>2 DEF ReceiveOwn, Rest, Answer
    <3>2. ReqType' /\ ToRildType' /\ NotifiedType'
      BY <2>1, <3>1 DEF ReqType, ToRildType, NotifiedType, IInv, TypeOK
    <3>3. QED
      BY <2>1, <3>1, <3>2, TakeType
  <2>3. CASE Head(socket).payload = "bad"
    <3>1. losses < MaxLosses
      BY <2>1, <2>3 DEF IInv, BadInv, Reply
    <3>2. /\ Disconnect([req EXCEPT ![Head(socket).ser].fate = "lost"])
          /\ notified' = {} /\ UNCHANGED modemVars
      BY <1>6, <2>3 DEF ReceiveOwn
    <3>3. [req EXCEPT ![Head(socket).ser].fate = "lost"] \in [Serial -> RequestSet]
      BY <1>r, <2>1
    <3>4. QED
      BY <3>1, <3>2, <3>3, DisconnectType, Zenon
  <2>4. QED
    BY <2>2, <2>3
<1>7. CASE ReceiveSimThrows \/ ReceiveSuper
  <2>1. socket # <<>> /\ Head(socket).ser \in Serial /\ Head(socket).ser \in listed
    BY <1>7, <1>r, HeadReply DEF ReceiveSimThrows, ReceiveSuper
  <2>2. /\ \E f \in {"answered", "failed"} : req' = [req EXCEPT ![Head(socket).ser].fate = f]
        /\ listed' \subseteq listed /\ socket' = Tail(socket) /\ notified' = {}
        /\ UNCHANGED <<atRild, toRild, linkVars, modemVars>>
    BY <1>7, <2>1 DEF ReceiveSimThrows, ReceiveSuper, Rest, Answer
  <2>3. req' \in [Serial -> RequestSet]
    <3>1. PICK f \in {"answered", "failed"} : req' = [req EXCEPT ![Head(socket).ser].fate = f]
      BY <2>2, Zenon
    <3>2. QED
      BY <1>r, <2>1, <3>1
  <2>4. ReqType'
    BY <2>2, <2>3 DEF ReqType, IInv, TypeOK
  <2>5. ToRildType' /\ NotifiedType'
    BY <2>2 DEF ToRildType, NotifiedType, IInv, TypeOK
  <2>6. QED
    BY <2>1, <2>2, <2>4, <2>5, TakeType
<1>8. CASE ReceiveMalformed
  <2>1. socket # <<>> /\ Head(socket).what # "suspended" /\ Head(socket).payload = "bad"
        /\ Disconnect(req) /\ notified' = {} /\ UNCHANGED modemVars
    BY <1>8 DEF ReceiveMalformed, Parsed
  <2>2. Head(socket) = socket[1] /\ 1 \in 1 .. Len(socket)
    BY <1>r, <2>1, TailOfSocket
  <2>3. losses < MaxLosses
    BY <2>1, <2>2 DEF IInv, BadInv
  <2>4. QED
    BY <1>r, <2>1, <2>3, DisconnectType
<1>9. CASE responseRegSuspended
  <2>1. Head(socket) \in Message /\ Head(socket).what = "suspended"
    BY <1>9, <1>r, TailOfSocket DEF responseRegSuspended, Head1
  <2>2. <<"resume", Head(socket).session>> \in Command
    BY <2>1, Zenon DEF Message, Reply, Suspension, Unsolicited, Command
  <2>3. QED
    BY <1>9, <2>2, HandledType DEF responseRegSuspended
<1>10. CASE responseIncomingCallIndication
  <2>1. <<"callIndication", "">> \in Command
    BY Zenon DEF Command
  <2>2. QED
    BY <1>10, <2>1, HandledType, Zenon DEF responseIncomingCallIndication
<1>11. CASE responseCallProgress
  BY <1>11, HandledType DEF responseCallProgress
<1>12. CASE responseSetAttachApn
  <2>1. <<"attach", "empty">> \in Command
    BY Zenon DEF Command
  <2>2. QED
    BY <1>12, <2>1, HandledType DEF responseSetAttachApn
<1>13. CASE OnUssd
  BY <1>13, HandledType DEF OnUssd
<1>14. CASE OnPsState
  BY <1>14, HandledType DEF OnPsState
<1>15. ASSUME NEW s \in Serial, NEW e \in BOOLEAN, NEW p \in Payload, RildReply(s, e, p)
       PROVE  TypeOK' /\ BadInv'
  <2> DEFINE m == [what |-> "reply", ser |-> s, error |-> e, payload |-> p]
  <2>1. m \in Message /\ m.payload = p
    BY DEF Message, Reply
  <2>2. /\ Emit(m) /\ (p = "bad" => losses < MaxLosses)
        /\ UNCHANGED <<req, listed, toRild, linkVars, modemVars>> /\ notified' = {}
        /\ atRild' = atRild \ {s}
    BY <1>15 DEF RildReply
  <2> HIDE DEF m
  <2>3. ReqType' /\ ModemType'
    BY <2>2 DEF ReqType, ModemType, modemVars, IInv, TypeOK
  <2>4. QED
    BY <2>1, <2>2, <2>3, EmitType
<1>16. ASSUME NEW id \in Session, RildSuspends(id)
       PROVE  TypeOK' /\ BadInv'
  <2>1. /\ [what |-> "suspended", session |-> id] \in Message
        /\ [what |-> "suspended", session |-> id].what = "suspended"
    BY DEF Message, Suspension
  <2>2. /\ Emit([what |-> "suspended", session |-> id]) /\ notified' = {}
        /\ UNCHANGED <<toRild, linkVars>>
    BY <1>16 DEF RildSuspends
  <2>3. ReqType' /\ ModemType'
    BY <1>16 DEF RildSuspends, ReqType, ModemType, reqVars, IInv, TypeOK
  <2>4. QED
    BY <2>1, <2>2, <2>3, EmitType
<1>17. CASE RildAsksApn
  <2>1. /\ [what |-> "attachApn", payload |-> "good"] \in Message
        /\ [what |-> "attachApn", payload |-> "good"].payload # "bad"
    BY DEF Message, Unsolicited
  <2>2. /\ Emit([what |-> "attachApn", payload |-> "good"]) /\ notified' = {}
        /\ UNCHANGED <<toRild, linkVars>>
    BY <1>17 DEF RildAsksApn
  <2>3. ReqType' /\ ModemType'
    BY <1>17 DEF RildAsksApn, ReqType, ModemType, reqVars, modemVars, IInv, TypeOK
  <2>4. QED
    BY <2>1, <2>2, <2>3, EmitType
<1>18. ASSUME NEW m \in Unsolicited, RildEvent(m)
       PROVE  TypeOK' /\ BadInv'
  <2>1. m \in Message /\ Emit(m) /\ (m.payload = "bad" => losses < MaxLosses)
        /\ UNCHANGED <<toRild, linkVars>> /\ notified' = {}
    BY <1>18 DEF RildEvent, Message
  <2>2. ReqType' /\ ModemType'
    BY <1>18 DEF RildEvent, ReqType, ModemType, reqVars, modemVars, IInv, TypeOK
  <2>3. QED
    BY <2>1, <2>2, EmitType
<1>19. CASE RildExecutes
  <2>1. toRild \in Seq(Command) /\ toRild # <<>> /\ toRild' = Tail(toRild)
        /\ Len(toRild) <= MaxSocket
    BY <1>19 DEF RildExecutes, IInv, TypeOK
  <2>2. Head(toRild) \in Command /\ Tail(toRild) \in Seq(Command)
        /\ Len(Tail(toRild)) = Len(toRild) - 1 /\ Len(toRild) \in Nat
    BY <2>1, HeadTailProperties, LenProperties
  <2>3. ToRildType'
    BY <2>1, <2>2, BoundsAssumption DEF ToRildType
  <2>4. Head(toRild)[1] = "attach" => Head(toRild)[2] \in {"empty", "apn"}
    <3>1. CASE Head(toRild) \in {"resume"} \X Session
      BY <3>1
    <3>2. CASE Head(toRild) \in {"attach"} \X {"empty", "apn"}
      BY <3>2
    <3>3. CASE Head(toRild) \in {"callIndication"} \X {""}
      BY <3>3, Zenon
    <3>4. QED
      BY <2>2, <3>1, <3>2, <3>3, Zenon DEF Command
  <2>5. ModemType'
    BY <1>19, <2>4 DEF RildExecutes, ModemType, IInv, TypeOK
  <2>6. UNCHANGED <<reqVars, socket, linkVars>> /\ notified' = {}
    BY <1>19 DEF RildExecutes
  <2>7. QED
    BY <2>3, <2>5, <2>6 DEF ToRildType, ModemType, IInv, TypeOK, BadInv, reqVars, linkVars
<1>20. QED
  BY <1>1, <1>2, <1>3, <1>4, <1>5, <1>6, <1>7, <1>8, <1>9, <1>10, <1>11, <1>12, <1>13,
     <1>14, <1>15, <1>16, <1>17, <1>18, <1>19 DEF Next, Receiver, Rild

-----------------------------------------------------------------------------
(* The invariant holds initially.                                          *)
LEMMA InitIInv == Init => IInv
<1> SUFFICES ASSUME Init PROVE IInv
  OBVIOUS
<1>1. socket = <<>> /\ Len(socket) = 0 /\ toRild = <<>> /\ Len(toRild) = 0
      /\ socket \in Seq(Message) /\ toRild \in Seq(Command)
  BY EmptySeq DEF Init
<1>2. \A s \in Serial : req[s] = [type |-> "other", fate |-> "new"]
  BY Zenon DEF Init
<1>3. req \in [Serial -> [type: Types,
                          fate: {"new", "pending", "answered", "failed", "lost"}]]
  BY DEF Init, Types
<1>4. TypeOK
  <2>1. Len(socket) <= MaxSocket /\ Len(toRild) <= MaxSocket /\ losses \in 0 .. MaxLosses
    BY <1>1, BoundsAssumption DEF Init
  <2>2. QED
    BY <1>1, <1>3, <2>1, Zenon DEF Init, TypeOK, Message
<1>5. BadInv
  BY <1>1 DEF BadInv
<1>6. ReqInv
  BY <1>1, <1>2 DEF Init, ReqInv, AtRildInv, ReplyInv, OneReply, WaitInv, OnlySimStatusStays
<1>7. QED
  BY <1>4, <1>5, <1>6 DEF IInv

(* Every step preserves the invariant.                                     *)
LEMMA NextIInv == IInv /\ [Next]_vars => IInv'
BY TypeStep, ReqStep DEF IInv

(* The inductive invariant holds in every reachable state.                 *)
THEOREM Invariance == Spec => []IInv
BY InitIInv, NextIInv, PTL DEF Spec

(* The invariant implies what is claimed of the requests that wait.        *)
LEMMA WaitIsListed == IInv => WaitingIsListed
<1> SUFFICES ASSUME IInv, NEW s \in Serial, req[s].fate = "pending"
             PROVE  s \in listed /\ s \in atRild \cup Replies
  BY DEF WaitingIsListed
<1>1. s \in listed /\ (s \in atRild \/ \E i \in 1 .. Len(socket) :
                                         IsReply(socket[i]) /\ socket[i].ser = s)
  BY DEF IInv, ReqInv, WaitInv
<1>2. QED
  BY <1>1 DEF Replies, IsReply

(* Whatever rild answers and whenever the connection breaks, a caller that *)
(* waits has its request in mRequestList, and rild or the socket will      *)
(* serve it (processSolicited, the receiver's loss of the connection).     *)
THEOREM WaitingIsAlwaysListed == Spec => []WaitingIsListed
BY Invariance, WaitIsListed, PTL

(* mRequestList keeps no request that was answered but a GET_SIM_STATUS    *)
(* whose refresh threw.                                                    *)
THEOREM OnlyFailedSimStatusStays == Spec => []OnlySimStatusStays
<1>1. IInv => OnlySimStatusStays
  BY DEF IInv, ReqInv
<1>2. QED
  BY <1>1, Invariance, PTL

-----------------------------------------------------------------------------
(* Suspended registrations.                                                *)

Occurs(e, s) == \E i \in 1 .. Len(s) : s[i] = e
AtMostOnce(e, s) == \A i, j \in 1 .. Len(s) : s[i] = e /\ s[j] = e => i = j

Notice(id) == [what |-> "suspended", session |-> id]
Resume(id) == <<"resume", id>>

(* What was lost with a connection is still suspended.  Of every other     *)
(* suspended session there is one notice or one resume, never two of       *)
(* either, and never both.                                                 *)
SessionInv ==
  /\ cut \subseteq suspended
  /\ \A id \in Session :
       /\ AtMostOnce(Notice(id), socket) /\ AtMostOnce(Resume(id), toRild)
       /\ id \in suspended \ cut <=> Occurs(Notice(id), socket) \/ Occurs(Resume(id), toRild)
       /\ ~(Occurs(Notice(id), socket) /\ Occurs(Resume(id), toRild))

(* What occurs in a sequence after its head was taken.                     *)
LEMMA OccursTail ==
  ASSUME NEW S, NEW s \in Seq(S), s # <<>>, NEW e, AtMostOnce(e, s)
  PROVE  /\ AtMostOnce(e, Tail(s))
         /\ Occurs(e, Tail(s)) <=> Occurs(e, s) /\ Head(s) # e
<1>1. /\ Len(s) \in Nat /\ Len(s) >= 1 /\ Head(s) = s[1]
      /\ Len(Tail(s)) = Len(s) - 1
      /\ \A i \in 1 .. Len(Tail(s)) : Tail(s)[i] = s[i + 1]
  BY HeadTailProperties, EmptySeq, LenProperties
<1>2. AtMostOnce(e, Tail(s))
  BY <1>1 DEF AtMostOnce
<1>3. ASSUME Occurs(e, Tail(s))
      PROVE  Occurs(e, s) /\ Head(s) # e
  <2>1. PICK i \in 1 .. Len(Tail(s)) : Tail(s)[i] = e
    BY <1>3 DEF Occurs
  <2>2. i + 1 \in 1 .. Len(s) /\ s[i + 1] = e /\ 1 \in 1 .. Len(s) /\ i + 1 # 1
    BY <1>1, <2>1
  <2>3. QED
    BY <1>1, <2>2 DEF Occurs, AtMostOnce
<1>4. ASSUME Occurs(e, s), Head(s) # e
      PROVE  Occurs(e, Tail(s))
  <2>1. PICK i \in 1 .. Len(s) : s[i] = e
    BY <1>4 DEF Occurs
  <2>2. i - 1 \in 1 .. Len(Tail(s)) /\ Tail(s)[i - 1] = e
    BY <1>1, <1>4, <2>1
  <2>3. QED
    BY <2>2 DEF Occurs
<1>5. QED
  BY <1>2, <1>3, <1>4

(* What occurs in a sequence after an element was appended.                *)
LEMMA OccursAppend ==
  ASSUME NEW S, NEW s \in Seq(S), NEW x \in S, NEW e
  PROVE  /\ Occurs(e, Append(s, x)) <=> Occurs(e, s) \/ x = e
         /\ AtMostOnce(e, s) /\ ~(x = e /\ Occurs(e, s)) => AtMostOnce(e, Append(s, x))
<1>1. /\ Len(s) \in Nat /\ Len(Append(s, x)) = Len(s) + 1
      /\ \A i \in 1 .. Len(s) : Append(s, x)[i] = s[i]
      /\ Append(s, x)[Len(s) + 1] = x
  BY AppendProperties, LenProperties
<1>2. \A i \in 1 .. Len(Append(s, x)) : i \in 1 .. Len(s) \/ i = Len(s) + 1
  BY <1>1
<1>3. 1 .. Len(s) \subseteq 1 .. Len(Append(s, x)) /\ Len(s) + 1 \in 1 .. Len(Append(s, x))
  BY <1>1
<1>4. Occurs(e, Append(s, x)) <=> Occurs(e, s) \/ x = e
  BY <1>1, <1>2, <1>3 DEF Occurs
<1>5. ASSUME AtMostOnce(e, s), ~(x = e /\ Occurs(e, s))
      PROVE  AtMostOnce(e, Append(s, x))
  BY <1>1, <1>2, <1>5 DEF Occurs, AtMostOnce
<1>6. QED
  BY <1>4, <1>5

(* A step that neither adds nor takes a notice or a resume.                *)
LEMMA SessionKept ==
  ASSUME SessionInv, UNCHANGED <<suspended, cut>>,
         \A id \in Session :
           /\ AtMostOnce(Notice(id), socket') /\ AtMostOnce(Resume(id), toRild')
           /\ Occurs(Notice(id), socket') <=> Occurs(Notice(id), socket)
           /\ Occurs(Resume(id), toRild') <=> Occurs(Resume(id), toRild)
  PROVE  SessionInv'
BY DEF SessionInv, AtMostOnce, Occurs

(* The receiver takes a message that is no notice from the socket, and     *)
(* sends at most one command that is no resume.                            *)
LEMMA SessionTake ==
  ASSUME TypeOK, SessionInv, UNCHANGED <<suspended, cut>>,
         socket # <<>>, socket' = Tail(socket), Head(socket).what # "suspended",
         \/ toRild' = toRild
         \/ \E c \in Command : c[1] # "resume" /\ toRild' = Append(toRild, c)
  PROVE  SessionInv'
<1>1. socket \in Seq(Message) /\ toRild \in Seq(Command)
  BY DEF TypeOK, Message
<1>2. ASSUME NEW id \in Session
      PROVE  /\ AtMostOnce(Notice(id), socket')
             /\ Occurs(Notice(id), socket') <=> Occurs(Notice(id), socket)
  <2>1. Head(socket) # Notice(id) /\ AtMostOnce(Notice(id), socket)
    BY DEF Notice, SessionInv
  <2>2. QED
    BY <1>1, <2>1, OccursTail
<1>3. ASSUME NEW id \in Session
      PROVE  /\ AtMostOnce(Resume(id), toRild')
             /\ Occurs(Resume(id), toRild') <=> Occurs(Resume(id), toRild)
  <2>1. AtMostOnce(Resume(id), toRild)
    BY DEF SessionInv
  <2>2. CASE toRild' = toRild
    BY <2>1, <2>2
  <2>3. ASSUME NEW c \in Command, c[1] # "resume", toRild' = Append(toRild, c)
        PROVE  /\ AtMostOnce(Resume(id), toRild')
               /\ Occurs(Resume(id), toRild') <=> Occurs(Resume(id), toRild)
    <3>1. c # Resume(id)
      BY <2>3 DEF Resume
    <3>2. QED
      BY <1>1, <2>1, <2>3, <3>1, OccursAppend
  <2>4. QED
    BY <2>2, <2>3
<1>4. QED
  BY <1>2, <1>3, SessionKept

(* A handler whose command is no resume.                                   *)
LEMMA SessionHandled ==
  ASSUME TypeOK, SessionInv, NEW what, what # "suspended", Head1(what),
         NEW registrants, NEW command, Handled(command, registrants),
         command = <<>> \/ \E c \in Command : c[1] # "resume" /\ command = <<c>>
  PROVE  SessionInv'
<1>1. /\ socket # <<>> /\ socket' = Tail(socket) /\ Head(socket).what # "suspended"
      /\ UNCHANGED <<suspended, cut>> /\ toRild' = toRild \o command
      /\ toRild \in Seq(Command)
  BY DEF Head1, Handled, linkVars, modemVars, TypeOK
<1>2. CASE command = <<>>
  BY <1>1, <1>2, ConcatEmptySeq, SessionTake
<1>3. ASSUME NEW c \in Command, c[1] # "resume", command = <<c>>
      PROVE  SessionInv'
  <2>1. toRild' = Append(toRild, c)
    BY <1>1, <1>3, AppendIsConcat
  <2>2. QED
    BY <1>1, <1>3, <2>1, SessionTake
<1>4. QED
  BY <1>2, <1>3

(* rild sends a message that is no notice.                                 *)
LEMMA SessionEmit ==
  ASSUME TypeOK, SessionInv, NEW m \in Message, Emit(m), m.what # "suspended",
         UNCHANGED <<toRild, suspended, cut>>
  PROVE  SessionInv'
<1>1. socket \in Seq(Message) /\ socket' = Append(socket, m)
  BY DEF TypeOK, Message, Emit
<1>2. ASSUME NEW id \in Session
      PROVE  /\ AtMostOnce(Notice(id), socket')
             /\ Occurs(Notice(id), socket') <=> Occurs(Notice(id), socket)
  <2>1. m # Notice(id) /\ AtMostOnce(Notice(id), socket)
    BY DEF Notice, SessionInv
  <2>2. QED
    BY <1>1, <2>1, OccursAppend
<1>3. \A id \in Session : AtMostOnce(Resume(id), toRild)
  BY DEF SessionInv
<1>4. QED
  BY <1>2, <1>3, SessionKept

(* The connection goes: what is suspended now is cut.                      *)
LEMMA SessionDrop ==
  ASSUME SessionInv, NEW r, Disconnect(r), UNCHANGED modemVars
  PROVE  SessionInv'
<1>1. /\ Len(socket') = 0 /\ Len(toRild') = 0
      /\ cut' = suspended /\ suspended' = suspended
  BY EmptySeq DEF Disconnect, modemVars
<1>2. ASSUME NEW e
      PROVE  /\ AtMostOnce(e, socket') /\ AtMostOnce(e, toRild')
             /\ ~Occurs(e, socket') /\ ~Occurs(e, toRild')
  BY <1>1 DEF AtMostOnce, Occurs
<1>3. cut' \subseteq suspended' /\ suspended' \ cut' = {}
  BY <1>1
<1>4. QED
  BY <1>2, <1>3, Zenon DEF SessionInv, AtMostOnce, Occurs

(* rild suspends a registration and says so.                               *)
LEMMA SessionSuspends ==
  ASSUME TypeOK, SessionInv, NEW id0 \in Session, RildSuspends(id0)
  PROVE  SessionInv'
<1>1. /\ socket \in Seq(Message) /\ Notice(id0) \in Message
      /\ socket' = Append(socket, Notice(id0)) /\ toRild' = toRild
      /\ id0 \notin suspended /\ suspended' = suspended \cup {id0} /\ cut' = cut
  BY DEF TypeOK, Message, Suspension, Notice, RildSuspends, Emit, linkVars
<1>2. cut' \subseteq suspended'
  BY <1>1 DEF SessionInv
<1>3. ASSUME NEW id \in Session
      PROVE  /\ AtMostOnce(Notice(id), socket') /\ AtMostOnce(Resume(id), toRild)
             /\ id \in suspended' \ cut' <=> Occurs(Notice(id), socket') \/ Occurs(Resume(id), toRild)
             /\ ~(Occurs(Notice(id), socket') /\ Occurs(Resume(id), toRild))
  <2>1. /\ AtMostOnce(Notice(id), socket) /\ AtMostOnce(Resume(id), toRild)
        /\ id \in suspended \ cut <=> Occurs(Notice(id), socket) \/ Occurs(Resume(id), toRild)
        /\ ~(Occurs(Notice(id), socket) /\ Occurs(Resume(id), toRild))
        /\ cut \subseteq suspended
    BY DEF SessionInv
  <2>2. Notice(id0) = Notice(id) <=> id0 = id
    BY DEF Notice
  <2>3. /\ Occurs(Notice(id), socket') <=> Occurs(Notice(id), socket) \/ id0 = id
        /\ ~(id0 = id /\ Occurs(Notice(id), socket)) => AtMostOnce(Notice(id), socket')
    BY <1>1, <2>1, <2>2, OccursAppend
  <2>4. QED
    BY <1>1, <2>1, <2>3
<1>4. QED
  BY <1>1, <1>2, <1>3 DEF SessionInv, AtMostOnce, Occurs

(* responseRegSuspended turns a notice into the resume of its session.     *)
LEMMA SessionResumes ==
  ASSUME TypeOK, SessionInv, responseRegSuspended
  PROVE  SessionInv'
<1> DEFINE id0 == Head(socket).session
<1>1. /\ socket \in Seq(Message) /\ socket # <<>> /\ socket' = Tail(socket)
      /\ Head(socket).what = "suspended" /\ toRild \in Seq(Command)
      /\ toRild' = toRild \o <<Resume(id0)>> /\ UNCHANGED <<suspended, cut>>
  BY DEF TypeOK, Message, responseRegSuspended, Head1, Handled, Resume, linkVars, modemVars
<1>2. Head(socket) \in Suspension
  BY <1>1, HeadTailProperties DEF Message, Reply, Unsolicited
<1>3. id0 \in Session /\ Head(socket) = Notice(id0)
  BY <1>2 DEF Suspension, Notice
<1> HIDE DEF id0
<1>4. toRild' = Append(toRild, Resume(id0)) /\ Resume(id0) \in Command
  <2>1. Resume(id0) \in Command
    BY <1>3, Zenon DEF Resume, Command
  <2>2. QED
    BY <1>1, <2>1, AppendIsConcat
<1>5. ASSUME NEW id \in Session
      PROVE  /\ AtMostOnce(Notice(id), socket') /\ AtMostOnce(Resume(id), toRild')
             /\ id \in suspended \ cut <=> Occurs(Notice(id), socket') \/ Occurs(Resume(id), toRild')
             /\ ~(Occurs(Notice(id), socket') /\ Occurs(Resume(id), toRild'))
  <2>1. /\ AtMostOnce(Notice(id), socket) /\ AtMostOnce(Resume(id), toRild)
        /\ id \in suspended \ cut <=> Occurs(Notice(id), socket) \/ Occurs(Resume(id), toRild)
        /\ ~(Occurs(Notice(id), socket) /\ Occurs(Resume(id), toRild))
    BY DEF SessionInv
  <2>2. (Notice(id0) = Notice(id) <=> id0 = id) /\ (Resume(id0) = Resume(id) <=> id0 = id)
    BY DEF Notice, Resume
  <2>3. /\ AtMostOnce(Notice(id), socket')
        /\ Occurs(Notice(id), socket') <=> Occurs(Notice(id), socket) /\ id0 # id
    BY <1>1, <1>3, <2>1, <2>2, OccursTail
  <2>4. /\ Occurs(Resume(id), toRild') <=> Occurs(Resume(id), toRild) \/ id0 = id
        /\ ~(id0 = id /\ Occurs(Resume(id), toRild)) => AtMostOnce(Resume(id), toRild')
    <3> DEFINE e == Resume(id)
               x == Resume(id0)
    <3>1. toRild \in Seq(Command) /\ x \in Command /\ toRild' = Append(toRild, x)
      BY <1>1, <1>4
    <3> HIDE DEF e, x
    <3>2. /\ Occurs(e, toRild') <=> Occurs(e, toRild) \/ x = e
          /\ AtMostOnce(e, toRild) /\ ~(x = e /\ Occurs(e, toRild)) => AtMostOnce(e, toRild')
      BY <3>1, OccursAppend
    <3>3. QED
      BY <2>1, <2>2, <3>2 DEF e, x
  <2>5. id0 = id => Occurs(Notice(id), socket)
    <3>1. 1 \in 1 .. Len(socket) /\ socket[1] = Notice(id0)
      BY <1>1, <1>3, TailOfSocket
    <3>2. QED
      BY <3>1 DEF Occurs
  <2>6. QED
    BY <2>1, <2>3, <2>4, <2>5
<1>6. QED
  BY <1>1, <1>5, Zenon DEF SessionInv, AtMostOnce, Occurs

(* rild executes a command; a resume ends the suspension of its session.   *)
LEMMA SessionExecutes ==
  ASSUME TypeOK, SessionInv, RildExecutes
  PROVE  SessionInv'
<1> DEFINE c == Head(toRild)
<1>1. /\ toRild \in Seq(Command) /\ toRild # <<>> /\ toRild' = Tail(toRild)
      /\ suspended' = IF c[1] = "resume" THEN suspended \ {c[2]} ELSE suspended
      /\ socket' = socket /\ cut' = cut
  BY DEF TypeOK, RildExecutes, linkVars
<1>2. c \in Command /\ 1 \in 1 .. Len(toRild) /\ toRild[1] = c
  BY <1>1, HeadTailProperties, EmptySeq, LenProperties
<1>3. ASSUME NEW id \in Session
      PROVE  c = Resume(id) <=> c[1] = "resume" /\ c[2] = id
  <2>1. CASE c \in {"resume"} \X Session
    BY <2>1 DEF Resume
  <2>2. CASE c \in {"attach"} \X {"empty", "apn"}
    BY <2>2 DEF Resume
  <2>3. CASE c \in {"callIndication"} \X {""}
    <3>1. c[1] = "callIndication"
      BY <2>3, Zenon
    <3>2. QED
      BY <3>1 DEF Resume
  <2>4. QED
    BY <1>2, <2>1, <2>2, <2>3, Zenon DEF Command
<1> HIDE DEF c
<1>4. ASSUME NEW id \in Session
      PROVE  /\ AtMostOnce(Notice(id), socket) /\ AtMostOnce(Resume(id), toRild')
             /\ id \in suspended' \ cut <=> Occurs(Notice(id), socket) \/ Occurs(Resume(id), toRild')
             /\ ~(Occurs(Notice(id), socket) /\ Occurs(Resume(id), toRild'))
             /\ id \in cut => id \in suspended'
  <2>1. /\ AtMostOnce(Notice(id), socket) /\ AtMostOnce(Resume(id), toRild)
        /\ id \in suspended \ cut <=> Occurs(Notice(id), socket) \/ Occurs(Resume(id), toRild)
        /\ ~(Occurs(Notice(id), socket) /\ Occurs(Resume(id), toRild))
        /\ id \in cut => id \in suspended
    BY DEF SessionInv
  <2>2. /\ AtMostOnce(Resume(id), toRild')
        /\ Occurs(Resume(id), toRild') <=> Occurs(Resume(id), toRild) /\ c # Resume(id)
    BY <1>1, <2>1, OccursTail DEF c
  <2>3. c = Resume(id) => Occurs(Resume(id), toRild)
    BY <1>2 DEF Occurs
  <2>4. id \in suspended' <=> id \in suspended /\ c # Resume(id)
    BY <1>1, <1>3
  <2>5. QED
    BY <2>1, <2>2, <2>3, <2>4
<1>5. cut' \subseteq suspended'
  BY <1>1, <1>4 DEF TypeOK
<1>6. QED
  BY <1>1, <1>4, <1>5 DEF SessionInv, AtMostOnce, Occurs

(* Every step preserves what is said of the suspended sessions.            *)
LEMMA SessionStep ==
  ASSUME IInv, SessionInv, [Next]_vars
  PROVE  SessionInv'
<1>t. TypeOK /\ ReqInv
  BY DEF IInv
<1>1. CASE UNCHANGED <<socket, toRild, suspended, cut>>
  BY <1>1 DEF SessionInv, AtMostOnce, Occurs
<1>2. CASE ConnectionLost \/ ReceiveMalformed
  BY <1>2, SessionDrop DEF ConnectionLost, ReceiveMalformed
<1>3. CASE FrameworkApn
  <2>1. /\ toRild \in Seq(Command) /\ <<"attach", "apn">> \in Command
        /\ toRild' = Append(toRild, <<"attach", "apn">>) /\ UNCHANGED <<socket, suspended, cut>>
    BY <1>3, <1>t, Zenon DEF FrameworkApn, setInitialAttachApn, Command, TypeOK, linkVars, modemVars
  <2>2. ASSUME NEW id \in Session
        PROVE  /\ AtMostOnce(Notice(id), socket) /\ AtMostOnce(Resume(id), toRild')
               /\ Occurs(Resume(id), toRild') <=> Occurs(Resume(id), toRild)
    <3>1. <<"attach", "apn">> # Resume(id)
      BY DEF Resume
    <3>2. AtMostOnce(Notice(id), socket) /\ AtMostOnce(Resume(id), toRild)
      BY DEF SessionInv
    <3>3. QED
      BY <2>1, <3>1, <3>2, OccursAppend
  <2>3. QED
    BY <2>1, <2>2, SessionKept
<1>4. CASE ReceiveOwn \/ ReceiveSimThrows \/ ReceiveSuper
  <2>1. socket # <<>> /\ Head(socket).what # "suspended"
    BY <1>4 DEF ReceiveOwn, ReceiveSimThrows, ReceiveSuper, Head1
  <2>2. CASE socket' = Tail(socket) /\ UNCHANGED <<toRild, suspended, cut>>
    BY <1>t, <2>1, <2>2, SessionTake
  <2>3. CASE \E r : Disconnect(r) /\ UNCHANGED modemVars
    BY <2>3, SessionDrop
  <2>4. QED
    BY <1>4, <2>2, <2>3 DEF ReceiveOwn, ReceiveSimThrows, ReceiveSuper, Rest, linkVars, modemVars
<1>5. CASE responseRegSuspended
  BY <1>5, <1>t, SessionResumes
<1>6. CASE responseIncomingCallIndication
  <2>1. <<"callIndication", "">> \in Command /\ <<"callIndication", "">>[1] # "resume"
    BY Zenon DEF Command
  <2>2. QED
    BY <1>6, <1>t, <2>1, SessionHandled, Zenon DEF responseIncomingCallIndication
<1>7. CASE responseCallProgress
  BY <1>7, <1>t, SessionHandled DEF responseCallProgress
<1>8. CASE responseSetAttachApn
  <2>1. <<"attach", "empty">> \in Command /\ <<"attach", "empty">>[1] # "resume"
    BY Zenon DEF Command
  <2>2. QED
    BY <1>8, <1>t, <2>1, SessionHandled DEF responseSetAttachApn
<1>9. CASE OnUssd
  BY <1>9, <1>t, SessionHandled DEF OnUssd
<1>10. CASE OnPsState
  BY <1>10, <1>t, SessionHandled DEF OnPsState
<1>11. ASSUME NEW s \in Serial, NEW e \in BOOLEAN, NEW p \in Payload, RildReply(s, e, p)
       PROVE  SessionInv'
  <2> DEFINE m == [what |-> "reply", ser |-> s, error |-> e, payload |-> p]
  <2>1. m \in Message /\ m.what # "suspended"
    BY DEF Message, Reply
  <2>2. Emit(m) /\ UNCHANGED <<toRild, suspended, cut>>
    BY <1>11 DEF RildReply, linkVars, modemVars
  <2> HIDE DEF m
  <2>3. QED
    BY <1>t, <2>1, <2>2, SessionEmit
<1>12. ASSUME NEW id \in Session, RildSuspends(id)
       PROVE  SessionInv'
  BY <1>12, <1>t, SessionSuspends
<1>13. CASE RildAsksApn
  <2> DEFINE m == [what |-> "attachApn", payload |-> "good"]
  <2>1. m \in Message /\ m.what # "suspended"
    BY DEF Message, Unsolicited
  <2>2. Emit(m) /\ UNCHANGED <<toRild, suspended, cut>>
    BY <1>13 DEF RildAsksApn, linkVars, modemVars
  <2> HIDE DEF m
  <2>3. QED
    BY <1>t, <2>1, <2>2, SessionEmit
<1>14. ASSUME NEW m \in Unsolicited, RildEvent(m)
       PROVE  SessionInv'
  <2>1. m \in Message /\ m.what # "suspended"
    BY DEF Message, Unsolicited
  <2>2. Emit(m) /\ UNCHANGED <<toRild, suspended, cut>>
    BY <1>14 DEF RildEvent, linkVars, modemVars
  <2>3. QED
    BY <1>t, <2>1, <2>2, SessionEmit
<1>15. CASE RildExecutes
  BY <1>15, <1>t, SessionExecutes
<1>16. ASSUME NEW s \in Serial, NEW t \in Types, Send(s, t)
       PROVE  SessionInv'
  BY <1>1, <1>16 DEF Send, linkVars, modemVars
<1>17. CASE Reconnect
  BY <1>1, <1>17 DEF Reconnect, modemVars
<1>18. CASE UNCHANGED vars
  BY <1>1, <1>18 DEF vars, linkVars, modemVars
<1>19. QED
  BY <1>2, <1>3, <1>4, <1>5, <1>6, <1>7, <1>8, <1>9, <1>10, <1>11, <1>12, <1>13,
     <1>14, <1>15, <1>16, <1>17, <1>18 DEF Next, Receiver, Rild

(* In a socket of the right type, Noticed and Resumed are the sessions     *)
(* whose notice or resume occurs.                                          *)
LEMMA SessionMeans == TypeOK /\ SessionInv => ResumeUnderWay
<1> SUFFICES ASSUME TypeOK, SessionInv PROVE ResumeUnderWay
  OBVIOUS
<1>1. ASSUME NEW id \in Session
      PROVE  id \in Noticed <=> Occurs(Notice(id), socket)
  <2>1. ASSUME NEW i \in 1 .. Len(socket)
        PROVE  socket[i].what = "suspended" /\ socket[i].session = id <=> socket[i] = Notice(id)
    <3>1. socket[i] \in Message
      BY ElementOfSeq DEF TypeOK, Message
    <3>2. CASE socket[i] \in Suspension
      BY <3>2 DEF Suspension, Notice
    <3>3. CASE socket[i] \in Reply \cup Unsolicited
      <4>1. socket[i].what # "suspended"
        BY <3>3 DEF Reply, Unsolicited
      <4>2. QED
        BY <4>1 DEF Notice
    <3>4. QED
      BY <3>1, <3>2, <3>3 DEF Message
  <2>2. QED
    BY <2>1 DEF Noticed, Occurs
<1>2. \A id \in Session : id \in Resumed <=> Occurs(Resume(id), toRild)
  BY DEF Resumed, Occurs, Resume
<1>3. Noticed \subseteq Session /\ Resumed \subseteq Session /\ suspended \subseteq Session
  BY DEF Noticed, Resumed, TypeOK
<1>4. \A id \in Session :
        /\ id \in suspended \ cut <=> id \in Noticed \/ id \in Resumed
        /\ ~(id \in Noticed /\ id \in Resumed)
  BY <1>1, <1>2 DEF SessionInv
<1>5. QED
  BY <1>3, <1>4 DEF ResumeUnderWay

(* A registration that is suspended is being resumed, whatever else is in  *)
(* the socket or on its way to rild, unless a lost connection took the     *)
(* message or the request with it; and nothing else is ever resumed        *)
(* (responseRegSuspended).                                                 *)
THEOREM SuspensionNotForgotten == Spec => []ResumeUnderWay
<1>1. Init => SessionInv
  BY EmptySeq DEF Init, SessionInv, AtMostOnce, Occurs
<1>2. IInv /\ SessionInv /\ [Next]_vars => SessionInv'
  BY SessionStep
<1>3. IInv /\ SessionInv => ResumeUnderWay
  BY SessionMeans DEF IInv
<1>4. QED
  BY <1>1, <1>2, <1>3, Invariance, PTL DEF Spec

-----------------------------------------------------------------------------
(* The refinement.                                                         *)

Settling ==
  \A s \in Serial :
    \/ req'[s].fate = req[s].fate
    \/ req[s].fate = "pending" /\ req'[s].fate \in {"answered", "failed", "lost"}

(* Steps that only settle requests that wait are steps of RequestReply.    *)
LEMMA SettlingSettles ==
  ASSUME TypeOK, Settling
  PROVE  Promise!Settle
<1> DEFINE fate == [s \in Serial |-> req[s].fate]
           fate1 == [s \in Serial |-> req'[s].fate]
           S == {s \in Serial : req[s].fate = "pending" /\ req'[s].fate # "pending"}
           f == [s \in S |-> req'[s].fate]
<1>1. S \in SUBSET {s \in Serial : fate[s] = "pending"}
  OBVIOUS
<1>2. f \in [S -> {"answered", "failed", "lost"}]
  BY DEF Settling
<1>3. fate1 = [s \in Serial |-> IF s \in S THEN f[s] ELSE fate[s]]
  BY DEF Settling
<1>4. QED
  BY <1>1, <1>2, <1>3, Zenon DEF Promise!Settle

(* A lost connection settles requests, and only ones that wait.            *)
LEMMA DisconnectSettles ==
  ASSUME IInv, Disconnect(req)
  PROVE  Settling
BY DEF Disconnect, Settling, IInv, TypeOK

(* Steps that settle: everything but Send.                                 *)
LEMMA OthersSettle ==
  ASSUME IInv, [Next]_vars, ~(\E s \in Serial, t \in Types : Send(s, t))
  PROVE  Settling
<1>r. TypeOK /\ ReqInv /\ DOMAIN req = Serial
  BY DEF IInv, TypeOK
<1>1. CASE UNCHANGED req
  BY <1>1 DEF Settling
<1>2. CASE ConnectionLost \/ ReceiveMalformed
  BY <1>2, DisconnectSettles DEF ConnectionLost, ReceiveMalformed
<1>3. CASE ReceiveOwn
  <2> DEFINE n == Head(socket).ser
  <2>1. n \in Serial /\ req[n].fate = "pending"
    BY <1>3, <1>r, HeadReply DEF ReceiveOwn
  <2>2. CASE Head(socket).payload # "bad"
    <3>1. req' = [req EXCEPT ![n].fate = "answered"]
      BY <1>3, <2>2 DEF ReceiveOwn, Answer
    <3>2. QED
      BY <1>r, <2>1, <3>1 DEF Settling, TypeOK
  <2>3. CASE Head(socket).payload = "bad"
    <3>1. Disconnect([req EXCEPT ![n].fate = "lost"])
      BY <1>3, <2>3 DEF ReceiveOwn
    <3>2. QED
      BY <1>r, <2>1, <3>1 DEF Disconnect, Settling, TypeOK
  <2>4. QED
    BY <2>2, <2>3
<1>4. CASE ReceiveSimThrows \/ ReceiveSuper
  <2> DEFINE n == Head(socket).ser
  <2>1. n \in Serial /\ req[n].fate = "pending" /\ n \in listed
    BY <1>4, <1>r, HeadReply DEF ReceiveSimThrows, ReceiveSuper
  <2>2. \E f \in {"answered", "failed"} : req' = [req EXCEPT ![n].fate = f]
    BY <1>4, <2>1 DEF ReceiveSimThrows, ReceiveSuper, Answer
  <2>3. QED
    BY <1>r, <2>1, <2>2 DEF Settling
<1>5. QED
  <2>1. \/ UNCHANGED req \/ ConnectionLost \/ ReceiveMalformed \/ ReceiveOwn
        \/ ReceiveSimThrows \/ ReceiveSuper
    BY Zenon DEF Next, Receiver, Rild, vars, reqVars, Reconnect, FrameworkApn, Handled,
           responseRegSuspended, responseIncomingCallIndication, responseCallProgress,
           responseSetAttachApn, OnUssd, OnPsState, RildAsksApn, RildExecutes,
           RildReply, RildSuspends, RildEvent
  <2>2. QED
    BY <1>1, <1>2, <1>3, <1>4, <2>1

(* The channel of MT6735.java implements RequestReply: no request is       *)
(* settled that was not asked, none is settled twice, and what a caller    *)
(* was told stays.                                                         *)
THEOREM Refinement == Spec => ImplementsPromise
<1>1. Init => Promise!Init
  BY DEF Init, Promise!Init
<1>2. IInv /\ [Next]_vars => [Promise!Next]_[s \in Serial |-> req[s].fate]
  <2> SUFFICES ASSUME IInv, [Next]_vars
               PROVE  Promise!Next
    OBVIOUS
  <2>1. ASSUME NEW s \in Serial, NEW t \in Types, Send(s, t)
        PROVE  Promise!Ask(s)
    <3>1. /\ DOMAIN req = Serial /\ req[s].fate = "new" /\ req'[s].fate = "pending"
          /\ \A x \in Serial \ {s} : req'[x] = req[x]
      BY <2>1 DEF Send, IInv, TypeOK
    <3>2. QED
      BY <3>1, Zenon DEF Promise!Ask
  <2>2. CASE ~(\E s \in Serial, t \in Types : Send(s, t))
    BY <2>2, OthersSettle, SettlingSettles DEF IInv, Promise!Next
  <2>3. QED
    BY <2>1, <2>2 DEF Promise!Next
<1>3. QED
  BY <1>1, <1>2, Invariance, PTL DEF Spec, ImplementsPromise, Promise!Spec

(* A caller is never told that an operation succeeded when rild reported   *)
(* an error without a payload (the guard of processSolicited that leaves   *)
(* such replies to the superclass).                                        *)
THEOREM EmptyErrorsFail == Spec => EmptyErrorIsFailure
<1>1. IInv /\ [Next]_vars =>
        [\A s \in Serial : req[s].fate = "pending" /\ req'[s].fate = "answered"
           => ~(Head(socket).error /\ Head(socket).payload = "none")]_vars
  <2> SUFFICES ASSUME IInv, [Next]_vars, NEW s \in Serial,
                      req[s].fate = "pending", req'[s].fate = "answered"
               PROVE  ~(Head(socket).error /\ Head(socket).payload = "none")
    OBVIOUS
  <2>r. TypeOK /\ ReqInv /\ DOMAIN req = Serial
    BY DEF IInv, TypeOK
  <2>1. CASE ReceiveOwn
    <3>1. CASE Head(socket).payload # "bad"
      BY <2>1 DEF ReceiveOwn, Decodable
    <3>2. QED
      BY <3>1
  <2>2. CASE ReceiveSuper
    <3> DEFINE n == Head(socket).ser
    <3>1. n \in Serial /\ n \in listed
      BY <2>2, <2>r, HeadReply DEF ReceiveSuper
    <3>2. CASE s = n
      <4>1. ASSUME Head(socket).error
            PROVE  req' = [req EXCEPT ![n].fate = "failed"]
        BY <2>2, <3>1, <4>1 DEF ReceiveSuper, Answer
      <4>2. ASSUME Head(socket).error
            PROVE  FALSE
        BY <2>r, <3>1, <3>2, <4>1, <4>2 DEF TypeOK
      <4>3. QED
        BY <4>2
    <3>3. CASE s # n
      BY <2>2, <2>r, <3>1, <3>3 DEF ReceiveSuper, Answer
    <3>4. QED
      BY <3>2, <3>3
  <2>3. ~(\E x \in Serial, t \in Types : Send(x, t))
    BY <2>r, Zenon DEF Send
  <2>4. ~(UNCHANGED req) /\ ~ReceiveSimThrows
    <3>1. ASSUME ReceiveSimThrows PROVE FALSE
      BY <2>r, <3>1 DEF ReceiveSimThrows, Answer
    <3>2. QED
      BY <3>1
  <2>5. ~(ConnectionLost \/ ReceiveMalformed)
    BY <2>r DEF ConnectionLost, ReceiveMalformed, Disconnect, TypeOK
  <2>6. QED
    BY <2>1, <2>2, <2>3, <2>4, <2>5, Zenon
       DEF Next, Receiver, Rild, vars, reqVars, Reconnect, FrameworkApn, Handled,
           responseRegSuspended, responseIncomingCallIndication, responseCallProgress,
           responseSetAttachApn, OnUssd, OnPsState, RildAsksApn, RildExecutes,
           RildReply, RildSuspends, RildEvent
<1>2. QED
  BY <1>1, Invariance, PTL DEF Spec, EmptyErrorIsFailure

(* Requests, replies and events keep their shapes, and the two ends of the *)
(* socket their bounds, for every number of requests, losses and events.   *)
THEOREM TypeCorrect == Spec => []TypeOK
<1>1. IInv => TypeOK
  BY DEF IInv
<1>2. QED
  BY <1>1, Invariance, PTL
=============================================================================

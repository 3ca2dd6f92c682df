------------------------------- MODULE DataCalls -------------------------------
(***************************************************************************)
(* The data-call table of MT6735.java (dataCallCids) and the two threads   *)
(* that share it without a lock: the telephony thread that calls           *)
(* setupDataCall and deactivateDataCall, and the RILReceiver thread that   *)
(* runs processSolicited and, through it, fetchCidFromDataCall.  The loops *)
(* over the table are modelled one array access per step, because that is  *)
(* the granularity at which the threads interleave.                        *)
(*                                                                         *)
(* rild and the modem are external: they grant, refuse, drop and           *)
(* deactivate calls and answer in any order.  The connection to rild may   *)
(* be lost at any moment, with rild or without it: then every caller that  *)
(* waits gets an error, while the calls may stay up in the modem.          *)
(***************************************************************************)
EXTENDS Integers

CONSTANTS
  Cid,        \* the context ids the modem hands out (non-negative)
  NumSlots,   \* entries of dataCallCids the loops visit (4 in the code)
  MaxSetups   \* bound on the number of setupDataCall calls

ASSUME CidAssumption == Cid \subseteq Nat
ASSUME NumSlotsAssumption == NumSlots \in Nat \ {0}
ASSUME MaxSetupsAssumption == MaxSetups \in Nat

NoCid == -1
Slots == 0 .. NumSlots - 1
Serial == 1 .. MaxSetups

(* What a reply to RIL_REQUEST_SETUP_DATA_CALL may carry: a payload that   *)
(* reports success or failure, an error without payload, or bytes that     *)
(* responseSetupDataCall cannot parse.                                     *)
Kinds == {"ok", "nok", "empty", "bad"}

(* "new": not sent; "rild": in mRequestList, unanswered; "reply": in       *)
(* mRequestList with the reply in the socket; "taken": removed from the    *)
(* list by the receiver; "answered"/"failed": mResult was sent; "lost":    *)
(* removed from the list and never answered.                               *)
Status == {"new", "rild", "reply", "taken", "answered", "failed", "lost"}

Request == [st: Status, ifc: 0 .. NumSlots, kind: Kinds, cid: Cid \cup {NoCid}]
Call == [ser: Serial, cid: Cid, ifc: 0 .. NumSlots]

VARIABLES
  dataCallCids,  \* the table; one entry more than the loops ever visit
  req,           \* the setup requests, by serial
  serial,        \* number of setup requests made so far
  cpc, ci, carg, \* telephony thread: position, loop index, interface or cid
  rpc, ri, rser, \* receiver thread: position, loop index, request in hand
  deacts,        \* cids of unanswered RIL_REQUEST_DEACTIVATE_DATA_CALLs
  active,        \* calls that are up in the modem
  overflow,      \* history: setups whose cid found no free entry
  stray,         \* history: recorded cids whose call nobody deactivated
  released,      \* history: cids given to deactivateDataCall since their grant
  pipelined      \* history: an operation began while another was pending

clientVars == <<cpc, ci, carg>>
recvVars == <<rpc, ri, rser>>
modemVars == <<deacts, active>>
history == <<overflow, stray, released, pipelined>>
vars == <<dataCallCids, req, serial, clientVars, recvVars, modemVars, history>>

Init ==
  /\ dataCallCids = [i \in 0 .. NumSlots |-> NoCid]
  /\ req = [s \in Serial |-> [st |-> "new", ifc |-> 0, kind |-> "empty", cid |-> NoCid]]
  /\ serial = 0
  /\ cpc = "idle" /\ ci = 0 /\ carg = 0
  /\ rpc = "idle" /\ ri = 0 /\ rser = 0
  /\ deacts = {} /\ active = {}
  /\ overflow = {} /\ stray = {} /\ released = {} /\ pipelined = FALSE

mRequestList == {s \in Serial : req[s].st \in {"rild", "reply"}}

Recorded(c) == \E i \in Slots : dataCallCids[i] = c

(* A setup or a deactivation was sent and its caller has no answer yet.    *)
Pending == mRequestList # {} \/ rpc # "idle" \/ deacts # {}

-----------------------------------------------------------------------------
(* The telephony thread.                                                   *)

SetupBegin ==
  /\ cpc = "idle" /\ serial < MaxSetups
  /\ cpc' = "scan" /\ ci' = 0
  /\ pipelined' = (pipelined \/ Pending)
  /\ UNCHANGED <<dataCallCids, req, serial, carg, recvVars, modemVars, overflow, stray, released>>

(* Mutant of SetupScan: the loop runs over all entries of the array.       *)
SetupScanWholeArray ==
  /\ cpc = "scan"
  /\ \/ /\ ci <= NumSlots /\ dataCallCids[ci] < 0
        /\ cpc' = "send" /\ carg' = ci + 1 /\ UNCHANGED ci
     \/ /\ ci <= NumSlots /\ dataCallCids[ci] >= 0
        /\ ci' = ci + 1 /\ UNCHANGED <<cpc, carg>>
  /\ UNCHANGED <<dataCallCids, req, serial, recvVars, modemVars, history>>

(* Mutant of SetupScan: the loop ends before the last entry.               *)
SetupScanStopsEarly ==
  /\ cpc = "scan"
  /\ \/ /\ ci < NumSlots - 1 /\ dataCallCids[ci] < 0
        /\ cpc' = "send" /\ carg' = ci + 1 /\ UNCHANGED ci
     \/ /\ ci < NumSlots - 1 /\ dataCallCids[ci] >= 0
        /\ ci' = ci + 1 /\ UNCHANGED <<cpc, carg>>
     \/ /\ ci = NumSlots - 1
        /\ cpc' = "send" /\ carg' = 0 /\ UNCHANGED ci
  /\ UNCHANGED <<dataCallCids, req, serial, recvVars, modemVars, history>>

(* The loop of setupDataCall: the first free entry, or 0 if there is none. *)
SetupScan ==
  /\ cpc = "scan"
  /\ \/ /\ ci < NumSlots /\ dataCallCids[ci] < 0
        /\ cpc' = "send" /\ carg' = ci + 1 /\ UNCHANGED ci
     \/ /\ ci < NumSlots /\ dataCallCids[ci] >= 0
        /\ ci' = ci + 1 /\ UNCHANGED <<cpc, carg>>
     \/ /\ ci = NumSlots
        /\ cpc' = "send" /\ carg' = 0 /\ UNCHANGED ci
  /\ UNCHANGED <<dataCallCids, req, serial, recvVars, modemVars, history>>

(* send(rr): nothing in the table is reserved.                             *)
SetupSend ==
  /\ cpc = "send"
  /\ cpc' = "idle" /\ ci' = 0 /\ carg' = 0
  /\ serial' = serial + 1
  /\ req' = [req EXCEPT ![serial + 1] = [@ EXCEPT !.st = "rild", !.ifc = carg]]
  /\ UNCHANGED <<dataCallCids, recvVars, modemVars, history>>

(* The client deactivates a call whose setup was reported as successful.   *)
DeactivateBegin(s) ==
  /\ cpc = "idle" /\ req[s].st = "answered" /\ req[s].kind = "ok"
  /\ cpc' = "dscan" /\ ci' = 0 /\ carg' = req[s].cid
  /\ released' = released \cup {req[s].cid}
  /\ pipelined' = (pipelined \/ Pending)
  /\ UNCHANGED <<dataCallCids, req, serial, recvVars, modemVars, overflow, stray>>

(* The loop of deactivateDataCall: the first entry that holds the cid.     *)
DeactivateScan ==
  /\ cpc = "dscan"
  /\ \/ ci < NumSlots /\ dataCallCids[ci] = carg /\ cpc' = "dfree" /\ UNCHANGED ci
     \/ ci < NumSlots /\ dataCallCids[ci] # carg /\ ci' = ci + 1 /\ UNCHANGED cpc
     \/ ci = NumSlots /\ cpc' = "dsend" /\ UNCHANGED ci
  /\ UNCHANGED <<dataCallCids, req, serial, carg, recvVars, modemVars, history>>

(* Mutant of DeactivateFree: the entry is left as it is.                   *)
DeactivateFreeNothing ==
  /\ cpc = "dfree"
  /\ cpc' = "dsend"
  /\ UNCHANGED <<dataCallCids, req, serial, ci, carg, recvVars, modemVars, history>>

DeactivateFree ==
  /\ cpc = "dfree"
  /\ dataCallCids' = [dataCallCids EXCEPT ![ci] = NoCid]
  /\ stray' = IF \E i \in Slots \ {ci} : dataCallCids[i] = carg
                THEN stray ELSE stray \ {carg}
  /\ cpc' = "dsend"
  /\ UNCHANGED <<req, serial, ci, carg, recvVars, modemVars, overflow, released, pipelined>>

(* super.deactivateDataCall: sent whatever the loop found.                 *)
DeactivateSend ==
  /\ cpc = "dsend"
  /\ cpc' = "idle" /\ ci' = 0 /\ carg' = 0
  /\ deacts' = deacts \cup {carg}
  /\ UNCHANGED <<dataCallCids, req, serial, recvVars, active, history>>

Telephony ==
  \/ SetupBegin \/ SetupScan \/ SetupSend
  \/ DeactivateScan \/ DeactivateFree \/ DeactivateSend
  \/ \E s \in Serial : DeactivateBegin(s)

-----------------------------------------------------------------------------
(* The RILReceiver thread: processSolicited on a setup reply.              *)

(* What the receiver does when the connection is gone: clearRequestList    *)
(* answers every setup and deactivation still listed with an error.        *)
(* dataCallCids is left as it is.                                          *)
ClearRequestList(dropped) ==
  /\ req' = [s \in Serial |->
               IF s \in dropped THEN [req[s] EXCEPT !.st = "lost"]
               ELSE IF s \in mRequestList THEN [req[s] EXCEPT !.st = "failed"]
               ELSE req[s]]
  /\ deacts' = {}

(* Without payload the reply goes to the superclass, which removes the     *)
(* request and reports the error.  With one, the request is removed first  *)
(* and the payload parsed afterwards, outside any try: if parsing throws,  *)
(* nobody answers the request any more, and the exception ends the         *)
(* receiver's loop, so that the connection is given up.                    *)
Receive(s) ==
  /\ rpc = "idle" /\ req[s].st = "reply"
  /\ \/ /\ req[s].kind = "empty"
        /\ req' = [req EXCEPT ![s] = [@ EXCEPT !.st = "failed"]]
        /\ UNCHANGED <<recvVars, deacts>>
     \/ /\ req[s].kind = "bad"
        /\ ClearRequestList({s})
        /\ UNCHANGED recvVars
     \/ /\ req[s].kind \in {"ok", "nok"}
        /\ req' = [req EXCEPT ![s] = [@ EXCEPT !.st = "taken"]]
        /\ rpc' = IF req[s].cid >= 0 THEN "store" ELSE "deliver"
        /\ ri' = 0 /\ rser' = s
        /\ UNCHANGED deacts
  /\ UNCHANGED <<dataCallCids, serial, clientVars, active, history>>

(* Mutant of StoreScan: the loop runs downwards, to the last free entry.   *)
StoreScanDown ==
  /\ rpc = "store"
  /\ \/ /\ \E i \in Slots :
             /\ dataCallCids[i] < 0 /\ \A j \in Slots : j > i => dataCallCids[j] >= 0
             /\ ri' = i
        /\ rpc' = "write" /\ UNCHANGED overflow
     \/ /\ \A i \in Slots : dataCallCids[i] >= 0
        /\ rpc' = "deliver" /\ overflow' = overflow \cup {rser} /\ UNCHANGED ri
  /\ UNCHANGED <<dataCallCids, req, serial, clientVars, rser, modemVars, stray, released, pipelined>>

(* The loop of fetchCidFromDataCall: the first free entry, looked for      *)
(* anew; without one the cid is not recorded.                              *)
StoreScan ==
  /\ rpc = "store"
  /\ \/ /\ ri < NumSlots /\ dataCallCids[ri] < 0
        /\ rpc' = "write" /\ UNCHANGED <<ri, overflow>>
     \/ /\ ri < NumSlots /\ dataCallCids[ri] >= 0
        /\ ri' = ri + 1 /\ UNCHANGED <<rpc, overflow>>
     \/ /\ ri = NumSlots
        /\ rpc' = "deliver" /\ overflow' = overflow \cup {rser} /\ UNCHANGED ri
  /\ UNCHANGED <<dataCallCids, req, serial, clientVars, rser, modemVars, stray, released, pipelined>>

(* Mutant of StoreWrite: the cid is not stored.                            *)
StoreWriteNothing ==
  /\ rpc = "write"
  /\ rpc' = "deliver"
  /\ UNCHANGED <<dataCallCids, req, serial, clientVars, ri, rser, modemVars, history>>

StoreWrite ==
  /\ rpc = "write"
  /\ dataCallCids' = [dataCallCids EXCEPT ![ri] = req[rser].cid]
  /\ rpc' = "deliver"
  /\ UNCHANGED <<req, serial, clientVars, ri, rser, modemVars, history>>

(* Mutant of Deliver: a failed setup is dropped instead of reported.       *)
DeliverSuccessOnly ==
  /\ rpc = "deliver"
  /\ rpc' = "idle" /\ ri' = 0 /\ rser' = 0
  /\ req' = [req EXCEPT ![rser] =
               [@ EXCEPT !.st = IF req[rser].kind = "ok" THEN "answered" ELSE "lost"]]
  /\ UNCHANGED <<dataCallCids, serial, clientVars, modemVars, history>>

(* mResult.sendToTarget(): no exception is set in either case; the client  *)
(* looks at the status in the payload.                                     *)
Deliver ==
  /\ rpc = "deliver"
  /\ rpc' = "idle" /\ ri' = 0 /\ rser' = 0
  /\ req' = [req EXCEPT ![rser] = [@ EXCEPT !.st = "answered"]]
  /\ UNCHANGED <<dataCallCids, serial, clientVars, modemVars, history>>

Receiver == StoreScan \/ StoreWrite \/ Deliver \/ \E s \in Serial : Receive(s)

-----------------------------------------------------------------------------
(* rild, the modem and the network: external.                              *)

Answer(s, k, c) ==
  /\ req[s].st = "rild"
  /\ req' = [req EXCEPT ![s] = [@ EXCEPT !.st = "reply", !.kind = k, !.cid = c]]
  /\ UNCHANGED <<dataCallCids, serial, clientVars, recvVars, deacts, overflow, pipelined>>

(* The client is inside deactivateDataCall(c) or waits for its answer.     *)
Deactivating(c) ==
  c \in deacts \/ (cpc \in {"dscan", "dfree", "dsend"} /\ carg = c)

(* The call comes up whether or not responseSetupDataCall will be able to  *)
(* parse the reply that says so.                                           *)
ModemGrant(s, c) ==
  /\ \A a \in active : a.cid # c
  /\ \E k \in {"ok", "bad"} : Answer(s, k, c)
  /\ UNCHANGED stray
  /\ released' = IF Deactivating(c) THEN released ELSE released \ {c}
  /\ active' = active \cup {[ser |-> s, cid |-> c, ifc |-> req[s].ifc]}

(* A refusal with a payload may name any cid; the code looks only at its   *)
(* sign.                                                                   *)
ModemRefuse(s) ==
  /\ \E k \in Kinds \ {"ok"}, c \in Cid \cup {NoCid} :
       /\ k = "nok" \/ c = NoCid
       /\ Answer(s, k, c)
       /\ stray' = stray \cup ({c} \ {NoCid})
  /\ UNCHANGED <<active, released>>

ModemDeactivate(c) ==
  /\ c \in deacts
  /\ deacts' = deacts \ {c}
  /\ active' = {a \in active : a.cid # c}
  /\ UNCHANGED <<dataCallCids, req, serial, clientVars, recvVars, history>>

NetworkDrop(a) ==
  /\ active' = active \ {a}
  /\ stray' = IF Recorded(a.cid) \/ req[a.ser].st \in {"reply", "taken"}
                THEN stray \cup {a.cid} ELSE stray
  /\ UNCHANGED <<dataCallCids, req, serial, clientVars, recvVars, deacts, overflow, released, pipelined>>

(* The receiver finds the socket closed.  If rild is gone, the calls are   *)
(* too; otherwise they stay up, those among them whose setup was still     *)
(* listed without anybody knowing their cid.                               *)
ConnectionLost ==
  /\ rpc = "idle"
  /\ ClearRequestList({})
  /\ \/ active' = {} /\ stray' = {c \in Cid : Recorded(c)}
     \/ UNCHANGED <<active, stray>>
  /\ UNCHANGED <<dataCallCids, serial, clientVars, recvVars, overflow, released, pipelined>>

ModemReply(s) == ModemRefuse(s) \/ \E c \in Cid : ModemGrant(s, c)

Modem ==
  \/ \E s \in Serial : ModemReply(s)
  \/ \E c \in Cid : ModemDeactivate(c)
  \/ \E a \in active : NetworkDrop(a)
  \/ ConnectionLost

Next == Telephony \/ Receiver \/ Modem

Spec == Init /\ [][Next]_vars

(* Both threads keep running, and rild replies to every request.           *)
Fairness ==
  /\ WF_vars(Receiver)
  /\ \A s \in Serial : WF_vars(ModemReply(s))

FairSpec == Spec /\ Fairness

-----------------------------------------------------------------------------
(* Properties.                                                             *)

(* The table, the requests and the two threads have their shapes, and the  *)
(* loop indices stay in the part of the table that is meant.               *)
TypeOK ==
  /\ dataCallCids \in [0 .. NumSlots -> Cid \cup {NoCid}]
  /\ req \in [Serial -> Request]
  /\ serial \in 0 .. MaxSetups
  /\ cpc \in {"idle", "scan", "send", "dscan", "dfree", "dsend"}
  /\ ci \in 0 .. NumSlots /\ carg \in Nat
  /\ rpc \in {"idle", "store", "write", "deliver"}
  /\ ri \in 0 .. NumSlots /\ rser \in 0 .. MaxSetups
  /\ deacts \subseteq Cid /\ active \subseteq Call
  /\ overflow \subseteq Serial /\ stray \subseteq Cid /\ released \subseteq Cid
  /\ pipelined \in BOOLEAN

(* No update of the table is lost although the two threads share it        *)
(* without a lock: a call that is up in the modem, was reported to the     *)
(* client and was not given to deactivateDataCall since has its cid in     *)
(* dataCallCids, unless fetchCidFromDataCall found no free entry for it.   *)
LiveCallRecorded ==
  \A a \in active :
    req[a.ser].st = "answered" /\ a.cid \notin released /\ a.ser \notin overflow
      => Recorded(a.cid)

(* setupDataCall's choice is still the first one when the request goes out *)
(* (lines 286-293), whatever the receiver stored meanwhile: every entry    *)
(* below the chosen interfaceId is taken, and 0 is sent only when all are. *)
InterfaceIdIsFirst ==
  cpc = "send" =>
    \A i \in Slots : (carg = 0 \/ i < carg - 1) => dataCallCids[i] >= 0

DistinctInterfaces(S) ==
  \A a, b \in S : a # b /\ a.ifc # 0 => a.ifc # b.ifc

(* The live calls the client waits for or uses: not those whose setup was  *)
(* reported as failed or never answered, nor those it has let go.          *)
Known ==
  {a \in active : req[a.ser].st \notin {"failed", "lost"} /\ a.cid \notin released}

(* "Find the first available interfaceId" (line 286): the interfaceId of a *)
(* call in use is not given to another one.  Not true of the code: nothing *)
(* is reserved between setup and answer.                                   *)
InterfaceIdAvailable == DistinctInterfaces(Known)

(* As long as no setup or deactivation began while another was pending,    *)
(* the entry filled by fetchCidFromDataCall is the one setupDataCall chose *)
(* and no two calls in use share an interfaceId, also after connections    *)
(* were lost and left calls in the modem that the table does not know.     *)
SerialInterfacesDistinct == ~pipelined => DistinctInterfaces(Known)

(* Only what the network, a refusal or the end of rild leaves behind       *)
(* goes stale in dataCallCids: as long as operations come one at a time,   *)
(* an entry that none of them left is the cid of a call that is up, and    *)
(* deactivateDataCall (lines 306-310) frees the entries they did leave.    *)
EntriesAreCalls ==
  ~pipelined =>
    \A i \in Slots : dataCallCids[i] \in Cid \ stray =>
      \E a \in active : a.cid = dataCallCids[i]

(* Every setup is answered, unless its reply could not be parsed: rild     *)
(* replies and the receiver gets through the table and delivers, or the    *)
(* connection is lost and the cleared request list reports an error.       *)
SetupAnswered ==
  \A s \in Serial :
    req[s].st = "rild" ~> \/ req[s].st \in {"answered", "failed"}
                          \/ req[s].st = "lost" /\ req[s].kind = "bad"
=============================================================================

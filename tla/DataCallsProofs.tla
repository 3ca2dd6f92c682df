---------------------------- MODULE DataCallsProofs ----------------------------
(***************************************************************************)
(* Proofs about DataCalls, for every set of cids, every table size and     *)
(* every number of setups: the type invariant, that no entry of the table  *)
(* is lost to the race between the two threads, that the interfaceId sent  *)
(* is the first free one, that non-overlapping operations never give an    *)
(* interfaceId to two calls in use and leave only live calls in the table. *)
(***************************************************************************)
EXTENDS DataCalls, TLAPS

-----------------------------------------------------------------------------
(* The inductive invariant.                                                *)

(* What each thread knows about the entry it is about to write, and the    *)
(* request it has in hand.                                                 *)
ThreadInv ==
  /\ cpc \in {"dscan", "dfree", "dsend"} => carg \in Cid
  /\ cpc \in {"scan", "send"} => serial < MaxSetups
  /\ cpc = "send" => carg \in 0 .. NumSlots
  /\ cpc = "dfree" => ci \in Slots /\ dataCallCids[ci] = carg
  /\ cpc = "scan" => \A i \in Slots : i < ci => dataCallCids[i] >= 0
  /\ rpc # "idle" => rser \in Serial /\ req[rser].st = "taken"
  /\ rpc \in {"store", "write"} => req[rser].cid \in Cid
  /\ rpc = "write" => ri \in Slots /\ dataCallCids[ri] = NoCid

RequestInv ==
  /\ \A s \in Serial : s > serial => req[s].st = "new"
  /\ \A s \in Serial : req[s].st = "taken" => rpc # "idle" /\ rser = s
  /\ \A s \in Serial : req[s].kind = "ok" => req[s].cid \in Cid

(* A call that is up and the setup that brought it up.  If the reply could *)
(* not be parsed, the caller was not answered with the cid.                *)
ActiveInv ==
  /\ \A a \in active : /\ req[a.ser].st \in {"reply", "taken", "answered", "failed", "lost"}
                        /\ req[a.ser].kind \in {"ok", "bad"}
                        /\ req[a.ser].cid = a.cid
                        /\ req[a.ser].ifc = a.ifc
  /\ \A a, b \in active : a.cid = b.cid => a = b

(* What the client is deactivating it has let go of.                       *)
ReleasedInv == \A c \in Cid : Deactivating(c) => c \in released

(* The receiver is done with the table as far as call a is concerned.      *)
Stored(a) == req[a.ser].st = "answered" \/ (rpc = "deliver" /\ rser = a.ser)

RecordInv ==
  \A a \in active :
    Stored(a) /\ a.cid \notin released /\ a.ser \notin overflow => Recorded(a.cid)

(* While operations do not overlap, one thing is pending at a time, ...    *)
SerialInv ==
  /\ cpc # "idle" => ~Pending
  /\ rpc # "idle" => mRequestList = {} /\ deacts = {}
  /\ deacts # {} => mRequestList = {}
  /\ \A s, t \in mRequestList : s = t

FirstFree(k) ==
  /\ k # 0 => dataCallCids[k - 1] = NoCid
  /\ \A i \in Slots : k = 0 \/ i < k - 1 => dataCallCids[i] >= 0

(* ... the entry below an interfaceId in use holds the call's cid, and the *)
(* entry below the interfaceId of the pending setup is the first free one. *)
SlotInv ==
  /\ \A a \in active :
       Stored(a) /\ a.cid \notin released /\ a.ifc # 0 => dataCallCids[a.ifc - 1] = a.cid
  /\ cpc = "send" => FirstFree(carg)
  /\ \A s \in mRequestList : FirstFree(req[s].ifc)
  /\ rpc \in {"store", "write"} => FirstFree(req[rser].ifc)
  /\ rpc = "store" => \A i \in Slots : i < ri => dataCallCids[i] >= 0
  /\ rpc = "write" => req[rser].ifc = ri + 1

IInv ==
  /\ TypeOK
  /\ ThreadInv
  /\ RequestInv
  /\ ActiveInv
  /\ ReleasedInv
  /\ RecordInv
  /\ InterfaceIdIsFirst
  /\ ~pipelined => SerialInv /\ SlotInv /\ DistinctInterfaces(Known)

-----------------------------------------------------------------------------
(* Changing the status of a request leaves the rest of it, and the other   *)
(* requests, alone.                                                        *)
LEMMA SetStatus ==
  ASSUME req \in [Serial -> Request], NEW s \in Serial, NEW x \in Status,
         req' = [req EXCEPT ![s] = [@ EXCEPT !.st = x]]
  PROVE  /\ req' \in [Serial -> Request]
         /\ \A t \in Serial : t # s => req'[t] = req[t]
         /\ req'[s].st = x /\ req'[s].ifc = req[s].ifc
         /\ req'[s].kind = req[s].kind /\ req'[s].cid = req[s].cid
BY DEF Request

(* clearRequestList changes nothing else of the requests that are listed   *)
(* either.                                                                 *)
LEMMA Cleared ==
  ASSUME req \in [Serial -> Request], NEW S \in SUBSET mRequestList, ClearRequestList(S)
  PROVE  /\ req' \in [Serial -> Request] /\ deacts' = {}
         /\ \A s \in Serial :
              /\ req'[s].ifc = req[s].ifc /\ req'[s].kind = req[s].kind
              /\ req'[s].cid = req[s].cid
              /\ IF s \in mRequestList THEN req'[s].st \in {"failed", "lost"}
                                       ELSE req'[s] = req[s]
<1>1. ASSUME NEW s \in Serial
      PROVE  /\ req'[s] \in Request
             /\ req'[s].ifc = req[s].ifc /\ req'[s].kind = req[s].kind
             /\ req'[s].cid = req[s].cid
             /\ s \in mRequestList => req'[s].st \in {"failed", "lost"}
             /\ s \notin mRequestList => req'[s] = req[s]
  <2>1. req[s] \in Request OBVIOUS
  <2>2. \A x \in Status : /\ [req[s] EXCEPT !.st = x] \in Request
                          /\ [req[s] EXCEPT !.st = x].st = x
                          /\ [req[s] EXCEPT !.st = x].ifc = req[s].ifc
                          /\ [req[s] EXCEPT !.st = x].kind = req[s].kind
                          /\ [req[s] EXCEPT !.st = x].cid = req[s].cid
    BY <2>1 DEF Request
  <2>3. CASE s \in S
    BY <2>2, <2>3, Zenon DEF ClearRequestList, Status
  <2>4. CASE s \in mRequestList /\ s \notin S
    BY <2>2, <2>4, Zenon DEF ClearRequestList, Status
  <2>5. CASE s \notin mRequestList
    BY <2>1, <2>5 DEF ClearRequestList
  <2> QED BY <2>3, <2>4, <2>5
<1>2. req' \in [Serial -> Request]
  BY <1>1 DEF ClearRequestList
<1> QED BY <1>1, <1>2 DEF ClearRequestList

(* So does an answer, which also fills in the kind of reply and the cid.   *)
LEMMA SetAnswer ==
  ASSUME req \in [Serial -> Request], NEW s \in Serial,
         NEW k \in Kinds, NEW c \in Cid \cup {NoCid}, Answer(s, k, c)
  PROVE  /\ req' \in [Serial -> Request]
         /\ \A t \in Serial : t # s => req'[t] = req[t]
         /\ req'[s].st = "reply" /\ req'[s].ifc = req[s].ifc
         /\ req'[s].kind = k /\ req'[s].cid = c
BY Zenon DEF Answer, Request, Status

(* The components of a call that is up.                                    *)
LEMMA CallFacts ==
  ASSUME TypeOK, NEW a \in active
  PROVE  a.ser \in Serial /\ a.cid \in Cid /\ a.ifc \in 0 .. NumSlots
BY DEF TypeOK, Call

(* An entry of the table is negative exactly when it is free.              *)
LEMMA EntryFacts ==
  ASSUME TypeOK, NEW i \in 0 .. NumSlots
  PROVE  /\ dataCallCids[i] \in Cid \cup {NoCid}
         /\ dataCallCids[i] \in Int
         /\ dataCallCids[i] < 0 <=> dataCallCids[i] = NoCid
<1>1. dataCallCids[i] \in Cid \cup {NoCid} BY DEF TypeOK
<1>2. CASE dataCallCids[i] = NoCid BY <1>1, <1>2 DEF NoCid
<1>3. CASE dataCallCids[i] \in Cid
  <2>1. dataCallCids[i] \in Nat BY <1>3, CidAssumption, Zenon
  <2> QED BY <1>1, <2>1 DEF NoCid
<1> QED BY <1>1, <1>2, <1>3

(* Unless a call comes up, fewer calls are in use than before.             *)
LEMMA KnownShrinks ==
  ASSUME IInv, ~pipelined' => ~pipelined, Known' \subseteq Known
  PROVE  ~pipelined' => DistinctInterfaces(Known)'
BY DEF IInv, DistinctInterfaces

(* setupDataCall starts its loop.                                          *)
LEMMA SetupBeginInv ==
  ASSUME IInv,
         SetupBegin
  PROVE  IInv'
<1> USE CidAssumption, NumSlotsAssumption, MaxSetupsAssumption
    DEF SetupBegin, clientVars, recvVars, modemVars, history, NoCid, Slots, Serial
<1>1. TypeOK'
  BY DEF IInv, TypeOK, ThreadInv
<1>2. ThreadInv'
  BY DEF IInv, TypeOK, ThreadInv
<1>3. RequestInv'
  BY DEF IInv, TypeOK, ThreadInv, RequestInv
<1>4. ActiveInv'
  BY DEF ActiveInv, IInv, TypeOK, ThreadInv
<1>5. RecordInv'
  BY DEF IInv, RecordInv, Recorded, Stored
<1>9. ReleasedInv'
  BY DEF IInv, ReleasedInv, Deactivating
<1>6. InterfaceIdIsFirst'
  BY DEF IInv, TypeOK, ThreadInv, InterfaceIdIsFirst
<1>7. ASSUME ~pipelined' PROVE SerialInv'
  BY <1>7, Zenon DEF SerialInv, Pending, mRequestList
<1>8. ASSUME ~pipelined' PROVE SlotInv'
  BY <1>8, Zenon DEF IInv, SlotInv, mRequestList, FirstFree, Stored
<1>k. ~pipelined' => DistinctInterfaces(Known)'
  <2>1. Known' \subseteq Known BY DEF Known
  <2> QED BY <2>1, KnownShrinks, Zenon
<1> QED BY <1>1, <1>2, <1>3, <1>4, <1>5, <1>6, <1>7, <1>8, <1>9, <1>k DEF IInv

(* setupDataCall looks at one entry: the entries below ci stay taken.      *)
LEMMA SetupScanInv ==
  ASSUME IInv,
         SetupScan
  PROVE  IInv'
<1> USE CidAssumption, NumSlotsAssumption, MaxSetupsAssumption
    DEF SetupScan, clientVars, recvVars, modemVars, history, NoCid, Slots, Serial
<1>1. TypeOK'
  BY DEF IInv, TypeOK, ThreadInv
<1>2. ThreadInv'
  BY DEF IInv, TypeOK, ThreadInv
<1>3. RequestInv'
  BY DEF IInv, TypeOK, ThreadInv, RequestInv
<1>4. ActiveInv'
  BY DEF ActiveInv, IInv, TypeOK, ThreadInv
<1>5. RecordInv'
  BY DEF IInv, RecordInv, Recorded, Stored
<1>9. ReleasedInv'
  BY DEF IInv, ReleasedInv, Deactivating
<1>6. InterfaceIdIsFirst'
  BY DEF IInv, TypeOK, ThreadInv, InterfaceIdIsFirst
<1>7. ASSUME ~pipelined' PROVE SerialInv'
  BY <1>7 DEF IInv, SerialInv, Pending, mRequestList
<1>8. ASSUME ~pipelined' PROVE SlotInv'
  <2>0. ~pipelined /\ SerialInv /\ SlotInv
    BY <1>8 DEF IInv, Pending
  <2>1. \A a \in active' :
           Stored(a)' /\ a.cid \notin released' /\ a.ifc # 0 => dataCallCids'[a.ifc - 1] = a.cid
    BY <2>0 DEF SlotInv, Stored
  <2>2. (cpc = "send" => FirstFree(carg))'
    <3>1. CASE ci < NumSlots /\ dataCallCids[ci] < 0
      <4>1. ci \in 0 .. NumSlots - 1 /\ dataCallCids[ci] = NoCid
        BY <3>1, EntryFacts DEF IInv, TypeOK
      <4>2. cpc' = "send" /\ carg' = ci + 1 /\ dataCallCids' = dataCallCids
        BY <3>1, <4>1
      <4>3. \A i \in Slots : i < ci => dataCallCids[i] >= 0
        BY DEF IInv, ThreadInv
      <4> QED BY <4>1, <4>2, <4>3 DEF FirstFree
    <3>2. CASE ci < NumSlots /\ dataCallCids[ci] >= 0
      <4>1. ci \in 0 .. NumSlots /\ cpc = "scan"
        BY DEF IInv, TypeOK
      <4>2. ~(dataCallCids[ci] < 0)
        BY <3>2, <4>1, EntryFacts DEF IInv
      <4>3. cpc' = "scan"
        BY <3>2, <4>1, <4>2
      <4> QED BY <4>3
    <3>3. CASE ci = NumSlots
      BY <3>3 DEF IInv, ThreadInv, FirstFree
    <3> QED BY <3>1, <3>3
  <2>3. (\A s_1 \in mRequestList : FirstFree(req[s_1].ifc))'
    BY <2>0 DEF SlotInv, mRequestList, FirstFree
  <2>4. (rpc \in {"store", "write"} => FirstFree(req[rser].ifc))'
    BY <2>0 DEF SlotInv, FirstFree
  <2>5. (rpc = "store" => \A i \in Slots : i < ri => dataCallCids[i] >= 0)'
    BY <2>0 DEF SlotInv
  <2>6. (rpc = "write" => req[rser].ifc = ri + 1)'
    BY <2>0 DEF SlotInv
  <2> QED BY <2>1, <2>2, <2>3, <2>4, <2>5, <2>6 DEF SlotInv
<1>k. ~pipelined' => DistinctInterfaces(Known)'
  <2>1. Known' \subseteq Known BY DEF Known
  <2> QED BY <2>1, KnownShrinks
<1> QED BY <1>1, <1>2, <1>3, <1>4, <1>5, <1>6, <1>7, <1>8, <1>9, <1>k DEF IInv

(* setupDataCall sends the request; nothing is reserved in the table.      *)
LEMMA SetupSendInv ==
  ASSUME IInv,
         SetupSend
  PROVE  IInv'
<1> USE CidAssumption, NumSlotsAssumption, MaxSetupsAssumption
    DEF SetupSend, clientVars, recvVars, modemVars, history, NoCid, Slots, Serial
<1>0. serial + 1 \in Serial /\ carg \in 0 .. NumSlots
  BY DEF IInv, TypeOK, ThreadInv
<1>a. /\ req' \in [Serial -> Request]
      /\ \A t \in Serial : t # serial + 1 => req'[t] = req[t]
      /\ req'[serial + 1].st = "rild" /\ req'[serial + 1].ifc = carg
      /\ req'[serial + 1].kind = req[serial + 1].kind
      /\ req'[serial + 1].cid = req[serial + 1].cid
  <2> DEFINE n == serial + 1
  <2>1. n \in Serial /\ req \in [Serial -> Request]
    BY <1>0 DEF IInv, TypeOK
  <2>2. req' = [req EXCEPT ![n] = [@ EXCEPT !.st = "rild", !.ifc = carg]]
    OBVIOUS
  <2> HIDE DEF n
  <2>3. /\ req' \in [Serial -> Request]
        /\ \A t \in Serial : t # n => req'[t] = req[t]
        /\ req'[n].st = "rild" /\ req'[n].ifc = carg
        /\ req'[n].kind = req[n].kind /\ req'[n].cid = req[n].cid
    <3>1. req[n] \in Request BY <2>1
    <3>2. req'[n] = [req[n] EXCEPT !.st = "rild", !.ifc = carg]
      BY <2>1, <2>2
    <3>3. req'[n] \in Request
      <4>1. /\ req[n].kind \in Kinds /\ req[n].cid \in Cid \cup {NoCid}
            /\ req[n] = [st |-> req[n].st, ifc |-> req[n].ifc, kind |-> req[n].kind, cid |-> req[n].cid]
        BY <3>1 DEF Request
      <4>2. req'[n] = [st |-> "rild", ifc |-> carg, kind |-> req[n].kind, cid |-> req[n].cid]
        BY <3>2, <4>1, Zenon
      <4>3. "rild" \in Status BY DEF Status
      <4> QED BY <1>0, <4>1, <4>2, <4>3 DEF Request
    <3> QED BY <2>1, <2>2, <3>2, <3>3, Zenon DEF Request
  <2> QED BY <2>3 DEF n
<1>1. TypeOK'
  BY <1>a DEF IInv, TypeOK
<1>2. ThreadInv'
  BY DEF IInv, TypeOK, ThreadInv, RequestInv
<1>3. RequestInv'
  BY DEF IInv, TypeOK, RequestInv
<1>n. \A a \in active : a.ser # serial + 1 /\ req'[a.ser] = req[a.ser]
  <2>1. ASSUME NEW a \in active PROVE a.ser \in Serial /\ a.ser # serial + 1
    <3>1. a.ser \in Serial /\ req[a.ser].st # "new"
      BY CallFacts DEF IInv, ActiveInv
    <3>2. req[serial + 1].st = "new"
      BY <1>0 DEF IInv, TypeOK, RequestInv
    <3> QED BY <3>1, <3>2
  <2> QED BY <1>a, <2>1
<1>4. ActiveInv'
  BY <1>n DEF IInv, ActiveInv
<1>5. RecordInv'
  BY DEF IInv, RecordInv, Recorded, Stored
<1>9. ReleasedInv'
  BY DEF IInv, ReleasedInv, Deactivating
<1>6. InterfaceIdIsFirst'
  BY DEF InterfaceIdIsFirst
<1>7. ASSUME ~pipelined' PROVE SerialInv'
  BY <1>7 DEF IInv, SerialInv, Pending, mRequestList
<1>8. ASSUME ~pipelined' PROVE SlotInv'
  BY <1>8 DEF IInv, SerialInv, SlotInv, Pending, mRequestList, FirstFree,
     Stored, Call
<1>k. ~pipelined' => DistinctInterfaces(Known)'
  <2>1. Known' = Known BY <1>n DEF Known
  <2> QED BY <2>1, KnownShrinks
<1> QED BY <1>1, <1>2, <1>3, <1>4, <1>5, <1>6, <1>7, <1>8, <1>9, <1>k DEF IInv

(* deactivateDataCall starts its loop.                                     *)
LEMMA DeactivateBeginInv ==
  ASSUME IInv,
         NEW s \in Serial,
         DeactivateBegin(s)
  PROVE  IInv'
<1> USE CidAssumption, NumSlotsAssumption, MaxSetupsAssumption
    DEF DeactivateBegin, clientVars, recvVars, modemVars, history, NoCid, Slots, Serial
<1>1. TypeOK'
  <2>1. req[s].cid \in Cid /\ req[s].cid \in Nat BY Zenon DEF IInv, RequestInv
  <2>2. released' \subseteq Cid BY <2>1, Zenon DEF IInv, TypeOK
  <2>3. pipelined' \in BOOLEAN BY DEF IInv, TypeOK
  <2>4. carg' \in Nat /\ ci' \in 0 .. NumSlots BY <2>1
  <2> QED BY <2>2, <2>3, <2>4 DEF IInv, TypeOK
<1>2. ThreadInv'
  BY DEF IInv, TypeOK, ThreadInv, RequestInv
<1>3. RequestInv'
  BY DEF IInv, TypeOK, ThreadInv, RequestInv
<1>4. ActiveInv'
  BY DEF ActiveInv, IInv, TypeOK, ThreadInv
<1>5. RecordInv'
  BY DEF IInv, RecordInv, Recorded, Stored
<1>9. ReleasedInv'
  BY DEF IInv, ReleasedInv, Deactivating
<1>6. InterfaceIdIsFirst'
  BY DEF IInv, TypeOK, ThreadInv, InterfaceIdIsFirst
<1>7. ASSUME ~pipelined' PROVE SerialInv'
  BY <1>7, Zenon DEF SerialInv, Pending, mRequestList
<1>8. ASSUME ~pipelined' PROVE SlotInv'
  BY <1>8, Zenon DEF IInv, SlotInv, mRequestList, FirstFree, Stored
<1>k. ~pipelined' => DistinctInterfaces(Known)'
  <2>1. Known' \subseteq Known BY DEF Known
  <2> QED BY <2>1, KnownShrinks, Zenon
<1> QED BY <1>1, <1>2, <1>3, <1>4, <1>5, <1>6, <1>7, <1>8, <1>9, <1>k DEF IInv

(* deactivateDataCall looks at one entry.                                  *)
LEMMA DeactivateScanInv ==
  ASSUME IInv,
         DeactivateScan
  PROVE  IInv'
<1> USE CidAssumption, NumSlotsAssumption, MaxSetupsAssumption
    DEF DeactivateScan, clientVars, recvVars, modemVars, history, NoCid, Slots, Serial
<1>1. TypeOK'
  BY DEF IInv, TypeOK, ThreadInv
<1>2. ThreadInv'
  BY DEF IInv, TypeOK, ThreadInv
<1>3. RequestInv'
  BY DEF IInv, TypeOK, ThreadInv, RequestInv
<1>4. ActiveInv'
  BY DEF ActiveInv, IInv, TypeOK, ThreadInv
<1>5. RecordInv'
  BY DEF IInv, RecordInv, Recorded, Stored
<1>9. ReleasedInv'
  BY DEF IInv, ReleasedInv, Deactivating
<1>6. InterfaceIdIsFirst'
  BY DEF IInv, TypeOK, ThreadInv, InterfaceIdIsFirst
<1>7. ASSUME ~pipelined' PROVE SerialInv'
  BY <1>7 DEF IInv, SerialInv, Pending, mRequestList
<1>8. ASSUME ~pipelined' PROVE SlotInv'
  BY <1>8 DEF IInv, SlotInv, mRequestList, FirstFree, Stored
<1>k. ~pipelined' => DistinctInterfaces(Known)'
  <2>1. Known' \subseteq Known BY DEF Known
  <2> QED BY <2>1, KnownShrinks
<1> QED BY <1>1, <1>2, <1>3, <1>4, <1>5, <1>6, <1>7, <1>8, <1>9, <1>k DEF IInv

(* deactivateDataCall frees an entry: only the cid it deactivates is lost. *)
LEMMA DeactivateFreeInv ==
  ASSUME IInv,
         DeactivateFree
  PROVE  IInv'
<1> USE CidAssumption, NumSlotsAssumption, MaxSetupsAssumption
    DEF DeactivateFree, clientVars, recvVars, modemVars, history, NoCid, Slots, Serial
<1>c. carg \in released
  BY Zenon DEF IInv, ThreadInv, ReleasedInv, Deactivating
<1>d. \A i \in 0 .. NumSlots : dataCallCids[i] # carg => dataCallCids'[i] = dataCallCids[i]
  BY DEF IInv, TypeOK, ThreadInv
<1>1. TypeOK'
  BY DEF IInv, TypeOK
<1>2. ThreadInv'
  BY DEF IInv, TypeOK, ThreadInv, Call
<1>3. RequestInv'
  BY DEF IInv, RequestInv
<1>4. ActiveInv'
  BY DEF ActiveInv, IInv, TypeOK, ThreadInv
<1>5. RecordInv'
  BY <1>c, <1>d DEF IInv, RecordInv, Recorded, Stored
<1>9. ReleasedInv'
  BY DEF IInv, ReleasedInv, Deactivating
<1>6. InterfaceIdIsFirst'
  BY DEF IInv, TypeOK, ThreadInv, InterfaceIdIsFirst
<1>7. ASSUME ~pipelined' PROVE SerialInv'
  BY <1>7 DEF IInv, SerialInv, Pending, mRequestList
<1>8. ASSUME ~pipelined' PROVE SlotInv'
  <2>0. ~pipelined /\ SerialInv /\ SlotInv
    BY <1>8 DEF IInv, Pending
  <2>1. \A a \in active' :
           Stored(a)' /\ a.cid \notin released' /\ a.ifc # 0 => dataCallCids'[a.ifc - 1] = a.cid
    <3> SUFFICES ASSUME NEW a \in active, Stored(a), a.cid \notin released, a.ifc # 0
                 PROVE  dataCallCids'[a.ifc - 1] = a.cid
      BY DEF Stored
    <3>1. dataCallCids[a.ifc - 1] = a.cid /\ a.cid # carg BY <1>c, <2>0 DEF SlotInv
    <3>2. a.ifc - 1 \in 0 .. NumSlots BY CallFacts DEF IInv
    <3> QED BY <1>d, <3>1, <3>2
  <2>2. (cpc = "send" => FirstFree(carg))'
    OBVIOUS
  <2>3. (\A s_1 \in mRequestList : FirstFree(req[s_1].ifc))'
    BY <2>0 DEF SerialInv, Pending, mRequestList
  <2>4. (rpc \in {"store", "write"} => FirstFree(req[rser].ifc))'
    BY <2>0 DEF SerialInv, Pending
  <2>5. (rpc = "store" => \A i \in Slots : i < ri => dataCallCids[i] >= 0)'
    BY <2>0 DEF SerialInv, Pending
  <2>6. (rpc = "write" => req[rser].ifc = ri + 1)'
    BY <2>0 DEF SlotInv
  <2> QED BY <2>1, <2>3, <2>4, <2>5, <2>6 DEF SlotInv
<1>k. ~pipelined' => DistinctInterfaces(Known)'
  <2>1. Known' \subseteq Known BY DEF Known
  <2> QED BY <2>1, KnownShrinks
<1> QED BY <1>1, <1>2, <1>3, <1>4, <1>5, <1>6, <1>7, <1>8, <1>9, <1>k DEF IInv

(* super.deactivateDataCall: from here on the request is pending.          *)
LEMMA DeactivateSendInv ==
  ASSUME IInv,
         DeactivateSend
  PROVE  IInv'
<1> USE CidAssumption, NumSlotsAssumption, MaxSetupsAssumption
    DEF DeactivateSend, clientVars, recvVars, modemVars, history, NoCid, Slots, Serial
<1>1. TypeOK'
  BY DEF IInv, TypeOK, ThreadInv
<1>2. ThreadInv'
  BY DEF IInv, TypeOK, ThreadInv
<1>3. RequestInv'
  BY DEF IInv, TypeOK, ThreadInv, RequestInv
<1>4. ActiveInv'
  BY DEF ActiveInv, IInv, TypeOK, ThreadInv
<1>5. RecordInv'
  BY DEF IInv, RecordInv, Recorded, Stored
<1>9. ReleasedInv'
  BY DEF IInv, ReleasedInv, Deactivating
<1>6. InterfaceIdIsFirst'
  BY DEF IInv, TypeOK, ThreadInv, InterfaceIdIsFirst
<1>7. ASSUME ~pipelined' PROVE SerialInv'
  BY <1>7 DEF IInv, SerialInv, Pending, mRequestList
<1>8. ASSUME ~pipelined' PROVE SlotInv'
  BY <1>8 DEF IInv, SlotInv, mRequestList, FirstFree, Stored
<1>k. ~pipelined' => DistinctInterfaces(Known)'
  <2>1. Known' \subseteq Known BY DEF Known
  <2> QED BY <2>1, KnownShrinks
<1> QED BY <1>1, <1>2, <1>3, <1>4, <1>5, <1>6, <1>7, <1>8, <1>9, <1>k DEF IInv

(* The connection is lost: nothing is listed any more, and what is up and  *)
(* in use was in use before.  The table is left alone.                     *)
LEMMA ClearInv ==
  ASSUME IInv, NEW S \in SUBSET mRequestList, rpc = "idle",
         ClearRequestList(S), active' \subseteq active, stray' \subseteq Cid,
         UNCHANGED <<dataCallCids, serial, clientVars, recvVars, overflow, released, pipelined>>
  PROVE  IInv'
<1> USE CidAssumption, NumSlotsAssumption, MaxSetupsAssumption
    DEF clientVars, recvVars, NoCid, Slots, Serial
<1>0. /\ req' \in [Serial -> Request] /\ deacts' = {}
      /\ \A s \in Serial : /\ req'[s].ifc = req[s].ifc /\ req'[s].kind = req[s].kind
                            /\ req'[s].cid = req[s].cid
                            /\ IF s \in mRequestList THEN req'[s].st \in {"failed", "lost"}
                                                     ELSE req'[s] = req[s]
  BY Cleared DEF IInv, TypeOK
<1>m. mRequestList' = {}
  BY <1>0 DEF mRequestList
<1>n. \A a \in active' : Stored(a)' => Stored(a)
  BY <1>0, CallFacts DEF IInv, Stored
<1>1. TypeOK'
  BY <1>0 DEF IInv, TypeOK
<1>2. ThreadInv'
  BY DEF IInv, TypeOK, ThreadInv
<1>3. RequestInv'
  <2>1. \A s \in Serial : req[s].st = "new" => req'[s] = req[s]
    BY <1>0 DEF mRequestList
  <2>2. \A s \in Serial : req'[s].st = "taken" => req'[s] = req[s]
    BY <1>0
  <2> QED BY <1>0, <2>1, <2>2 DEF IInv, RequestInv
<1>4. ActiveInv'
  <2>1. ASSUME NEW a \in active
        PROVE  /\ req'[a.ser].st \in {"reply", "taken", "answered", "failed", "lost"}
               /\ req'[a.ser].kind = req[a.ser].kind
               /\ req'[a.ser].cid = req[a.ser].cid /\ req'[a.ser].ifc = req[a.ser].ifc
    <3>1. a.ser \in Serial BY CallFacts DEF IInv
    <3>2. req[a.ser].st \in {"reply", "taken", "answered", "failed", "lost"}
      BY DEF IInv, ActiveInv
    <3> QED BY <1>0, <3>1, <3>2
  <2> QED BY <2>1 DEF IInv, ActiveInv
<1>5. RecordInv'
  BY <1>n DEF IInv, RecordInv, Recorded
<1>9. ReleasedInv'
  BY <1>0 DEF IInv, ReleasedInv, Deactivating
<1>6. InterfaceIdIsFirst'
  BY DEF IInv, InterfaceIdIsFirst
<1>7. ASSUME ~pipelined' PROVE SerialInv'
  BY <1>0, <1>m, <1>7 DEF IInv, SerialInv, Pending
<1>8. ASSUME ~pipelined' PROVE SlotInv'
  <2>0. ~pipelined /\ SlotInv
    BY <1>8 DEF IInv
  <2> QED BY <1>m, <1>n, <2>0 DEF SlotInv, FirstFree
<1>k. ~pipelined' => DistinctInterfaces(Known)'
  <2>1. ASSUME NEW a \in active, req'[a.ser].st \notin {"failed", "lost"}
        PROVE  req[a.ser].st \notin {"failed", "lost"}
    <3>1. a.ser \in Serial BY CallFacts DEF IInv
    <3> QED BY <1>0, <2>1, <3>1
  <2>2. Known' \subseteq Known BY <2>1 DEF Known
  <2> QED BY <2>2, KnownShrinks
<1> QED BY <1>1, <1>2, <1>3, <1>4, <1>5, <1>6, <1>7, <1>8, <1>9, <1>k DEF IInv

(* processSolicited takes a reply off the socket.                          *)
LEMMA ReceiveInv ==
  ASSUME IInv,
         NEW s \in Serial,
         Receive(s)
  PROVE  IInv'
<1>b. CASE req[s].kind = "bad"
  <2>1. {s} \in SUBSET mRequestList BY DEF Receive, mRequestList
  <2>2. ClearRequestList({s}) /\ UNCHANGED recvVars BY <1>b DEF Receive
  <2> QED BY <2>1, <2>2, ClearInv DEF Receive, history, IInv, TypeOK
<1> SUFFICES ASSUME req[s].kind # "bad" PROVE IInv'
  BY <1>b
<1> USE CidAssumption, NumSlotsAssumption, MaxSetupsAssumption
    DEF clientVars, recvVars, modemVars, history, NoCid, Slots, Serial
<1>t. req \in [Serial -> Request] /\ req[s].kind \in Kinds
  BY DEF IInv, TypeOK, Request
<1>0. /\ req' \in [Serial -> Request]
      /\ \A t \in Serial : t # s => req'[t] = req[t]
      /\ req'[s].ifc = req[s].ifc /\ req'[s].kind = req[s].kind /\ req'[s].cid = req[s].cid
      /\ req[s].st = "reply" /\ rpc = "idle"
      /\ \/ req'[s].st = "failed" /\ UNCHANGED recvVars /\ req[s].kind # "ok"
         \/ /\ req'[s].st = "taken" /\ rser' = s /\ ri' = 0
            /\ rpc' = IF req[s].cid >= 0 THEN "store" ELSE "deliver"
      /\ UNCHANGED <<dataCallCids, serial, clientVars, modemVars, history>>
  <2> USE <1>t DEF Status
  <2>1. CASE req[s].kind = "empty" BY <2>1, SetStatus DEF Receive
  <2>3. CASE req[s].kind \in {"ok", "nok"} BY <2>3, SetStatus DEF Receive
  <2> QED BY <2>1, <2>3 DEF Kinds
<1>u. /\ UNCHANGED <<dataCallCids, serial, cpc, ci, carg, deacts, active, overflow, stray, released, pipelined>>
      /\ rpc' = "idle" => rser' = rser /\ ri' = ri
  BY <1>0
<1>m. mRequestList' = mRequestList \ {s} /\ s \in mRequestList
  BY <1>0 DEF mRequestList
<1>n. ASSUME NEW a \in active, Stored(a)' PROVE Stored(a)
  <2>1. a.ser \in Serial /\ a.cid \in Cid
    BY CallFacts DEF IInv
  <2>2. CASE a.ser = s
    <3>1. req[s].kind = "ok" /\ req[s].cid = a.cid /\ a.cid \in Nat
      BY <2>1, <2>2, Zenon DEF IInv, ActiveInv
    <3>2. rpc' = "store" /\ req'[s].st = "taken"
      BY <1>0, <3>1
    <3> QED BY <1>n, <2>2, <3>2 DEF Stored
  <2>3. CASE a.ser # s
    BY <1>0, <1>n, <2>1, <2>3 DEF Stored
  <2> QED BY <2>2, <2>3
<1>1. TypeOK'
  <2>1. /\ rpc' \in {"idle", "store", "write", "deliver"}
        /\ ri' \in 0 .. NumSlots /\ rser' \in 0 .. MaxSetups
    BY <1>0 DEF IInv, TypeOK
  <2> QED BY <1>0 DEF IInv, TypeOK
<1>2. ThreadInv'
  BY <1>0 DEF IInv, ThreadInv, Request
<1>3. RequestInv'
  BY <1>0 DEF IInv, RequestInv
<1>4. ActiveInv'
  <2>1. \A a \in active : a.ser \in Serial
    BY CallFacts DEF IInv
  <2> QED BY <1>0, <2>1 DEF IInv, ActiveInv
<1>5. RecordInv'
  BY <1>u, <1>n DEF IInv, RecordInv, Recorded
<1>9. ReleasedInv'
  BY <1>u DEF IInv, ReleasedInv, Deactivating
<1>6. InterfaceIdIsFirst'
  BY <1>u DEF IInv, InterfaceIdIsFirst
<1>7. ASSUME ~pipelined' PROVE SerialInv'
  BY <1>7, <1>u, <1>m DEF IInv, SerialInv, Pending
<1>8. ASSUME ~pipelined' PROVE SlotInv'
  <2>0. ~pipelined /\ SerialInv /\ SlotInv
    BY <1>8, <1>u DEF IInv
  <2>1. \A a \in active' :
           Stored(a)' /\ a.cid \notin released' /\ a.ifc # 0 => dataCallCids'[a.ifc - 1] = a.cid
    BY <1>u, <1>n, <2>0 DEF SlotInv
  <2>2. (cpc = "send" => FirstFree(carg))'
    BY <1>u, <2>0 DEF SlotInv, FirstFree
  <2>3. (\A r \in mRequestList : FirstFree(req[r].ifc))'
    BY <1>0, <2>0 DEF SlotInv, FirstFree, mRequestList
  <2>4. (rpc \in {"store", "write"} => FirstFree(req[rser].ifc))'
    BY <1>0, <1>m, <2>0 DEF SlotInv, FirstFree
  <2>5. rpc' = "store" => ri' = 0
    BY <1>0
  <2>6. rpc' # "write"
    BY <1>0
  <2> QED BY <2>1, <2>2, <2>3, <2>4, <2>5, <2>6 DEF SlotInv
<1>k. ~pipelined' => DistinctInterfaces(Known)'
  <2>1. Known' \subseteq Known
    BY <1>0, CallFacts DEF IInv, Known
  <2> QED BY <1>u, <2>1, KnownShrinks
<1> QED BY <1>1, <1>2, <1>3, <1>4, <1>5, <1>6, <1>7, <1>8, <1>9, <1>k DEF IInv

(* fetchCidFromDataCall looks at one entry; it gives up only after the last. *)
LEMMA StoreScanInv ==
  ASSUME IInv,
         StoreScan
  PROVE  IInv'
<1> USE CidAssumption, NumSlotsAssumption, MaxSetupsAssumption
    DEF StoreScan, clientVars, recvVars, modemVars, history, NoCid, Slots, Serial
<1>1. TypeOK'
  <2>1. rpc' \in {"idle", "store", "write", "deliver"} /\ ri' \in 0 .. NumSlots
    BY DEF IInv, TypeOK
  <2>2. overflow' \subseteq Serial
    BY Zenon DEF IInv, TypeOK, ThreadInv
  <2> QED BY <2>1, <2>2 DEF IInv, TypeOK
<1>2. ThreadInv'
  <2>1. rpc' = "write" => ri' \in Slots /\ dataCallCids'[ri'] = NoCid
    BY EntryFacts DEF IInv, TypeOK
  <2> QED BY <2>1 DEF IInv, TypeOK, ThreadInv
<1>3. RequestInv'
  BY DEF IInv, TypeOK, ThreadInv, RequestInv
<1>4. ActiveInv'
  BY DEF ActiveInv, IInv, TypeOK, ThreadInv
<1>5. RecordInv'
  BY DEF IInv, RecordInv, Recorded, Stored
<1>9. ReleasedInv'
  BY DEF IInv, ReleasedInv, Deactivating
<1>6. InterfaceIdIsFirst'
  BY DEF IInv, TypeOK, ThreadInv, InterfaceIdIsFirst
<1>7. ASSUME ~pipelined' PROVE SerialInv'
  BY <1>7 DEF IInv, SerialInv, Pending, mRequestList
<1>8. ASSUME ~pipelined' PROVE SlotInv'
  <2>0. ~pipelined /\ SerialInv /\ SlotInv
    BY <1>8 DEF IInv, Pending
  <2>1. \A a \in active' :
           Stored(a)' /\ a.cid \notin released' /\ a.ifc # 0 => dataCallCids'[a.ifc - 1] = a.cid
    BY <2>0 DEF IInv, TypeOK, ActiveInv, SlotInv, FirstFree, Stored, Call
  <2>2. (cpc = "send" => FirstFree(carg))'
    BY <2>0 DEF SlotInv, FirstFree
  <2>3. (\A s_1 \in mRequestList : FirstFree(req[s_1].ifc))'
    BY <2>0 DEF SerialInv, mRequestList
  <2>4. (rpc \in {"store", "write"} => FirstFree(req[rser].ifc))'
    BY <2>0 DEF SlotInv, FirstFree
  <2>5. (rpc = "store" => \A i \in Slots : i < ri => dataCallCids[i] >= 0)'
    BY <2>0 DEF IInv, TypeOK, SlotInv
  <2>6. (rpc = "write" => req[rser].ifc = ri + 1)'
  <3> SUFFICES ASSUME rpc' = "write" PROVE req'[rser'].ifc = ri' + 1
    OBVIOUS
  <3>1. /\ ri \in 0 .. NumSlots - 1 /\ dataCallCids[ri] < 0
        /\ ri' = ri /\ rser' = rser /\ req' = req
    BY DEF IInv, TypeOK
  <3>2. req[rser].ifc \in 0 .. NumSlots
    BY DEF IInv, TypeOK, ThreadInv, Request
  <3>3. /\ FirstFree(req[rser].ifc)
        /\ \A i \in Slots : i < ri => dataCallCids[i] >= 0
    BY <2>0 DEF SlotInv
  <3> DEFINE k == req[rser].ifc
  <3>4. k \in 0 .. NumSlots /\ FirstFree(k) BY <3>2, <3>3
  <3> HIDE DEF k
  <3>5. k = ri + 1
    <4>1. dataCallCids[ri] = NoCid
      BY <3>1, EntryFacts DEF IInv
    <4>2. k # 0 /\ ~(ri < k - 1)
      BY <3>1, <3>4, <4>1 DEF FirstFree
    <4>3. dataCallCids[k - 1] = NoCid /\ k - 1 \in Slots
      BY <3>4, <4>2 DEF FirstFree
    <4>4. ~(k - 1 < ri)
      BY <3>3, <4>3
    <4> QED BY <3>1, <3>4, <4>2, <4>4
  <3> QED BY <3>1, <3>5 DEF k
  <2> QED BY <2>1, <2>2, <2>3, <2>4, <2>5, <2>6 DEF SlotInv
<1>k. ~pipelined' => DistinctInterfaces(Known)'
  <2>1. Known' \subseteq Known BY DEF Known
  <2> QED BY <2>1, KnownShrinks
<1> QED BY <1>1, <1>2, <1>3, <1>4, <1>5, <1>6, <1>7, <1>8, <1>9, <1>k DEF IInv

(* fetchCidFromDataCall fills the entry it found free: still free.         *)
LEMMA StoreWriteInv ==
  ASSUME IInv,
         StoreWrite
  PROVE  IInv'
<1> USE CidAssumption, NumSlotsAssumption, MaxSetupsAssumption
    DEF StoreWrite, clientVars, recvVars, modemVars, history, NoCid, Slots, Serial
<1>1. TypeOK'
  BY DEF IInv, TypeOK, ThreadInv
<1>2. ThreadInv'
  BY DEF IInv, TypeOK, ThreadInv, RequestInv
<1>3. RequestInv'
  BY DEF IInv, TypeOK, ThreadInv, RequestInv
<1>4. ActiveInv'
  BY DEF ActiveInv, IInv, TypeOK, ThreadInv
<1>5. RecordInv'
  <2> SUFFICES ASSUME NEW a \in active, Stored(a)', a.cid \notin released', a.ser \notin overflow
               PROVE  Recorded(a.cid)'
    BY DEF RecordInv
  <2>1. /\ ri \in Slots /\ dataCallCids[ri] = NoCid /\ a.cid \in Cid
        /\ dataCallCids \in [0 .. NumSlots -> Cid \cup {NoCid}]
    BY CallFacts DEF IInv, TypeOK, ThreadInv
  <2>2. CASE rser = a.ser
    <3>1. req[rser].cid = a.cid BY <2>2 DEF IInv, ActiveInv
    <3>2. dataCallCids'[ri] = a.cid BY <2>1, <3>1
    <3> QED BY <2>1, <3>2 DEF Recorded
  <2>3. CASE rser # a.ser
    <3>1. Stored(a) /\ a.cid \notin released BY <2>3 DEF Stored
    <3>2. PICK i \in Slots : dataCallCids[i] = a.cid
      BY <3>1 DEF IInv, RecordInv, Recorded
    <3>3. i # ri BY <2>1, <3>2
    <3>4. dataCallCids'[i] = a.cid BY <2>1, <3>2, <3>3
    <3> QED BY <3>4 DEF Recorded
  <2> QED BY <2>2, <2>3
<1>9. ReleasedInv'
  BY DEF IInv, ReleasedInv, Deactivating
<1>6. InterfaceIdIsFirst'
  BY DEF IInv, TypeOK, ThreadInv, InterfaceIdIsFirst
<1>7. ASSUME ~pipelined' PROVE SerialInv'
  BY <1>7 DEF IInv, SerialInv, Pending, mRequestList
<1>8. ASSUME ~pipelined' PROVE SlotInv'
  <2>0. ~pipelined /\ SerialInv /\ SlotInv
    BY <1>8 DEF IInv, Pending
  <2>1. \A a \in active' :
           Stored(a)' /\ a.cid \notin released' /\ a.ifc # 0 => dataCallCids'[a.ifc - 1] = a.cid
    BY <2>0 DEF IInv, TypeOK, ThreadInv, ActiveInv, SerialInv, SlotInv, Pending, Stored, Call
  <2>2. (cpc = "send" => FirstFree(carg))'
    BY <2>0 DEF SerialInv, Pending
  <2>3. (\A s_1 \in mRequestList : FirstFree(req[s_1].ifc))'
    BY <2>0 DEF SerialInv, mRequestList
  <2>4. (rpc \in {"store", "write"} => FirstFree(req[rser].ifc))'
    OBVIOUS
  <2>5. (rpc = "store" => \A i \in Slots : i < ri => dataCallCids[i] >= 0)'
    OBVIOUS
  <2>6. (rpc = "write" => req[rser].ifc = ri + 1)'
    OBVIOUS
  <2> QED BY <2>1, <2>2, <2>3 DEF SlotInv
<1>k. ~pipelined' => DistinctInterfaces(Known)'
  <2>1. Known' \subseteq Known BY DEF Known
  <2> QED BY <2>1, KnownShrinks
<1> QED BY <1>1, <1>2, <1>3, <1>4, <1>5, <1>6, <1>7, <1>8, <1>9, <1>k DEF IInv

(* mResult.sendToTarget().                                                 *)
LEMMA DeliverInv ==
  ASSUME IInv,
         Deliver
  PROVE  IInv'
<1> USE CidAssumption, NumSlotsAssumption, MaxSetupsAssumption
    DEF Deliver, clientVars, recvVars, modemVars, history, NoCid, Slots, Serial
<1>0. /\ req' \in [Serial -> Request]
      /\ \A t \in Serial : t # rser => req'[t] = req[t]
      /\ req'[rser].st = "answered" /\ req'[rser].ifc = req[rser].ifc
      /\ req'[rser].kind = req[rser].kind /\ req'[rser].cid = req[rser].cid
  BY SetStatus, Zenon DEF IInv, TypeOK, ThreadInv, Status
<1>1. TypeOK'
  BY <1>0 DEF IInv, TypeOK
<1>2. ThreadInv'
  BY DEF IInv, ThreadInv
<1>3. RequestInv'
  BY <1>0 DEF IInv, ThreadInv, RequestInv
<1>4. ActiveInv'
  BY DEF IInv, ActiveInv
<1>5. RecordInv'
  BY DEF IInv, RecordInv, Recorded, Stored, Call
<1>9. ReleasedInv'
  BY DEF IInv, ReleasedInv, Deactivating
<1>6. InterfaceIdIsFirst'
  BY DEF IInv, InterfaceIdIsFirst
<1>7. ASSUME ~pipelined' PROVE SerialInv'
  BY <1>7 DEF IInv, SerialInv, Pending, mRequestList
<1>8. ASSUME ~pipelined' PROVE SlotInv'
  BY <1>8 DEF IInv, SlotInv, mRequestList, FirstFree, Stored
<1>k. ~pipelined' => DistinctInterfaces(Known)'
  <2>1. req[rser].st = "taken" BY DEF IInv, ThreadInv
  <2>2. \A a \in active : req'[a.ser].st \notin {"failed", "lost"} => req[a.ser].st \notin {"failed", "lost"}
    BY <1>0, <2>1, CallFacts DEF IInv
  <2>3. Known' \subseteq Known BY <2>2 DEF Known
  <2> QED BY <2>3, KnownShrinks
<1> QED BY <1>1, <1>2, <1>3, <1>4, <1>5, <1>6, <1>7, <1>8, <1>9, <1>k DEF IInv

(* The modem brings a call up: its cid is not in use.                      *)
LEMMA ModemGrantInv ==
  ASSUME IInv,
         NEW s \in Serial,
         NEW c \in Cid,
         ModemGrant(s, c)
  PROVE  IInv'
<1> USE CidAssumption, NumSlotsAssumption, MaxSetupsAssumption
    DEF clientVars, recvVars, modemVars, history, NoCid, Slots, Serial
<1>0. /\ req' \in [Serial -> Request]
      /\ \A t \in Serial : t # s => req'[t] = req[t]
      /\ req'[s].st = "reply" /\ req'[s].ifc = req[s].ifc
      /\ req'[s].kind \in {"ok", "bad"} /\ req'[s].cid = c
      /\ req[s].st = "rild" /\ req[s].ifc \in 0 .. NumSlots
      /\ UNCHANGED <<dataCallCids, serial, clientVars, recvVars, deacts, overflow, stray, pipelined>>
  BY SetAnswer, Zenon DEF IInv, TypeOK, Kinds, Answer, Request, ModemGrant
<1>a. /\ \A a \in active : a.cid # c
      /\ active' = active \cup {[ser |-> s, cid |-> c, ifc |-> req[s].ifc]}
      /\ released' = IF Deactivating(c) THEN released ELSE released \ {c}
  BY DEF ModemGrant
<1>m. mRequestList' = mRequestList /\ s \in mRequestList
  BY <1>0 DEF mRequestList
<1>n. \A a \in active' : Stored(a)' => a \in active /\ Stored(a)
  <2>1. \A a \in active : a.ser \in Serial /\ a.ser # s
    BY <1>0, CallFacts DEF ActiveInv, IInv
  <2>2. \A a \in active : Stored(a)' => Stored(a)
    BY <1>0, <2>1 DEF Stored
  <2>3. ASSUME NEW a \in active', Stored(a)' PROVE a \in active
    <3>1. CASE a = [ser |-> s, cid |-> c, ifc |-> req[s].ifc]
      BY <1>0, <2>3, <3>1 DEF IInv, ThreadInv, Stored
    <3> QED BY <1>a, <3>1
  <2> QED BY <2>2, <2>3
<1>1. TypeOK'
  BY <1>0, <1>a DEF IInv, TypeOK, Call
<1>2. ThreadInv'
  BY <1>0 DEF IInv, ThreadInv
<1>3. RequestInv'
  BY <1>0, <1>a, Zenon DEF IInv, TypeOK, ThreadInv, RequestInv, Request
<1>4. ActiveInv'
  <2> DEFINE new == [ser |-> s, cid |-> c, ifc |-> req[s].ifc]
  <2>1. \A a \in active : a.ser \in Serial /\ a.ser # s
    BY <1>0, CallFacts DEF ActiveInv, IInv
  <2>2. \A a \in active : req'[a.ser] = req[a.ser]
    BY <1>0, <2>1
  <2>3. ASSUME NEW a \in active'
        PROVE  /\ req'[a.ser].st \in {"reply", "taken", "answered", "failed", "lost"}
               /\ req'[a.ser].kind \in {"ok", "bad"}
               /\ req'[a.ser].cid = a.cid /\ req'[a.ser].ifc = a.ifc
    <3>1. CASE a \in active
      BY <2>2, <3>1 DEF IInv, ActiveInv
    <3>2. CASE a = new
      <4>1. a.ser = s /\ a.cid = c /\ a.ifc = req[s].ifc BY <3>2
      <4> QED BY <1>0, <4>1
    <3> QED BY <1>a, <2>3, <3>1, <3>2
  <2>4. ASSUME NEW a \in active', NEW b \in active', a.cid = b.cid
        PROVE  a = b
    <3>0. active' = active \cup {new} /\ \A x \in active : x.cid # c
      BY <1>a
    <3>1. new.cid = c
      OBVIOUS
    <3> HIDE DEF new
    <3>2. CASE a \in active /\ b \in active
      BY <2>4, <3>2 DEF ActiveInv, IInv
    <3>3. CASE a = new /\ b # new
      BY <2>4, <3>0, <3>1, <3>3
    <3>4. CASE a # new /\ b = new
      BY <2>4, <3>0, <3>1, <3>4
    <3> QED BY <3>0, <3>2, <3>3, <3>4
  <2> QED BY <2>3, <2>4 DEF ActiveInv
<1>r. \A a \in active : a.cid \in released' <=> a.cid \in released
  BY <1>a
<1>5. RecordInv'
  BY <1>0, <1>n, <1>r DEF IInv, RecordInv, Recorded
<1>9. ReleasedInv'
  BY <1>0, <1>a DEF IInv, ReleasedInv, Deactivating
<1>6. InterfaceIdIsFirst'
  BY <1>0 DEF IInv, InterfaceIdIsFirst
<1>7. ASSUME ~pipelined' PROVE SerialInv'
  BY <1>0, <1>m, <1>7, Zenon DEF IInv, SerialInv, Pending
<1>8. ASSUME ~pipelined' PROVE SlotInv'
  <2>0. ~pipelined /\ SerialInv /\ SlotInv
    BY <1>8, <1>0, <1>a, Zenon DEF IInv
  <2>1. \A a \in active' :
           Stored(a)' /\ a.cid \notin released' /\ a.ifc # 0 => dataCallCids'[a.ifc - 1] = a.cid
    BY <1>0, <1>n, <1>r, <2>0 DEF SlotInv
  <2>2. (cpc = "send" => FirstFree(carg))'
    BY <2>0, <1>0 DEF SlotInv, FirstFree
  <2>3. (\A s_1 \in mRequestList : FirstFree(req[s_1].ifc))'
    <3>1. \A s_1 \in mRequestList : req'[s_1].ifc = req[s_1].ifc
      BY <1>0 DEF mRequestList
    <3> QED BY <1>0, <1>m, <2>0, <3>1 DEF SlotInv, FirstFree
  <2>4. (rpc \in {"store", "write"} => FirstFree(req[rser].ifc))'
    BY <2>0, <1>0 DEF SerialInv, mRequestList
  <2>5. (rpc = "store" => \A i \in Slots : i < ri => dataCallCids[i] >= 0)'
    BY <2>0, <1>0 DEF SlotInv
  <2>6. (rpc = "write" => req[rser].ifc = ri + 1)'
    BY <2>0, <1>0 DEF IInv, ThreadInv, SlotInv
  <2> QED BY <2>1, <2>2, <2>3, <2>4, <2>5, <2>6, Zenon DEF SlotInv
<1>k. ASSUME ~pipelined' PROVE DistinctInterfaces(Known)'
  <2>0. ~pipelined /\ SerialInv /\ SlotInv /\ DistinctInterfaces(Known)
    BY <1>k, <1>0, Zenon DEF IInv
  <2> DEFINE k == req[s].ifc
  <2>1. k # 0 => dataCallCids[k - 1] = NoCid
    BY <2>0, <1>m DEF SlotInv, FirstFree
  <2>2. rpc = "idle"
    BY <2>0, <1>m DEF SerialInv
  <2>3. ASSUME NEW a \in Known, a.ifc # 0 PROVE a.ifc # k
    <3>1. /\ a \in active /\ a.cid \notin released
          /\ req[a.ser].st \in {"reply", "taken", "answered"} /\ a.ser \in Serial /\ a.cid \in Cid
      BY CallFacts, Zenon DEF ActiveInv, IInv, Known
    <3>2. a.ser \notin mRequestList
      BY <1>0, <1>m, <2>0, <3>1, Zenon DEF SerialInv
    <3>3. Stored(a)
      BY <2>2, <3>1, <3>2, Zenon DEF Stored, IInv, RequestInv, mRequestList
    <3>4. dataCallCids[a.ifc - 1] = a.cid
      BY <2>0, <2>3, <3>1, <3>3, Zenon DEF SlotInv
    <3> QED BY <2>1, <2>3, <3>1, <3>4
  <2> HIDE DEF k
  <2> DEFINE new == [ser |-> s, cid |-> c, ifc |-> k]
  <2>4. active' = active \cup {new} /\ new.ifc = k
    BY <1>a DEF k
  <2> HIDE DEF new
  <2>5. \A a \in active : req'[a.ser] = req[a.ser]
    BY <1>0, CallFacts DEF ActiveInv, IInv
  <2>6. Known' \subseteq Known \cup {new}
    BY <1>r, <2>4, <2>5 DEF Known
  <2> QED BY <2>0, <2>3, <2>4, <2>6 DEF DistinctInterfaces
<1> QED BY <1>1, <1>2, <1>3, <1>4, <1>5, <1>6, <1>7, <1>8, <1>9, <1>k DEF IInv

(* The modem refuses a call.                                               *)
LEMMA ModemRefuseInv ==
  ASSUME IInv,
         NEW s \in Serial,
         ModemRefuse(s)
  PROVE  IInv'
<1> USE CidAssumption, NumSlotsAssumption, MaxSetupsAssumption
    DEF clientVars, recvVars, modemVars, history, NoCid, Slots, Serial
<1>a. PICK k \in Kinds \ {"ok"}, c \in Cid \cup {NoCid} :
        Answer(s, k, c) /\ stray' = stray \cup ({c} \ {NoCid})
  BY DEF ModemRefuse
<1>0. /\ req' \in [Serial -> Request]
      /\ \A t \in Serial : t # s => req'[t] = req[t]
      /\ req'[s].st = "reply" /\ req'[s].ifc = req[s].ifc
      /\ req'[s].kind # "ok"
      /\ req[s].st = "rild" /\ stray' \subseteq Cid
      /\ UNCHANGED <<dataCallCids, serial, clientVars, recvVars, modemVars, overflow, released, pipelined>>
  <2>1. req \in [Serial -> Request] /\ stray \subseteq Cid
    BY DEF IInv, TypeOK
  <2>2. /\ req[s].st = "rild"
        /\ req' = [req EXCEPT ![s] = [@ EXCEPT !.st = "reply", !.kind = k, !.cid = c]]
    BY <1>a DEF Answer
  <2>3. UNCHANGED <<dataCallCids, serial, clientVars, recvVars, modemVars, overflow, released, pipelined>>
    BY <1>a DEF Answer, ModemRefuse
  <2>4. stray' \subseteq Cid
    BY <1>a, <2>1
  <2> HIDE DEF Serial, clientVars, recvVars, modemVars
  <2>5. /\ req' \in [Serial -> Request]
        /\ \A t \in Serial : t # s => req'[t] = req[t]
        /\ req'[s].st = "reply" /\ req'[s].ifc = req[s].ifc /\ req'[s].kind = k
    BY <1>a, <2>1, SetAnswer
  <2> QED BY <2>2, <2>3, <2>4, <2>5
<1>m. mRequestList' = mRequestList /\ s \in mRequestList
  BY <1>0 DEF mRequestList
<1>1. TypeOK'
  BY <1>0 DEF IInv, TypeOK
<1>2. ThreadInv'
  BY <1>0 DEF IInv, ThreadInv
<1>3. RequestInv'
  BY <1>0, Zenon DEF IInv, RequestInv, mRequestList, Request, Call
<1>n. \A a \in active : req'[a.ser] = req[a.ser]
  <2>1. \A a \in active : a.ser \in Serial /\ a.ser # s
    BY <1>0, CallFacts DEF ActiveInv, IInv
  <2> QED BY <1>0, <2>1, Zenon
<1>4. ActiveInv'
  BY <1>0, <1>n DEF IInv, ActiveInv
<1>5. RecordInv'
  BY <1>0 DEF IInv, TypeOK, RecordInv, Recorded, Stored, Call
<1>9. ReleasedInv'
  BY <1>0 DEF IInv, ReleasedInv, Deactivating
<1>6. InterfaceIdIsFirst'
  BY <1>0 DEF IInv, InterfaceIdIsFirst
<1>7. ASSUME ~pipelined' PROVE SerialInv'
  BY <1>0, <1>m, <1>7 DEF IInv, SerialInv, Pending
<1>8. ASSUME ~pipelined' PROVE SlotInv'
  <2>0. ~pipelined /\ SerialInv /\ SlotInv
    BY <1>8, <1>0 DEF IInv, Pending
  <2>1. \A a \in active' :
           Stored(a)' /\ a.cid \notin released' /\ a.ifc # 0 => dataCallCids'[a.ifc - 1] = a.cid
  <3> SUFFICES ASSUME NEW a \in active, Stored(a)', a.cid \notin released', a.ifc # 0
               PROVE  dataCallCids'[a.ifc - 1] = a.cid
    BY <1>0
  <3>1. Stored(a)
    BY <1>0, CallFacts DEF IInv, Stored
  <3> QED BY <1>0, <2>0, <3>1 DEF SlotInv
  <2>2. (cpc = "send" => FirstFree(carg))'
    BY <2>0, <1>0 DEF SlotInv, FirstFree
  <2>3. (\A s_1 \in mRequestList : FirstFree(req[s_1].ifc))'
    <3>1. \A r \in mRequestList : req'[r].ifc = req[r].ifc
      BY <1>0 DEF mRequestList
    <3> QED BY <1>0, <1>m, <2>0, <3>1 DEF SlotInv, FirstFree
  <2>4. (rpc \in {"store", "write"} => FirstFree(req[rser].ifc))'
    BY <2>0, <1>0, Zenon DEF SerialInv, mRequestList
  <2>5. (rpc = "store" => \A i \in Slots : i < ri => dataCallCids[i] >= 0)'
    BY <2>0, <1>0, Zenon DEF SlotInv
  <2>6. (rpc = "write" => req[rser].ifc = ri + 1)'
    BY <2>0, <1>0 DEF IInv, ThreadInv, SlotInv
  <2> QED BY <2>1, <2>2, <2>3, <2>4, <2>5, <2>6 DEF SlotInv
<1>k. ~pipelined' => DistinctInterfaces(Known)'
  <2>1. Known' = Known BY <1>0, <1>n, Zenon DEF Known
  <2> QED BY <1>0, <2>1, KnownShrinks, Zenon
<1> QED BY <1>1, <1>2, <1>3, <1>4, <1>5, <1>6, <1>7, <1>8, <1>9, <1>k DEF IInv

(* The modem takes a call down.                                            *)
LEMMA ModemDeactivateInv ==
  ASSUME IInv,
         NEW c \in Cid,
         ModemDeactivate(c)
  PROVE  IInv'
<1> USE CidAssumption, NumSlotsAssumption, MaxSetupsAssumption
    DEF ModemDeactivate, clientVars, recvVars, modemVars, history, NoCid, Slots, Serial
<1>1. TypeOK'
  BY DEF IInv, TypeOK, ThreadInv
<1>2. ThreadInv'
  BY DEF IInv, TypeOK, ThreadInv
<1>3. RequestInv'
  BY DEF IInv, TypeOK, ThreadInv, RequestInv
<1>4. ActiveInv'
  BY DEF ActiveInv, IInv
<1>5. RecordInv'
  BY DEF IInv, RecordInv, Recorded, Stored
<1>9. ReleasedInv'
  BY DEF IInv, ReleasedInv, Deactivating
<1>6. InterfaceIdIsFirst'
  BY DEF IInv, TypeOK, ThreadInv, InterfaceIdIsFirst
<1>7. ASSUME ~pipelined' PROVE SerialInv'
  BY <1>7 DEF IInv, SerialInv, Pending, mRequestList
<1>8. ASSUME ~pipelined' PROVE SlotInv'
  BY <1>8, Zenon DEF IInv, SlotInv, mRequestList, FirstFree,
     Stored
<1>k. ~pipelined' => DistinctInterfaces(Known)'
  <2>1. Known' \subseteq Known BY Zenon DEF Known
  <2> QED BY <2>1, KnownShrinks
<1> QED BY <1>1, <1>2, <1>3, <1>4, <1>5, <1>6, <1>7, <1>8, <1>9, <1>k DEF IInv

(* The network drops a call.                                               *)
LEMMA NetworkDropInv ==
  ASSUME IInv,
         NEW a \in active,
         NetworkDrop(a)
  PROVE  IInv'
<1> USE CidAssumption, NumSlotsAssumption, MaxSetupsAssumption
    DEF NetworkDrop, clientVars, recvVars, modemVars, history, NoCid, Slots, Serial
<1>1. TypeOK'
  <2>1. stray' \subseteq Cid BY CallFacts, Zenon DEF IInv, TypeOK
  <2> QED BY <2>1 DEF IInv, TypeOK
<1>2. ThreadInv'
  BY DEF IInv, TypeOK, ThreadInv
<1>3. RequestInv'
  BY DEF IInv, TypeOK, ThreadInv, RequestInv
<1>4. ActiveInv'
  BY Zenon DEF ActiveInv, IInv
<1>5. RecordInv'
  BY DEF IInv, RecordInv, Recorded, Stored
<1>9. ReleasedInv'
  BY Zenon DEF IInv, ReleasedInv, Deactivating
<1>6. InterfaceIdIsFirst'
  BY DEF IInv, TypeOK, ThreadInv, InterfaceIdIsFirst
<1>7. ASSUME ~pipelined' PROVE SerialInv'
  BY <1>7, Zenon DEF IInv, SerialInv, Pending, mRequestList
<1>8. ASSUME ~pipelined' PROVE SlotInv'
  BY <1>8, Zenon DEF IInv, SlotInv, mRequestList, FirstFree,
     Stored
<1>k. ~pipelined' => DistinctInterfaces(Known)'
  <2>1. Known' \subseteq Known BY DEF Known
  <2> QED BY <2>1, KnownShrinks
<1> QED BY <1>1, <1>2, <1>3, <1>4, <1>5, <1>6, <1>7, <1>8, <1>9, <1>k DEF IInv

(* The receiver finds the socket closed, with or without the calls.        *)
LEMMA ConnectionLostInv ==
  ASSUME IInv,
         ConnectionLost
  PROVE  IInv'
<1>1. {} \in SUBSET mRequestList OBVIOUS
<1>2. active' \subseteq active /\ stray' \subseteq Cid
  BY DEF ConnectionLost, IInv, TypeOK
<1> QED BY <1>1, <1>2, ClearInv DEF ConnectionLost

-----------------------------------------------------------------------------
(* The table starts empty.                                                 *)
LEMMA InitInv == Init => IInv
<1> SUFFICES ASSUME Init PROVE IInv
  OBVIOUS
<1> USE CidAssumption, NumSlotsAssumption, MaxSetupsAssumption
    DEF Init, NoCid, Slots, Serial
<1>1. TypeOK
  <2>1. req \in [Serial -> Request]
    BY DEF Request, Status, Kinds
  <2>2. dataCallCids \in [0 .. NumSlots -> Cid \cup {NoCid}]
    OBVIOUS
  <2>3. 0 \in 0 .. NumSlots /\ 0 \in 0 .. MaxSetups
    OBVIOUS
  <2> QED BY <2>1, <2>2, <2>3, Zenon DEF TypeOK
<1>2. ThreadInv /\ RequestInv /\ ActiveInv /\ ReleasedInv /\ RecordInv /\ InterfaceIdIsFirst
  BY DEF ActiveInv, ThreadInv, RequestInv, ReleasedInv, Deactivating, RecordInv, InterfaceIdIsFirst
<1>3. mRequestList = {}
  BY DEF mRequestList
<1>4. SerialInv /\ SlotInv /\ DistinctInterfaces(Known)
  BY <1>3 DEF SerialInv, SlotInv, DistinctInterfaces, Known
<1> QED BY <1>1, <1>2, <1>4 DEF IInv

(* The invariant depends on nothing but the variables.                     *)
LEMMA StutterInv == IInv /\ UNCHANGED vars => IInv'
<1> SUFFICES ASSUME IInv, UNCHANGED vars PROVE IInv'
  OBVIOUS
<1> USE DEF vars, clientVars, recvVars, modemVars, history
<1>1. TypeOK' BY DEF IInv, TypeOK
<1>2. ThreadInv' BY DEF IInv, ThreadInv
<1>3. RequestInv' BY Zenon DEF IInv, RequestInv
<1>4. ActiveInv' BY Zenon DEF IInv, ActiveInv
<1>5. RecordInv' BY DEF IInv, RecordInv, Recorded, Stored
<1>6. InterfaceIdIsFirst' BY DEF IInv, InterfaceIdIsFirst
<1>7. mRequestList' = mRequestList BY DEF mRequestList
<1>8. SerialInv' <=> SerialInv BY <1>7 DEF SerialInv, Pending
<1>9. ReleasedInv' BY DEF IInv, ReleasedInv, Deactivating
<1>10. SlotInv' <=> SlotInv
  BY <1>7 DEF SlotInv, FirstFree, Stored
<1>11. Known' = Known BY DEF Known
<1>12. DistinctInterfaces(Known)' <=> DistinctInterfaces(Known)
  BY <1>11 DEF DistinctInterfaces
<1> QED BY <1>1, <1>2, <1>3, <1>4, <1>5, <1>6, <1>8, <1>9, <1>10, <1>12 DEF IInv

(* Every step of the two threads and of the modem keeps the invariant.     *)
LEMMA NextInv == IInv /\ [Next]_vars => IInv'
<1> SUFFICES ASSUME IInv, [Next]_vars PROVE IInv'
  OBVIOUS
<1>1. CASE Telephony
  BY <1>1, SetupBeginInv, SetupScanInv, SetupSendInv, DeactivateBeginInv,
     DeactivateScanInv, DeactivateFreeInv, DeactivateSendInv DEF Telephony
<1>2. CASE Receiver
  BY <1>2, ReceiveInv, StoreScanInv, StoreWriteInv, DeliverInv DEF Receiver
<1>3. CASE Modem
  BY <1>3, ModemGrantInv, ModemRefuseInv, ModemDeactivateInv, NetworkDropInv,
     ConnectionLostInv DEF Modem, ModemReply
<1>4. CASE UNCHANGED vars
  BY <1>4, StutterInv
<1> QED BY <1>1, <1>2, <1>3, <1>4 DEF Next

(* So it holds in every reachable state of the two threads.                *)
LEMMA Invariance == Spec => []IInv
BY InitInv, NextInv, PTL DEF Spec

(* The variables of the table and of the two threads keep their types; in  *)
(* particular no loop leaves the entries it may visit and no interfaceId   *)
(* exceeds the number of entries.                                          *)
THEOREM TypeCorrect == Spec => []TypeOK
<1>1. IInv => TypeOK BY DEF IInv
<1> QED BY <1>1, Invariance, PTL

(* The unlocked table loses no cid: a live, reported call that is not      *)
(* being deactivated is recorded, unless fetchCidFromDataCall found the    *)
(* table full.                                                             *)
THEOREM NoLostUpdate == Spec => []LiveCallRecorded
<1>1. IInv => LiveCallRecorded
  BY DEF IInv, RecordInv, LiveCallRecorded, Stored
<1> QED BY <1>1, Invariance, PTL

(* When setupDataCall sends, all entries below its interfaceId are taken.  *)
THEOREM FirstInterface == Spec => []InterfaceIdIsFirst
<1>1. IInv => InterfaceIdIsFirst BY DEF IInv
<1> QED BY <1>1, Invariance, PTL

(* If no operation begins while another is pending, the entry that         *)
(* fetchCidFromDataCall fills is the one setupDataCall announced, and no   *)
(* two live calls share an interfaceId.                                    *)
THEOREM SerialDistinct == Spec => []SerialInterfacesDistinct
<1>1. IInv => SerialInterfacesDistinct
  BY DEF IInv, SerialInterfacesDistinct
<1> QED BY <1>1, Invariance, PTL

-----------------------------------------------------------------------------
(* The entries of the table are calls that are up.                         *)

Pend(s) == req[s].st = "reply" \/ (rpc \in {"store", "write"} /\ rser = s)

(* A cid that nothing left behind is in one entry at most and belongs to a *)
(* call that is up; while its reply is under way it is in none, and so it  *)
(* is once deactivateDataCall has been through the table.                  *)
EntryInv ==
  /\ \A i \in Slots : dataCallCids[i] \in Cid \ stray =>
       /\ \E a \in active : a.cid = dataCallCids[i]
       /\ \A j \in Slots : dataCallCids[j] = dataCallCids[i] => j = i
  /\ \A s \in Serial : Pend(s) /\ req[s].cid \in Cid \ stray =>
       /\ \E a \in active : a.ser = s /\ a.cid = req[s].cid
       /\ ~Recorded(req[s].cid)
  /\ cpc = "dscan" /\ carg \notin stray => \A i \in Slots : i < ci => dataCallCids[i] # carg
  /\ cpc = "dsend" /\ carg \notin stray => ~Recorded(carg)
  /\ \A c \in deacts \ stray : ~Recorded(c)

JInv == IInv /\ (~pipelined => EntryInv)

(* What is to be shown of a step that leaves the table and the telephony   *)
(* thread alone.                                                           *)
LEMMA KeptTable ==
  ASSUME EntryInv, UNCHANGED <<dataCallCids, cpc, ci, carg>>,
         stray \subseteq stray', deacts' \subseteq deacts,
         \A i \in Slots : dataCallCids[i] \in Cid \ stray' =>
           \E a \in active' : a.cid = dataCallCids[i],
         \A s \in Serial : Pend(s)' /\ req'[s].cid \in Cid \ stray' =>
           /\ \E a \in active' : a.ser = s /\ a.cid = req'[s].cid
           /\ ~Recorded(req'[s].cid)
  PROVE  EntryInv'
<1>1. \A c : Recorded(c)' <=> Recorded(c)
  BY DEF Recorded
<1>2. \A i, j \in Slots :
        dataCallCids[i] \in Cid \ stray' /\ dataCallCids[j] = dataCallCids[i] => j = i
  BY Zenon DEF EntryInv
<1>3. cpc = "dscan" /\ carg \notin stray' => \A i \in Slots : i < ci => dataCallCids[i] # carg
  BY DEF EntryInv
<1>4. cpc = "dsend" /\ carg \notin stray' => ~Recorded(carg)
  BY DEF EntryInv
<1>5. \A c \in deacts' \ stray' : ~Recorded(c)
  BY DEF EntryInv
<1> QED BY <1>1, <1>2, <1>3, <1>4, <1>5, Zenon DEF EntryInv

(* The telephony thread, except for the entry it frees.                    *)
LEMMA ClientEntry ==
  ASSUME JInv, ~pipelined', UNCHANGED <<dataCallCids, recvVars, active, stray>>,
         \/ SetupBegin \/ SetupScan \/ SetupSend
         \/ DeactivateScan \/ DeactivateSend
         \/ \E s \in Serial : DeactivateBegin(s)
  PROVE  EntryInv'
<1> USE DEF clientVars, recvVars, modemVars, history
<1>a. pipelined' = pipelined \/ pipelined' = (pipelined \/ Pending)
  BY DEF SetupBegin, SetupScan, SetupSend, DeactivateScan, DeactivateSend, DeactivateBegin
<1>b. ~pipelined
  BY <1>a, Zenon
<1>0. ~pipelined /\ EntryInv /\ IInv
  BY <1>b DEF JInv
<1>1. \A s \in Serial : Pend(s)' => Pend(s) /\ req'[s] = req[s]
  <2>1. CASE SetupSend
    <3>1. serial + 1 \in Serial /\ req \in [Serial -> Request]
      BY <1>0, <2>1, MaxSetupsAssumption DEF IInv, TypeOK, ThreadInv, SetupSend, Serial
    <3>2. \A s \in Serial : s # serial + 1 => req'[s] = req[s]
      BY <2>1, <3>1 DEF SetupSend
    <3>3. req'[serial + 1].st = "rild"
      BY <2>1, <3>1 DEF SetupSend, Request
    <3>4. req[serial + 1].st = "new"
      BY <1>0, <3>1, MaxSetupsAssumption DEF IInv, TypeOK, RequestInv, Serial
    <3>5. rpc # "idle" => rser # serial + 1
      BY <1>0, <3>4, Zenon DEF IInv, ThreadInv
    <3> QED BY <3>1, <3>2, <3>3, <3>5 DEF Pend
  <2>2. CASE UNCHANGED req BY <2>2 DEF Pend
  <2> QED BY <2>1, <2>2, Zenon DEF SetupBegin, SetupScan, DeactivateScan, DeactivateSend, DeactivateBegin
<1>2. \A c : Recorded(c)' <=> Recorded(c)
  BY DEF Recorded
<1>3. /\ cpc' = "dscan" /\ carg' \notin stray => \A i \in Slots : i < ci' => dataCallCids[i] # carg'
      /\ cpc' = "dsend" /\ carg' \notin stray => ~Recorded(carg')
      /\ \A c \in deacts' \ stray : ~Recorded(c)
  <2>0. /\ cpc = "dscan" /\ carg \notin stray => \A i \in Slots : i < ci => dataCallCids[i] # carg
        /\ cpc = "dsend" /\ carg \notin stray => ~Recorded(carg)
        /\ \A c \in deacts \ stray : ~Recorded(c)
        /\ ci \in 0 .. NumSlots
    BY <1>0 DEF EntryInv, IInv, TypeOK
  <2>1. CASE SetupBegin \/ SetupScan \/ SetupSend
    <3>1. cpc' \notin {"dscan", "dsend"} /\ deacts' = deacts
      BY <2>1 DEF SetupBegin, SetupScan, SetupSend
    <3> QED BY <2>0, <3>1
  <2>2. CASE DeactivateScan
    <3> USE <2>0, <2>2, NumSlotsAssumption DEF DeactivateScan, Slots
    <3>1. CASE ci < NumSlots /\ dataCallCids[ci] = carg
      BY <3>1
    <3>2. CASE ci < NumSlots /\ dataCallCids[ci] # carg
      BY <3>2
    <3>3. CASE ci = NumSlots
      <4>1. \A i \in Slots : i < ci BY <3>3
      <4> QED BY <3>3, <4>1 DEF Recorded
    <3> QED BY <3>1, <3>2, <3>3
  <2>3. CASE DeactivateSend
    <3>1. cpc' = "idle" /\ deacts' = deacts \cup {carg} /\ cpc = "dsend"
      BY <2>3 DEF DeactivateSend
    <3> QED BY <2>0, <3>1
  <2>4. CASE \E s \in Serial : DeactivateBegin(s)
    <3>1. cpc' = "dscan" /\ ci' = 0 /\ deacts' = deacts
      BY <2>4, Zenon DEF DeactivateBegin
    <3> QED BY <2>0, <3>1, NumSlotsAssumption DEF Slots
  <2> QED BY <2>1, <2>2, <2>3, <2>4, Zenon
<1>4. \A i \in Slots : dataCallCids[i] \in Cid \ stray =>
        /\ \E a \in active : a.cid = dataCallCids[i]
        /\ \A j \in Slots : dataCallCids[j] = dataCallCids[i] => j = i
  BY <1>0, Zenon DEF EntryInv
<1>5. \A s \in Serial : Pend(s)' /\ req'[s].cid \in Cid \ stray =>
        /\ \E a \in active : a.ser = s /\ a.cid = req'[s].cid
        /\ ~Recorded(req'[s].cid)
  BY <1>0, <1>1, Zenon DEF EntryInv
<1> QED BY <1>2, <1>3, <1>4, <1>5, Zenon DEF EntryInv

(* deactivateDataCall frees the only entry of a cid that nothing left      *)
(* behind, and one of the entries of a cid that something did.             *)
LEMMA FreeEntry ==
  ASSUME JInv, ~pipelined', DeactivateFree
  PROVE  EntryInv'
<1> USE DEF DeactivateFree, clientVars, recvVars, modemVars, history
<1>0. ~pipelined /\ EntryInv /\ IInv /\ SerialInv
  BY DEF JInv, IInv
<1>1. /\ ci \in Slots /\ dataCallCids[ci] = carg /\ carg \in Cid /\ carg # NoCid
      /\ dataCallCids \in [0 .. NumSlots -> Cid \cup {NoCid}] /\ Slots \subseteq 0 .. NumSlots
  BY <1>0, CidAssumption, NumSlotsAssumption DEF IInv, ThreadInv, TypeOK, Slots, NoCid
<1>2. /\ dataCallCids'[ci] = NoCid /\ NoCid \notin Cid
      /\ \A i \in Slots : i # ci => dataCallCids'[i] = dataCallCids[i]
  BY <1>1, CidAssumption DEF NoCid
<1>3. rpc = "idle" /\ deacts = {} /\ \A s \in Serial : req[s].st # "reply"
  BY <1>0, Zenon DEF SerialInv, Pending, mRequestList
<1>f. \A s \in Serial : ~Pend(s)'
  BY <1>3 DEF Pend
<1>g. cpc' = "dsend" /\ deacts' = {} /\ active' = active /\ carg' = carg
  BY <1>3
<1>e. \A i \in Slots : dataCallCids[i] \in Cid \ stray =>
        /\ \E a \in active : a.cid = dataCallCids[i]
        /\ \A j \in Slots : dataCallCids[j] = dataCallCids[i] => j = i
  BY <1>0 DEF EntryInv
<1> HIDE DEF DeactivateFree
<1>4. CASE \E i \in Slots \ {ci} : dataCallCids[i] = carg
  <2>1. carg \in stray BY <1>0, <1>1, <1>4, Zenon DEF EntryInv
  <2>2. stray' = stray BY <1>4 DEF DeactivateFree
  <2>3. \A i \in Slots : dataCallCids'[i] \in Cid \ stray' =>
          /\ \E a \in active' : a.cid = dataCallCids'[i]
          /\ \A j \in Slots : dataCallCids'[j] = dataCallCids'[i] => j = i
    BY <1>2, <1>e, <1>g, <2>2
  <2> QED BY <1>f, <1>g, <2>1, <2>2, <2>3 DEF EntryInv
<1>5. CASE ~\E i \in Slots \ {ci} : dataCallCids[i] = carg
  <2>1. stray' = stray \ {carg} BY <1>5 DEF DeactivateFree
  <2>2. \A i \in Slots : dataCallCids'[i] # carg BY <1>1, <1>2, <1>5
  <2>3. ~Recorded(carg)' BY <1>g, <2>2 DEF Recorded
  <2>4. \A i \in Slots : dataCallCids'[i] \in Cid \ stray' =>
          /\ \E a \in active' : a.cid = dataCallCids'[i]
          /\ \A j \in Slots : dataCallCids'[j] = dataCallCids'[i] => j = i
    BY <1>2, <1>e, <1>g, <2>1, <2>2
  <2> QED BY <1>f, <1>g, <2>3, <2>4 DEF EntryInv
<1> QED BY <1>4, <1>5

(* The receiver stores the cid of a call that is up.                       *)
LEMMA ReceiverEntry ==
  ASSUME JInv, ~pipelined', Receiver
  PROVE  EntryInv'
<1> USE DEF clientVars, recvVars, modemVars, history
<1>a. pipelined' = pipelined
  BY Zenon DEF Receiver, StoreScan, StoreWrite, Deliver, Receive
<1>0. ~pipelined /\ EntryInv /\ IInv /\ SerialInv
  BY <1>a DEF JInv, IInv
<1>t. req \in [Serial -> Request]
  BY <1>0 DEF IInv, TypeOK
<1>1. CASE StoreWrite
  <2> DEFINE c == req[rser].cid
  <2>1. /\ ri \in Slots /\ dataCallCids[ri] = NoCid /\ c \in Cid /\ rser \in Serial
        /\ dataCallCids \in [0 .. NumSlots -> Cid \cup {NoCid}] /\ Slots \subseteq 0 .. NumSlots
    BY <1>0, <1>1, CidAssumption, NumSlotsAssumption DEF IInv, ThreadInv, TypeOK, Slots, StoreWrite
  <2>2. /\ dataCallCids'[ri] = c
        /\ \A i \in Slots : i # ri => dataCallCids'[i] = dataCallCids[i]
    BY <1>1, <2>1 DEF StoreWrite
  <2>3. mRequestList = {} /\ deacts = {} /\ cpc = "idle"
    BY <1>0, <1>1 DEF SerialInv, Pending, StoreWrite
  <2>4. \A s \in Serial : req[s].st # "reply"
    BY <2>3 DEF mRequestList
  <2>5. Pend(rser) BY <1>1, Zenon DEF Pend, StoreWrite
  <2>6. c \notin stray => (\E a \in active : a.cid = c) /\ \A i \in Slots : dataCallCids[i] # c
    BY <1>0, <2>1, <2>5 DEF EntryInv, Recorded
  <2>7. UNCHANGED <<req, active, stray, deacts, cpc>> /\ rpc' = "deliver"
    BY <1>1 DEF StoreWrite
  <2>8. \A s \in Serial : ~Pend(s)'
    BY <2>4, <2>7 DEF Pend
  <2> HIDE DEF c
  <2>9. \A i \in Slots : dataCallCids[i] \in Cid \ stray =>
          /\ \E a \in active : a.cid = dataCallCids[i]
          /\ \A j \in Slots : dataCallCids[j] = dataCallCids[i] => j = i
    BY <1>0 DEF EntryInv
  <2>10. \A i \in Slots : dataCallCids'[i] \in Cid \ stray' =>
          /\ \E a \in active' : a.cid = dataCallCids'[i]
          /\ \A j \in Slots : dataCallCids'[j] = dataCallCids'[i] => j = i
    BY <2>2, <2>6, <2>7, <2>9
  <2> QED BY <2>3, <2>7, <2>8, <2>10 DEF EntryInv
<1>2. CASE StoreScan \/ Deliver \/ \E s \in Serial : Receive(s)
  <2>1. UNCHANGED <<dataCallCids, active, stray, cpc, ci, carg>> /\ deacts' \subseteq deacts
    BY <1>2 DEF StoreScan, Deliver, Receive, ClearRequestList
  <2>2. ASSUME NEW s \in Serial, Pend(s)' PROVE Pend(s) /\ req'[s].cid = req[s].cid
    <3>1. CASE StoreScan
      BY <2>2, <3>1 DEF StoreScan, Pend
    <3>2. CASE Deliver
      <4>1. rser \in Serial BY <1>0, <3>2 DEF IInv, ThreadInv, Deliver
      <4>2. \A t \in Serial : t # rser => req'[t] = req[t]
        BY <1>t, <3>2, <4>1 DEF Deliver
      <4>3. req'[rser].st = "answered" /\ rpc' = "idle"
        BY <1>t, <3>2, <4>1 DEF Deliver, Request
      <4> QED BY <2>2, <4>2, <4>3 DEF Pend
    <3>3. CASE \E r \in Serial : Receive(r)
      <4>1. PICK r \in Serial : Receive(r) BY <3>3
      <4>2. CASE req[r].kind = "bad"
        <5>1. {r} \in SUBSET mRequestList /\ ClearRequestList({r}) /\ rpc' = "idle"
          BY <4>1, <4>2 DEF Receive, mRequestList
        <5>2. \A t \in Serial : req'[t].st # "reply"
          BY <1>t, <5>1, Cleared DEF mRequestList
        <5> QED BY <2>2, <5>1, <5>2 DEF Pend
      <4>3. CASE req[r].kind # "bad"
        <5>1. PICK x \in Status : req' = [req EXCEPT ![r] = [@ EXCEPT !.st = x]] /\ x # "reply"
          BY <4>1, <4>3 DEF Receive, Status
        <5>2. /\ \A t \in Serial : t # r => req'[t] = req[t]
              /\ req'[r].st = x /\ req'[r].cid = req[r].cid
          BY <1>t, <5>1, SetStatus
        <5>3. rpc = "idle" /\ req[r].st = "reply" /\ (rpc' # "idle" => rser' = r)
          BY <4>1 DEF Receive
        <5> QED BY <2>2, <5>1, <5>2, <5>3 DEF Pend
      <4> QED BY <4>2, <4>3
    <3> QED BY <1>2, <3>1, <3>2, <3>3
  <2>3. \A i \in Slots : dataCallCids[i] \in Cid \ stray =>
          \E a \in active : a.cid = dataCallCids[i]
    BY <1>0 DEF EntryInv
  <2>4. \A s \in Serial : Pend(s) /\ req[s].cid \in Cid \ stray =>
          /\ \E a \in active : a.ser = s /\ a.cid = req[s].cid
          /\ ~Recorded(req[s].cid)
    BY <1>0 DEF EntryInv
  <2> QED BY <1>0, <2>1, <2>2, <2>3, <2>4, KeptTable
<1> QED BY <1>1, <1>2 DEF Receiver

(* rild, the modem and the network: what they take down or refuse, they    *)
(* leave behind.                                                           *)
LEMMA ModemEntry ==
  ASSUME JInv, ~pipelined', Modem
  PROVE  EntryInv'
<1> USE DEF clientVars, recvVars, modemVars, history
<1>t. TypeOK /\ IInv /\ NoCid \notin Cid
  BY CidAssumption DEF JInv, IInv, NoCid
<1>a. pipelined' = pipelined
  BY Zenon DEF Modem, ModemReply, ModemRefuse, ModemGrant, Answer,
     ModemDeactivate, NetworkDrop, ConnectionLost
<1>0. ~pipelined /\ EntryInv /\ SerialInv
  BY <1>a DEF JInv, IInv
<1>1. ASSUME NEW s \in Serial, NEW c \in Cid, ModemGrant(s, c) PROVE EntryInv'
  <2> DEFINE new == [ser |-> s, cid |-> c, ifc |-> req[s].ifc]
  <2>1. /\ \A r \in Serial : r # s => req'[r] = req[r]
        /\ req'[s].st = "reply" /\ req'[s].cid = c /\ s \in mRequestList
        /\ UNCHANGED <<dataCallCids, recvVars, deacts, stray, cpc, ci, carg>>
        /\ active' = active \cup {new} /\ new.ser = s /\ new.cid = c
        /\ \A a \in active : a.cid # c
    BY <1>1, <1>t, SetAnswer, Zenon DEF TypeOK, ModemGrant, Answer, Kinds, mRequestList
  <2> HIDE DEF new
  <2>2. c \notin stray => ~Recorded(c)
    <3>1. \A i \in Slots : dataCallCids[i] \in Cid \ stray =>
            \E a \in active : a.cid = dataCallCids[i]
      BY <1>0 DEF EntryInv
    <3> QED BY <2>1, <3>1 DEF Recorded
  <2>3. \A r \in Serial : Pend(r)' => r = s \/ (Pend(r) /\ req'[r] = req[r])
    BY <2>1 DEF Pend
  <2>4. \A i \in Slots : dataCallCids[i] \in Cid \ stray' =>
          \E a \in active' : a.cid = dataCallCids[i]
    BY <1>0, <2>1 DEF EntryInv
  <2>5. ASSUME NEW r \in Serial, Pend(r)', req'[r].cid \in Cid \ stray'
        PROVE  /\ \E a \in active' : a.ser = r /\ a.cid = req'[r].cid
               /\ ~Recorded(req'[r].cid)
    <3>1. CASE r = s
      BY <2>1, <2>2, <2>5, <3>1
    <3>2. CASE r # s
      <4>1. Pend(r) /\ req'[r] = req[r] /\ req[r].cid \in Cid \ stray
        BY <2>1, <2>3, <2>5, <3>2
      <4>2. (\E a \in active : a.ser = r /\ a.cid = req[r].cid) /\ ~Recorded(req[r].cid)
        BY <1>0, <4>1 DEF EntryInv
      <4> QED BY <2>1, <4>1, <4>2, Zenon
    <3> QED BY <3>1, <3>2
  <2> QED BY <1>0, <2>1, <2>4, <2>5, KeptTable
<1>2. ASSUME NEW s \in Serial, ModemRefuse(s) PROVE EntryInv'
  <2>1. PICK k \in Kinds, c \in Cid \cup {NoCid} :
          Answer(s, k, c) /\ stray' = stray \cup ({c} \ {NoCid})
    BY <1>2 DEF ModemRefuse
  <2>2. /\ \A r \in Serial : r # s => req'[r] = req[r]
        /\ req'[s].cid = c
        /\ UNCHANGED <<dataCallCids, recvVars, deacts, active, cpc, ci, carg>>
    BY <1>2, <1>t, <2>1, SetAnswer, Zenon DEF TypeOK, Answer, ModemRefuse
  <2>3. req'[s].cid \notin Cid \ stray'
    BY <1>t, <2>1, <2>2
  <2>4. \A r \in Serial : Pend(r)' => r = s \/ (Pend(r) /\ req'[r] = req[r])
    BY <2>2 DEF Pend
  <2>5. \A i \in Slots : dataCallCids[i] \in Cid \ stray' =>
          \E a \in active' : a.cid = dataCallCids[i]
    BY <1>0, <2>1, <2>2, Zenon DEF EntryInv
  <2>6. ASSUME NEW r \in Serial, Pend(r)', req'[r].cid \in Cid \ stray'
        PROVE  /\ \E a \in active' : a.ser = r /\ a.cid = req'[r].cid
               /\ ~Recorded(req'[r].cid)
    <3>1. Pend(r) /\ req'[r] = req[r] /\ req[r].cid \in Cid \ stray
      BY <2>1, <2>3, <2>4, <2>6
    <3>2. (\E a \in active : a.ser = r /\ a.cid = req[r].cid) /\ ~Recorded(req[r].cid)
      BY <1>0, <3>1 DEF EntryInv
    <3> QED BY <2>2, <3>1, <3>2, Zenon
  <2> QED BY <1>0, <2>1, <2>2, <2>5, <2>6, KeptTable, Zenon
<1>3. ASSUME NEW c \in Cid, ModemDeactivate(c) PROVE EntryInv'
  <2>1. mRequestList = {} /\ rpc = "idle" /\ cpc = "idle"
    BY <1>0, <1>3 DEF SerialInv, Pending, ModemDeactivate
  <2>2. \A s \in Serial : ~Pend(s)'
    BY <1>3, <2>1 DEF Pend, mRequestList, ModemDeactivate
  <2>3. c \notin stray => ~Recorded(c)
    BY <1>0, <1>3 DEF EntryInv, ModemDeactivate
  <2>4. UNCHANGED <<dataCallCids, cpc, ci, carg, stray>> /\ deacts' \subseteq deacts
    BY <1>3 DEF ModemDeactivate
  <2>5. \A a \in active : a.cid # c => a \in active'
    BY <1>3 DEF ModemDeactivate
  <2>6. \A i \in Slots : dataCallCids[i] \in Cid \ stray =>
          dataCallCids[i] # c /\ \E a \in active : a.cid = dataCallCids[i]
    BY <1>0, <2>3 DEF EntryInv, Recorded
  <2> QED BY <1>0, <2>2, <2>4, <2>5, <2>6, KeptTable
<1>4. ASSUME NEW a \in active, NetworkDrop(a) PROVE EntryInv'
  <2>1. UNCHANGED <<dataCallCids, req, recvVars, deacts, cpc, ci, carg>> /\ stray \subseteq stray'
    BY <1>4, Zenon DEF NetworkDrop
  <2>2. \A b \in active \ {a} : b \in active'
    BY <1>4 DEF NetworkDrop
  <2>3. a.cid \notin stray' => ~Recorded(a.cid) /\ ~Pend(a.ser)
    <3>1. rpc # "idle" => req[rser].st = "taken"
      BY <1>t DEF IInv, ThreadInv
    <3> QED BY <1>4, <3>1 DEF NetworkDrop, Pend
  <2>4. \A s \in Serial : Pend(s)' <=> Pend(s)
    BY <2>1 DEF Pend
  <2>5. ASSUME NEW i \in Slots, dataCallCids[i] \in Cid \ stray'
        PROVE  \E b \in active' : b.cid = dataCallCids[i]
    <3>1. PICK b \in active : b.cid = dataCallCids[i]
      BY <1>0, <2>1, <2>5 DEF EntryInv
    <3>2. b # a BY <2>3, <2>5, <3>1 DEF Recorded
    <3> QED BY <2>2, <3>1, <3>2
  <2>6. ASSUME NEW s \in Serial, Pend(s)', req'[s].cid \in Cid \ stray'
        PROVE  /\ \E b \in active' : b.ser = s /\ b.cid = req'[s].cid
               /\ ~Recorded(req'[s].cid)
    <3>1. Pend(s) /\ req'[s] = req[s] /\ req[s].cid \in Cid \ stray
      BY <2>1, <2>4, <2>6
    <3>2. ~Recorded(req[s].cid) BY <1>0, <3>1 DEF EntryInv
    <3>3. PICK b \in active : b.ser = s /\ b.cid = req[s].cid
      BY <1>0, <3>1 DEF EntryInv
    <3>4. b # a BY <2>3, <2>6, <3>1, <3>3
    <3> QED BY <2>2, <3>1, <3>2, <3>3, <3>4
  <2> QED BY <1>0, <2>1, <2>5, <2>6, KeptTable, Zenon
<1>5. ASSUME ConnectionLost PROVE EntryInv'
  <2>1. /\ UNCHANGED <<dataCallCids, recvVars, cpc, ci, carg>> /\ rpc = "idle"
        /\ ClearRequestList({}) /\ {} \in SUBSET mRequestList
    BY <1>5 DEF ConnectionLost
  <2>2. deacts' = {} /\ \A s \in Serial : req'[s].st # "reply"
    BY <1>t, <2>1, Cleared DEF TypeOK, mRequestList
  <2>3. \A s \in Serial : ~Pend(s)'
    BY <2>1, <2>2 DEF Pend
  <2>4. CASE UNCHANGED <<active, stray>>
    <3>1. \A i \in Slots : dataCallCids[i] \in Cid \ stray =>
            \E a \in active : a.cid = dataCallCids[i]
      BY <1>0 DEF EntryInv
    <3> QED BY <1>0, <2>1, <2>2, <2>3, <2>4, <3>1, KeptTable
  <2>5. CASE active' = {} /\ stray' = {c \in Cid : Recorded(c)}
    <3>1. cpc \in {"dscan", "dsend"} => carg \in Cid
      BY <1>t DEF IInv, ThreadInv
    <3> QED BY <2>1, <2>2, <2>3, <2>5, <3>1, Zenon DEF EntryInv, Recorded
  <2> QED BY <1>5, <2>4, <2>5 DEF ConnectionLost
<1> QED BY <1>1, <1>2, <1>3, <1>4, <1>5 DEF Modem, ModemReply

(* Every step keeps the entries those of calls that are up.                *)
LEMMA NextEntry == JInv /\ [Next]_vars => JInv'
<1> SUFFICES ASSUME JInv, [Next]_vars PROVE JInv'
  OBVIOUS
<1>1. IInv' BY NextInv DEF JInv
<1>2. ASSUME ~pipelined' PROVE EntryInv'
  <2>1. CASE Telephony
    <3>1. CASE DeactivateFree BY <1>2, <3>1, FreeEntry
    <3>2. CASE \/ SetupBegin \/ SetupScan \/ SetupSend \/ DeactivateScan \/ DeactivateSend
               \/ \E s \in Serial : DeactivateBegin(s)
      <4>1. UNCHANGED <<dataCallCids, recvVars, active, stray>>
        BY <3>2 DEF SetupBegin, SetupScan, SetupSend, DeactivateScan, DeactivateSend,
           DeactivateBegin, modemVars, history
      <4> QED BY <1>2, <3>2, <4>1, ClientEntry
    <3> QED BY <2>1, <3>1, <3>2 DEF Telephony
  <2>2. CASE Receiver BY <1>2, <2>2, ReceiverEntry
  <2>3. CASE Modem BY <1>2, <2>3, ModemEntry
  <2>4. CASE UNCHANGED vars
    BY <1>2, <2>4 DEF vars, clientVars, recvVars, modemVars, history, JInv, EntryInv,
       Recorded, Pend
  <2> QED BY <2>1, <2>2, <2>3, <2>4 DEF Next
<1> QED BY <1>1, <1>2 DEF JInv

(* While operations come one at a time, an entry that no drop, refusal or  *)
(* restart left behind is the cid of a call that is up.                    *)
THEOREM EntriesLive == Spec => []EntriesAreCalls
<1>1. Init => JInv
  <2> SUFFICES ASSUME Init PROVE EntryInv
    BY InitInv DEF JInv
  <2>1. \A i \in Slots : dataCallCids[i] \notin Cid
    BY CidAssumption, NumSlotsAssumption DEF Init, NoCid, Slots
  <2>2. \A s \in Serial : ~Pend(s)
    BY DEF Init, Pend
  <2> QED BY <2>1, <2>2, Zenon DEF EntryInv, Init
<1>2. JInv => EntriesAreCalls
  BY Zenon DEF JInv, EntryInv, EntriesAreCalls
<1> QED BY <1>1, <1>2, NextEntry, PTL DEF Spec

=============================================================================

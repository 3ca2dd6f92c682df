--------------------------- MODULE EmergencyNumbers ---------------------------
(***************************************************************************)
(* Who reads and writes the emergency numbers while the phone runs:        *)
(*   - the vendor RIL (external) writes the numbers of a SIM to the        *)
(*     property of its slot and then answers GET_SIM_STATUS;               *)
(*   - one RILReceiver thread per subscription runs refreshEmergencyList   *)
(*     on such an answer, and that rewrites the properties of both slots,  *)
(*     each by a read and a later write.  The only lock held is the one on *)
(*     the subscription's own mRequestList;                                *)
(*   - dial decides with isEmergencyNumberExt whether a call is an         *)
(*     emergency call, reading the properties one after the other.         *)
(***************************************************************************)
EXTENDS EccList

CONSTANTS
  Xml,          \* the entries of ecc_list.xml
  SimLists,     \* the lists a SIM may hold; <<>> when there is none
  NetLists,     \* the values of ril.ecc.service.category.list, as functions
  Address,      \* the addresses that are dialled
  PropMax,      \* the longest list a property can hold
  MaxAnswers    \* bound on the number of GET_SIM_STATUS answers

ASSUME XmlAssumption == Xml \in Seq(EccEntry)
ASSUME SimListsAssumption ==
  \* what the vendor RIL writes fits the property, and has no number twice
  SimLists \subseteq Seq(Number) /\ \A s \in SimLists : IsInjective(s) /\ Len(s) <= PropMax
ASSUME AddressAssumption ==
  Address # {} /\ \A a \in Address : a = [num |-> a.num, sep |-> a.sep]
ASSUME BoundAssumption == PropMax \in Nat /\ MaxAnswers \in Nat

Sub == {0, 1}   \* the subscriptions, and the slots: ril.ecclist, ril.ecclist1

VARIABLES
  mCustomizedEccList,
  ecclist,     \* the two properties
  netlist,     \* ril.ecc.service.category.list
  answers,     \* GET_SIM_STATUS answers rild gave so far
  replies,     \* per subscription, those the receiver has not read yet
  rpc, rlist,  \* receivers: position, and the list about to be written
  dpc, daddr,  \* dial: position and address
  dnet, dsim,  \* dial: mHashMapForNetworkEccCategory and bSIMInserted
  sent,        \* what dial has sent for this call
  sim,         \* history: the list the vendor RIL last wrote, per slot
  raced,       \* history: slots it last wrote between a receiver's read and write
  overflowed,  \* history: a list did not fit its property
  refreshed,   \* history: a refresh was completed
  dexcused     \* history: during this dial a SIM was present or a slot raced

radioVars == <<netlist, answers, replies, sim, raced>>
recvVars == <<rpc, rlist, overflowed, refreshed>>
dialVars == <<dpc, daddr, dnet, dsim, sent, dexcused>>
vars == <<mCustomizedEccList, ecclist, radioVars, recvVars, dialVars>>

AnySim(s) == \E k \in Sub : s[k] # <<>>

Init ==
  /\ \E cta \in BOOLEAN : mCustomizedEccList \in parseEccList(Xml, cta)
  /\ ecclist = [k \in Sub |-> <<>>] /\ sim = ecclist
  /\ netlist \in NetLists
  /\ answers = 0 /\ replies = [i \in Sub |-> 0]
  /\ rpc = [i \in Sub |-> <<"idle", 0>>] /\ rlist = [i \in Sub |-> <<>>]
  /\ dpc = "idle" /\ daddr = (CHOOSE a \in Address : TRUE) /\ dnet = <<>> /\ dsim = FALSE
  /\ sent = <<>> /\ dexcused = FALSE
  /\ raced = {} /\ overflowed = FALSE /\ refreshed = FALSE

-----------------------------------------------------------------------------
(* rild and the network: external.                                         *)

(* "vendor ril refreshes the properties while generating this answer"      *)
(* (line 412).  An error without payload changes nothing here: the         *)
(* receiver passes it on and refreshes nothing.                            *)
VendorAnswer(i, list) ==
  /\ answers < MaxAnswers
  /\ answers' = answers + 1
  /\ replies' = [replies EXCEPT ![i] = @ + 1]
  /\ ecclist' = [ecclist EXCEPT ![i] = list]
  /\ sim' = [sim EXCEPT ![i] = list]
  /\ raced' = IF \E j \in Sub : rpc[j] = <<"write", i>> THEN raced \cup {i} ELSE raced \ {i}
  /\ dexcused' = (dexcused \/ AnySim(sim') \/ raced' # {})
  /\ UNCHANGED <<mCustomizedEccList, netlist, recvVars, dpc, daddr, dnet, dsim, sent>>

NetworkUpdate(m) ==
  /\ netlist' = m
  /\ UNCHANGED <<mCustomizedEccList, ecclist, answers, replies, sim, raced,
                 recvVars, dialVars>>

-----------------------------------------------------------------------------
(* The receiver of subscription i: processSolicited on GET_SIM_STATUS.     *)

Receive(i) ==
  /\ rpc[i][1] = "idle" /\ replies[i] > 0
  /\ replies' = [replies EXCEPT ![i] = @ - 1]
  /\ rpc' = [rpc EXCEPT ![i] = <<"read", 0>>]
  /\ UNCHANGED <<mCustomizedEccList, ecclist, netlist, answers, sim, raced,
                 rlist, overflowed, refreshed, dialVars>>

RefreshRead(i) ==
  /\ rpc[i][1] = "read"
  /\ rlist' = [rlist EXCEPT ![i] = Merged(ecclist[rpc[i][2]], mCustomizedEccList)]
  /\ rpc' = [rpc EXCEPT ![i] = <<"write", @[2]>>]
  /\ UNCHANGED <<mCustomizedEccList, ecclist, radioVars, overflowed, refreshed, dialVars>>

(* Mutant of RefreshWrite: SIM 2 is left out.                              *)
RefreshWriteFirstOnly(i) ==
  /\ rpc[i] = <<"write", 0>> /\ Len(rlist[i]) <= PropMax
  /\ ecclist' = [ecclist EXCEPT ![0] = rlist[i]]
  /\ rpc' = [rpc EXCEPT ![i] = <<"idle", 0>>]
  /\ refreshed' = TRUE
  /\ rlist' = [rlist EXCEPT ![i] = <<>>]
  /\ UNCHANGED <<mCustomizedEccList, radioVars, overflowed, dialVars>>

(* Mutant of RefreshWrite: the length is not checked.                      *)
RefreshWriteUnchecked(i) ==
  LET k == rpc[i][2] IN
  /\ rpc[i][1] = "write"
  /\ ecclist' = [ecclist EXCEPT ![k] = rlist[i]]
  /\ rpc' = [rpc EXCEPT ![i] = IF k = 0 THEN <<"read", 1>> ELSE <<"idle", 0>>]
  /\ refreshed' = (refreshed \/ k = 1)
  /\ rlist' = [rlist EXCEPT ![i] = <<>>]
  /\ UNCHANGED <<mCustomizedEccList, overflowed, radioVars, dialVars>>

(* Mutant of RefreshWrite: the property is cleared before it is set.       *)
RefreshWriteClears(i) ==
  LET k == rpc[i][2]
      fits == Len(rlist[i]) <= PropMax
  IN
  /\ rpc[i][1] = "write"
  /\ ecclist' = [ecclist EXCEPT ![k] = IF fits THEN rlist[i] ELSE <<>>]
  /\ rpc' = [rpc EXCEPT ![i] = IF fits /\ k = 0 THEN <<"read", 1>> ELSE <<"idle", 0>>]
  /\ refreshed' = (refreshed \/ (fits /\ k = 1))
  /\ overflowed' = (overflowed \/ ~fits)
  /\ rlist' = [rlist EXCEPT ![i] = <<>>]
  /\ UNCHANGED <<mCustomizedEccList, radioVars, dialVars>>

(* SystemProperties.set throws if the value is too long; processSolicited  *)
(* catches that, and the slots that were still to come are not refreshed.  *)
RefreshWrite(i) ==
  LET k == rpc[i][2] IN
  /\ rpc[i][1] = "write"
  /\ \/ /\ Len(rlist[i]) <= PropMax
        /\ ecclist' = [ecclist EXCEPT ![k] = rlist[i]]
        /\ rpc' = [rpc EXCEPT ![i] = IF k = 0 THEN <<"read", 1>> ELSE <<"idle", 0>>]
        /\ refreshed' = (refreshed \/ k = 1)
        /\ UNCHANGED overflowed
     \/ /\ Len(rlist[i]) > PropMax
        /\ rpc' = [rpc EXCEPT ![i] = <<"idle", 0>>]
        /\ overflowed' = TRUE
        /\ UNCHANGED <<ecclist, refreshed>>
  /\ rlist' = [rlist EXCEPT ![i] = <<>>]
  /\ UNCHANGED <<mCustomizedEccList, radioVars, dialVars>>

-----------------------------------------------------------------------------
(* dial, on the telephony thread.                                          *)

Recognised == dpc' = "category" /\ UNCHANGED <<dsim, sent>>

(* Step 1 of isEmergencyNumberExt: the network's list is copied, then      *)
(* searched.                                                               *)
DialBegin(a) ==
  /\ dpc = "idle"
  /\ daddr' = a /\ dnet' = netlist /\ dexcused' = (AnySim(sim) \/ raced # {})
  /\ dsim' = FALSE /\ sent' = <<>>
  /\ dpc' = IF InNetwork(netlist, extractNetworkPortionAlt(a)) THEN "category" ELSE "sim1"
  /\ UNCHANGED <<mCustomizedEccList, ecclist, radioVars, recvVars>>

(* Mutant of DialSim1: bSIMInserted is set behind the test for an empty    *)
(* list, not inside it.                                                    *)
DialSim1Inserted ==
  /\ dpc = "sim1"
  /\ IF InList(ecclist[0], extractNetworkPortionAlt(daddr))
       THEN Recognised
       ELSE dpc' = "sim2" /\ dsim' = TRUE /\ UNCHANGED sent
  /\ UNCHANGED <<mCustomizedEccList, ecclist, radioVars, recvVars, daddr, dnet, dexcused>>

DialSim1 ==
  /\ dpc = "sim1"
  /\ IF InList(ecclist[0], extractNetworkPortionAlt(daddr))
       THEN Recognised
       ELSE dpc' = "sim2" /\ dsim' = (ecclist[0] # <<>>) /\ UNCHANGED sent
  /\ UNCHANGED <<mCustomizedEccList, ecclist, radioVars, recvVars, daddr, dnet, dexcused>>

(* SIM 2, and step 3, the customized list.  An address that is nowhere     *)
(* goes to super.dial.                                                     *)
DialSim2 ==
  /\ dpc = "sim2"
  /\ LET a == extractNetworkPortionAlt(daddr)
         inserted == dsim \/ ecclist[1] # <<>>
     IN  IF InList(ecclist[1], a) \/ InCustom(mCustomizedEccList, inserted, a)
           THEN Recognised
           ELSE dpc' = "idle" /\ sent' = <<[msg |-> "DIAL"]>> /\ UNCHANGED dsim
  /\ UNCHANGED <<mCustomizedEccList, ecclist, radioVars, recvVars, daddr, dnet, dexcused>>

(* The category is looked up for the address as it was dialled.            *)
DialCategory ==
  /\ dpc = "category"
  /\ sent' = <<[msg |-> "SET_ECC_SERVICE_CATEGORY",
                cat |-> getServiceCategoryFromEcc(dnet, mCustomizedEccList, daddr)]>>
  /\ dpc' = "emergency"
  /\ UNCHANGED <<mCustomizedEccList, ecclist, radioVars, recvVars, daddr, dnet, dsim, dexcused>>

DialEmergency ==
  /\ dpc = "emergency"
  /\ sent' = Append(sent, [msg |-> "EMERGENCY_DIAL"])
  /\ dpc' = "idle"
  /\ UNCHANGED <<mCustomizedEccList, ecclist, radioVars, recvVars, daddr, dnet, dsim, dexcused>>

-----------------------------------------------------------------------------
Receiver(i) == Receive(i) \/ RefreshRead(i) \/ RefreshWrite(i)

Dial == DialSim1 \/ DialSim2 \/ DialCategory \/ DialEmergency \/ \E a \in Address : DialBegin(a)

Next ==
  \/ \E i \in Sub :
       \/ Receiver(i)
       \/ \E list \in SimLists : VendorAnswer(i, list)
  \/ \E m \in NetLists : NetworkUpdate(m)
  \/ Dial

Spec == Init /\ [][Next]_vars

-----------------------------------------------------------------------------
(* Properties.                                                             *)

(* Properties, lists, positions and counters have their shapes, and a      *)
(* published list fits its property.                                       *)
TypeOK ==
  /\ mCustomizedEccList \in Seq(EccEntry)
  /\ ecclist \in [Sub -> Seq(Number)] /\ \A k \in Sub : Len(ecclist[k]) <= PropMax
  /\ netlist \in NetLists /\ dnet \in NetLists \cup {<<>>}
  /\ answers \in 0 .. MaxAnswers /\ replies \in [Sub -> 0 .. answers]
  /\ rpc \in [Sub -> {"idle", "read", "write"} \X Sub]
  /\ rlist \in [Sub -> Seq(Number)]
  /\ dpc \in {"idle", "sim1", "sim2", "category", "emergency"}
  /\ daddr \in Address /\ Len(sent) <= 2
  /\ sim \in [Sub -> SimLists \cup {<<>>}]
  /\ raced \subseteq Sub /\ {dsim, overflowed, refreshed, dexcused} \subseteq BOOLEAN

(* What updateEmergencyNumbersProperty is to publish for a slot: the       *)
(* numbers of its SIM, the customized numbers, and without a SIM also the  *)
(* customized numbers for that case.                                       *)
ToPublish(k) ==
  Range(sim[k]) \cup Range(FixedList(mCustomizedEccList))
    \cup (IF sim[k] = <<>> THEN Range(FixedListNoSim(mCustomizedEccList)) ELSE {})

Settled == refreshed /\ \A i \in Sub : rpc[i][1] = "idle" /\ replies[i] = 0

(* "Do our own updates afterwards" (MT6735.java:412): when the receivers   *)
(* have dealt with every answer, each property holds what it should.  Not  *)
(* true of the code: the vendor RIL may write a property between the read  *)
(* and the write of a refresh, and its list is then overwritten.           *)
UpdatesComeAfterwards ==
  Settled /\ ~overflowed => \A k \in Sub : Range(ecclist[k]) = ToPublish(k)

(* That race is the only way to a wrong list, and it lasts no longer than  *)
(* the vendor's next undisturbed answer: a slot it last wrote outside a    *)
(* refresh holds exactly what it should, although the refreshes of the two *)
(* receivers may overlap and refresh a slot again from its own output.     *)
(* "dedupe" (lines 358 and 373): at no time is a number in a list twice,   *)
(* unless the customized list has it twice for one of the two cases.       *)
ListsExact ==
  /\ IsInjective(FixedList(mCustomizedEccList)) /\ IsInjective(FixedListNoSim(mCustomizedEccList))
       => \A k \in Sub : IsInjective(ecclist[k])
  /\ Settled /\ ~overflowed => \A k \in Sub \ raced : Range(ecclist[k]) = ToPublish(k)

(* There is never half a list to be seen.  At every moment, in the middle  *)
(* of overlapping refreshes and after one that threw, a slot that does not *)
(* suffer from that race holds either the numbers of its SIM as the vendor *)
(* RIL wrote them or all that is to be published: a refresh takes no       *)
(* number away, and a list that does not fit leaves the old one alone.     *)
SlotWhole ==
  \A k \in Sub \ raced : Range(ecclist[k]) \in {Range(sim[k]), ToPublish(k)}

(* "dedupe", without that exception.  Not true of the code: removeAll does *)
(* not look into fixedList itself, and if the file has a CTA number first  *)
(* for the case without a SIM and then for always, parseEccList replaces   *)
(* the first entry and leaves the second.                                  *)
Deduped == \A k \in Sub : IsInjective(ecclist[k])

(* isEmergencyNumberExt recognises every customized number dialled while   *)
(* no SIM is present and no slot suffers from that race, at every moment   *)
(* of every refresh: its bSIMInserted only says that some list is not      *)
(* empty, but then the list holds the no-SIM numbers.                      *)
NoSimNumbersRecognised ==
  dpc = "idle" /\ sent = <<[msg |-> "DIAL"]>> /\ ~dexcused
    => \A e \in Range(mCustomizedEccList) : e.ecc # daddr.num

(* "Get the service category for the given ECC number" (line 292): the     *)
(* category sent is the one listed for the number dialled.  Not true of    *)
(* the code: dial passes the address with its separators.                  *)
CategoryOfNumber ==
  \A m \in Range(sent) :
    m.msg = "SET_ECC_SERVICE_CATEGORY" =>
      m.cat = getServiceCategoryFromEcc(dnet, mCustomizedEccList, extractNetworkPortionAlt(daddr))
=============================================================================

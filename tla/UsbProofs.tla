------------------------------- MODULE UsbProofs -------------------------------
(***************************************************************************)
(* Proofs about Usb, for every set of configurations and every length of   *)
(* the queue.                                                              *)
(***************************************************************************)
EXTENDS Usb, SequenceTheorems, TLAPS

-----------------------------------------------------------------------------
(* What the commands that are still to execute do to a node.               *)

Enables == {"enable_0", "enable_1"}
Loads == {"functions", "functions_mtp_adb", "functions_mtp"}
Classes == {"class_0", "class_02", "class_224"}
Cmodes == {"cmode_1", "cmode_2"}
Adbds == {"start_adbd", "stop_adbd"}
Sets == {"config", "charging_yes"}
Command == Enables \cup Loads \cup Classes \cup Cmodes \cup Adbds \cup Sets \cup {"state"}

(* None of the commands W is in r; the last of them is w; and either the   *)
(* last is w or there is none and ok holds already.                        *)
Free(r, W) == \A i \in 1 .. Len(r) : r[i] \notin W
Last(r, W, w) == \E p \in 1 .. Len(r) : r[p] = w /\ \A i \in 1 .. Len(r) : i > p => r[i] \notin W
Ends(r, W, w, ok) == Last(r, W, w) \/ (Free(r, W) /\ ok)

(* Functions are written now, or right after the gadget is disabled; and   *)
(* they are the functions of c.                                            *)
LoadsNow(r) == 1 \in 1 .. Len(r) /\ r[1] \in Loads
LoadsLater(r) == \E i \in 2 .. Len(r) : r[i - 1] = "enable_0" /\ r[i] \in Loads
LoadsOnly(r, c) ==
  \A i \in 1 .. Len(r) : r[i] \in Loads => \/ r[i] = "functions"
                                           \/ r[i] = "functions_mtp_adb" /\ c = {"mtp", "adb"}
LoadsMtp(r) == \A i \in 1 .. Len(r) : r[i] \in Loads => r[i] = "functions_mtp"

Class(c) == CASE c = {"acm"} -> 2 [] c = {"rndis"} -> 224 [] OTHER -> 0
ClassOf(c) == CASE c = {"acm"} -> "class_02" [] c = {"rndis"} -> "class_224" [] OTHER -> "class_0"

-----------------------------------------------------------------------------
(* The inductive invariant.                                                *)

(* The shapes; what init sets itself is the last command of a trigger, so  *)
(* it needs one place in the queue, which taking the event has left.       *)
Shape ==
  /\ config \in Config \cup {None} /\ state \in Config \cup {None} /\ persist \in Config
  /\ charging \in {"unset", "yes", "no"}
  /\ enable \in BOOLEAN /\ adbd \in BOOLEAN /\ raced \in BOOLEAN /\ skipped \in BOOLEAN
  /\ functions \in Supported /\ bDeviceClass \in {0, 2, 224} /\ cmode \in {1, 2}
  /\ queue \in Seq(Events) /\ running \in Seq(Command)
  /\ Len(queue) <= MaxQueue + 1 /\ Len(running) <= 12
  /\ fpc \in {"idle", "none", "wait"} /\ target \in Config \cup {None}
  /\ \A i \in 1 .. Len(running) : running[i] \in Sets => i = Len(running) /\ Len(queue) <= MaxQueue

(* The last event of each property that waits has its present value.       *)
Latest ==
  \A i \in 1 .. Len(queue) :
    (\A j \in 1 .. Len(queue) : j > i => queue[j].prop # queue[i].prop) =>
      /\ queue[i].prop = "config" => queue[i].val = config
      /\ queue[i].prop = "charging" => queue[i].val = charging

Waits(prop) == \E i \in 1 .. Len(queue) : queue[i].prop = prop

(* No event of sys.usb.config waits: what is left of the running trigger   *)
(* brings the nodes to what the configuration asks for.                    *)
Settles ==
  ~Waits("config") /\ ~raced /\ config # Charging =>
    /\ Ends(running, {"state"}, "state", state = config)
    /\ IF config = None
       THEN Ends(running, Enables, "enable_0", ~enable)
       ELSE /\ Ends(running, Enables, "enable_1", enable)
            /\ LoadsOnly(running, config)
            /\ (~enable /\ LoadsNow(running)) \/ LoadsLater(running) \/ functions = config
    /\ Ends(running, Cmodes, "cmode_1", cmode = 1)

YesComes ==
  \/ \E i \in 1 .. Len(running) : running[i] = "charging_yes"
  \/ \E i \in 1 .. Len(queue) : queue[i] = Event("charging", "yes")
ChargingComes ==
  (\E i \in 1 .. Len(running) : running[i] = "charging_yes") \/ Waits("charging")

(* Charging takes one more event.                                          *)
SettlesCharging ==
  ~Waits("config") /\ config = Charging =>
    /\ Ends(running, {"state"}, "state", state = config)
    /\ ~YesComes => /\ Ends(running, Enables, "enable_1", enable)
                    /\ LoadsMtp(running)
                    /\ (~enable /\ LoadsNow(running)) \/ LoadsLater(running) \/ functions = {"mtp"}
    /\ ~ChargingComes => IF charging = "yes" THEN Ends(running, Cmodes, "cmode_2", cmode = 2)
                                             ELSE Ends(running, Cmodes, "cmode_1", cmode = 1)

(* What a configuration needs is started.                                  *)
Starts ==
  ~Waits("config") =>
    /\ "adb" \in config => Ends(running, Adbds, "start_adbd", adbd)
    /\ Class(config) # 0 => Ends(running, Classes, ClassOf(config), bDeviceClass = Class(config))

(* What another one needed is gone.                                        *)
Clean(c) ==
  /\ "adb" \notin c => Ends(running, Adbds, "stop_adbd", ~adbd)
  /\ \/ Ends(running, Classes, "class_0", bDeviceClass = 0)
     \/ Ends(running, Classes, ClassOf(c), bDeviceClass = Class(c))

(* After event i only the present configuration waits.                     *)
Since(i) ==
  \A j \in 1 .. Len(queue) : j > i /\ queue[j].prop = "config" => queue[j].val = config /\ config # None

(* If none was not skipped, it is still to come or everything is clean.    *)
Cleans ==
  ~skipped => \/ \E i \in 1 .. Len(queue) : queue[i] = Event("config", None) /\ Since(i)
              \/ Since(0) /\ Clean(config)

IInv == Shape /\ Latest /\ Settles /\ SettlesCharging /\ Starts /\ Cleans

-----------------------------------------------------------------------------
(* Sequences.                                                              *)

(* What is left of a sequence after its first element.                     *)
LEMMA TailOf ==
  ASSUME NEW T, NEW r \in Seq(T), r # <<>>
  PROVE  /\ Len(r) \in Nat \ {0} /\ Head(r) = r[1] /\ Head(r) \in T
         /\ Tail(r) \in Seq(T) /\ Len(Tail(r)) = Len(r) - 1
         /\ \A i \in 1 .. Len(Tail(r)) : i + 1 \in 1 .. Len(r) /\ Tail(r)[i] = r[i + 1]
         /\ \A i \in 1 .. Len(r) : i > 1 => i - 1 \in 1 .. Len(Tail(r)) /\ Tail(r)[i - 1] = r[i]
<1>1. Len(r) \in Nat \ {0}
  BY EmptySeq
<1>2. Head(r) = r[1] /\ r[1] \in T /\ Tail(r) \in Seq(T) /\ Len(Tail(r)) = Len(r) - 1
  BY <1>1, HeadTailProperties
<1>3. \A i \in 1 .. Len(r) - 1 : Tail(r)[i] = r[i + 1]
  BY HeadTailProperties
<1> QED BY <1>1, <1>2, <1>3

(* Executing a command that is not the last of its kind, the last one, or  *)
(* one of another kind.                                                    *)
LEMMA TailEnds ==
  ASSUME NEW r \in Seq(Command), r # <<>>, NEW W, NEW w
  PROVE  /\ Free(r, W) => Head(r) \notin W /\ Free(Tail(r), W)
         /\ Last(r, W, w) => Last(Tail(r), W, w) \/ (Head(r) = w /\ Free(Tail(r), W))
<1> USE TailOf
<1>1. Free(r, W) => Head(r) \notin W /\ Free(Tail(r), W)
  BY DEF Free
<1>2. ASSUME NEW p \in 1 .. Len(r), r[p] = w, \A i \in 1 .. Len(r) : i > p => r[i] \notin W
      PROVE  Last(Tail(r), W, w) \/ (Head(r) = w /\ Free(Tail(r), W))
  <2>1. CASE p = 1
    BY <1>2, <2>1 DEF Free
  <2>2. CASE p > 1
    <3>1. p - 1 \in 1 .. Len(Tail(r)) /\ Tail(r)[p - 1] = w
      BY <1>2, <2>2
    <3>2. \A i \in 1 .. Len(Tail(r)) : i > p - 1 => Tail(r)[i] \notin W
      BY <1>2
    <3> QED BY <3>1, <3>2, Zenon DEF Last
  <2> QED BY <2>1, <2>2
<1> QED BY <1>1, <1>2 DEF Last

(* Executing a command, and the functions that are still to be written.    *)
LEMMA TailLoads ==
  ASSUME NEW r \in Seq(Command), r # <<>>, NEW c
  PROVE  /\ LoadsOnly(r, c) => LoadsOnly(Tail(r), c)
         /\ LoadsMtp(r) => LoadsMtp(Tail(r))
         /\ LoadsNow(r) => Head(r) \in Loads
         /\ LoadsLater(r) => LoadsLater(Tail(r)) \/ (Head(r) = "enable_0" /\ LoadsNow(Tail(r)))
<1> DEFINE q == Tail(r)
<1>0. /\ Len(r) \in Nat \ {0} /\ Head(r) = r[1] /\ Len(q) = Len(r) - 1
      /\ \A i \in 1 .. Len(q) : i + 1 \in 1 .. Len(r) /\ q[i] = r[i + 1]
      /\ \A i \in 1 .. Len(r) : i > 1 => i - 1 \in 1 .. Len(q) /\ q[i - 1] = r[i]
  BY TailOf
<1> HIDE DEF q
<1>1. LoadsOnly(r, c) => LoadsOnly(q, c)
  BY <1>0, Zenon DEF LoadsOnly
<1>2. LoadsMtp(r) => LoadsMtp(q)
  BY <1>0, Zenon DEF LoadsMtp
<1>3. LoadsNow(r) => Head(r) \in Loads
  BY <1>0 DEF LoadsNow
<1>4. ASSUME NEW i \in 2 .. Len(r), r[i - 1] = "enable_0", r[i] \in Loads
      PROVE  LoadsLater(q) \/ (Head(r) = "enable_0" /\ LoadsNow(q))
  <2>1. i - 1 \in 1 .. Len(q) /\ q[i - 1] \in Loads
    BY <1>0, <1>4
  <2>2. CASE i = 2
    BY <1>0, <1>4, <2>1, <2>2 DEF LoadsNow
  <2>3. CASE i > 2
    <3>1. i - 1 \in 2 .. Len(q) /\ q[(i - 1) - 1] = r[i - 1]
      BY <1>0, <2>3
    <3> QED BY <1>4, <2>1, <3>1 DEF LoadsLater
  <2> QED BY <2>2, <2>3
<1> QED BY <1>1, <1>2, <1>3, <1>4 DEF q, LoadsLater

(* Nothing is left.                                                        *)
LEMMA NothingLeft ==
  ~LoadsNow(<<>>) /\ ~LoadsLater(<<>>) /\ \A W, w : Free(<<>>, W) /\ ~Last(<<>>, W, w)
BY DEF Free, Last, LoadsNow, LoadsLater

-----------------------------------------------------------------------------
(* The triggers.                                                           *)

(* The configurations, as far as the triggers tell them apart.             *)
LEMMA Configs ==
  /\ {} \in Supported /\ {"mtp"} \in Supported /\ {"mtp", "adb"} \in Supported
  /\ \A c \in Supported : c = Charging \/ "charging" \notin c
<1> DEFINE B == {{}, {"mtp"}, {"ptp"}, {"rndis"}, {"mass_storage"},
                 {"mtp", "mass_storage"}, {"ptp", "mass_storage"}}
           X == SUBSET {"adb", "acm"}
           A == (SUBSET Accessory) \ {{}}
           Y == SUBSET {"adb"}
<1>1. Supported = {b \cup x : b \in B, x \in X} \cup {a \cup x : a \in A, x \in Y} \cup {Charging}
  BY DEF Supported
<1>2. {} \in B /\ {"mtp"} \in B /\ {} \in X /\ {"adb"} \in X
  OBVIOUS
<1>3. /\ \A b \in B : "charging" \notin b
      /\ \A x \in X : "charging" \notin x
      /\ \A a \in A : "charging" \notin a
      /\ \A x \in Y : "charging" \notin x
  BY DEF Accessory
<1> HIDE DEF B, X, A, Y
<1>4. \A b \in B, x \in X : b \cup x \in Supported
  BY <1>1
<1>5. {} \cup {} \in Supported /\ {"mtp"} \cup {} \in Supported /\ {"mtp"} \cup {"adb"} \in Supported
  BY <1>2, <1>4, Zenon
<1>6. {} \cup {} = {} /\ {"mtp"} \cup {} = {"mtp"} /\ {"mtp"} \cup {"adb"} = {"mtp", "adb"}
  OBVIOUS
<1>7. ASSUME NEW c \in Supported PROVE c = Charging \/ "charging" \notin c
  BY <1>1, <1>3
<1> QED BY <1>5, <1>6, <1>7

(* The five forms of a trigger that configures functions.                  *)
LEMMA Forms ==
  ASSUME NEW c, NEW r, r = Configure(c)
  PROVE  /\ r \in Seq(Command)
         /\ c = {"mtp", "adb"} =>
              /\ Len(r) = 6 /\ r[1] = "enable_0" /\ r[2] = "functions_mtp_adb" /\ r[3] = "enable_1"
              /\ r[4] = "cmode_1" /\ r[5] = "start_adbd" /\ r[6] = "state"
         /\ c = {"acm"} =>
              /\ Len(r) = 6 /\ r[1] = "enable_0" /\ r[2] = "functions" /\ r[3] = "class_02"
              /\ r[4] = "enable_1" /\ r[5] = "cmode_1" /\ r[6] = "state"
         /\ c = {"rndis"} =>
              /\ Len(r) = 6 /\ r[1] = "enable_0" /\ r[2] = "functions" /\ r[3] = "class_224"
              /\ r[4] = "enable_1" /\ r[5] = "cmode_1" /\ r[6] = "state"
         /\ "adb" \in c /\ c # {"mtp", "adb"} =>
              /\ Len(r) = 6 /\ r[1] = "enable_0" /\ r[2] = "functions" /\ r[3] = "enable_1"
              /\ r[4] = "cmode_1" /\ r[5] = "start_adbd" /\ r[6] = "state"
         /\ "adb" \notin c /\ c # {"acm"} /\ c # {"rndis"} =>
              /\ Len(r) = 5 /\ r[1] = "enable_0" /\ r[2] = "functions" /\ r[3] = "enable_1"
              /\ r[4] = "cmode_1" /\ r[5] = "state"
<1>1. {"mtp", "adb"} # {"acm"} /\ {"mtp", "adb"} # {"rndis"} /\ {"acm"} # {"rndis"}
      /\ "adb" \notin {"acm"} /\ "adb" \notin {"rndis"} /\ "adb" \in {"mtp", "adb"}
  OBVIOUS
<1>2. CASE c = {"mtp", "adb"}
  <2>1. /\ Functions(c) = <<"functions_mtp_adb">>
        /\ DeviceClass(c) = <<>> /\ StartAdbd(c) = <<"start_adbd">>
    BY <1>1, <1>2 DEF Functions, DeviceClass, StartAdbd
  <2>2. r = <<"enable_0">> \o <<"functions_mtp_adb">> \o <<>>
            \o <<"enable_1", "cmode_1">> \o <<"start_adbd">> \o <<"state">>
    BY <2>1, Zenon DEF Configure
  <2>3. /\ Len(r) = 6 /\ r[1] = "enable_0" /\ r[2] = "functions_mtp_adb" /\ r[3] = "enable_1"
        /\ r[4] = "cmode_1" /\ r[5] = "start_adbd" /\ r[6] = "state"
    BY <2>2
  <2>4. r \in Seq(Command)
    BY <2>2 DEF Command, Enables, Loads, Classes, Cmodes, Adbds
  <2> QED BY <1>1, <1>2, <2>3, <2>4, Zenon
<1>3. CASE c = {"acm"}
  <2>1. Functions(c) = <<"functions">> /\ DeviceClass(c) = <<"class_02">> /\ StartAdbd(c) = <<>>
    BY <1>1, <1>3 DEF Functions, DeviceClass, StartAdbd
  <2>2. r = <<"enable_0">> \o <<"functions">> \o <<"class_02">>
            \o <<"enable_1", "cmode_1">> \o <<>> \o <<"state">>
    BY <2>1, Zenon DEF Configure
  <2>3. /\ Len(r) = 6 /\ r[1] = "enable_0" /\ r[2] = "functions" /\ r[3] = "class_02"
        /\ r[4] = "enable_1" /\ r[5] = "cmode_1" /\ r[6] = "state"
    BY <2>2
  <2>4. r \in Seq(Command)
    BY <2>2 DEF Command, Enables, Loads, Classes, Cmodes, Adbds
  <2> QED BY <1>1, <1>3, <2>3, <2>4, Zenon
<1>4. CASE c = {"rndis"}
  <2>1. Functions(c) = <<"functions">> /\ DeviceClass(c) = <<"class_224">> /\ StartAdbd(c) = <<>>
    BY <1>1, <1>4 DEF Functions, DeviceClass, StartAdbd
  <2>2. r = <<"enable_0">> \o <<"functions">> \o <<"class_224">>
            \o <<"enable_1", "cmode_1">> \o <<>> \o <<"state">>
    BY <2>1, Zenon DEF Configure
  <2>3. /\ Len(r) = 6 /\ r[1] = "enable_0" /\ r[2] = "functions" /\ r[3] = "class_224"
        /\ r[4] = "enable_1" /\ r[5] = "cmode_1" /\ r[6] = "state"
    BY <2>2
  <2>4. r \in Seq(Command)
    BY <2>2 DEF Command, Enables, Loads, Classes, Cmodes, Adbds
  <2> QED BY <1>1, <1>4, <2>3, <2>4, Zenon
<1>5. CASE "adb" \in c /\ c # {"mtp", "adb"}
  <2>1. Functions(c) = <<"functions">> /\ DeviceClass(c) = <<>> /\ StartAdbd(c) = <<"start_adbd">>
    BY <1>1, <1>5 DEF Functions, DeviceClass, StartAdbd
  <2>2. r = <<"enable_0">> \o <<"functions">> \o <<>>
            \o <<"enable_1", "cmode_1">> \o <<"start_adbd">> \o <<"state">>
    BY <2>1, Zenon DEF Configure
  <2>3. /\ Len(r) = 6 /\ r[1] = "enable_0" /\ r[2] = "functions" /\ r[3] = "enable_1"
        /\ r[4] = "cmode_1" /\ r[5] = "start_adbd" /\ r[6] = "state"
    BY <2>2
  <2>4. r \in Seq(Command)
    BY <2>2 DEF Command, Enables, Loads, Classes, Cmodes, Adbds
  <2> QED BY <1>1, <1>5, <2>3, <2>4, Zenon
<1>6. CASE "adb" \notin c /\ c # {"acm"} /\ c # {"rndis"}
  <2>1. Functions(c) = <<"functions">> /\ DeviceClass(c) = <<>> /\ StartAdbd(c) = <<>>
    BY <1>1, <1>6 DEF Functions, DeviceClass, StartAdbd
  <2>2. r = <<"enable_0">> \o <<"functions">> \o <<>>
            \o <<"enable_1", "cmode_1">> \o <<>> \o <<"state">>
    BY <2>1, Zenon DEF Configure
  <2>3. /\ Len(r) = 5 /\ r[1] = "enable_0" /\ r[2] = "functions" /\ r[3] = "enable_1"
        /\ r[4] = "cmode_1" /\ r[5] = "state"
    BY <2>2
  <2>4. r \in Seq(Command)
    BY <2>2 DEF Command, Enables, Loads, Classes, Cmodes, Adbds
  <2> QED BY <1>1, <1>6, <2>3, <2>4, Zenon
<1> QED BY <1>2, <1>3, <1>4, <1>5, <1>6

(* What a trigger that configures the functions of c does.                 *)
Configures(c, r) ==
  /\ r \in Seq(Command) /\ Free(r, Sets)
  /\ Last(r, {"state"}, "state") /\ Last(r, Enables, "enable_1") /\ Last(r, Cmodes, "cmode_1")
  /\ LoadsOnly(r, c) /\ LoadsLater(r)
  /\ IF "adb" \in c THEN Last(r, Adbds, "start_adbd") ELSE Free(r, Adbds)
  /\ IF Class(c) # 0 THEN Last(r, Classes, ClassOf(c)) ELSE Free(r, Classes)

(* The classes of the configurations.                                      *)
LEMMA ClassFacts ==
  ASSUME NEW c
  PROVE  /\ c = {"acm"} => Class(c) = 2 /\ ClassOf(c) = "class_02"
         /\ c = {"rndis"} => Class(c) = 224 /\ ClassOf(c) = "class_224"
         /\ c # {"acm"} /\ c # {"rndis"} => Class(c) = 0 /\ ClassOf(c) = "class_0"
<1>1. {"acm"} # {"rndis"}
  OBVIOUS
<1> QED BY <1>1 DEF Class, ClassOf

(* Each of the five forms does.                                            *)
LEMMA ConfigureDoes ==
  ASSUME NEW c
  PROVE  Configures(c, Configure(c)) /\ Len(Configure(c)) <= 6
<1> DEFINE r == Configure(c)
<1>0. {"mtp", "adb"} # {"acm"} /\ {"mtp", "adb"} # {"rndis"} /\ {"acm"} # {"rndis"}
      /\ "adb" \notin {"acm"} /\ "adb" \notin {"rndis"} /\ "adb" \in {"mtp", "adb"}
  OBVIOUS
<1>1. r \in Seq(Command)
  BY Forms
<1> USE DEF Enables, Loads, Classes, Cmodes, Adbds, Sets
<1>2. CASE c = {"mtp", "adb"}
  <2>1. /\ Len(r) = 6 /\ r[1] = "enable_0" /\ r[2] = "functions_mtp_adb" /\ r[3] = "enable_1"
        /\ r[4] = "cmode_1" /\ r[5] = "start_adbd" /\ r[6] = "state"
    BY <1>2, Forms
  <2> HIDE DEF r
  <2>2. Last(r, {"state"}, "state") BY <2>1 DEF Last
  <2>3. Last(r, Enables, "enable_1") BY <2>1 DEF Last
  <2>4. Last(r, Cmodes, "cmode_1") BY <2>1 DEF Last
  <2>5. LoadsOnly(r, c) /\ LoadsLater(r) BY <1>2, <2>1 DEF LoadsOnly, LoadsLater
  <2>6. Last(r, Adbds, "start_adbd") BY <2>1 DEF Last
  <2>7. Free(r, Classes) BY <2>1 DEF Free
  <2>8. Free(r, Sets) BY <2>1 DEF Free
  <2>9. "adb" \in c /\ Class(c) = 0 BY <1>0, <1>2, ClassFacts
  <2>10. Configures(c, r)
    BY <1>1, <2>2, <2>3, <2>4, <2>5, <2>6, <2>7, <2>8, <2>9, Zenon DEF Configures, r
  <2> QED BY <2>1, <2>10 DEF r
<1>3. CASE c = {"acm"}
  <2>1. /\ Len(r) = 6 /\ r[1] = "enable_0" /\ r[2] = "functions" /\ r[3] = "class_02"
        /\ r[4] = "enable_1" /\ r[5] = "cmode_1" /\ r[6] = "state"
    BY <1>3, Forms
  <2> HIDE DEF r
  <2>2. Last(r, {"state"}, "state") BY <2>1 DEF Last
  <2>3. Last(r, Enables, "enable_1") BY <2>1 DEF Last
  <2>4. Last(r, Cmodes, "cmode_1") BY <2>1 DEF Last
  <2>5. LoadsOnly(r, c) /\ LoadsLater(r) BY <1>3, <2>1 DEF LoadsOnly, LoadsLater
  <2>6. Free(r, Adbds) BY <2>1 DEF Free
  <2>7. Last(r, Classes, "class_02") BY <2>1 DEF Last
  <2>8. Free(r, Sets) BY <2>1 DEF Free
  <2>9. "adb" \notin c /\ Class(c) # 0 /\ ClassOf(c) = "class_02" BY <1>0, <1>3, ClassFacts
  <2>10. Configures(c, r)
    BY <1>1, <2>2, <2>3, <2>4, <2>5, <2>6, <2>7, <2>8, <2>9, Zenon DEF Configures, r
  <2> QED BY <2>1, <2>10 DEF r
<1>4. CASE c = {"rndis"}
  <2>1. /\ Len(r) = 6 /\ r[1] = "enable_0" /\ r[2] = "functions" /\ r[3] = "class_224"
        /\ r[4] = "enable_1" /\ r[5] = "cmode_1" /\ r[6] = "state"
    BY <1>4, Forms
  <2> HIDE DEF r
  <2>2. Last(r, {"state"}, "state") BY <2>1 DEF Last
  <2>3. Last(r, Enables, "enable_1") BY <2>1 DEF Last
  <2>4. Last(r, Cmodes, "cmode_1") BY <2>1 DEF Last
  <2>5. LoadsOnly(r, c) /\ LoadsLater(r) BY <1>4, <2>1 DEF LoadsOnly, LoadsLater
  <2>6. Free(r, Adbds) BY <2>1 DEF Free
  <2>7. Last(r, Classes, "class_224") BY <2>1 DEF Last
  <2>8. Free(r, Sets) BY <2>1 DEF Free
  <2>9. "adb" \notin c /\ Class(c) # 0 /\ ClassOf(c) = "class_224" BY <1>0, <1>4, ClassFacts
  <2>10. Configures(c, r)
    BY <1>1, <2>2, <2>3, <2>4, <2>5, <2>6, <2>7, <2>8, <2>9, Zenon DEF Configures, r
  <2> QED BY <2>1, <2>10 DEF r
<1>5. CASE "adb" \in c /\ c # {"mtp", "adb"}
  <2>1. /\ Len(r) = 6 /\ r[1] = "enable_0" /\ r[2] = "functions" /\ r[3] = "enable_1"
        /\ r[4] = "cmode_1" /\ r[5] = "start_adbd" /\ r[6] = "state"
    BY <1>5, Forms
  <2> HIDE DEF r
  <2>2. Last(r, {"state"}, "state") BY <2>1 DEF Last
  <2>3. Last(r, Enables, "enable_1") BY <2>1 DEF Last
  <2>4. Last(r, Cmodes, "cmode_1") BY <2>1 DEF Last
  <2>5. LoadsOnly(r, c) /\ LoadsLater(r) BY <1>5, <2>1 DEF LoadsOnly, LoadsLater
  <2>6. Last(r, Adbds, "start_adbd") BY <2>1 DEF Last
  <2>7. Free(r, Classes) BY <2>1 DEF Free
  <2>8. Free(r, Sets) BY <2>1 DEF Free
  <2>9. "adb" \in c /\ Class(c) = 0 BY <1>0, <1>5, ClassFacts
  <2>10. Configures(c, r)
    BY <1>1, <2>2, <2>3, <2>4, <2>5, <2>6, <2>7, <2>8, <2>9, Zenon DEF Configures, r
  <2> QED BY <2>1, <2>10 DEF r
<1>6. CASE "adb" \notin c /\ c # {"acm"} /\ c # {"rndis"}
  <2>1. /\ Len(r) = 5 /\ r[1] = "enable_0" /\ r[2] = "functions" /\ r[3] = "enable_1"
        /\ r[4] = "cmode_1" /\ r[5] = "state"
    BY <1>6, Forms
  <2> HIDE DEF r
  <2>2. Last(r, {"state"}, "state") BY <2>1 DEF Last
  <2>3. Last(r, Enables, "enable_1") BY <2>1 DEF Last
  <2>4. Last(r, Cmodes, "cmode_1") BY <2>1 DEF Last
  <2>5. LoadsOnly(r, c) /\ LoadsLater(r) BY <1>6, <2>1 DEF LoadsOnly, LoadsLater
  <2>6. Free(r, Adbds) BY <2>1 DEF Free
  <2>7. Free(r, Classes) BY <2>1 DEF Free
  <2>8. Free(r, Sets) BY <2>1 DEF Free
  <2>9. "adb" \notin c /\ Class(c) = 0 BY <1>0, <1>6, ClassFacts
  <2>10. Configures(c, r)
    BY <1>1, <2>2, <2>3, <2>4, <2>5, <2>6, <2>7, <2>8, <2>9, Zenon DEF Configures, r
  <2> QED BY <2>1, <2>10 DEF r
<1> QED BY <1>2, <1>3, <1>4, <1>5, <1>6

(* ... and so does one followed by the same again.                         *)
LEMMA ConfigureTwice ==
  ASSUME NEW c, NEW x, Configures(c, x), NEW r, r = x \o x
  PROVE  Configures(c, r) /\ Len(r) = Len(x) + Len(x)
<1>1. x \in Seq(Command)
  BY DEF Configures
<1>2. /\ r \in Seq(Command) /\ Len(x) \in Nat /\ Len(r) = Len(x) + Len(x)
      /\ \A i \in 1 .. Len(r) : r[i] = IF i <= Len(x) THEN x[i] ELSE x[i - Len(x)]
  BY <1>1, ConcatProperties
<1>3. /\ \A i \in 1 .. Len(r) : \E j \in 1 .. Len(x) : r[i] = x[j]
      /\ \A j \in 1 .. Len(x) : j \in 1 .. Len(r) /\ r[j] = x[j]
      /\ \A j \in 1 .. Len(x) : j + Len(x) \in 1 .. Len(r) /\ r[j + Len(x)] = x[j]
  BY <1>2
<1>4. ASSUME NEW W, Free(x, W) PROVE Free(r, W)
  BY <1>3, <1>4, Zenon DEF Free
<1>5. ASSUME NEW W, NEW w, Last(x, W, w) PROVE Last(r, W, w)
  <2>1. PICK p \in 1 .. Len(x) : x[p] = w /\ \A i \in 1 .. Len(x) : i > p => x[i] \notin W
    BY <1>5 DEF Last
  <2>2. p + Len(x) \in 1 .. Len(r) /\ r[p + Len(x)] = w
    BY <1>3, <2>1
  <2>3. ASSUME NEW i \in 1 .. Len(r), i > p + Len(x) PROVE r[i] \notin W
    <3>1. i - Len(x) \in 1 .. Len(x) /\ i - Len(x) > p /\ r[i] = x[i - Len(x)]
      BY <1>2, <2>3
    <3> QED BY <2>1, <3>1, Zenon
  <2> QED BY <2>2, <2>3, Zenon DEF Last
<1>6. LoadsOnly(r, c)
  BY <1>3, Zenon DEF LoadsOnly, Configures
<1>7. LoadsLater(r)
  <2>1. PICK i \in 2 .. Len(x) : x[i - 1] = "enable_0" /\ x[i] \in Loads
    BY DEF Configures, LoadsLater
  <2>2. i \in 1 .. Len(x) /\ i - 1 \in 1 .. Len(x) /\ i \in 2 .. Len(r)
    BY <1>2
  <2>3. r[i - 1] = x[i - 1] /\ r[i] = x[i]
    BY <1>3, <2>2, Zenon
  <2> QED BY <2>1, <2>2, <2>3, Zenon DEF LoadsLater
<1>8. /\ Free(r, Sets) /\ Last(r, {"state"}, "state") /\ Last(r, Enables, "enable_1")
      /\ Last(r, Cmodes, "cmode_1")
  BY <1>4, <1>5, Zenon DEF Configures
<1>9. IF "adb" \in c THEN Last(r, Adbds, "start_adbd") ELSE Free(r, Adbds)
  BY <1>4, <1>5, Zenon DEF Configures
<1>10. IF Class(c) # 0 THEN Last(r, Classes, ClassOf(c)) ELSE Free(r, Classes)
  BY <1>4, <1>5, Zenon DEF Configures
<1> QED BY <1>2, <1>6, <1>7, <1>8, <1>9, <1>10, Zenon DEF Configures

(* A configuration with functions is configured by one file or by both.    *)
LEMMA ConfigTriggers ==
  ASSUME NEW c \in Config, c # Charging, NEW r, r = Triggered(Event("config", c))
  PROVE  Configures(c, r) /\ Len(r) <= 12
<1> DEFINE x == Configure(c)
<1>1. Configures(c, x) /\ Len(x) \in Nat /\ Len(x) <= 6 /\ x \in Seq(Command)
  BY ConfigureDoes DEF Configures
<1>2. c # None
  BY ConfigAssumption
<1>3. r = InitUsbRc(c) \o InitMt6735UsbRc(c)
  BY DEF Triggered, Event
<1> HIDE DEF x
<1>4. CASE c = {"adb"}
  <2>1. InitUsbRc(c) = x /\ InitMt6735UsbRc(c) = x
    <3>1. {"adb"} # Charging /\ {"adb"} # None /\ {"adb"} \cap Accessory = {}
      BY DEF Charging, None, Accessory
    <3> QED BY <1>4, <3>1 DEF InitUsbRc, InitMt6735UsbRc, x
  <2>2. r = x \o x
    BY <1>3, <2>1
  <2>3. Configures(c, r) /\ Len(r) = Len(x) + Len(x)
    BY <1>1, <2>2, ConfigureTwice
  <2> QED BY <1>1, <2>3
<1>5. CASE c # {"adb"} /\ c \cap Accessory # {}
  <2>1. InitUsbRc(c) = x /\ InitMt6735UsbRc(c) = <<>>
    BY <1>2, <1>5 DEF InitUsbRc, InitMt6735UsbRc, x
  <2>2. r = x
    BY <1>1, <1>3, <2>1, ConcatEmptySeq
  <2> QED BY <1>1, <2>2
<1>6. CASE c # {"adb"} /\ c \cap Accessory = {}
  <2>1. InitUsbRc(c) = <<>> /\ InitMt6735UsbRc(c) = x
    BY <1>2, <1>6 DEF InitUsbRc, InitMt6735UsbRc, x
  <2>2. r = x
    BY <1>1, <1>3, <2>1, ConcatEmptySeq
  <2> QED BY <1>1, <2>2
<1> QED BY <1>4, <1>5, <1>6

(* The names of the commands.                                              *)
LEMMA Commands ==
  /\ "enable_0" \in Command /\ "enable_1" \in Command /\ "functions_mtp" \in Command
  /\ "class_0" \in Command /\ "cmode_1" \in Command /\ "cmode_2" \in Command
  /\ "stop_adbd" \in Command /\ "state" \in Command
  /\ "config" \in Command /\ "charging_yes" \in Command
BY DEF Command, Enables, Loads, Classes, Cmodes, Adbds, Sets

(* Where the last command of a kind is.                                    *)
LEMMA LastAt ==
  ASSUME NEW r, NEW W, NEW w, NEW p \in 1 .. Len(r), r[p] = w,
         \A i \in 1 .. Len(r) : i > p => r[i] \notin W
  PROVE  Last(r, W, w)
BY Zenon DEF Last

(* None, in both files.                                                    *)
LEMMA NoneList ==
  ASSUME NEW r,
         Len(r) = 9, r[1] = "stop_adbd", r[2] = "enable_0", r[3] = "class_0", r[4] = "state",
         r[5] = "stop_adbd", r[6] = "enable_0", r[7] = "class_0", r[8] = "cmode_1", r[9] = "state"
  PROVE  /\ Free(r, Sets)
         /\ Last(r, {"state"}, "state") /\ Last(r, Enables, "enable_0")
         /\ Last(r, Cmodes, "cmode_1") /\ Last(r, Adbds, "stop_adbd") /\ Last(r, Classes, "class_0")
<1> USE DEF Enables, Loads, Classes, Cmodes, Adbds, Sets
<1>4. Free(r, Sets) BY DEF Free
<1>5. Last(r, {"state"}, "state")
  <2>1. 9 \in 1 .. Len(r) /\ r[9] = "state" /\ \A i \in 1 .. Len(r) : i > 9 => r[i] \notin {"state"}
    OBVIOUS
  <2> QED BY <2>1, LastAt, Zenon
<1>6. Last(r, Enables, "enable_0")
  <2>1. 6 \in 1 .. Len(r) /\ r[6] = "enable_0" /\ \A i \in 1 .. Len(r) : i > 6 => r[i] \notin Enables
    OBVIOUS
  <2> QED BY <2>1, LastAt, Zenon
<1>7. Last(r, Cmodes, "cmode_1")
  <2>1. 8 \in 1 .. Len(r) /\ r[8] = "cmode_1" /\ \A i \in 1 .. Len(r) : i > 8 => r[i] \notin Cmodes
    OBVIOUS
  <2> QED BY <2>1, LastAt, Zenon
<1>8. Last(r, Adbds, "stop_adbd")
  <2>1. 5 \in 1 .. Len(r) /\ r[5] = "stop_adbd" /\ \A i \in 1 .. Len(r) : i > 5 => r[i] \notin Adbds
    OBVIOUS
  <2> QED BY <2>1, LastAt, Zenon
<1>9. Last(r, Classes, "class_0")
  <2>1. 7 \in 1 .. Len(r) /\ r[7] = "class_0" /\ \A i \in 1 .. Len(r) : i > 7 => r[i] \notin Classes
    OBVIOUS
  <2> QED BY <2>1, LastAt, Zenon
<1> QED BY <1>4, <1>5, <1>6, <1>7, <1>8, <1>9, Zenon

(* The two triggers of none, one after the other.                          *)
LEMMA NoneTriggers ==
  ASSUME NEW r, r = NoneUsb \o NoneMt6735
  PROVE  /\ r \in Seq(Command) /\ Len(r) <= 12 /\ Free(r, Sets)
         /\ Last(r, {"state"}, "state") /\ Last(r, Enables, "enable_0")
         /\ Last(r, Cmodes, "cmode_1") /\ Last(r, Adbds, "stop_adbd") /\ Last(r, Classes, "class_0")
<1>1. r \in Seq(Command)
  BY Commands DEF NoneUsb, NoneMt6735
<1>2. /\ Len(r) = 9 /\ r[1] = "stop_adbd" /\ r[2] = "enable_0" /\ r[3] = "class_0" /\ r[4] = "state"
      /\ r[5] = "stop_adbd" /\ r[6] = "enable_0" /\ r[7] = "class_0" /\ r[8] = "cmode_1"
      /\ r[9] = "state"
  BY DEF NoneUsb, NoneMt6735
<1>3. Len(r) <= 12
  BY <1>2
<1> QED BY <1>1, <1>2, <1>3, NoneList, Zenon

(* Charging, and the three triggers of other properties.                   *)
LEMMA ChargingTriggers ==
  ASSUME NEW r, r = OnCharging
  PROVE  /\ r = <<"state", "charging_yes">> /\ r \in Seq(Command) /\ Len(r) = 2
         /\ r[1] = "state" /\ r[2] = "charging_yes"
         /\ Last(r, {"state"}, "state") /\ Free(r, Adbds) /\ Free(r, Classes)
<1>4. r = <<"state", "charging_yes">>
  BY DEF OnCharging
<1>5. Len(r) = 2 /\ r[1] = "state" /\ r[2] = "charging_yes"
  BY <1>4
<1>6. r \in Seq(Command)
  BY <1>4, Commands
<1>7. Last(r, {"state"}, "state") /\ Free(r, Adbds) /\ Free(r, Classes)
  BY <1>5 DEF Last, Free, Adbds, Classes
<1> QED BY <1>4, <1>5, <1>6, <1>7

(* The triggers of the other properties.                                   *)
LEMMA OtherTriggers ==
  /\ OnPersist \in Seq(Command) /\ Len(OnPersist) = 1 /\ OnPersist[1] = "config"
  /\ OnChargingNo \in Seq(Command) /\ Len(OnChargingNo) = 1 /\ OnChargingNo[1] = "cmode_1"
  /\ OnChargingYes \in Seq(Command) /\ Len(OnChargingYes) = 4
  /\ OnChargingYes[1] = "enable_0" /\ OnChargingYes[2] = "functions_mtp"
  /\ OnChargingYes[3] = "enable_1" /\ OnChargingYes[4] = "cmode_2"
<1> USE DEF OnPersist, OnChargingNo, OnChargingYes
<1>1. OnPersist \in Seq(Command) /\ OnChargingNo \in Seq(Command) /\ OnChargingYes \in Seq(Command)
  BY Commands
<1> QED BY <1>1

(* Which event triggers what.                                              *)
LEMMA TriggeredBy ==
  /\ \A v : Triggered(Event("persist", v)) = OnPersist
  /\ Triggered(Event("charging", "yes")) = OnChargingYes
  /\ Triggered(Event("charging", "no")) = OnChargingNo
  /\ Triggered(Event("config", None)) = NoneUsb \o NoneMt6735
  /\ Triggered(Event("config", Charging)) = OnCharging
<1>1. /\ \A v : Triggered(Event("persist", v)) = OnPersist
      /\ Triggered(Event("charging", "yes")) = OnChargingYes
      /\ Triggered(Event("charging", "no")) = OnChargingNo
      /\ \A v : Triggered(Event("config", v)) = InitUsbRc(v) \o InitMt6735UsbRc(v)
  BY DEF Triggered, Event
<1>2. Charging # None /\ Charging # {"adb"} /\ Charging \cap Accessory = {}
  BY DEF Charging, None, Accessory
<1>3. InitUsbRc(Charging) = <<>> /\ InitMt6735UsbRc(Charging) = OnCharging
  BY <1>2 DEF InitUsbRc, InitMt6735UsbRc
<1>4. <<>> \o OnCharging = OnCharging
  BY DEF OnCharging
<1>5. None # {"adb"} /\ None \cap Accessory = {}
  BY DEF None, Accessory
<1>6. InitUsbRc(None) = NoneUsb /\ InitMt6735UsbRc(None) = NoneMt6735
  BY <1>2, <1>5 DEF InitUsbRc, InitMt6735UsbRc
<1>7. Triggered(Event("config", None)) = NoneUsb \o NoneMt6735
  BY <1>1, <1>6, Zenon
<1>8. Triggered(Event("config", Charging)) = OnCharging
  BY <1>1, <1>3, <1>4, Zenon
<1> QED BY <1>1, <1>7, <1>8, Zenon

-----------------------------------------------------------------------------
(* The queue.                                                              *)

(* Events are what Event makes.                                            *)
LEMMA EventsAre ==
  ASSUME NEW e \in Events
  PROVE  /\ e = Event(e.prop, e.val)
         /\ \/ e.prop = "config" /\ e.val \in Config \cup {None}
            \/ e.prop = "persist"
            \/ e.prop = "charging" /\ e.val = "yes"
            \/ e.prop = "charging" /\ e.val = "no"
BY DEF Events, Event

(* An event that waits goes on waiting when another one is appended.       *)
LEMMA Appended ==
  ASSUME NEW q \in Seq(Events), NEW e \in Events, NEW s, s = Append(q, e)
  PROVE  /\ s \in Seq(Events) /\ Len(q) \in Nat /\ Len(s) = Len(q) + 1
         /\ \A i \in 1 .. Len(q) : i \in 1 .. Len(s) /\ s[i] = q[i]
         /\ Len(s) \in 1 .. Len(s) /\ s[Len(s)] = e
         /\ \A i \in 1 .. Len(s) : i \in 1 .. Len(q) \/ (i = Len(s) /\ s[i] = e)
<1>1. s \in Seq(Events) /\ Len(q) \in Nat /\ Len(s) = Len(q) + 1
  OBVIOUS
<1>2. \A i \in 1 .. Len(q) : s[i] = q[i]
  OBVIOUS
<1>3. s[Len(q) + 1] = e
  OBVIOUS
<1>4. \A i \in 1 .. Len(s) : i \in 1 .. Len(q) \/ i = Len(s)
  BY <1>1
<1>5. Len(s) \in 1 .. Len(s) /\ s[Len(s)] = e
  BY <1>1, <1>3
<1>6. \A i \in 1 .. Len(q) : i \in 1 .. Len(s)
  BY <1>1
<1> QED BY <1>1, <1>2, <1>4, <1>5, <1>6, Zenon

(* Setting a property: the new event is the latest.                        *)
LEMMA AppendLatest ==
  ASSUME queue \in Seq(Events), Latest, NEW e \in Events, queue' = Append(queue, e),
         IF e.prop = "config" THEN config' = e.val ELSE config' = config,
         IF e.prop = "charging" THEN charging' = e.val ELSE charging' = charging
  PROVE  Latest'
<1> DEFINE s == queue'
<1>1. /\ Len(queue) \in Nat /\ Len(s) = Len(queue) + 1
      /\ \A i \in 1 .. Len(queue) : i \in 1 .. Len(s) /\ s[i] = queue[i]
      /\ Len(s) \in 1 .. Len(s) /\ s[Len(s)] = e
      /\ \A i \in 1 .. Len(s) : i \in 1 .. Len(queue) \/ (i = Len(s) /\ s[i] = e)
  BY Appended
<1> SUFFICES ASSUME NEW i \in 1 .. Len(s), \A j \in 1 .. Len(s) : j > i => s[j].prop # s[i].prop
             PROVE  /\ s[i].prop = "config" => s[i].val = config'
                    /\ s[i].prop = "charging" => s[i].val = charging'
  BY DEF Latest
<1> HIDE DEF s
<1>2. CASE i \in 1 .. Len(queue)
  <2>1. s[i] = queue[i] /\ Len(s) > i
    BY <1>1, <1>2
  <2>2. e.prop # queue[i].prop
    BY <1>1, <2>1, Zenon
  <2>3. \A j \in 1 .. Len(queue) : j > i => queue[j].prop # queue[i].prop
    BY <1>1, <2>1, Zenon
  <2>4. /\ queue[i].prop = "config" => queue[i].val = config
        /\ queue[i].prop = "charging" => queue[i].val = charging
    BY <1>2, <2>3, Zenon DEF Latest
  <2> QED BY <2>1, <2>2, <2>4, Zenon
<1>3. CASE i = Len(s) /\ s[i] = e
  BY <1>3
<1> QED BY <1>1, <1>2, <1>3

(* Setting sys.usb.config: an event waits, and the ones since the last     *)
(* none are of the new configuration, unless none was skipped.             *)
LEMMA SetConfigCleans ==
  ASSUME Shape, Cleans, NEW c \in Config \cup {None}, SetConfig(c),
         \A k \in Config \cup {None} : Clean(k) => Clean(k)'
  PROVE  Cleans' /\ Waits("config")'
<1> DEFINE s == queue'
           e == Event("config", c)
<1>0. config' = c /\ s = Append(queue, e) /\ queue \in Seq(Events) /\ config \in Config \cup {None}
  BY DEF SetConfig, Shape
<1>1. e \in Events /\ e.prop = "config" /\ e.val = c
  BY DEF Event, Events
<1> HIDE DEF e
<1>2. /\ Len(queue) \in Nat /\ Len(s) = Len(queue) + 1
      /\ \A i \in 1 .. Len(queue) : i \in 1 .. Len(s) /\ s[i] = queue[i]
      /\ Len(s) \in 1 .. Len(s) /\ s[Len(s)] = e
      /\ \A i \in 1 .. Len(s) : i \in 1 .. Len(queue) \/ (i = Len(s) /\ s[i] = e)
  BY <1>0, <1>1, Appended
<1>3. Waits("config")'
  BY <1>1, <1>2, Zenon DEF Waits
<1>4. CASE c = None
  <2>1. \A j \in 1 .. Len(s) : ~(j > Len(s))
    BY <1>2
  <2>2. s[Len(s)] = Event("config", None)
    BY <1>2, <1>4 DEF e
  <2> QED BY <1>2, <1>3, <2>1, <2>2, Zenon DEF Cleans, Since
<1>5. CASE c # None /\ ~skipped'
  <2>1. ~skipped /\ (config = None \/ config = c)
    BY <1>5, Zenon DEF SetConfig
  <2>2. ASSUME NEW i \in Nat, Since(i) PROVE Since(i)'
    <3> SUFFICES ASSUME NEW j \in 1 .. Len(s), j > i, s[j].prop = "config" PROVE s[j].val = c
      BY <1>0, <1>5 DEF Since
    <3>1. CASE j \in 1 .. Len(queue)
      <4>1. s[j] = queue[j]
        BY <1>2, <3>1
      <4>2. queue[j].val = config /\ config # None
        BY <2>2, <3>1, <4>1, Zenon DEF Since
      <4> QED BY <2>1, <4>1, <4>2
    <3>2. CASE j = Len(s) /\ s[j] = e
      BY <1>1, <3>2
    <3> QED BY <1>2, <3>1, <3>2
  <2>3. ASSUME NEW i \in 1 .. Len(queue), queue[i] = Event("config", None), Since(i) PROVE Cleans'
    <3>1. i \in Nat /\ i \in 1 .. Len(s) /\ s[i] = Event("config", None)
      BY <1>2, <2>3
    <3>2. Since(i)'
      BY <2>2, <2>3, <3>1, Zenon
    <3> QED BY <3>1, <3>2, Zenon DEF Cleans
  <2>4. ASSUME Since(0), Clean(config) PROVE Cleans'
    <3>1. Since(0)'
      BY <2>2, <2>4
    <3>2. Clean(config)'
      <4>1. CASE config = c
        <5>1. Clean(c)
          BY <2>4, <4>1, Zenon
        <5>2. \A k : k = c => (Clean(k)' => Clean(config)')
          BY <1>0, Zenon DEF Clean
        <5> QED BY <5>1, <5>2, Zenon
      <4>2. CASE config = None
        <5>1. Clean(None)
          BY <2>4, <4>2, Zenon
        <5>2. Clean(None)'
          BY <5>1, Zenon
        <5>3. ClassOf(None) = "class_0" /\ Class(None) = 0 /\ "adb" \notin None
          <6>1. None # {"acm"} /\ None # {"rndis"} /\ "adb" \notin None
            BY DEF None
          <6> QED BY <6>1, ClassFacts
        <5> QED BY <5>2, <5>3 DEF Clean
      <4> QED BY <2>1, <4>1, <4>2
    <3> QED BY <3>1, <3>2, Zenon DEF Cleans
  <2> QED BY <1>3, <2>1, <2>3, <2>4, Zenon DEF Cleans
<1>6. CASE c # None /\ skipped'
  BY <1>3, <1>6 DEF Cleans
<1> QED BY <1>3, <1>4, <1>5, <1>6, Zenon

(* Setting another property.                                               *)
LEMMA SetOtherCleans ==
  ASSUME Shape, Cleans, NEW e \in Events, e.prop # "config", queue' = Append(queue, e),
         UNCHANGED <<config, skipped>>,
         \A k \in Config \cup {None} : Clean(k) => Clean(k)'
  PROVE  Cleans' /\ (Waits("config")' <=> Waits("config"))
<1> DEFINE s == queue'
<1>1. /\ Len(queue) \in Nat /\ Len(s) = Len(queue) + 1
      /\ \A i \in 1 .. Len(queue) : i \in 1 .. Len(s) /\ s[i] = queue[i]
      /\ Len(s) \in 1 .. Len(s) /\ s[Len(s)] = e
      /\ \A i \in 1 .. Len(s) : i \in 1 .. Len(queue) \/ (i = Len(s) /\ s[i] = e)
  BY Appended DEF Shape
<1>2. Waits("config")' <=> Waits("config")
  BY <1>1, Zenon DEF Waits
<1>3. \A i : Since(i) => Since(i)'
  BY <1>1, Zenon DEF Since
<1>4. Clean(config) => Clean(config)'
  <2>1. \A k : k = config => (Clean(k)' => Clean(config)')
    BY Zenon DEF Clean
  <2> QED BY <2>1, Zenon DEF Shape
<1> QED BY <1>1, <1>2, <1>3, <1>4, Zenon DEF Cleans

-----------------------------------------------------------------------------
(* init executes a command.                                                *)

(* What a command writes.                                                  *)
LEMMA Writes ==
  ASSUME Shape, NEW cmd, Write(cmd)
  PROVE  /\ cmd = "enable_0" => ~enable'
         /\ cmd = "enable_1" => enable'
         /\ cmd \notin Enables => (enable' <=> enable)
         /\ cmd = "start_adbd" => adbd'
         /\ cmd = "stop_adbd" => ~adbd'
         /\ cmd \notin Adbds => (adbd' <=> adbd)
         /\ enable' \in BOOLEAN /\ adbd' \in BOOLEAN
<1>1. enable' = CASE cmd = "enable_0" -> FALSE [] cmd = "enable_1" -> TRUE [] OTHER -> enable
  BY DEF Write
<1>2. adbd' = CASE cmd = "start_adbd" -> TRUE [] cmd = "stop_adbd" -> FALSE [] OTHER -> adbd
  BY DEF Write
<1>3. enable \in BOOLEAN /\ adbd \in BOOLEAN
  BY DEF Shape
<1>4. CASE cmd = "enable_0"
  BY <1>1, <1>2, <1>3, <1>4 DEF Enables, Adbds
<1>5. CASE cmd = "enable_1"
  BY <1>1, <1>2, <1>3, <1>5 DEF Enables, Adbds
<1>6. CASE cmd = "start_adbd"
  BY <1>1, <1>2, <1>3, <1>6 DEF Enables, Adbds
<1>7. CASE cmd = "stop_adbd"
  BY <1>1, <1>2, <1>3, <1>7 DEF Enables, Adbds
<1>8. CASE cmd \notin Enables /\ cmd \notin Adbds
  BY <1>1, <1>2, <1>3, <1>8, Zenon DEF Enables, Adbds
<1> QED BY <1>4, <1>5, <1>6, <1>7, <1>8 DEF Enables, Adbds

(* ... to the device class and the mode ...                                *)
LEMMA WritesNumbers ==
  ASSUME Shape, NEW cmd, Write(cmd)
  PROVE  /\ cmd = "class_0" => bDeviceClass' = 0
         /\ cmd = "class_02" => bDeviceClass' = 2
         /\ cmd = "class_224" => bDeviceClass' = 224
         /\ cmd \notin Classes => bDeviceClass' = bDeviceClass
         /\ cmd = "cmode_1" => cmode' = 1
         /\ cmd = "cmode_2" => cmode' = 2
         /\ cmd \notin Cmodes => cmode' = cmode
         /\ bDeviceClass' \in {0, 2, 224} /\ cmode' \in {1, 2}
BY DEF Shape, Write, Classes, Cmodes

(* ... and to the functions.                                               *)
LEMMA WritesFunctions ==
  ASSUME Shape, NEW cmd, Write(cmd)
  PROVE  /\ cmd \notin Loads \/ enable => functions' = functions
         /\ cmd = "functions" /\ ~enable => functions' = config \ Charging
         /\ cmd = "functions_mtp_adb" /\ ~enable => functions' = {"mtp", "adb"}
         /\ cmd = "functions_mtp" /\ ~enable => functions' = {"mtp"}
         /\ functions' \in Supported
<1>1. {"mtp"} \ Charging = {"mtp"} /\ {"mtp", "adb"} \ Charging = {"mtp", "adb"}
  BY DEF Charging
<1>2. /\ cmd \notin Loads \/ enable => functions' = functions
      /\ cmd = "functions" /\ ~enable => functions' = config \ Charging
      /\ cmd = "functions_mtp_adb" /\ ~enable => functions' = {"mtp", "adb"}
      /\ cmd = "functions_mtp" /\ ~enable => functions' = {"mtp"}
  <2>1. CASE cmd = "functions"
    BY <2>1 DEF Write, WriteFunctions, Loads
  <2>2. CASE cmd = "functions_mtp_adb"
    BY <1>1, <2>2 DEF Write, WriteFunctions, Loads
  <2>3. CASE cmd = "functions_mtp"
    BY <1>1, <2>3 DEF Write, WriteFunctions, Loads
  <2>4. CASE cmd \notin Loads
    BY <2>4 DEF Write, Loads
  <2> QED BY <2>1, <2>2, <2>3, <2>4 DEF Loads
<1>3. config \ Charging \in Supported
  <2>1. config \in Supported
    BY ConfigAssumption, Configs, Zenon DEF Shape, None
  <2>2. CASE config = Charging
    <3>1. config \ Charging = {}
      BY <2>2
    <3> QED BY <3>1, Configs
  <2>3. CASE "charging" \notin config
    <3>1. config \ Charging = config
      BY <2>3 DEF Charging
    <3> QED BY <2>1, <3>1
  <2> QED BY <2>1, <2>2, <2>3, Configs
<1>4. functions \in Supported
  BY DEF Shape
<1> QED BY <1>2, <1>3, <1>4, Configs, Zenon DEF Loads

(* The command, and what is left.                                          *)
LEMMA Executes ==
  ASSUME Shape, Execute, NEW cmd, cmd = Head(running)
  PROVE  /\ running \in Seq(Command) /\ running # <<>> /\ running' = Tail(running)
         /\ cmd \in Command /\ Write(cmd)
         /\ state' = IF cmd = "state" THEN config ELSE state
         /\ UNCHANGED <<persist, framework, raced>>
         /\ \/ cmd = "config" /\ SetConfig(persist) /\ UNCHANGED charging
            \/ /\ cmd = "charging_yes" /\ charging' = "yes"
               /\ queue' = Append(queue, Event("charging", "yes"))
               /\ UNCHANGED <<config, skipped>>
            \/ cmd \notin Sets /\ UNCHANGED <<config, charging, queue, skipped>>
<1>1. running \in Seq(Command) /\ running # <<>> /\ running' = Tail(running)
  BY DEF Shape, Execute
<1>2. cmd \in Command
  BY <1>1, TailOf
<1> QED BY <1>1, <1>2 DEF Execute, Sets

(* What is clean stays clean.                                              *)
LEMMA ExecuteClean ==
  ASSUME Shape, Execute, NEW k \in Config \cup {None}, Clean(k)
  PROVE  Clean(k)'
<1> DEFINE cmd == Head(running)
<1>1. running \in Seq(Command) /\ running # <<>> /\ running' = Tail(running) /\ Write(cmd)
  BY Executes
<1>2. /\ \A W : Free(running, W) => cmd \notin W /\ Free(running', W)
      /\ \A W, w : Last(running, W, w) => Last(running', W, w) \/ (cmd = w /\ Free(running', W))
  BY <1>1, TailEnds, Zenon
<1> HIDE DEF cmd
<1>3. ASSUME "adb" \notin k PROVE Ends(running, Adbds, "stop_adbd", ~adbd)'
  <2>1. Ends(running, Adbds, "stop_adbd", ~adbd)
    BY <1>3 DEF Clean
  <2>2. (cmd = "stop_adbd" => ~adbd') /\ (cmd \notin Adbds => (adbd' <=> adbd))
    BY <1>1, Writes
  <2> QED BY <1>2, <2>1, <2>2, Zenon DEF Ends
<1>4. ASSUME NEW w, NEW n, \/ w = "class_0" /\ n = 0
                           \/ w = "class_02" /\ n = 2
                           \/ w = "class_224" /\ n = 224,
             Ends(running, Classes, w, bDeviceClass = n)
      PROVE  Ends(running', Classes, w, bDeviceClass' = n)
  <2>1. cmd = w => bDeviceClass' = n
    BY <1>1, <1>4, WritesNumbers, Zenon
  <2>2. cmd \notin Classes => bDeviceClass' = bDeviceClass
    BY <1>1, WritesNumbers, Zenon
  <2> QED BY <1>2, <1>4, <2>1, <2>2, Zenon DEF Ends
<1>5. \/ ClassOf(k) = "class_0" /\ Class(k) = 0
      \/ ClassOf(k) = "class_02" /\ Class(k) = 2
      \/ ClassOf(k) = "class_224" /\ Class(k) = 224
  BY ClassFacts, Zenon
<1>6. \/ Ends(running', Classes, "class_0", bDeviceClass' = 0)
      \/ Ends(running', Classes, ClassOf(k), bDeviceClass' = Class(k))
  BY <1>4, <1>5, Zenon DEF Clean
<1> QED BY <1>3, <1>6, Zenon DEF Clean

(* The shapes; what init sets itself is the last command of its trigger.   *)
LEMMA ExecuteShape ==
  ASSUME IInv, Execute
  PROVE  Shape'
<1> DEFINE cmd == Head(running)
<1>0. Shape
  BY DEF IInv
<1>1. /\ running \in Seq(Command) /\ running # <<>> /\ running' = Tail(running) /\ Write(cmd)
      /\ state' = IF cmd = "state" THEN config ELSE state
      /\ UNCHANGED <<persist, framework, raced>>
  BY <1>0, Executes
<1>2. /\ Len(running) \in Nat \ {0} /\ running[1] = cmd /\ running' \in Seq(Command)
      /\ Len(running') = Len(running) - 1
      /\ \A i \in 1 .. Len(running') : i + 1 \in 1 .. Len(running) /\ running'[i] = running[i + 1]
  BY <1>1, TailOf
<1>3. \/ cmd = "config" /\ SetConfig(persist) /\ UNCHANGED charging
      \/ /\ cmd = "charging_yes" /\ charging' = "yes"
         /\ queue' = Append(queue, Event("charging", "yes"))
         /\ UNCHANGED <<config, skipped>>
      \/ cmd \notin Sets /\ UNCHANGED <<config, charging, queue, skipped>>
  BY <1>0, Executes
<1> HIDE DEF cmd
<1>4. /\ enable' \in BOOLEAN /\ adbd' \in BOOLEAN /\ functions' \in Supported
      /\ bDeviceClass' \in {0, 2, 224} /\ cmode' \in {1, 2}
  BY <1>0, <1>1, Writes, WritesNumbers, WritesFunctions
<1>5. /\ state' \in Config \cup {None} /\ persist' \in Config /\ raced' \in BOOLEAN
      /\ fpc' \in {"idle", "none", "wait"} /\ target' \in Config \cup {None}
  BY <1>0, <1>1 DEF Shape, framework
<1>6. Len(running') <= 12
  BY <1>0, <1>2 DEF Shape
<1>7. /\ queue \in Seq(Events) /\ Len(queue) \in Nat /\ Len(queue) <= MaxQueue + 1
      /\ config \in Config \cup {None} /\ persist \in Config
      /\ charging \in {"unset", "yes", "no"} /\ skipped \in BOOLEAN /\ MaxQueue \in Nat
      /\ \A i \in 1 .. Len(running) : running[i] \in Sets => i = Len(running) /\ Len(queue) <= MaxQueue
  BY <1>0, QueueAssumption DEF Shape
<1>8. SUFFICES /\ config' \in Config \cup {None} /\ charging' \in {"unset", "yes", "no"}
               /\ skipped' \in BOOLEAN /\ queue' \in Seq(Events) /\ Len(queue') <= MaxQueue + 1
               /\ \A i \in 1 .. Len(running') :
                    running'[i] \in Sets => i = Len(running') /\ Len(queue') <= MaxQueue
  BY <1>2, <1>4, <1>5, <1>6, <1>8, Zenon DEF Shape
<1>9. ASSUME cmd \in Sets, NEW e \in Events, queue' = Append(queue, e)
      PROVE  /\ queue' \in Seq(Events) /\ Len(queue') <= MaxQueue + 1
             /\ \A i \in 1 .. Len(running') :
                  running'[i] \in Sets => i = Len(running') /\ Len(queue') <= MaxQueue
  <2>1. 1 \in 1 .. Len(running) /\ running[1] \in Sets
    BY <1>2, <1>9
  <2>2. Len(running) = 1 /\ Len(queue) <= MaxQueue
    BY <1>7, <2>1, Zenon
  <2>3. queue' \in Seq(Events) /\ Len(queue') = Len(queue) + 1
    BY <1>7, <1>9, Appended
  <2>4. Len(running') = 0
    BY <1>2, <2>2
  <2> QED BY <1>7, <2>2, <2>3, <2>4
<1>10. CASE cmd = "config" /\ SetConfig(persist) /\ UNCHANGED charging
  <2>1. config' = persist /\ queue' = Append(queue, Event("config", persist)) /\ cmd \in Sets
    BY <1>10 DEF SetConfig, Sets
  <2>2. Event("config", persist) \in Events
    BY <1>7 DEF Event, Events
  <2>3. skipped' \in BOOLEAN
    BY <1>10, Zenon DEF SetConfig
  <2> QED BY <1>7, <1>9, <1>10, <2>1, <2>2, <2>3
<1>11. CASE /\ cmd = "charging_yes" /\ charging' = "yes"
            /\ queue' = Append(queue, Event("charging", "yes"))
            /\ UNCHANGED <<config, skipped>>
  <2>1. cmd \in Sets /\ Event("charging", "yes") \in Events
    BY <1>11 DEF Sets, Event, Events
  <2> QED BY <1>7, <1>9, <1>11, <2>1
<1>12. CASE cmd \notin Sets /\ UNCHANGED <<config, charging, queue, skipped>>
  <2>1. ASSUME NEW i \in 1 .. Len(running'), running'[i] \in Sets
        PROVE  i = Len(running') /\ Len(queue') <= MaxQueue
    <3>1. i + 1 \in 1 .. Len(running) /\ running[i + 1] \in Sets
      BY <1>2, <2>1
    <3>2. i + 1 = Len(running) /\ Len(queue) <= MaxQueue
      BY <1>7, <3>1, Zenon
    <3> QED BY <1>2, <1>12, <3>2
  <2> QED BY <1>7, <1>12, <2>1
<1> QED BY <1>3, <1>10, <1>11, <1>12

(* The latest events and what was not skipped.                             *)
LEMMA ExecuteEvents ==
  ASSUME IInv, Execute
  PROVE  Latest' /\ Cleans'
<1> DEFINE cmd == Head(running)
<1>0. Shape /\ Latest /\ Cleans /\ queue \in Seq(Events)
      /\ config \in Config \cup {None} /\ persist \in Config
  BY DEF IInv, Shape
<1>1. \A k \in Config \cup {None} : Clean(k) => Clean(k)'
  BY <1>0, ExecuteClean
<1>2. \/ cmd = "config" /\ SetConfig(persist) /\ UNCHANGED charging
      \/ /\ cmd = "charging_yes" /\ charging' = "yes"
         /\ queue' = Append(queue, Event("charging", "yes"))
         /\ UNCHANGED <<config, skipped>>
      \/ cmd \notin Sets /\ UNCHANGED <<config, charging, queue, skipped>>
  BY <1>0, Executes
<1> HIDE DEF cmd
<1>3. CASE SetConfig(persist) /\ UNCHANGED charging
  <2> DEFINE e == Event("config", persist)
  <2>1. e \in Events /\ e.prop = "config" /\ e.val = persist
    BY <1>0 DEF Event, Events
  <2>2. config' = persist /\ queue' = Append(queue, e)
    BY <1>3 DEF SetConfig
  <2> HIDE DEF e
  <2>3. Latest'
    BY <1>0, <1>3, <2>1, <2>2, AppendLatest
  <2> QED BY <1>0, <1>1, <1>3, <2>3, SetConfigCleans
<1>4. CASE /\ charging' = "yes" /\ queue' = Append(queue, Event("charging", "yes"))
           /\ UNCHANGED <<config, skipped>>
  <2> DEFINE e == Event("charging", "yes")
  <2>1. e \in Events /\ e.prop = "charging" /\ e.val = "yes"
    BY DEF Event, Events
  <2>2. queue' = Append(queue, e)
    BY <1>4
  <2> HIDE DEF e
  <2>3. Latest'
    BY <1>0, <1>4, <2>1, <2>2, AppendLatest
  <2>4. Cleans'
    BY <1>0, <1>1, <1>4, <2>1, <2>2, SetOtherCleans
  <2> QED BY <2>3, <2>4
<1>5. CASE UNCHANGED <<config, charging, queue, skipped>>
  <2>1. Latest'
    BY <1>0, <1>5 DEF Latest
  <2>2. \A i : Since(i) => Since(i)'
    BY <1>5 DEF Since
  <2>3. Clean(config) => Clean(config)'
    <3>1. \A k : k = config => (Clean(k)' => Clean(config)')
      BY <1>5, Zenon DEF Clean
    <3> QED BY <1>0, <1>1, <3>1, Zenon
  <2>4. Cleans'
    BY <1>0, <1>5, <2>2, <2>3, Zenon DEF Cleans
  <2> QED BY <2>1, <2>4
<1> QED BY <1>2, <1>3, <1>4, <1>5

(* A command brings the nodes closer to what the configuration asks for.   *)
LEMMA ExecuteSettles ==
  ASSUME IInv, Execute
  PROVE  Settles' /\ SettlesCharging' /\ Starts'
<1> DEFINE cmd == Head(running)
<1>0. Shape /\ Settles /\ SettlesCharging /\ Starts /\ queue \in Seq(Events)
      /\ config \in Config \cup {None} /\ persist \in Config
  BY DEF IInv, Shape
<1>1. /\ running \in Seq(Command) /\ running # <<>> /\ running' = Tail(running) /\ Write(cmd)
      /\ state' = IF cmd = "state" THEN config ELSE state
      /\ UNCHANGED raced
  BY <1>0, Executes
<1>2. \/ cmd = "config" /\ SetConfig(persist) /\ UNCHANGED charging
      \/ /\ cmd = "charging_yes" /\ charging' = "yes"
         /\ queue' = Append(queue, Event("charging", "yes"))
         /\ UNCHANGED <<config, skipped>>
      \/ cmd \notin Sets /\ UNCHANGED <<config, charging, queue, skipped>>
  BY <1>0, Executes
<1>3. /\ \A W : Free(running, W) => cmd \notin W /\ Free(running', W)
      /\ \A W, w : Last(running, W, w) => Last(running', W, w) \/ (cmd = w /\ Free(running', W))
  BY <1>1, TailEnds, Zenon
<1>4. /\ \A c : LoadsOnly(running, c) => LoadsOnly(running', c)
      /\ LoadsMtp(running) => LoadsMtp(running')
      /\ LoadsNow(running) => cmd \in Loads
      /\ LoadsLater(running) => LoadsLater(running') \/ (cmd = "enable_0" /\ LoadsNow(running'))
  BY <1>1, TailLoads
<1>5. /\ Len(running) \in Nat \ {0} /\ running[1] = cmd
      /\ \A i \in 1 .. Len(running) : i > 1 =>
           i - 1 \in 1 .. Len(running') /\ running'[i - 1] = running[i]
  BY <1>1, TailOf
<1> HIDE DEF cmd
<1>6. /\ cmd = "enable_0" => ~enable'
      /\ cmd = "enable_1" => enable'
      /\ cmd \notin Enables => (enable' <=> enable)
      /\ cmd = "start_adbd" => adbd'
      /\ cmd \notin Adbds => (adbd' <=> adbd)
  BY <1>0, <1>1, Writes
<1>7. /\ cmd = "class_02" => bDeviceClass' = 2
      /\ cmd = "class_224" => bDeviceClass' = 224
      /\ cmd \notin Classes => bDeviceClass' = bDeviceClass
      /\ cmd = "cmode_1" => cmode' = 1
      /\ cmd = "cmode_2" => cmode' = 2
      /\ cmd \notin Cmodes => cmode' = cmode
  BY <1>0, <1>1, WritesNumbers
<1>8. /\ cmd \notin Loads \/ enable => functions' = functions
      /\ cmd = "functions" /\ ~enable => functions' = config \ Charging
      /\ cmd = "functions_mtp_adb" /\ ~enable => functions' = {"mtp", "adb"}
      /\ cmd = "functions_mtp" /\ ~enable => functions' = {"mtp"}
  BY <1>0, <1>1, WritesFunctions
<1>9. CASE Waits("config")'
  BY <1>9, Zenon DEF Settles, SettlesCharging, Starts
<1>10. CASE ~Waits("config")'
  <2>1. cmd # "config" /\ config' = config
    <3>1. SetConfig(persist) => Waits("config")'
      <4>1. \A k \in Config \cup {None} : Clean(k) => Clean(k)'
        BY <1>0, ExecuteClean
      <4> QED BY <1>0, <4>1, SetConfigCleans DEF IInv
    <3> QED BY <1>2, <1>10, <3>1 DEF Sets
  <2>2. ~Waits("config")
    <3>1. CASE queue' = queue
      BY <1>10, <3>1, Zenon DEF Waits
    <3>2. CASE queue' = Append(queue, Event("charging", "yes"))
      <4>1. Event("charging", "yes") \in Events
        BY DEF Event, Events
      <4>2. \A i \in 1 .. Len(queue) : i \in 1 .. Len(queue') /\ queue'[i] = queue[i]
        BY <1>0, <3>2, <4>1, Appended
      <4> QED BY <1>10, <4>2, Zenon DEF Waits
    <3> QED BY <1>2, <2>1, <3>1, <3>2 DEF Sets
  <2>3. Ends(running, {"state"}, "state", state = config) =>
          Ends(running, {"state"}, "state", state = config)'
    BY <1>1, <1>3, <2>1, Zenon DEF Ends
  <2>4. Ends(running, Enables, "enable_1", enable) => Ends(running, Enables, "enable_1", enable)'
    BY <1>3, <1>6, Zenon DEF Ends
  <2>5. Ends(running, Enables, "enable_0", ~enable) => Ends(running, Enables, "enable_0", ~enable)'
    BY <1>3, <1>6, Zenon DEF Ends
  <2>6. Ends(running, Cmodes, "cmode_1", cmode = 1) => Ends(running, Cmodes, "cmode_1", cmode = 1)'
    <3>1. (cmd = "cmode_1" => cmode' = 1) /\ (cmd \notin Cmodes => cmode' = cmode)
      BY <1>7
    <3> QED BY <1>3, <3>1, Zenon DEF Ends
  <2>7. Ends(running, Cmodes, "cmode_2", cmode = 2) => Ends(running, Cmodes, "cmode_2", cmode = 2)'
    <3>1. (cmd = "cmode_2" => cmode' = 2) /\ (cmd \notin Cmodes => cmode' = cmode)
      BY <1>7
    <3> QED BY <1>3, <3>1, Zenon DEF Ends
  <2>8. ASSUME NEW c, cmd \in Loads /\ ~enable => functions' = c,
               (~enable /\ LoadsNow(running)) \/ LoadsLater(running) \/ functions = c
        PROVE  (~enable' /\ LoadsNow(running')) \/ LoadsLater(running') \/ functions' = c
    BY <1>4, <1>6, <1>8, <2>8, Zenon
  <2>9. Settles'
    <3> SUFFICES ASSUME ~raced, config # Charging
                 PROVE  /\ Ends(running, {"state"}, "state", state = config)'
                        /\ IF config = None
                           THEN Ends(running, Enables, "enable_0", ~enable)'
                           ELSE /\ Ends(running, Enables, "enable_1", enable)'
                                /\ LoadsOnly(running', config)
                                /\ \/ ~enable' /\ LoadsNow(running')
                                   \/ LoadsLater(running')
                                   \/ functions' = config
                        /\ Ends(running, Cmodes, "cmode_1", cmode = 1)'
      BY <1>1, <2>1, Zenon DEF Settles
    <3>1. /\ Ends(running, {"state"}, "state", state = config)
          /\ config = None => Ends(running, Enables, "enable_0", ~enable)
          /\ config # None => /\ Ends(running, Enables, "enable_1", enable)
                              /\ LoadsOnly(running, config)
                              /\ \/ ~enable /\ LoadsNow(running)
                                 \/ LoadsLater(running)
                                 \/ functions = config
          /\ Ends(running, Cmodes, "cmode_1", cmode = 1)
      BY <1>0, <2>2, Zenon DEF Settles
    <3>2. ASSUME config # None, cmd \in Loads, ~enable PROVE functions' = config
      <4>1. cmd = "functions" \/ (cmd = "functions_mtp_adb" /\ config = {"mtp", "adb"})
        BY <1>5, <3>1, <3>2 DEF LoadsOnly
      <4>2. config \ Charging = config
        <5>1. config \in Supported
          BY <1>0, <3>2, ConfigAssumption
        <5>2. "charging" \notin config
          BY <5>1, Configs
        <5> QED BY <5>2 DEF Charging
      <4> QED BY <1>8, <3>2, <4>1, <4>2
    <3>3. config # None => \/ ~enable' /\ LoadsNow(running')
                           \/ LoadsLater(running')
                           \/ functions' = config
      BY <2>8, <3>1, <3>2, Zenon
    <3> QED BY <1>4, <2>3, <2>4, <2>5, <2>6, <3>1, <3>3, Zenon
  <2>10. SettlesCharging'
    <3> SUFFICES ASSUME config = Charging
                 PROVE  /\ Ends(running, {"state"}, "state", state = config)'
                        /\ ~YesComes' => /\ Ends(running, Enables, "enable_1", enable)'
                                         /\ LoadsMtp(running')
                                         /\ \/ ~enable' /\ LoadsNow(running')
                                            \/ LoadsLater(running')
                                            \/ functions' = {"mtp"}
                        /\ ~ChargingComes' => IF charging' = "yes"
                                              THEN Ends(running, Cmodes, "cmode_2", cmode = 2)'
                                              ELSE Ends(running, Cmodes, "cmode_1", cmode = 1)'
      BY <2>1, Zenon DEF SettlesCharging
    <3>1. /\ Ends(running, {"state"}, "state", state = config)
          /\ ~YesComes => /\ Ends(running, Enables, "enable_1", enable)
                          /\ LoadsMtp(running)
                          /\ \/ ~enable /\ LoadsNow(running)
                             \/ LoadsLater(running)
                             \/ functions = {"mtp"}
          /\ ~ChargingComes => IF charging = "yes" THEN Ends(running, Cmodes, "cmode_2", cmode = 2)
                                                   ELSE Ends(running, Cmodes, "cmode_1", cmode = 1)
      BY <1>0, <2>2, Zenon DEF SettlesCharging
    <3>2. CASE cmd = "charging_yes"
      <4>1. queue' = Append(queue, Event("charging", "yes"))
        BY <1>2, <3>2 DEF Sets
      <4>2. Event("charging", "yes") \in Events /\ Event("charging", "yes").prop = "charging"
        BY DEF Event, Events
      <4>3. Len(queue') \in 1 .. Len(queue') /\ queue'[Len(queue')] = Event("charging", "yes")
        BY <1>0, <4>1, <4>2, Appended
      <4>4. YesComes' /\ ChargingComes'
        BY <4>2, <4>3, Zenon DEF YesComes, ChargingComes, Waits
      <4> QED BY <2>3, <3>1, <4>4, Zenon
    <3>3. CASE cmd # "charging_yes"
      <4>1. UNCHANGED <<charging, queue>>
        BY <1>2, <2>1, <3>3
      <4>2. ASSUME NEW i \in 1 .. Len(running), running[i] = "charging_yes"
            PROVE  \E j \in 1 .. Len(running') : running'[j] = "charging_yes"
        <5>1. i > 1
          BY <1>5, <3>3, <4>2
        <5>2. i - 1 \in 1 .. Len(running') /\ running'[i - 1] = running[i]
          BY <1>5, <5>1, Zenon
        <5> QED BY <4>2, <5>2, Zenon
      <4>3. YesComes => YesComes'
        BY <4>1, <4>2, Zenon DEF YesComes
      <4>4. ChargingComes => ChargingComes'
        BY <4>1, <4>2, Zenon DEF ChargingComes, Waits
      <4>5. ASSUME ~YesComes' PROVE \/ ~enable' /\ LoadsNow(running')
                                    \/ LoadsLater(running')
                                    \/ functions' = {"mtp"}
        <5>1. cmd \in Loads => cmd = "functions_mtp"
          BY <1>5, <3>1, <4>3, <4>5 DEF LoadsMtp
        <5> QED BY <1>8, <2>8, <3>1, <4>3, <4>5, <5>1, Zenon
      <4> QED BY <1>4, <2>3, <2>4, <2>6, <2>7, <3>1, <4>1, <4>3, <4>4, <4>5, Zenon
    <3> QED BY <3>2, <3>3
  <2>11. Starts'
    <3>1. /\ "adb" \in config => Ends(running, Adbds, "start_adbd", adbd)
          /\ Class(config) # 0 => Ends(running, Classes, ClassOf(config), bDeviceClass = Class(config))
      BY <1>0, <2>2, Zenon DEF Starts
    <3>2. "adb" \in config => Ends(running, Adbds, "start_adbd", adbd)'
      BY <1>3, <1>6, <3>1, Zenon DEF Ends
    <3>3. Class(config) # 0 /\ cmd = ClassOf(config) => bDeviceClass' = Class(config)
      BY <1>7, ClassFacts, Zenon
    <3>4. Class(config) # 0 => Ends(running', Classes, ClassOf(config), bDeviceClass' = Class(config))
      BY <1>3, <1>7, <3>1, <3>3, Zenon DEF Ends
    <3> QED BY <2>1, <3>2, <3>4, Zenon DEF Starts
  <2> QED BY <2>9, <2>10, <2>11
<1> QED BY <1>9, <1>10

-----------------------------------------------------------------------------
(* The next event.                                                         *)

(* What the triggers of the other properties contain and end with.         *)
LEMMA PersistList ==
  ASSUME NEW r, Len(r) = 1, r[1] = "config"
  PROVE  /\ Free(r, {"state"}) /\ Free(r, Enables) /\ Free(r, Loads) /\ Free(r, Cmodes)
         /\ Free(r, Adbds) /\ Free(r, Classes)
         /\ \A i \in 1 .. Len(r) : r[i] \in Sets => i = Len(r)
BY DEF Free, Enables, Loads, Cmodes, Adbds, Classes

(* The end of charging sets only the mode.                                 *)
LEMMA ChargingNoList ==
  ASSUME NEW r, Len(r) = 1, r[1] = "cmode_1"
  PROVE  /\ Free(r, {"state"}) /\ Free(r, Enables) /\ Free(r, Loads) /\ Last(r, Cmodes, "cmode_1")
         /\ Free(r, Adbds) /\ Free(r, Classes) /\ Free(r, Sets)
<1>1. 1 \in 1 .. Len(r) /\ r[1] = "cmode_1" /\ \A i \in 1 .. Len(r) : i > 1 => r[i] \notin Cmodes
  OBVIOUS
<1>2. Last(r, Cmodes, "cmode_1")
  BY <1>1, LastAt, Zenon
<1> QED BY <1>2 DEF Free, Enables, Loads, Cmodes, Adbds, Classes, Sets

(* Charging disables the gadget, gives it the functions of mtp and enables *)
(* it again.                                                               *)
LEMMA ChargingYesList ==
  ASSUME NEW r, Len(r) = 4, r[1] = "enable_0", r[2] = "functions_mtp", r[3] = "enable_1",
         r[4] = "cmode_2"
  PROVE  /\ Free(r, {"state"}) /\ Free(r, Adbds) /\ Free(r, Classes) /\ Free(r, Sets)
         /\ Last(r, Enables, "enable_1") /\ Last(r, Cmodes, "cmode_2")
         /\ LoadsMtp(r) /\ LoadsLater(r)
<1> USE DEF Enables, Loads, Classes, Cmodes, Adbds, Sets
<1>1. Free(r, {"state"}) /\ Free(r, Adbds) /\ Free(r, Classes) /\ Free(r, Sets)
  BY DEF Free
<1>2. Last(r, Enables, "enable_1")
  <2>1. 3 \in 1 .. Len(r) /\ r[3] = "enable_1" /\ \A i \in 1 .. Len(r) : i > 3 => r[i] \notin Enables
    OBVIOUS
  <2> QED BY <2>1, LastAt, Zenon
<1>3. Last(r, Cmodes, "cmode_2")
  <2>1. 4 \in 1 .. Len(r) /\ r[4] = "cmode_2" /\ \A i \in 1 .. Len(r) : i > 4 => r[i] \notin Cmodes
    OBVIOUS
  <2> QED BY <2>1, LastAt, Zenon
<1>4. LoadsMtp(r) /\ LoadsLater(r)
  BY DEF LoadsMtp, LoadsLater
<1> QED BY <1>1, <1>2, <1>3, <1>4

(* The event is taken from the queue, and nothing was left to execute.     *)
LEMMA Dequeues ==
  ASSUME Shape, Dequeue, NEW e, e = Head(queue)
  PROVE  /\ e \in Events /\ e = queue[1] /\ 1 \in 1 .. Len(queue)
         /\ Len(queue) \in Nat \ {0} /\ queue' \in Seq(Events) /\ Len(queue') = Len(queue) - 1
         /\ \A i \in 1 .. Len(queue') : i + 1 \in 1 .. Len(queue) /\ queue'[i] = queue[i + 1]
         /\ \A i \in 1 .. Len(queue) : i > 1 => i - 1 \in 1 .. Len(queue') /\ queue'[i - 1] = queue[i]
         /\ running' = Triggered(e)
         /\ UNCHANGED <<properties, gadget, framework, skipped>>
         /\ \A W, w : Free(running, W) /\ ~Last(running, W, w)
         /\ ~LoadsNow(running) /\ ~LoadsLater(running)
         /\ \A i \in 1 .. Len(running) : FALSE
<1>1. queue \in Seq(Events) /\ queue # <<>> /\ queue' = Tail(queue) /\ running = <<>>
  BY DEF Shape, Dequeue
<1>2. running' = Triggered(e) /\ UNCHANGED <<properties, gadget, framework, skipped>>
  BY DEF Dequeue
<1>3. \A W, w : Free(running, W) /\ ~Last(running, W, w)
  BY <1>1, NothingLeft, Zenon
<1>4. ~LoadsNow(running) /\ ~LoadsLater(running)
  BY <1>1, NothingLeft
<1>5. \A i \in 1 .. Len(running) : FALSE
  BY <1>1
<1>6. 1 \in 1 .. Len(queue)
  BY <1>1, TailOf
<1> QED BY <1>1, <1>2, <1>3, <1>4, <1>5, <1>6, TailOf

(* The trigger and the history, for each kind of event.                    *)
LEMMA DequeueKinds ==
  ASSUME Shape, Dequeue, NEW e, e = Head(queue)
  PROVE  \/ e = Event("config", None) /\ e.prop = "config" /\ e.val = None
            /\ running' = NoneUsb \o NoneMt6735
         \/ e.prop = "config" /\ e.val = Charging /\ running' = OnCharging
         \/ e.prop = "config" /\ e.val \in Config /\ e.val # Charging
            /\ Configures(e.val, running') /\ Len(running') <= 12
         \/ e.prop = "persist" /\ running' = OnPersist /\ UNCHANGED raced
         \/ e.prop = "charging" /\ e.val = "yes" /\ running' = OnChargingYes
            /\ (raced' <=> raced \/ config # Charging)
         \/ e.prop = "charging" /\ e.val = "no" /\ running' = OnChargingNo /\ UNCHANGED raced
<1>1. e \in Events /\ running' = Triggered(e)
  BY Dequeues
<1>2. raced' = CASE e.prop = "config" -> FALSE
                 [] e.prop = "charging" /\ e.val = "yes" -> raced \/ config # Charging
                 [] OTHER -> raced
  BY DEF Dequeue
<1>3. e = Event(e.prop, e.val)
  BY <1>1, EventsAre
<1>4. CASE e.prop = "config" /\ e.val \in Config \cup {None}
  <2>1. e = Event("config", e.val)
    BY <1>3, <1>4
  <2>2. CASE e.val = None
    BY <1>1, <1>4, <2>1, <2>2, TriggeredBy, Zenon
  <2>3. CASE e.val = Charging
    BY <1>1, <1>4, <2>1, <2>3, TriggeredBy, Zenon
  <2>4. CASE e.val # None /\ e.val # Charging
    <3>1. e.val \in Config
      BY <1>4, <2>4
    <3>2. Configures(e.val, running') /\ Len(running') <= 12
      BY <1>1, <2>1, <2>4, <3>1, ConfigTriggers
    <3> QED BY <1>4, <2>4, <3>1, <3>2, Zenon
  <2> QED BY <2>2, <2>3, <2>4, Zenon
<1>5. CASE e.prop = "persist"
  <2>1. running' = OnPersist
    BY <1>1, <1>3, <1>5, TriggeredBy, Zenon
  <2>2. raced' = raced
    BY <1>2, <1>5, Zenon
  <2> QED BY <1>5, <2>1, <2>2, Zenon
<1>6. CASE e.prop = "charging" /\ e.val = "yes"
  <2>1. running' = OnChargingYes
    BY <1>1, <1>3, <1>6, TriggeredBy, Zenon
  <2>2. e.prop # "config"
    BY <1>6
  <2>3. raced' = (raced \/ config # Charging)
    BY <1>2, <1>6, <2>2, Zenon
  <2> QED BY <1>6, <2>1, <2>3, Zenon
<1>7. CASE e.prop = "charging" /\ e.val = "no"
  <2>1. running' = OnChargingNo
    BY <1>1, <1>3, <1>7, TriggeredBy, Zenon
  <2>2. raced' = raced
    BY <1>2, <1>7, Zenon
  <2> QED BY <1>7, <2>1, <2>2, Zenon
<1> QED BY <1>1, <1>4, <1>5, <1>6, <1>7, EventsAre, Zenon

(* Taking the event leaves room for what its trigger sets.                 *)
LEMMA DequeueShape ==
  ASSUME Shape, Dequeue
  PROVE  Shape'
<1> DEFINE e == Head(queue)
           r == running'
<1>1. /\ Len(queue) \in Nat \ {0} /\ queue' \in Seq(Events) /\ Len(queue') = Len(queue) - 1
      /\ UNCHANGED <<properties, gadget, framework, skipped>>
  BY Dequeues
<1>2. \/ e = Event("config", None) /\ e.prop = "config" /\ e.val = None /\ r = NoneUsb \o NoneMt6735
      \/ e.prop = "config" /\ e.val = Charging /\ r = OnCharging
      \/ e.prop = "config" /\ e.val \in Config /\ e.val # Charging
         /\ Configures(e.val, r) /\ Len(r) <= 12
      \/ e.prop = "persist" /\ r = OnPersist /\ UNCHANGED raced
      \/ e.prop = "charging" /\ e.val = "yes" /\ r = OnChargingYes
         /\ (raced' <=> raced \/ config # Charging)
      \/ e.prop = "charging" /\ e.val = "no" /\ r = OnChargingNo /\ UNCHANGED raced
  BY DequeueKinds
<1>3. raced' \in BOOLEAN
  <2>1. raced' = CASE e.prop = "config" -> FALSE
                   [] e.prop = "charging" /\ e.val = "yes" -> raced \/ config # Charging
                   [] OTHER -> raced
    BY DEF Dequeue
  <2>2. raced \in BOOLEAN
    BY DEF Shape
  <2>3. CASE e.prop = "config"
    BY <2>1, <2>3, Zenon
  <2>4. CASE e.prop = "charging" /\ e.val = "yes"
    <3>1. e.prop # "config"
      BY <2>4
    <3>2. raced' = (raced \/ config # Charging)
      BY <2>1, <2>4, <3>1, Zenon
    <3> QED BY <3>2, Zenon
  <2>5. CASE e.prop # "config" /\ ~(e.prop = "charging" /\ e.val = "yes")
    BY <2>1, <2>2, <2>5
  <2> QED BY <2>3, <2>4, <2>5, Zenon
<1> HIDE DEF e, r
<1>4. /\ r \in Seq(Command) /\ Len(r) <= 12
      /\ \A i \in 1 .. Len(r) : r[i] \in Sets => i = Len(r)
  <2>1. CASE r = NoneUsb \o NoneMt6735
    <3>1. r \in Seq(Command) /\ Len(r) <= 12 /\ Free(r, Sets)
      BY <2>1, NoneTriggers, Zenon
    <3> QED BY <3>1, Zenon DEF Free
  <2>2. CASE r = OnCharging
    <3>1. r \in Seq(Command) /\ Len(r) = 2 /\ r[1] = "state" /\ r[2] = "charging_yes"
      BY <2>2, ChargingTriggers
    <3> QED BY <3>1 DEF Sets
  <2>3. CASE Configures(e.val, r) /\ Len(r) <= 12
    BY <2>3, Zenon DEF Configures, Free
  <2>4. CASE r = OnPersist
    <3>1. r \in Seq(Command) /\ Len(r) = 1 /\ r[1] = "config"
      BY <2>4, OtherTriggers
    <3>2. \A i \in 1 .. Len(r) : r[i] \in Sets => i = Len(r)
      BY <3>1, PersistList
    <3> QED BY <3>1, <3>2
  <2>5. CASE r = OnChargingYes
    <3>1. /\ r \in Seq(Command) /\ Len(r) = 4 /\ r[1] = "enable_0" /\ r[2] = "functions_mtp"
          /\ r[3] = "enable_1" /\ r[4] = "cmode_2"
      BY <2>5, OtherTriggers
    <3>2. Free(r, Sets)
      BY <3>1, ChargingYesList
    <3>3. \A i \in 1 .. Len(r) : r[i] \in Sets => i = Len(r)
      BY <3>2, Zenon DEF Free
    <3> QED BY <3>1, <3>3
  <2>6. CASE r = OnChargingNo
    <3>1. r \in Seq(Command) /\ Len(r) = 1 /\ r[1] = "cmode_1"
      BY <2>6, OtherTriggers
    <3> QED BY <3>1 DEF Sets
  <2> QED BY <1>2, <2>1, <2>2, <2>3, <2>4, <2>5, <2>6, Zenon
<1>5. Len(queue') <= MaxQueue /\ Len(queue') <= MaxQueue + 1
  BY <1>1, QueueAssumption DEF Shape
<1>6. /\ running' \in Seq(Command) /\ Len(running') <= 12
      /\ \A i \in 1 .. Len(running') : running'[i] \in Sets => i = Len(running')
  BY <1>4 DEF r
<1>7. /\ config' \in Config \cup {None} /\ state' \in Config \cup {None} /\ persist' \in Config
      /\ charging' \in {"unset", "yes", "no"}
      /\ enable' \in BOOLEAN /\ adbd' \in BOOLEAN /\ skipped' \in BOOLEAN
      /\ functions' \in Supported /\ bDeviceClass' \in {0, 2, 224} /\ cmode' \in {1, 2}
      /\ fpc' \in {"idle", "none", "wait"} /\ target' \in Config \cup {None}
  BY <1>1 DEF Shape, properties, gadget, framework
<1> QED BY <1>1, <1>3, <1>5, <1>6, <1>7, Zenon DEF Shape

(* The event taken last of its property had the present value.             *)
LEMMA LatestTaken ==
  ASSUME Shape, Latest, Dequeue, NEW e, e = Head(queue), ~Waits(e.prop)'
  PROVE  (e.prop = "config" => e.val = config) /\ (e.prop = "charging" => e.val = charging)
<1>1. /\ e = queue[1] /\ 1 \in 1 .. Len(queue)
      /\ \A i \in 1 .. Len(queue) : i > 1 => i - 1 \in 1 .. Len(queue') /\ queue'[i - 1] = queue[i]
  BY Dequeues
<1>2. \A i \in 1 .. Len(queue') : queue'[i].prop # e.prop
  <2>1. \A p : ~Waits(p)' => \A i \in 1 .. Len(queue') : queue'[i].prop # p
    BY Zenon DEF Waits
  <2>2. \A p : p = e.prop => ~Waits(p)'
    BY Zenon DEF Waits
  <2> QED BY <2>1, <2>2, Zenon
<1>3. \A j \in 1 .. Len(queue) : j > 1 => queue[j].prop # queue[1].prop
  BY <1>1, <1>2, Zenon
<1> QED BY <1>1, <1>3, Zenon DEF Latest

(* The events that still wait end with the present values.                 *)
LEMMA DequeueLatest ==
  ASSUME Shape, Latest, Dequeue
  PROVE  Latest'
<1> DEFINE s == queue'
<1>1. /\ Len(queue) \in Nat \ {0} /\ Len(s) = Len(queue) - 1
      /\ \A i \in 1 .. Len(s) : i + 1 \in 1 .. Len(queue) /\ s[i] = queue[i + 1]
      /\ \A i \in 1 .. Len(queue) : i > 1 => i - 1 \in 1 .. Len(s) /\ s[i - 1] = queue[i]
      /\ config' = config /\ charging' = charging
  BY Dequeues DEF properties
<1> SUFFICES ASSUME NEW i \in 1 .. Len(s), \A j \in 1 .. Len(s) : j > i => s[j].prop # s[i].prop
             PROVE  /\ s[i].prop = "config" => s[i].val = config'
                    /\ s[i].prop = "charging" => s[i].val = charging'
  BY DEF Latest
<1> HIDE DEF s
<1>2. i + 1 \in 1 .. Len(queue) /\ s[i] = queue[i + 1]
  BY <1>1
<1>3. ASSUME NEW j \in 1 .. Len(queue), j > i + 1 PROVE queue[j].prop # queue[i + 1].prop
  <2>1. j > 1 /\ j - 1 > i
    BY <1>1, <1>3
  <2>2. j - 1 \in 1 .. Len(s) /\ s[j - 1] = queue[j]
    BY <1>1, <2>1, Zenon
  <2> QED BY <1>2, <2>1, <2>2, Zenon
<1>4. /\ queue[i + 1].prop = "config" => queue[i + 1].val = config
      /\ queue[i + 1].prop = "charging" => queue[i + 1].val = charging
  BY <1>2, <1>3, Zenon DEF Latest
<1> QED BY <1>1, <1>2, <1>4

(* An event of sys.usb.config, the last one, starts a trigger that brings  *)
(* everything to what the configuration asks for.                          *)
LEMMA DequeueConfig ==
  ASSUME IInv, Dequeue, Head(queue).prop = "config", ~Waits("config")'
  PROVE  Settles' /\ SettlesCharging' /\ Starts'
<1> DEFINE e == Head(queue)
           r == running'
<1>0. Shape /\ Latest /\ config' = config
  BY Dequeues DEF IInv, properties
<1>1. e.val = config
  <2>1. \A f : f = Head(queue) /\ f.prop = "config" => ~Waits(f.prop)'
    BY Zenon
  <2> QED BY <1>0, <2>1, LatestTaken
<1>2. \/ config = None /\ r = NoneUsb \o NoneMt6735
      \/ config = Charging /\ r = OnCharging
      \/ config \in Config /\ config # Charging /\ Configures(config, r)
  <2>1. e.prop # "persist" /\ e.prop # "charging"
    OBVIOUS
  <2> QED BY <1>0, <1>1, <2>1, DequeueKinds, Zenon
<1>3. None # Charging /\ "adb" \notin None /\ "adb" \notin Charging /\ None \notin Config
  BY ConfigAssumption DEF None, Charging
<1>4. Class(None) = 0 /\ Class(Charging) = 0
  <2>1. None # {"acm"} /\ None # {"rndis"} /\ Charging # {"acm"} /\ Charging # {"rndis"}
    BY DEF None, Charging
  <2> QED BY <2>1, ClassFacts
<1> HIDE DEF e, r
<1>5. CASE config = None /\ r = NoneUsb \o NoneMt6735
  <2>1. Last(r, {"state"}, "state") /\ Last(r, Enables, "enable_0") /\ Last(r, Cmodes, "cmode_1")
    BY <1>5, NoneTriggers, Zenon
  <2>2. Settles'
    BY <1>0, <1>5, <2>1, Zenon DEF Settles, Ends, r
  <2>3. SettlesCharging'
    BY <1>0, <1>3, <1>5, Zenon DEF SettlesCharging
  <2>4. Starts'
    BY <1>0, <1>3, <1>4, <1>5, Zenon DEF Starts
  <2> QED BY <2>2, <2>3, <2>4
<1>6. CASE config = Charging /\ r = OnCharging
  <2>1. Last(r, {"state"}, "state") /\ 2 \in 1 .. Len(r) /\ r[2] = "charging_yes"
    BY <1>6, ChargingTriggers
  <2>2. Settles'
    BY <1>0, <1>6, Zenon DEF Settles
  <2>3. YesComes' /\ ChargingComes'
    BY <2>1, Zenon DEF YesComes, ChargingComes, r
  <2>4. SettlesCharging'
    BY <1>0, <1>6, <2>1, <2>3, Zenon DEF SettlesCharging, Ends, r
  <2>5. Starts'
    BY <1>0, <1>3, <1>4, <1>6, Zenon DEF Starts
  <2> QED BY <2>2, <2>4, <2>5
<1>7. CASE config \in Config /\ config # Charging /\ Configures(config, r)
  <2>0. config # None
    BY <1>3, <1>7
  <2>1. /\ Last(r, {"state"}, "state") /\ Last(r, Enables, "enable_1") /\ Last(r, Cmodes, "cmode_1")
        /\ LoadsOnly(r, config) /\ LoadsLater(r)
        /\ "adb" \in config => Last(r, Adbds, "start_adbd")
        /\ Class(config) # 0 => Last(r, Classes, ClassOf(config))
    BY <1>7, Zenon DEF Configures
  <2>2. Settles'
    BY <1>0, <2>0, <2>1, Zenon DEF Settles, Ends, r
  <2>3. SettlesCharging'
    BY <1>0, <1>7, Zenon DEF SettlesCharging
  <2>4. Starts'
    BY <1>0, <2>1, Zenon DEF Starts, Ends, r
  <2> QED BY <2>2, <2>3, <2>4
<1> QED BY <1>2, <1>5, <1>6, <1>7

(* Another event leaves the nodes alone that it is not about.              *)
LEMMA DequeueOther ==
  ASSUME IInv, Dequeue, Head(queue).prop # "config", ~Waits("config")'
  PROVE  Settles' /\ SettlesCharging' /\ Starts'
<1> DEFINE e == Head(queue)
           r == running'
<1>0. Shape /\ Latest /\ Settles /\ SettlesCharging /\ Starts
  BY DEF IInv
<1>1. /\ config' = config /\ state' = state /\ charging' = charging
      /\ enable' = enable /\ functions' = functions /\ bDeviceClass' = bDeviceClass
      /\ cmode' = cmode /\ adbd' = adbd
  BY <1>0, Dequeues DEF properties, gadget
<1>2. /\ e = queue[1] /\ \A i \in 1 .. Len(queue) : i = 1 \/ i > 1
      /\ \A i \in 1 .. Len(queue) : i > 1 => i - 1 \in 1 .. Len(queue') /\ queue'[i - 1] = queue[i]
  BY <1>0, Dequeues
<1>3. /\ \A W, w : Free(running, W) /\ ~Last(running, W, w)
      /\ ~LoadsNow(running) /\ ~LoadsLater(running)
      /\ \A i \in 1 .. Len(running) : FALSE
  BY <1>0, Dequeues
<1>4. \/ e.prop = "persist" /\ r = OnPersist /\ UNCHANGED raced
      \/ e.prop = "charging" /\ e.val = "yes" /\ r = OnChargingYes
         /\ (raced' <=> raced \/ config # Charging)
      \/ e.prop = "charging" /\ e.val = "no" /\ r = OnChargingNo /\ UNCHANGED raced
  BY <1>0, DequeueKinds, Zenon
<1>5. e.prop = "charging" /\ ~Waits("charging")' => e.val = charging
  <2>1. \A f : f = Head(queue) /\ f.prop = "charging" /\ ~Waits("charging")' => ~Waits(f.prop)'
    BY Zenon
  <2> QED BY <1>0, <2>1, LatestTaken
<1> HIDE DEF e
<1>6. ~Waits("config")
  BY <1>2, Zenon DEF Waits, e
<1>7. ~Waits("charging")' /\ e.prop # "charging" => ~Waits("charging")
  BY <1>2, Zenon DEF Waits
<1>8. ~YesComes' /\ e # Event("charging", "yes") => ~YesComes
  BY <1>2, <1>3, Zenon DEF YesComes
<1>9. ~ChargingComes' /\ e.prop # "charging" => ~ChargingComes
  BY <1>3, <1>7, Zenon DEF ChargingComes
<1>10. ~ChargingComes' => ~Waits("charging")'
  BY Zenon DEF ChargingComes
<1>11. Free(r, Loads) => LoadsMtp(r) /\ \A c : LoadsOnly(r, c)
  BY Zenon DEF Free, LoadsMtp, LoadsOnly
<1>12. ~raced /\ config # Charging =>
         /\ state = config /\ cmode = 1
         /\ config = None => ~enable
         /\ config # None => enable /\ functions = config
  BY <1>0, <1>3, <1>6, Zenon DEF Settles, Ends
<1>13. config = Charging =>
         /\ state = config
         /\ ~YesComes => enable /\ functions = {"mtp"}
         /\ ~ChargingComes => IF charging = "yes" THEN cmode = 2 ELSE cmode = 1
  BY <1>0, <1>3, <1>6, Zenon DEF SettlesCharging, Ends
<1>14. /\ "adb" \in config => adbd
       /\ Class(config) # 0 => bDeviceClass = Class(config)
  BY <1>0, <1>3, <1>6, Zenon DEF Starts, Ends
<1>15. ASSUME Free(r, Adbds), Free(r, Classes) PROVE Starts'
  BY <1>1, <1>14, <1>15, Zenon DEF Starts, Ends, r
<1> HIDE DEF r
<1>16. CASE e.prop = "persist" /\ r = OnPersist /\ UNCHANGED raced
  <2>1. /\ Free(r, {"state"}) /\ Free(r, Enables) /\ Free(r, Loads) /\ Free(r, Cmodes)
        /\ Free(r, Adbds) /\ Free(r, Classes)
    <3>1. Len(r) = 1 /\ r[1] = "config"
      BY <1>16, OtherTriggers
    <3> QED BY <3>1, PersistList
  <2>2. e.prop # "charging" /\ e # Event("charging", "yes")
    BY <1>16 DEF Event
  <2>3. Settles'
    BY <1>1, <1>11, <1>12, <1>16, <2>1, Zenon DEF Settles, Ends, r
  <2>4. SettlesCharging'
    BY <1>1, <1>8, <1>9, <1>11, <1>13, <2>1, <2>2, Zenon DEF SettlesCharging, Ends, r
  <2> QED BY <1>15, <2>1, <2>3, <2>4
<1>17. CASE /\ e.prop = "charging" /\ e.val = "yes" /\ r = OnChargingYes
            /\ (raced' <=> raced \/ config # Charging)
  <2>1. /\ Free(r, {"state"}) /\ Free(r, Adbds) /\ Free(r, Classes)
        /\ Last(r, Enables, "enable_1") /\ Last(r, Cmodes, "cmode_2")
        /\ LoadsMtp(r) /\ LoadsLater(r)
    <3>1. /\ Len(r) = 4 /\ r[1] = "enable_0" /\ r[2] = "functions_mtp"
          /\ r[3] = "enable_1" /\ r[4] = "cmode_2"
      BY <1>17, OtherTriggers
    <3> QED BY <3>1, ChargingYesList
  <2>2. ~ChargingComes' => charging = "yes"
    BY <1>5, <1>10, <1>17, Zenon
  <2>3. Settles'
    BY <1>1, <1>17, Zenon DEF Settles
  <2>4. SettlesCharging'
    BY <1>1, <1>13, <2>1, <2>2, Zenon DEF SettlesCharging, Ends, r
  <2> QED BY <1>15, <2>1, <2>3, <2>4
<1>18. CASE e.prop = "charging" /\ e.val = "no" /\ r = OnChargingNo /\ UNCHANGED raced
  <2>1. /\ Free(r, {"state"}) /\ Free(r, Enables) /\ Free(r, Loads) /\ Last(r, Cmodes, "cmode_1")
        /\ Free(r, Adbds) /\ Free(r, Classes)
    <3>1. Len(r) = 1 /\ r[1] = "cmode_1"
      BY <1>18, OtherTriggers
    <3> QED BY <3>1, ChargingNoList
  <2>2. e # Event("charging", "yes")
    BY <1>18 DEF Event
  <2>3. ~ChargingComes' => charging = "no"
    BY <1>5, <1>10, <1>18, Zenon
  <2>4. Settles'
    BY <1>1, <1>11, <1>12, <1>18, <2>1, Zenon DEF Settles, Ends, r
  <2>5. "no" # "yes"
    OBVIOUS
  <2>6. SettlesCharging'
    BY <1>1, <1>8, <1>11, <1>13, <2>1, <2>2, <2>3, <2>5, Zenon DEF SettlesCharging, Ends, r
  <2> QED BY <1>15, <2>1, <2>4, <2>6
<1> QED BY <1>4, <1>16, <1>17, <1>18

(* Either a later event of sys.usb.config waits, or one of the two above.  *)
LEMMA DequeueSettles ==
  ASSUME IInv, Dequeue
  PROVE  Settles' /\ SettlesCharging' /\ Starts'
<1>1. CASE Waits("config")'
  BY <1>1, Zenon DEF Settles, SettlesCharging, Starts
<1> QED BY <1>1, DequeueConfig, DequeueOther

(* Taking none cleans; taking the present configuration again leaves what  *)
(* it needs itself.                                                        *)
LEMMA DequeueCleans ==
  ASSUME IInv, Dequeue
  PROVE  Cleans'
<1> DEFINE e == Head(queue)
           r == running'
<1>0. Shape /\ Cleans
  BY DEF IInv
<1>1. /\ config' = config /\ skipped' = skipped
      /\ bDeviceClass' = bDeviceClass /\ adbd' = adbd
  BY <1>0, Dequeues DEF properties, gadget
<1>2. /\ e = queue[1] /\ 1 \in 1 .. Len(queue) /\ Len(queue) \in Nat /\ Len(queue') = Len(queue) - 1
      /\ \A i \in 1 .. Len(queue') : i + 1 \in 1 .. Len(queue) /\ queue'[i] = queue[i + 1]
      /\ \A i \in 1 .. Len(queue) : i > 1 => i - 1 \in 1 .. Len(queue') /\ queue'[i - 1] = queue[i]
  BY <1>0, Dequeues
<1>3. \A W, w : Free(running, W) /\ ~Last(running, W, w)
  BY <1>0, Dequeues
<1>4. \/ e.prop = "config" /\ e.val = None /\ r = NoneUsb \o NoneMt6735
      \/ e.prop = "config" /\ e.val = Charging /\ r = OnCharging
      \/ e.prop = "config" /\ Configures(e.val, r)
      \/ e.prop # "config" /\ r = OnPersist
      \/ e.prop # "config" /\ r = OnChargingYes
      \/ e.prop # "config" /\ r = OnChargingNo
  <2>1. /\ e.prop = "persist" => e.prop # "config"
        /\ e.prop = "charging" => e.prop # "config"
    OBVIOUS
  <2> QED BY <1>0, <2>1, DequeueKinds, Zenon
<1> HIDE DEF e
<1> SUFFICES ASSUME ~skipped
             PROVE  \/ \E i \in 1 .. Len(queue') : queue'[i] = Event("config", None) /\ Since(i)'
                    \/ Since(0)' /\ Clean(config)'
  BY <1>1, Zenon DEF Cleans
<1>5. ASSUME NEW i \in Nat, Since(i + 1) PROVE Since(i)'
  <2> SUFFICES ASSUME NEW j \in 1 .. Len(queue'), j > i, queue'[j].prop = "config"
               PROVE  queue'[j].val = config /\ config # None
    BY <1>1 DEF Since
  <2>1. j + 1 \in 1 .. Len(queue) /\ j + 1 > i + 1 /\ queue'[j] = queue[j + 1]
    BY <1>2
  <2> QED BY <1>5, <2>1, Zenon DEF Since
<1>6. ASSUME NEW i \in 1 .. Len(queue), queue[i] = Event("config", None), Since(i), i > 1
      PROVE  \E k \in 1 .. Len(queue') : queue'[k] = Event("config", None) /\ Since(k)'
  <2>1. i - 1 \in 1 .. Len(queue') /\ queue'[i - 1] = queue[i]
    BY <1>2, <1>6, Zenon
  <2>2. i - 1 \in Nat /\ (i - 1) + 1 = i
    BY <1>6
  <2>3. \A k \in Nat : k + 1 = i => Since(k)'
    <3> TAKE k \in Nat
    <3> HAVE k + 1 = i
    <3>1. Since(k + 1)
      BY <1>6, Zenon
    <3> QED BY <1>5, <3>1
  <2>4. \A k : k = i - 1 => k \in 1 .. Len(queue') /\ queue'[k] = Event("config", None) /\ Since(k)'
    BY <1>6, <2>1, <2>2, <2>3, Zenon
  <2> QED BY <2>4, Zenon
<1>7. ASSUME Free(r, Adbds), Free(r, Classes), Clean(config) PROVE Clean(config)'
  BY <1>1, <1>3, <1>7, Zenon DEF Clean, Ends, r
<1>8. ASSUME queue[1] = Event("config", None), Since(1) PROVE Since(0)' /\ Clean(config)'
  <2>1. Since(0)'
    <3>1. 0 \in Nat /\ 0 + 1 = 1
      OBVIOUS
    <3>2. Since(0 + 1)
      BY <1>8, <3>1, Zenon
    <3> QED BY <1>5, <3>1, <3>2
  <2>2. e.prop = "config" /\ e.val = None
    BY <1>2, <1>8 DEF Event
  <2>3. r = NoneUsb \o NoneMt6735
    BY <1>0, <2>2, DequeueKinds, ConfigAssumption DEF e, None, Charging
  <2>4. Last(r, Adbds, "stop_adbd") /\ Last(r, Classes, "class_0")
    BY <2>3, NoneTriggers, Zenon
  <2>5. Clean(config)'
    BY <2>4, Zenon DEF Clean, Ends, r
  <2> QED BY <2>1, <2>5
<1>9. ASSUME Since(0), Clean(config) PROVE Since(0)' /\ Clean(config)'
  <2>1. Since(0)'
    <3>1. 0 \in Nat /\ Since(0 + 1)
      <4>1. \A j \in 1 .. Len(queue) : j > 0
        BY <1>2
      <4> QED BY <1>9, <4>1, Zenon DEF Since
    <3> QED BY <1>5, <3>1
  <2>2. e.prop = "config" => e.val = config /\ config # None
    <3>1. 1 > 0
      OBVIOUS
    <3> QED BY <1>2, <1>9, <3>1, Zenon DEF Since
  <2> HIDE DEF r
  <2>3. CASE e.prop = "config" /\ r = OnCharging
    <3>1. Free(r, Adbds) /\ Free(r, Classes)
      BY <2>3, ChargingTriggers
    <3> QED BY <1>7, <1>9, <2>1, <3>1
  <2>4. CASE e.prop = "config" /\ Configures(e.val, r)
    <3>1. /\ "adb" \notin config => Free(r, Adbds)
          /\ IF Class(config) # 0 THEN Last(r, Classes, ClassOf(config)) ELSE Free(r, Classes)
      BY <2>2, <2>4, Zenon DEF Configures
    <3>2. Clean(config)'
      BY <1>1, <1>3, <1>9, <3>1, Zenon DEF Clean, Ends, r
    <3> QED BY <2>1, <3>2
  <2>5. CASE r = OnPersist
    <3>1. Len(r) = 1 /\ r[1] = "config"
      BY <2>5, OtherTriggers
    <3>2. Free(r, Adbds) /\ Free(r, Classes)
      BY <3>1, PersistList
    <3> QED BY <1>7, <1>9, <2>1, <3>2
  <2>6. CASE r = OnChargingYes
    <3>1. /\ Len(r) = 4 /\ r[1] = "enable_0" /\ r[2] = "functions_mtp"
          /\ r[3] = "enable_1" /\ r[4] = "cmode_2"
      BY <2>6, OtherTriggers
    <3>2. Free(r, Adbds) /\ Free(r, Classes)
      BY <3>1, ChargingYesList
    <3> QED BY <1>7, <1>9, <2>1, <3>2
  <2>7. CASE r = OnChargingNo
    <3>1. Len(r) = 1 /\ r[1] = "cmode_1"
      BY <2>7, OtherTriggers
    <3>2. Free(r, Adbds) /\ Free(r, Classes)
      BY <3>1, ChargingNoList
    <3> QED BY <1>7, <1>9, <2>1, <3>2
  <2> QED BY <1>4, <2>2, <2>3, <2>4, <2>5, <2>6, <2>7, Zenon
<1>10. \A i \in 1 .. Len(queue) : i = 1 \/ i > 1
  BY <1>2
<1> QED BY <1>0, <1>6, <1>8, <1>9, <1>10, Zenon DEF Cleans

(* Together: the next event, and a command.                                *)
LEMMA DequeueInv ==
  ASSUME IInv, Dequeue
  PROVE  IInv'
BY DequeueShape, DequeueLatest, DequeueSettles, DequeueCleans DEF IInv

LEMMA ExecuteInv ==
  ASSUME IInv, Execute
  PROVE  IInv'
BY ExecuteShape, ExecuteEvents, ExecuteSettles DEF IInv

-----------------------------------------------------------------------------
(* The framework and the others.                                           *)

(* Commands that wait are not touched.                                     *)
LEMMA SameClean ==
  ASSUME UNCHANGED <<running, gadget>>, NEW k
  PROVE  Clean(k) => Clean(k)'
<1>1. running' = running /\ adbd' = adbd /\ bDeviceClass' = bDeviceClass
  BY DEF gadget
<1> QED BY <1>1, Zenon DEF Clean

(* There is room for one more event.                                       *)
LEMMA RoomForOne ==
  ASSUME Shape, Room, NEW e \in Events, queue' = Append(queue, e), UNCHANGED running
  PROVE  /\ queue' \in Seq(Events) /\ Len(queue') <= MaxQueue + 1
         /\ running' \in Seq(Command) /\ Len(running') <= 12
         /\ \A i \in 1 .. Len(running') :
              running'[i] \in Sets => i = Len(running') /\ Len(queue') <= MaxQueue
<1>1. queue \in Seq(Events)
  BY DEF Shape
<1>2. Len(queue) \in Nat /\ queue' \in Seq(Events) /\ Len(queue') = Len(queue) + 1
  BY <1>1, Appended
<1>3. MaxQueue \in Nat /\ Len(queue) < MaxQueue
  BY QueueAssumption DEF Room
<1>4. Len(queue') <= MaxQueue /\ Len(queue') <= MaxQueue + 1
  BY <1>2, <1>3
<1>5. /\ running \in Seq(Command) /\ Len(running) <= 12
      /\ \A i \in 1 .. Len(running) : running[i] \in Sets => i = Len(running)
  BY Zenon DEF Shape
<1> QED BY <1>2, <1>4, <1>5, Zenon

(* Setting sys.usb.config leaves an event that brings everything to it.    *)
LEMMA SetConfigInv ==
  ASSUME IInv, NEW c \in Config \cup {None}, Room, SetConfig(c),
         UNCHANGED <<state, persist, charging, gadget, running, raced>>,
         fpc' \in {"idle", "none", "wait"}, target' \in Config \cup {None}
  PROVE  IInv'
<1> DEFINE e == Event("config", c)
<1>0. Shape /\ Latest /\ Cleans /\ queue \in Seq(Events)
  BY DEF IInv, Shape
<1>1. e \in Events /\ e.prop = "config" /\ e.val = c
  BY DEF Event, Events
<1>2. config' = c /\ queue' = Append(queue, e)
  BY DEF SetConfig
<1>3. skipped' \in BOOLEAN
  <2>1. skipped' = (c # None /\ (skipped \/ config \notin {None, c}))
    BY DEF SetConfig
  <2> QED BY <2>1, Zenon
<1>4. Cleans' /\ Waits("config")'
  <2>1. \A k \in Config \cup {None} : Clean(k) => Clean(k)'
    BY SameClean
  <2> QED BY <1>0, <2>1, SetConfigCleans
<1> HIDE DEF e
<1>5. Latest'
  BY <1>0, <1>1, <1>2, AppendLatest
<1>6. Settles' /\ SettlesCharging' /\ Starts'
  BY <1>4, Zenon DEF Settles, SettlesCharging, Starts
<1>7. /\ queue' \in Seq(Events) /\ Len(queue') <= MaxQueue + 1
      /\ running' \in Seq(Command) /\ Len(running') <= 12
      /\ \A i \in 1 .. Len(running') :
           running'[i] \in Sets => i = Len(running') /\ Len(queue') <= MaxQueue
  BY <1>0, <1>1, <1>2, RoomForOne
<1>8. /\ state' \in Config \cup {None} /\ persist' \in Config
      /\ charging' \in {"unset", "yes", "no"}
      /\ enable' \in BOOLEAN /\ adbd' \in BOOLEAN /\ raced' \in BOOLEAN
      /\ functions' \in Supported /\ bDeviceClass' \in {0, 2, 224} /\ cmode' \in {1, 2}
  BY <1>0 DEF Shape, gadget
<1>9. Shape'
  BY <1>2, <1>3, <1>7, <1>8, Zenon DEF Shape
<1> QED BY <1>4, <1>5, <1>6, <1>9 DEF IInv

(* Setting another property leaves the nodes to the event that waits.      *)
LEMMA SetOtherInv ==
  ASSUME IInv, NEW e \in Events, e.prop # "config", Room, queue' = Append(queue, e),
         UNCHANGED <<config, state, gadget, running, framework, history>>,
         persist' \in Config, charging' \in {"unset", "yes", "no"},
         IF e.prop = "charging" THEN charging' = e.val ELSE charging' = charging
  PROVE  IInv'
<1>0. /\ Shape /\ Latest /\ Settles /\ SettlesCharging /\ Starts /\ Cleans
      /\ queue \in Seq(Events)
  BY DEF IInv, Shape
<1>1. /\ config' = config /\ state' = state /\ raced' = raced /\ skipped' = skipped
      /\ enable' = enable /\ functions' = functions /\ bDeviceClass' = bDeviceClass
      /\ cmode' = cmode /\ adbd' = adbd /\ running' = running
      /\ fpc' = fpc /\ target' = target
  BY DEF gadget, framework, history
<1>2. Cleans' /\ (Waits("config")' <=> Waits("config"))
  <2>1. \A k \in Config \cup {None} : Clean(k) => Clean(k)'
    BY SameClean
  <2> QED BY <1>0, <2>1, SetOtherCleans DEF history
<1>3. Latest'
  BY <1>0, <1>1, AppendLatest
<1>4. /\ \A i \in 1 .. Len(queue) : i \in 1 .. Len(queue') /\ queue'[i] = queue[i]
      /\ Len(queue') \in 1 .. Len(queue') /\ queue'[Len(queue')] = e
  BY <1>0, Appended
<1>5. YesComes => YesComes'
  BY <1>1, <1>4, Zenon DEF YesComes
<1>6. ChargingComes => ChargingComes'
  BY <1>1, <1>4, Zenon DEF ChargingComes, Waits
<1>7. e.prop = "charging" => ChargingComes'
  BY <1>4, Zenon DEF ChargingComes, Waits
<1>8. ~ChargingComes' => charging' = charging
  BY <1>7, Zenon
<1>9. Settles'
  BY <1>0, <1>1, <1>2, Zenon DEF Settles
<1>10. SettlesCharging'
  BY <1>0, <1>1, <1>2, <1>5, <1>6, <1>8, Zenon DEF SettlesCharging
<1>11. Starts'
  BY <1>0, <1>1, <1>2, Zenon DEF Starts
<1>12. /\ queue' \in Seq(Events) /\ Len(queue') <= MaxQueue + 1
       /\ running' \in Seq(Command) /\ Len(running') <= 12
       /\ \A i \in 1 .. Len(running') :
            running'[i] \in Sets => i = Len(running') /\ Len(queue') <= MaxQueue
  BY <1>0, <1>1, RoomForOne
<1>13. /\ config' \in Config \cup {None} /\ state' \in Config \cup {None}
       /\ enable' \in BOOLEAN /\ adbd' \in BOOLEAN /\ raced' \in BOOLEAN /\ skipped' \in BOOLEAN
       /\ functions' \in Supported /\ bDeviceClass' \in {0, 2, 224} /\ cmode' \in {1, 2}
       /\ fpc' \in {"idle", "none", "wait"} /\ target' \in Config \cup {None}
  BY <1>0, <1>1 DEF Shape
<1>14. Shape'
  BY <1>12, <1>13, Zenon DEF Shape
<1> QED BY <1>2, <1>3, <1>9, <1>10, <1>11, <1>14 DEF IInv

(* A step of the framework alone, or none.                                 *)
LEMMA SameInv ==
  ASSUME IInv, UNCHANGED <<properties, gadget, queue, running, history>>,
         fpc' \in {"idle", "none", "wait"}, target' \in Config \cup {None}
  PROVE  IInv'
<1>1. /\ config' = config /\ state' = state /\ persist' = persist /\ charging' = charging
      /\ raced' = raced /\ skipped' = skipped
      /\ enable' = enable /\ functions' = functions /\ bDeviceClass' = bDeviceClass
      /\ cmode' = cmode /\ adbd' = adbd /\ running' = running /\ queue' = queue
  BY DEF properties, gadget, history
<1>2. Shape'
  BY <1>1 DEF IInv, Shape
<1>3. Latest'
  BY <1>1, Zenon DEF IInv, Latest
<1>4. Settles'
  BY <1>1, Zenon DEF IInv, Settles, Waits
<1>5. SettlesCharging'
  BY <1>1, Zenon DEF IInv, SettlesCharging, Waits, YesComes, ChargingComes
<1>6. Starts'
  BY <1>1, Zenon DEF IInv, Starts, Waits
<1>7. Cleans'
  BY <1>1, Zenon DEF IInv, Cleans, Since, Clean
<1> QED BY <1>2, <1>3, <1>4, <1>5, <1>6, <1>7 DEF IInv

-----------------------------------------------------------------------------
(* At boot nothing is configured and only the persistent event waits.      *)
LEMMA InitInv ==
  ASSUME Init
  PROVE  IInv
<1> DEFINE e == Event("persist", persist)
<1>0. /\ config = None /\ state = None /\ persist \in Config /\ charging = "unset"
      /\ enable = FALSE /\ functions = {} /\ bDeviceClass = 0 /\ cmode = 1 /\ adbd = FALSE
      /\ queue = <<e>> /\ running = <<>> /\ fpc = "idle" /\ target = None
      /\ raced = FALSE /\ skipped = FALSE
  BY DEF Init
<1>1. e \in Events /\ e.prop = "persist"
  BY <1>0 DEF Event, Events
<1>2. Len(running) = 0 /\ running \in Seq(Command)
  BY <1>0
<1> HIDE DEF e
<1>3. Len(queue) = 1 /\ queue[1] = e /\ queue \in Seq(Events)
  BY <1>0, <1>1
<1>4. \A i \in 1 .. Len(queue) : queue[i].prop = "persist"
  BY <1>1, <1>3
<1>5. Shape
  <2>1. Len(queue) <= MaxQueue + 1 /\ Len(running) <= 12
    BY <1>2, <1>3, QueueAssumption
  <2>2. functions \in Supported
    BY <1>0, Configs
  <2>3. \A i \in 1 .. Len(running) : FALSE
    BY <1>2
  <2> QED BY <1>0, <1>2, <1>3, <2>1, <2>2, <2>3, Zenon DEF Shape
<1>6. Latest
  BY <1>4 DEF Latest
<1>7. None # Charging /\ "adb" \notin None /\ Class(None) = 0
  <2>1. None # {"acm"} /\ None # {"rndis"}
    BY DEF None
  <2> QED BY <2>1, ClassFacts DEF None, Charging
<1>8. \A W : Free(running, W)
  BY <1>0, NothingLeft
<1>9. Settles
  BY <1>0, <1>8, Zenon DEF Settles, Ends
<1>10. SettlesCharging
  BY <1>0, <1>7, Zenon DEF SettlesCharging
<1>11. Starts
  BY <1>0, <1>7, Zenon DEF Starts
<1>12. Clean(config)
  BY <1>0, <1>8, Zenon DEF Clean, Ends
<1>13. Since(0)
  BY <1>4 DEF Since
<1>14. Cleans
  BY <1>12, <1>13, Zenon DEF Cleans
<1> QED BY <1>5, <1>6, <1>9, <1>10, <1>11, <1>14 DEF IInv

(* Every step.                                                             *)
LEMMA NextInv ==
  ASSUME IInv, [Next]_vars
  PROVE  IInv'
<1>0. Shape
  BY DEF IInv
<1>1. CASE Dequeue
  BY <1>1, DequeueInv
<1>2. CASE Execute
  BY <1>2, ExecuteInv
<1>3. CASE SwitchGo
  <2>1. target \in Config \cup {None}
    BY <1>0 DEF Shape
  <2>2. /\ Room /\ SetConfig(target) /\ fpc' = "wait" /\ target' = target
        /\ UNCHANGED <<state, persist, charging, gadget, running, raced>>
    BY <1>3 DEF SwitchGo
  <2> QED BY <2>1, <2>2, SetConfigInv
<1>4. CASE SwitchEnd
  <2>1. /\ fpc' = "idle" /\ target' = None
        /\ UNCHANGED <<properties, gadget, queue, running, history>>
    BY <1>4 DEF SwitchEnd
  <2> QED BY <2>1, SameInv
<1>5. CASE SetChargingNo
  <2> DEFINE e == Event("charging", "no")
  <2>1. e \in Events /\ e.prop = "charging" /\ e.val = "no"
    BY DEF Event, Events
  <2>2. /\ Room /\ charging' = "no" /\ queue' = Append(queue, e)
        /\ persist' = persist
        /\ UNCHANGED <<config, state, gadget, running, framework, history>>
    BY <1>5 DEF SetChargingNo
  <2> HIDE DEF e
  <2>3. persist' \in Config
    BY <1>0, <2>2 DEF Shape
  <2> QED BY <2>1, <2>2, <2>3, SetOtherInv
<1>6. ASSUME NEW c \in Config, SwitchBegin(c) PROVE IInv'
  <2>1. /\ Room /\ SetConfig(None) /\ fpc' = "none" /\ target' = c
        /\ UNCHANGED <<state, persist, charging, gadget, running, raced>>
    BY <1>6 DEF SwitchBegin
  <2> QED BY <2>1, SetConfigInv
<1>7. ASSUME NEW c \in Config, SetPersist(c) PROVE IInv'
  <2> DEFINE e == Event("persist", c)
  <2>1. e \in Events /\ e.prop = "persist"
    BY DEF Event, Events
  <2>2. /\ Room /\ persist' = c /\ queue' = Append(queue, e)
        /\ charging' = charging
        /\ UNCHANGED <<config, state, gadget, running, framework, history>>
    BY <1>7 DEF SetPersist
  <2> HIDE DEF e
  <2>3. charging' \in {"unset", "yes", "no"}
    BY <1>0, <2>2 DEF Shape
  <2> QED BY <2>1, <2>2, <2>3, SetOtherInv
<1>8. CASE UNCHANGED vars
  <2>1. UNCHANGED <<properties, gadget, queue, running, history>>
    BY <1>8 DEF vars
  <2>2. fpc' \in {"idle", "none", "wait"} /\ target' \in Config \cup {None}
    BY <1>0, <1>8 DEF vars, framework, Shape
  <2> QED BY <2>1, <2>2, SameInv
<1> QED BY <1>1, <1>2, <1>3, <1>4, <1>5, <1>6, <1>7, <1>8 DEF Next

(* While events wait and triggers run, what is left of the running trigger *)
(* and the events after it bring the gadget to the configuration set last. *)
THEOREM Invariance == Spec => []IInv
<1>1. Init => IInv
  BY InitInv
<1>2. IInv /\ [Next]_vars => IInv'
  BY NextInv
<1> QED BY <1>1, <1>2, PTL DEF Spec

(* Properties, nodes and the queues of init have their shapes; init itself *)
(* exceeds the room that others leave by at most one event.                *)
THEOREM TypeCorrect == Spec => []TypeOK
<1>1. ASSUME IInv PROVE TypeOK
  <2>1. Shape
    BY <1>1 DEF IInv
  <2>2. \A i \in DOMAIN queue : queue[i] \in Events
    BY <2>1 DEF Shape
  <2>3. /\ {config, state} \subseteq Config \cup {None}
        /\ {enable, adbd, raced, skipped} \subseteq BOOLEAN
    BY <2>1 DEF Shape
  <2> QED BY <2>1, <2>2, <2>3, Zenon DEF Shape, TypeOK
<1> QED BY <1>1, Invariance, PTL

(* Whenever init has dealt with all events, the gadget shows the last      *)
(* setting of sys.usb.config, unless the trigger of sys.usb.charging=yes   *)
(* came after that of a configuration set meanwhile.                       *)
THEOREM GadgetFollowsConfig == Spec => []GadgetFollows
<1>1. ASSUME IInv PROVE GadgetFollows
  <2> SUFFICES ASSUME queue = <<>>, running = <<>>, ~raced PROVE Shown(config)
    BY DEF GadgetFollows, Idle
  <2>1. /\ Settles /\ SettlesCharging /\ config \in Config \cup {None} /\ enable \in BOOLEAN
    BY <1>1 DEF IInv, Shape
  <2>2. \A i \in 1 .. Len(queue) : FALSE
    OBVIOUS
  <2>3. ~Waits("config") /\ ~Waits("charging")
    BY <2>2, Zenon DEF Waits
  <2>4. /\ \A W, w : Free(running, W) /\ ~Last(running, W, w)
        /\ ~LoadsNow(running) /\ ~LoadsLater(running)
    BY NothingLeft
  <2>5. \A i \in 1 .. Len(running) : FALSE
    OBVIOUS
  <2>6. ~YesComes /\ ~ChargingComes
    BY <2>2, <2>3, <2>5, Zenon DEF YesComes, ChargingComes
  <2>7. CASE config # Charging
    <3>1. /\ state = config /\ cmode = 1
          /\ config = None => ~enable
          /\ config # None => enable /\ functions = config
      BY <2>1, <2>3, <2>4, <2>7, Zenon DEF Settles, Ends
    <3>2. enable = (config # None)
      BY <2>1, <3>1, Zenon
    <3> QED BY <2>7, <3>1, <3>2, Zenon DEF Shown
  <2>8. CASE config = Charging
    <3>1. /\ state = config /\ enable /\ functions = {"mtp"}
          /\ IF charging = "yes" THEN cmode = 2 ELSE cmode = 1
      BY <2>1, <2>3, <2>4, <2>6, <2>8, Zenon DEF SettlesCharging, Ends
    <3>2. Charging # None
      BY DEF Charging, None
    <3>3. enable = (config # None)
      BY <2>1, <2>8, <3>1, <3>2, Zenon
    <3>4. cmode = IF config = Charging /\ charging = "yes" THEN 2 ELSE 1
      BY <2>8, <3>1
    <3> QED BY <2>8, <3>1, <3>3, <3>4, Zenon DEF Shown
  <2> QED BY <2>7, <2>8
<1> QED BY <1>1, Invariance, PTL

(* Whenever init has dealt with all events, adbd runs where adb is         *)
(* configured; and if no configuration was set right after another one, no *)
(* adbd and no device class is left over from an earlier one.              *)
THEOREM NothingIsLeftOver == Spec => []NothingLeftOver
<1>1. ASSUME IInv PROVE NothingLeftOver
  <2> SUFFICES ASSUME queue = <<>>, running = <<>>
               PROVE  /\ "adb" \in config => adbd
                      /\ ~skipped => /\ adbd <=> "adb" \in config
                                     /\ bDeviceClass = Class(config)
    BY DEF NothingLeftOver, Idle, Class
  <2>1. Starts /\ Cleans
    BY <1>1 DEF IInv
  <2>2. \A i \in 1 .. Len(queue) : FALSE
    OBVIOUS
  <2>3. ~Waits("config")
    BY <2>2, Zenon DEF Waits
  <2>4. \A W, w : Free(running, W) /\ ~Last(running, W, w)
    BY NothingLeft
  <2>5. /\ "adb" \in config => adbd
        /\ Class(config) # 0 => bDeviceClass = Class(config)
    BY <2>1, <2>3, <2>4, Zenon DEF Starts, Ends
  <2>6. ASSUME ~skipped PROVE (adbd <=> "adb" \in config) /\ bDeviceClass = Class(config)
    <3>1. Clean(config)
      BY <2>1, <2>2, <2>6, Zenon DEF Cleans
    <3>2. /\ "adb" \notin config => ~adbd
          /\ bDeviceClass = 0 \/ bDeviceClass = Class(config)
      BY <2>4, <3>1, Zenon DEF Clean, Ends
    <3> QED BY <2>5, <3>2, Zenon
  <2> QED BY <2>5, <2>6, Zenon
<1> QED BY <1>1, Invariance, PTL
================================================================================

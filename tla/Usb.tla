---------------------------------- MODULE Usb ----------------------------------
(***************************************************************************)
(* The property triggers that configure the USB gadget (init.usb.rc and    *)
(* init.mt6735.usb.rc): init executes them one command at a time while     *)
(* other processes go on setting the properties that they match and        *)
(* expand.  "none" and "adb" have a trigger in each of the two files.      *)
(*                                                                         *)
(* A configuration is the set of its functions, none is {}.  Left out are  *)
(* the vendor and product ids that every trigger writes, the number of acm *)
(* instances, and the bicr, eem, via_bypass, gs and dual_acm               *)
(* configurations; with these goes mt_usb/saving, which they set and none  *)
(* clears.                                                                 *)
(* A command is one word: "enable_0" writes 0 to enable, "functions"       *)
(* writes ${sys.usb.config}, "state" sets sys.usb.state to it.             *)
(***************************************************************************)
EXTENDS Integers, Sequences

CONSTANTS
  Config,   \* configurations somebody asks for
  MaxQueue  \* events waiting for init at which others set no more properties

None == {}
Charging == {"charging"}
Accessory == {"accessory", "audio_source"}

(* The configurations with a trigger, see the first lines of each.         *)
Supported ==
  {b \cup x : b \in {{}, {"mtp"}, {"ptp"}, {"rndis"}, {"mass_storage"},
                     {"mtp", "mass_storage"}, {"ptp", "mass_storage"}},
              x \in SUBSET {"adb", "acm"}}
    \cup {a \cup x : a \in (SUBSET Accessory) \ {{}}, x \in SUBSET {"adb"}}
    \cup {Charging}

ASSUME ConfigAssumption == Config \subseteq Supported \ {None}
ASSUME QueueAssumption == MaxQueue \in Nat \ {0}

VARIABLES
  config, state, persist, charging, \* sys.usb.config, .state, persist.sys.usb.config, sys.usb.charging
  enable, functions, bDeviceClass,  \* the nodes of android_usb
  cmode,                            \* the node of mt_usb
  adbd,                             \* the service runs
  queue, running,                   \* init: events, and commands still to execute
  fpc, target,                      \* framework: position, what it switches to
  raced, skipped                    \* history, see GadgetFollows and NothingLeftOver

properties == <<config, state, persist, charging>>
gadget == <<enable, functions, bDeviceClass, cmode, adbd>>
framework == <<fpc, target>>
history == <<raced, skipped>>
vars == <<properties, gadget, queue, running, framework, history>>

Event(prop, val) == [prop |-> prop, val |-> val]

(* At boot the persistent configuration is loaded, which is an event.      *)
Init ==
  /\ config = None /\ state = None /\ persist \in Config /\ charging = "unset"
  /\ enable = FALSE /\ functions = {} /\ bDeviceClass = 0 /\ cmode = 1 /\ adbd = FALSE
  /\ queue = <<Event("persist", persist)>> /\ running = <<>>
  /\ fpc = "idle" /\ target = None
  /\ raced = FALSE /\ skipped = FALSE

-----------------------------------------------------------------------------
(* The triggers.                                                           *)

DeviceClass(c) == CASE c = {"acm"} -> <<"class_02">>
                    [] c = {"rndis"} -> <<"class_224">>
                    [] OTHER -> <<>>

(* One trigger has the names of its functions, the others expand them.     *)
Functions(c) == IF c = {"mtp", "adb"} THEN <<"functions_mtp_adb">> ELSE <<"functions">>

(* Mutant of StartAdbd: adbd is started with every configuration.          *)
StartAdbdAlways(c) == <<"start_adbd">>

StartAdbd(c) == IF "adb" \in c THEN <<"start_adbd">> ELSE <<>>

(* Mutant of Configure: the state is not announced.                        *)
ConfigureSilently(c) ==
  <<"enable_0">> \o Functions(c) \o DeviceClass(c) \o <<"enable_1", "cmode_1">> \o StartAdbd(c)

(* Mutant of Configure: the gadget is not disabled first.                  *)
ConfigureEnabled(c) ==
  Functions(c) \o DeviceClass(c) \o <<"enable_1", "cmode_1">> \o StartAdbd(c) \o <<"state">>

(* What the triggers of all configurations with functions have in common.  *)
Configure(c) ==
  <<"enable_0">> \o Functions(c) \o DeviceClass(c) \o <<"enable_1", "cmode_1">>
    \o StartAdbd(c) \o <<"state">>

(* "Used to disable USB when switching states", in init.usb.rc ...         *)
NoneUsb == <<"stop_adbd", "enable_0", "class_0", "state">>

(* ... and in init.mt6735.usb.rc.                                          *)
NoneMt6735 == <<"stop_adbd", "enable_0", "class_0", "cmode_1", "state">>

OnCharging == <<"state", "charging_yes">>
OnChargingYes == <<"enable_0", "functions_mtp", "enable_1", "cmode_2">>
OnChargingNo == <<"cmode_1">>

(* Mutant of OnPersist: it is in both files, as none and adb are.          *)
OnPersistTwice == <<"config", "config">>

(* "Used to set USB configuration at boot and to switch the configuration" *)
OnPersist == <<"config">>

InitUsbRc(c) ==
  CASE c = None -> NoneUsb
    [] c = {"adb"} \/ c \cap Accessory # {} -> Configure(c)
    [] OTHER -> <<>>

InitMt6735UsbRc(c) ==
  CASE c = None -> NoneMt6735
    [] c = Charging -> OnCharging
    [] c \cap Accessory # {} -> <<>>
    [] OTHER -> Configure(c)

(* The actions an event triggers, in the order the files are imported.     *)
Triggered(e) ==
  CASE e.prop = "persist" -> OnPersist
    [] e.prop = "charging" -> IF e.val = "yes" THEN OnChargingYes ELSE OnChargingNo
    [] e.prop = "config" -> InitUsbRc(e.val) \o InitMt6735UsbRc(e.val)

-----------------------------------------------------------------------------
(* init (external): what is queued, matched, expanded and executed when.   *)

(* sys.usb.config is set, by whomever.                                     *)
SetConfig(c) ==
  /\ config' = c /\ queue' = Append(queue, Event("config", c))
  /\ skipped' = (c # None /\ (skipped \/ config \notin {None, c}))

(* The next event; its actions are all executed before the one after it.   *)
Dequeue ==
  /\ running = <<>> /\ queue # <<>>
  /\ LET e == Head(queue) IN
       /\ running' = Triggered(e)
       /\ raced' = CASE e.prop = "config" -> FALSE
                     [] e.prop = "charging" /\ e.val = "yes" -> raced \/ config # Charging
                     [] OTHER -> raced
  /\ queue' = Tail(queue)
  /\ UNCHANGED <<properties, gadget, framework, skipped>>

(* The kernel takes no functions while the gadget is enabled, and knows    *)
(* none by the name of charging.                                           *)
WriteFunctions(c) == functions' = IF enable THEN functions ELSE c \ Charging

Write(cmd) ==
  /\ enable' = CASE cmd = "enable_0" -> FALSE [] cmd = "enable_1" -> TRUE [] OTHER -> enable
  /\ bDeviceClass' = CASE cmd = "class_0" -> 0 [] cmd = "class_02" -> 2
                       [] cmd = "class_224" -> 224 [] OTHER -> bDeviceClass
  /\ CASE cmd = "functions" -> WriteFunctions(config)
       [] cmd = "functions_mtp_adb" -> WriteFunctions({"mtp", "adb"})
       [] cmd = "functions_mtp" -> WriteFunctions({"mtp"})
       [] OTHER -> UNCHANGED functions
  /\ cmode' = CASE cmd = "cmode_1" -> 1 [] cmd = "cmode_2" -> 2 [] OTHER -> cmode
  /\ adbd' = CASE cmd = "start_adbd" -> TRUE [] cmd = "stop_adbd" -> FALSE [] OTHER -> adbd

(* One command; ${...} is expanded now.                                    *)
Execute ==
  /\ running # <<>> /\ running' = Tail(running)
  /\ LET cmd == Head(running) IN
       /\ Write(cmd)
       /\ state' = IF cmd = "state" THEN config ELSE state
       /\ IF cmd = "config" THEN SetConfig(persist) /\ UNCHANGED charging
          ELSE IF cmd = "charging_yes"
          THEN /\ charging' = "yes" /\ queue' = Append(queue, Event("charging", "yes"))
               /\ UNCHANGED <<config, skipped>>
          ELSE UNCHANGED <<config, charging, queue, skipped>>
  /\ UNCHANGED <<persist, framework, raced>>

-----------------------------------------------------------------------------
(* The framework (external): it changes the configuration through none,    *)
(* and waits for each state for a while; and others that set properties.   *)

Room == Len(queue) < MaxQueue

SwitchBegin(c) ==
  /\ Room /\ fpc = "idle" /\ fpc' = "none" /\ target' = c
  /\ SetConfig(None)
  /\ UNCHANGED <<state, persist, charging, gadget, running, raced>>

SwitchGo ==
  /\ Room /\ fpc = "none" /\ state = None /\ fpc' = "wait"
  /\ SetConfig(target)
  /\ UNCHANGED <<state, persist, charging, gadget, running, target, raced>>

(* It has seen the state, or gives up.                                     *)
SwitchEnd ==
  /\ fpc # "idle" /\ fpc' = "idle" /\ target' = None
  /\ UNCHANGED <<properties, gadget, queue, running, history>>

SetPersist(c) ==
  /\ Room /\ persist' = c /\ queue' = Append(queue, Event("persist", c))
  /\ UNCHANGED <<config, state, charging, gadget, running, framework, history>>

SetChargingNo ==
  /\ Room /\ charging' = "no" /\ queue' = Append(queue, Event("charging", "no"))
  /\ UNCHANGED <<config, state, persist, gadget, running, framework, history>>

Next ==
  \/ Dequeue \/ Execute \/ SwitchGo \/ SwitchEnd \/ SetChargingNo
  \/ \E c \in Config : SwitchBegin(c) \/ SetPersist(c)

(* init goes on whatever the others do.                                    *)
Spec == Init /\ [][Next]_vars /\ WF_vars(Dequeue \/ Execute)

-----------------------------------------------------------------------------
Events == [prop: {"config", "persist"}, val: Config \cup {None}]
            \cup [prop: {"charging"}, val: {"yes", "no"}]

(* Properties, nodes and the queues of init have their shapes; init itself *)
(* may exceed the room that others leave by one event.                     *)
TypeOK ==
  /\ {config, state} \subseteq Config \cup {None} /\ persist \in Config
  /\ charging \in {"unset", "yes", "no"}
  /\ {enable, adbd, raced, skipped} \subseteq BOOLEAN
  /\ functions \in Supported /\ bDeviceClass \in {0, 2, 224} /\ cmode \in {1, 2}
  /\ \A i \in DOMAIN queue : queue[i] \in Events
  /\ Len(queue) <= MaxQueue + 1 /\ Len(running) <= 12
  /\ fpc \in {"idle", "none", "wait"} /\ target \in Config \cup {None}

Idle == queue = <<>> /\ running = <<>>

(* The gadget, the announced state and the mode are those of c.            *)
Shown(c) ==
  /\ state = c /\ enable = (c # None)
  /\ c # None => functions = IF c = Charging THEN {"mtp"} ELSE c
  /\ cmode = IF c = Charging /\ charging = "yes" THEN 2 ELSE 1

(* Whenever init has dealt with all events, the gadget is what the last    *)
(* setting of sys.usb.config asks for, although the triggers expand a      *)
(* property that others change under their hands and two files configure   *)
(* "none" and "adb".  The one exception: the trigger of                    *)
(* sys.usb.charging=yes comes after that of a configuration set meanwhile. *)
GadgetFollows == Idle /\ ~raced => Shown(config)

(* "Used to disable USB when switching states": if the configurations that *)
(* were set alternate with none, no adbd and no device class is left over  *)
(* from an earlier one; and where adb is configured, adbd always runs.     *)
NothingLeftOver ==
  Idle =>
    /\ "adb" \in config => adbd
    /\ ~skipped => /\ adbd <=> "adb" \in config
                   /\ bDeviceClass = CASE config = {"acm"} -> 2
                                       [] config = {"rndis"} -> 224
                                       [] OTHER -> 0

(* If sys.usb.config is not changed for ever, the gadget is brought to     *)
(* show it again and again, even if it is set to the same value and all    *)
(* the other properties go on changing.                                    *)
ConfigShown == []<>(Shown(config) \/ raced) \/ []<><<Next>>_config
================================================================================

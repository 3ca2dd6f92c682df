# Verification of the smart_surf2_4g device tree

TLA+ models of the code in this device tree that has state and concurrency: the
Java radio interface (`ril/telephony`), the WiFi driver command library
(`lib_driver_cmd_mt66xx`), the crash dump library and its tool (`mrdump`), and
the USB triggers of init (`rootdir`). TLC checks the models on small instances;
TLAPS proves every safety property of all eight of them for every value of the
constants.

## The system

| Part | State | Operations | Who runs at the same time |
|---|---|---|---|
| Data call table (`MT6735.java`) | `dataCallCids`, requests | `setupDataCall`, `deactivateDataCall`, `fetchCidFromDataCall` | telephony thread and receiver thread, no lock |
| Emergency numbers (`MtkEccList.java`, `dial`) | two properties, one list from XML | refresh, look-up, dial | two receivers, the vendor RIL, dial |
| Radio power (`setRadioPower`) | two properties, modem | one call of five steps | calls of both phones |
| Request channel (`processSolicited`, `processUnsolicited`) | `mRequestList`, socket | replies, unsolicited messages, lost connection | framework, receiver, rild |
| WiFi commands (`mediatek_driver_cmd_nl80211.c`) | P2P channels, flags, timer, error counter | driver commands | one thread; interfaces and connections change between commands |
| WiFi netlink transaction (same file) | socket, caller's structure | testmode commands | wpa_supplicant and the kernel |
| Crash dump status (`mrdump_status.c`, `mrdump_tool.c`) | block on `expdb` | the tool's four commands | several processes, crashes, power losses |
| USB triggers (`init.usb.rc`, `init.mt6735.usb.rc`) | properties, nodes of the gadget, adbd | one command of a trigger | init, the framework, others that set properties |

`PROJECT.json` lists every part of the repository, those not modelled with the
reason, and the hazards at the lines where they bite.

## Modules

- **RequestReply** (abstract): what callers of the radio interface are promised,
  one answer at most, and final. RilChannel implements it.
- **DataCalls**: one array access per step, the granularity at which the two
  threads interleave. Java's memory model is weaker for the unlocked array; the
  model takes single accesses to be sequentially consistent. The loops visit
  four entries of an array of five; `NumSlots` is the number visited. A lost
  connection makes the superclass fail every listed request (`ClearRequestList`,
  external) and leaves the table alone; the calls may stay up, also those whose
  reply was on its way, or end with rild. An undecodable reply has the same
  effect, and its own setup gets no answer. `stray` records entries whose call
  the network, a refusal or the end of rild took without the client, `released`
  the calls the client has let go: whatever happens to those in the modem, they
  are no longer in use.
- **EccList** (operators) and **EmergencyNumbers** (state): a refresh is a read
  and a write per slot; `dial` reads the network list and the two properties in
  separate steps. A number is a model value, an address a number with or
  without separators. The file is any sequence of entries (`XmlAssumption`),
  so it may list a number more than once. What the vendor RIL writes fits the
  property and has no number twice (`SimListsAssumption`). `raced` records the
  slots that it last wrote between the read and the write of a refresh.
- **RadioPower**: a call reads the setting, reads the property, writes it,
  decides, sends. `excuses` records what the code does not guard against:
  overlapping calls, a call that begins while a command waits in a socket, a lost
  socket, a crash, and a `setRadioPower(false)` as the first call after airplane
  mode. Only an overlap and a crash upset the two properties; the others upset
  the modem alone. The next power command of a call that ran alone clears
  `excuses`, so the properties also say that the code recovers by then.
- **RilChannel**: `mRequestList`, the socket and what the handlers of the two
  kinds of messages do and send. `cut` records the sessions that were
  suspended when a connection was lost, which took their notice or resume.
- **DriverCmd**: a command is a step. The `CONFIG_MTK_*` options are taken to be
  on; the library's `Android.mk` defines none of them. `wpa_drv_shared_freq` may
  return -1: MIRACAST keeps it in an unsigned variable and takes it for a
  frequency, p2p_use_mcc does not. The timeout of
  `set_scan_loading` is kept as its delay and may expire at any later time.
- **Testmode**: from building the netlink message to what `driver_cmd` returns.
  `TURNKEY_WLAN` is fixed initially, so both builds are covered.
- **Mrdump**: page cache and partition, a clear as a read and a later write, the
  parser line by line, and what the tool prints. A status text is a sequence of
  lines, each a key and an operand.
- **Usb**: a trigger is a sequence of commands, and init (external) executes one
  per step; a command is one word, `enable_0` for writing 0 to `enable`. What
  matters is when things are evaluated: a trigger is matched by the value in the
  event, when the event's turn comes, but `${...}` is expanded when the command
  runs. The triggers of both files run for an event, in the order of their
  import. The kernel refuses `functions` while the gadget is enabled. `raced`
  records a `sys.usb.charging=yes` trigger that came after the configuration had
  changed, `skipped` a change of configuration that did not go through none, as
  a new `persist.sys.usb.config` does.
- **MC\*** modules give the constants values. **\*Proofs** hold the proofs.

Operators called "Mutant of X" are X with a plausible bug. They are used only to
show that a property notices it.

## Runs

| Run | Distinct states | Result |
|---|---|---|
| data_calls | 2,833,713 | no update of the table is lost, setups send the first free interface, serial use is distinct and leaves nothing behind |
| data_calls_live | 20,891 | each setup is answered unless its reply cannot be decoded |
| data_calls_pipelined | violation | two setups in flight share an interface |
| emergency_numbers | 1,074,838 | no duplicates but those of the file, slots exact unless raced and whole at every moment, no-SIM numbers recognised |
| radio_power | 2,164,187 | without excuses the modem can be brought back; flag and eboot are right unless calls overlap or die |
| radio_power_live | 80,551 | outside airplane mode the modem comes back on |
| ril_channel | 1,098,312 | nobody waits for nothing, no suspension is forgotten; RequestReply is implemented |
| ril_channel_live | 87,798 | requests settle, suspensions end, attach unblocks |
| driver_cmd | 449,344 | all channels, or the one of the frequency |
| testmode | 25,012 | replies are not mixed up, results and reports are true, commands end |
| mrdump | 65,208 | the block of the last crash is kept, a clear stays, the tool reports the text |
| usb | 1,006,508 | the gadget follows the last setting, nothing is left over, and it gets there |

**Bounds.** Two threads, phones, slots, interfaces or processes are what the
device has or the least that interferes. Three setups over two entries fill the
table and overflow it. Liveness runs are smaller and use no symmetry. Three
answers let each receiver refresh while the other does, and a list be refreshed
from its own output; four numbers in a property hold the lists of some parses of
the file and not those of others. One lost connection meets requests in every
stage. `MCFreq` has a frequency for every branch, and some off the 5 MHz raster.
`MCConfig` has a configuration for every kind of trigger; two waiting events are
enough for one to overtake what a trigger has queued and for a property to
change between a match and an expansion. Buffers reach from none to one that
holds the report with its terminating zero.

**Fairness.** Weak fairness for the program's own threads, which are never
blocked by anything outside the model. External assumptions: rild replies
(strongly fair in RilChannel, where a lost connection can interrupt it) and
repeats its demand for an APN; the modem executes; the kernel answers; init goes
on executing commands (`WF(Dequeue \/ Execute)`, it is one loop that waits for
nobody); the framework asks again and again for the radio outside airplane mode
(`SF(CallOn)`). Without the last, `PowerReturns` does not follow from the code.

## Proofs

TLAPS proves, for every value of the constants that the ASSUMEs admit:

- **DataCallsProofs**: `TypeCorrect`, `NoLostUpdate`, `FirstInterface`,
  `SerialDistinct`, `EntriesLive`. `LiveCallRecorded` is not
  inductive: `IInv` adds where the threads are and what they have seen of the
  table (`ThreadInv`), that only the receiver holds a taken request
  (`RequestInv`), that cids of live calls differ (`ActiveInv`), and that a call
  is recorded once the receiver is past the table (`RecordInv`). The argument is
  that one thread only fills entries and the other only frees them, so what
  either saw stays true where it matters. For serial use, one thing is pending
  at a time (`SerialInv`) and the first free entry does not move between setup
  and answer (`SlotInv`). `EntryInv` follows an entry to the call it stands for,
  through the deactivation that frees it.
- **RadioPowerProofs**: `TypeCorrect`, `ModemNotForgotten`, `FlagCatchesUp`,
  `EbootCorrect`. `IInv` says what a call at each position knows (`AtInv`), that
  the property, or the local copy of the caller that is about to overwrite it,
  remembers a modem that is off (`PowerInv`), and that a call which runs alone
  is the only one (`AloneInv`), which is why it may clear the excuses.
- **EmergencyNumbersProofs**: `TypeCorrect`, `ListsAreExact`, `SlotsAreWhole`,
  `NoSimNumbersAreRecognised`, for every file, list and number of answers. The
  first part is about the operators: what the loops of `Numbers`, `removeAll` and
  `AddCtaNumbers` return for lists of every length, and that merging a merged
  list again gives the same set of numbers. `IInv` then says that a slot which is
  not raced is published, or still as the vendor RIL left it with a refresh to
  come (`SlotInv`); that a receiver past slot 0 has left it so (`FirstInv`); that
  what it is about to write is right (`WriteInv`); and what `dial` has learnt
  from the first list when it reads the second (`DialInv`).
- **RilChannelProofs**: `TypeCorrect`, `WaitingIsAlwaysListed`,
  `SuspensionNotForgotten`, `OnlyFailedSimStatusStays`, `Refinement`,
  `EmptyErrorsFail`. `IInv` is about the replies in the socket: each belongs to
  a request that waits and is listed, rild does not have that request any more,
  and no request has two of them. `SessionInv` says of a suspended session that
  its notice in the socket and its resume on the way to rild occur once between
  them, and neither for a session that is not suspended.
- **DriverCmdProofs**: `Types`, `OneOrAll`, `StateEvents`, `ErrorsCounted`. The invariants are inductive together; the work is in the
  arithmetic of `priv_p2p_freq_to_channel` (`ChannelOfFrequency`) and of the
  counter (`SmallRemainder`).
- **TestmodeProofs**: `TypeCorrect`, `RepliesNotMixed`, `ReportsFilled`,
  `SuccessIsExecution`, `ReportsFit`. `IInv` says that the
  socket is empty unless a command waits for it and that data comes before its
  acknowledgement (`Shape`), and that a complete report which is not stored yet
  is in the socket or still to come (`Progress`). On top of it `OInv` relates
  what the command has seen to what the kernel has done (`Outcome`): an
  acknowledgement, in the socket or received, stands for an executed request, an
  error for a refused one. `ReportsFit` rests on `MostPrinted`: the loop stops at
  the longest prefix of the pieces that fits, because the sums grow.
- **MrdumpProofs**: `TypeCorrect`, `BlockKept`, `ClearSeen`, `ClearFinal`,
  `ReportsAreTrue`. The copies in the
  processes' hands are of the last crash too, because no process survives one,
  and the cache is never behind the partition. For `ReportsAreTrue` the loop of
  the parser is followed line by line, for texts of every length: after each line
  the result has the operands of the last OUTPUT and MODE lines so far, and is a
  failure exactly if one of them was unknown.
- **UsbProofs**: `TypeCorrect`, `GadgetFollowsConfig`, `NothingIsLeftOver`, for
  every set of supported configurations. `IInv` looks at what is left of the
  running trigger: for each node, either the last command for it writes what the
  configuration asks for, or none is left and the node has it (`Ends`). As long
  as an event of `sys.usb.config` waits nothing is claimed, since the last one
  carries the present value (`Latest`) and its trigger writes every node
  (`Settles`, `SettlesCharging`, `Starts`). Functions count only if the gadget is
  disabled right before they are written (`LoadsLater`, `LoadsNow`). `Cleans`
  follows none through the queue. Of the triggers it is proved once for each form
  what they contain and end with (`Configures`), also when both files have one
  (`ConfigureTwice`). `Shape` says why init exceeds its queue by one event at
  most: it sets a property only in the last command of a trigger.

Loops over lists are recursive functions over the positions. What they compute
is proved by taking the least position at which it would fail (`WFMin` of
WellFoundedInduction, over the natural numbers), which does not need the
induction rules that take a predicate as a parameter.

Three properties are proved and not part of a run: `EmptyErrorIsFailure`,
`StateEventTrue`, `ErrorsInARow`.

Only model-checked: liveness (`SetupAnswered`, `PowerReturns`, `RequestsSettle`,
`SuspensionEnds`, `AttachUnblocks`, `CommandEnds`, `ConfigShown`), because
fairness and ENABLED are beyond the prover. Every invariant, action property and
refinement that a passing run checks is also proved.

## Where the code and its words differ

`InterfaceIdAvailable` has a run and is the finding in `PROJECT.json`. The
following are stated in the modules and TLC refutes each of them on a small
instance, but no run is kept for them:

| Property | Words | Code |
|---|---|---|
| `UpdatesComeAfterwards` | `MT6735.java:412` "Do our own updates afterwards" | the vendor RIL may write between a refresh's read and write |
| `Deduped` | `MtkEccList.java:358` "dedupe" | a number that the file lists twice is published twice; a CTA number replaces only its first entry |
| `CategoryOfNumber` | `MtkEccList.java:292` "Get the service category for the given ECC number." | `dial` passes the address with its separators, and category 0 is sent |
| `InvalidResponseAnswered` | `MT6735.java:415` "Exceptions here usually mean invalid RIL responses" | replies are decoded outside the try; the caller gets no answer |
| `EmptyApnOnlyUnblocks` | `MT6735.java:248` "Set an empty one to unblock." | the empty APN may replace one the framework has set |
| `SccOnRequestedFrequency` | nl80211 line 1317 "Enable SCC in WFD sink mode class %d, channel %d" | for an unknown frequency the locals are uninitialised |
| `OffRasterUnknown` | line 1239 "-1 if the specified frequency is unknown" | three 5 GHz branches have no raster test |
| `ScanLoadingWithinASecond` | line 1802 "Scan loading timeout= 1 second" | the timeout is ten seconds |
| `CacheHasFile` | line 1696 "on/off p2p scan results cache to file" | one file, a flag per interface |
| `WapiMessageSent` | line 597 "send some information to driver" | nothing is sent |
| `StatisticsImplemented` | line 768 "implement in 3rd part lib" | prints an unfilled structure without `CONFIG_MTK_TURNKEY_WLAN`, and with it if the reply has no attribute |

## Not modelled

- Stateless conversions in `MT6735.java` (`responseSimRefresh`, `iccIOForApp`).
- In RilChannel: sending while the socket is down (the superclass fails it at
  once), malformed REGISTRATION_SUSPENDED messages, requests without a caller in
  `mRequestList`.
- In DriverCmd: commands that only query or only pass a value to the kernel
  (COUNTRY, MACADDR), the `ap0` interface (for which `wpa_s` stays
  uninitialised), a missing `p2p`, return codes.
- Values of counters and error codes in Testmode; memory, and so the netlink
  message that is not freed when an attribute does not fit (nl80211 line 439).
- In Usb: the bicr, eem, via_bypass, gs and dual_acm configurations, whose
  triggers repeat the pattern of the others, with `mt_usb/saving`, which they set
  and none clears; vendor and product ids, the number of acm instances, the port
  mode and the engineering-mode triggers.
- Power HAL: two independent writes, nothing is kept or read back. The client of
  the performance service is switched off. The other parts keep no state.
- Which command follows when the station roams after its frequency was used for
  single-channel operation: that is decided outside the repository.

------------------------------- MODULE DriverCmd -------------------------------
(***************************************************************************)
(* The commands of the MediaTek wpa_supplicant driver library that change  *)
(* state (wpa_driver_nl80211_driver_cmd in mediatek_driver_cmd_nl80211.c): *)
(* start and stop, the single- and multi-channel (SCC/MCC) configuration   *)
(* of P2P, the P2P capability and scan cache, the scan-loading timer, and  *)
(* the private commands passed to the kernel driver with their error       *)
(* counter.                                                                *)
(* wpa_supplicant runs in one thread, so a command is one step.  All       *)
(* CONFIG_MTK_* options are on, CONFIG_MTK_P2P_5G is a constant.           *)
(***************************************************************************)
EXTENDS Integers

CONSTANTS
  Iface,       \* interfaces wpa_supplicant may manage
  Freq,        \* frequencies (MHz) of "freq=" arguments
  ApFreq,      \* those of access points
  P2P_5G,      \* CONFIG_MTK_P2P_5G
  ConfChannel, \* each interface's configured class and channel, or <<0, 0>>
  CfgChannels, \* cfg->channels, all channels P2P may use
  Capability,  \* arguments of "p2p_set_cap p2p_dev_capa"
  DRV_NUMBER_SEQUENTIAL_ERRORS

ASSUME FreqAssumption == Freq \subseteq Nat \ {0} /\ ApFreq \subseteq Freq
ASSUME P2P_5GAssumption == P2P_5G \in BOOLEAN
ASSUME ConfAssumption == ConfChannel \in [Iface -> (0 .. 255) \X (0 .. 255)]
ASSUME CfgAssumption ==
  /\ CfgChannels \subseteq (0 .. 255) \X (0 .. 255)
  /\ \A c \in CfgChannels : CfgChannels # {c}
ASSUME CapabilityAssumption == Capability \subseteq Int
ASSUME ErrorsAssumption == DRV_NUMBER_SEQUENTIAL_ERRORS \in Nat

(* Seconds of the eloop timeout that set_scan_loading registers.           *)
ScanLoadingTimeout == 10

VARIABLES
  ifaces,          \* global->ifaces
  up, driverState, \* interface flag; last CTRL-EVENT-DRIVER-STATE, or "none"
  aisFreq,         \* frequency of the station connection, 0 if none
  sccFreq,         \* history: the frequency last configured for SCC, or 0
  opChannel,       \* p2p->op_reg_class and op_channel
  cfg_op_channel,  \* p2p->cfg->cfg_op_channel
  channels,        \* p2p->channels
  use_mcc,         \* p2p->p2p_use_mcc
  multichan,       \* ifaces with num_multichan_concurrent 2 and the P2P flag
  concurrent,      \* p2p->cfg->concurrent_operations
  dev_capab,       \* p2p->dev_capab, a byte
  cacheOn, cacheFile, \* ifaces with p2p_scan_res_cache; the file exists
  timer,           \* delay of the registered timeout, 0 if there is none
  drv_errors,      \* the static counter
  failures         \* history: private commands failed in a row, see MaxRun

linkVars == <<up, driverState, aisFreq>>
sccVars == <<sccFreq, opChannel, cfg_op_channel, channels>>
p2pVars == <<sccVars, use_mcc, dev_capab>>
mccVars == <<ifaces, multichan, concurrent>>
cacheVars == <<cacheOn, cacheFile>>
errorVars == <<drv_errors, failures>>
vars == <<linkVars, p2pVars, mccVars, cacheVars, timer, errorVars>>

(* failures wraps after two rounds of the counter.                         *)
MaxRun == 2 * (DRV_NUMBER_SEQUENTIAL_ERRORS + 1)

SocialChannel == {<<81, 1>>, <<81, 6>>, <<81, 11>>}

(* Where P2P operates by the configuration of interface i.                 *)
Configured(i) == ConfChannel[i][1] # 0 /\ ConfChannel[i][2] # 0
ConfiguredChannels(i) == IF Configured(i) THEN {ConfChannel[i]} ELSE SocialChannel

(* wpa_supplicant has set up P2P from one of the interfaces (external).    *)
(* The interface may be up or down; no event has been sent yet.            *)

Init ==
  /\ ifaces \in (SUBSET Iface) \ {{}} /\ multichan = {} /\ concurrent = FALSE
  /\ up \in BOOLEAN /\ driverState = "none" /\ aisFreq = 0
  /\ sccFreq = 0 /\ channels = CfgChannels /\ use_mcc = FALSE
  /\ dev_capab \in {n % 256 : n \in Capability}
  /\ \E i \in ifaces : opChannel \in ConfiguredChannels(i) /\ cfg_op_channel = Configured(i)
  /\ cacheOn = {} /\ cacheFile = FALSE
  /\ timer = 0 /\ drv_errors = 0 /\ failures = 0

-----------------------------------------------------------------------------
(* Frequencies and channels.                                               *)

Unknown == <<0, 0>>

(* The channel of a frequency, or Unknown where the function returns -1.   *)
priv_p2p_freq_to_channel(freq) ==
  LET In(lo, hi) == freq >= lo /\ freq <= hi
      ch5 == (freq - 5000) \div 5
  IN  CASE In(2412, 2472) -> IF (freq - 2407) % 5 # 0 THEN Unknown
                             ELSE <<81, (freq - 2407) \div 5>>
        [] freq = 2484 -> <<82, 14>>
        [] In(5180, 5240) -> IF (freq - 5000) % 5 # 0 THEN Unknown ELSE <<115, ch5>>
        [] P2P_5G /\ In(5260, 5320) -> <<118, ch5>>
        [] P2P_5G /\ In(5500, 5700) -> <<121, ch5>>
        [] In(5745, 5805) -> IF (freq - 5000) % 5 # 0 THEN Unknown ELSE <<124, ch5>>
        [] P2P_5G /\ In(5825, 5845) -> <<125, ch5>>
        [] OTHER -> Unknown

(* The frequency of a channel, by the definition of the operating classes. *)
FreqOf(c) ==
  IF c[1] = 81 THEN 2407 + 5 * c[2] ELSE IF c[1] = 82 THEN 2484 ELSE 5000 + 5 * c[2]

(* What the uninitialised op_reg_class and op_channel may hold: values of  *)
(* an earlier call or any others.                                          *)
Uninitialised == {<<81, 1>>, <<255, 255>>}

(* Mutant of ConfigScc: the channel list is left alone.                    *)
ConfigSccOperOnly(freq) ==
  /\ opChannel' \in IF priv_p2p_freq_to_channel(freq) = Unknown THEN Uninitialised
                    ELSE {priv_p2p_freq_to_channel(freq)}
  /\ sccFreq' = freq /\ UNCHANGED <<cfg_op_channel, channels>>

(* p2p_wfd_sink_config_scc with scc and a frequency: the return value of   *)
(* priv_p2p_freq_to_channel is not looked at, and cfg_op_channel stays.    *)
ConfigScc(freq) ==
  /\ opChannel' \in IF priv_p2p_freq_to_channel(freq) = Unknown THEN Uninitialised
                    ELSE {priv_p2p_freq_to_channel(freq)}
  /\ channels' = {opChannel'} /\ sccFreq' = freq /\ UNCHANGED cfg_op_channel

(* p2p_wfd_sink_config_scc without: "Get back to MCC".                     *)
ConfigMcc(i) ==
  /\ opChannel' \in ConfiguredChannels(i) /\ cfg_op_channel' = Configured(i)
  /\ channels' = CfgChannels /\ sccFreq' = 0

p2p_wfd_sink_config_scc(i, freq) == IF freq > 0 THEN ConfigScc(freq) ELSE ConfigMcc(i)

(* What wpa_drv_shared_freq may return: the frequency of the station       *)
(* connection, 0 if there is none, or -1 (external).                       *)
SharedFreq == {aisFreq, -1}

(* -1 in an unsigned variable is some number that is no frequency (2^32-1  *)
(* in the code, 2^31-1 here: the largest integer TLC has).                 *)
NoFreq == 2147483647
Unsigned(n) == IF n < 0 THEN NoFreq ELSE n

-----------------------------------------------------------------------------
(* Private commands.                                                       *)

(* Mutant of PrivateCommand: the counter does not start over.              *)
PrivateCommandNoWrap ==
  \/ drv_errors' = drv_errors + 1 /\ failures' = (failures + 1) % MaxRun
  \/ drv_errors' = 0 /\ failures' = 0

(* The ioctl at the end of driver_cmd: wpa_driver_send_hang_msg counts a   *)
(* failure, and starts over without telling anybody after too many;        *)
(* a success clears the counter.                                           *)
PrivateCommand ==
  \/ /\ drv_errors' = IF drv_errors + 1 > DRV_NUMBER_SEQUENTIAL_ERRORS
                      THEN 0 ELSE drv_errors + 1
     /\ failures' = (failures + 1) % MaxRun
  \/ drv_errors' = 0 /\ failures' = 0

(* A command the library does not know, SETSUSPENDMODE, or a MIRACAST with *)
(* an unknown value.                                                       *)
Unsupported ==
  /\ PrivateCommand
  /\ UNCHANGED <<linkVars, p2pVars, mccVars, cacheVars, timer>>

-----------------------------------------------------------------------------
(* Commands of the library.                                                *)

(* "start"; ok says whether the interface could be set up.                 *)
Start(ok) ==
  /\ IF ok THEN up' = TRUE /\ driverState' = "STARTED" ELSE UNCHANGED <<up, driverState>>
  /\ UNCHANGED <<aisFreq, p2pVars, mccVars, cacheVars, timer, errorVars>>

(* "stop": a failed deauthentication does not keep the interface up; its   *)
(* result is overwritten.                                                  *)
Stop(deauth, ok) ==
  /\ deauth => aisFreq # 0
  /\ aisFreq' = IF deauth THEN 0 ELSE aisFreq
  /\ IF ok THEN up' = FALSE /\ driverState' = "STOPPED" ELSE UNCHANGED <<up, driverState>>
  /\ UNCHANGED <<p2pVars, mccVars, cacheVars, timer, errorVars>>

(* "MIRACAST 0|1|2": the shared frequency, in an unsigned variable, so     *)
(* that the test freq > 0 takes -1 for a frequency; then the command goes  *)
(* on to the driver.                                                       *)
Miracast(i) ==
  /\ i \in ifaces
  /\ \E freq \in SharedFreq : p2p_wfd_sink_config_scc(i, Unsigned(freq))
  /\ PrivateCommand
  /\ UNCHANGED <<linkVars, use_mcc, dev_capab, mccVars, cacheVars, timer>>

(* "MIRACAST 2 freq=": the frequency of the command.                       *)
MiracastFreq(i, freq) ==
  /\ i \in ifaces
  /\ p2p_wfd_sink_config_scc(i, freq)
  /\ PrivateCommand
  /\ UNCHANGED <<linkVars, use_mcc, dev_capab, mccVars, cacheVars, timer>>

(* "p2p_use_mcc=": here the shared frequency is in a signed variable.      *)
UseMcc(i, on) ==
  /\ i \in ifaces
  /\ use_mcc' = on
  /\ \E freq \in SharedFreq : p2p_wfd_sink_config_scc(i, IF on THEN 0 ELSE freq)
  /\ UNCHANGED <<linkVars, dev_capab, mccVars, cacheVars, timer, errorVars>>

(* "p2p_set_cap p2p_dev_capa": atoi and a mask.  p2p_group_capa is not     *)
(* implemented.                                                            *)
p2p_set_capability(n) ==
  /\ dev_capab' = n % 256
  /\ UNCHANGED <<linkVars, sccVars, use_mcc, mccVars, cacheVars, timer, errorVars>>

(* "mcc 0|1": num_multichan_concurrent and the flag of every interface,    *)
(* and the one concurrent_operations.                                      *)
Mcc(on) ==
  /\ multichan' = IF on THEN multichan \cup ifaces ELSE multichan \ ifaces
  /\ concurrent' = on
  /\ UNCHANGED <<ifaces, linkVars, p2pVars, cacheVars, timer, errorVars>>

(* "set_p2p_scan_cache 1": the flag of the interface only if the file      *)
(* could be created.                                                       *)
ScanCacheOn(i, ok) ==
  /\ i \in ifaces
  /\ IF ok THEN cacheOn' = cacheOn \cup {i} /\ cacheFile' = TRUE ELSE UNCHANGED cacheVars
  /\ UNCHANGED <<linkVars, p2pVars, mccVars, timer, errorVars>>

(* "set_p2p_scan_cache 0": the flag of this interface whether or not the   *)
(* file could be removed.                                                  *)
ScanCacheOff(i, ok) ==
  /\ i \in ifaces
  /\ cacheFile' = IF ok THEN FALSE ELSE cacheFile
  /\ cacheOn' = cacheOn \ {i}
  /\ UNCHANGED <<linkVars, p2pVars, mccVars, timer, errorVars>>

(* "set_scan_loading": the timeout is cancelled and registered anew.       *)
SetScanLoading ==
  /\ timer' = ScanLoadingTimeout
  /\ UNCHANGED <<linkVars, p2pVars, mccVars, cacheVars, errorVars>>

(* wpa_driver_nl80211_scan_loading_timeout tells wpa_supplicant, once.     *)
ScanLoadingExpires ==
  /\ timer > 0 /\ timer' = 0
  /\ UNCHANGED <<linkVars, p2pVars, mccVars, cacheVars, errorVars>>

-----------------------------------------------------------------------------
(* The rest of wpa_supplicant and the air (external).                      *)

Connect(freq) ==
  /\ up /\ aisFreq' = freq
  /\ UNCHANGED <<up, driverState, p2pVars, mccVars, cacheVars, timer, errorVars>>

Disconnect ==
  /\ aisFreq' = 0
  /\ UNCHANGED <<up, driverState, p2pVars, mccVars, cacheVars, timer, errorVars>>

(* A new interface has what its driver reports, not what mcc has set.      *)
AddIface(i) ==
  /\ i \notin ifaces /\ ifaces' = ifaces \cup {i}
  /\ UNCHANGED <<multichan, concurrent>>
  /\ UNCHANGED <<linkVars, p2pVars, cacheVars, timer, errorVars>>

RemoveIface(i) ==
  /\ i \in ifaces /\ ifaces # {i} /\ ifaces' = ifaces \ {i}
  /\ multichan' = multichan \ {i}
  /\ cacheOn' = cacheOn \ {i}
  /\ UNCHANGED <<concurrent, linkVars, p2pVars, cacheFile, timer, errorVars>>

Next ==
  \/ Unsupported \/ SetScanLoading \/ ScanLoadingExpires \/ Disconnect
  \/ \E ok, deauth \in BOOLEAN : Start(ok) \/ Stop(deauth, ok)
  \/ \E i \in Iface, freq \in Freq \cup {0} : MiracastFreq(i, freq)
  \/ \E freq \in ApFreq : Connect(freq)
  \/ \E n \in Capability : p2p_set_capability(n)
  \/ \E on \in BOOLEAN : Mcc(on) \/ \E i \in Iface : UseMcc(i, on)
  \/ \E i \in Iface, ok \in BOOLEAN : ScanCacheOn(i, ok) \/ ScanCacheOff(i, ok)
  \/ \E i \in Iface : Miracast(i) \/ AddIface(i) \/ RemoveIface(i)

Spec == Init /\ [][Next]_vars

-----------------------------------------------------------------------------
Channel == (0 .. 255) \X (0 .. 255)

(* The state of the library and of wpa_supplicant has its shape; the class *)
(* and the channel number fit their bytes.                                 *)
TypeOK ==
  /\ ifaces \in (SUBSET Iface) \ {{}} /\ multichan \subseteq ifaces
  /\ concurrent \in BOOLEAN
  /\ up \in BOOLEAN /\ driverState \in {"none", "STARTED", "STOPPED"}
  /\ aisFreq \in ApFreq \cup {0} /\ sccFreq \in Freq \cup {0, NoFreq}
  /\ opChannel \in Channel /\ cfg_op_channel \in BOOLEAN
  /\ channels \subseteq Channel /\ use_mcc \in BOOLEAN
  /\ dev_capab \in 0 .. 255
  /\ cacheOn \subseteq ifaces /\ cacheFile \in BOOLEAN
  /\ timer \in {0, ScanLoadingTimeout}
  /\ drv_errors \in 0 .. DRV_NUMBER_SEQUENTIAL_ERRORS /\ failures \in 0 .. MaxRun - 1

(* The last CTRL-EVENT-DRIVER-STATE sent to the framework is the truth     *)
(* about the interface, whichever start and stop commands failed.          *)
StateEventTrue == driverState # "none" => (up <=> driverState = "STARTED")

(* On a frequency that priv_p2p_freq_to_channel knows, single-channel      *)
(* operation is on the nearest 5 GHz channel below it, and on that very    *)
(* frequency if it is in the 2.4 GHz band or a multiple of 5 MHz.          *)
SccOnFrequency ==
  priv_p2p_freq_to_channel(sccFreq) # Unknown =>
    /\ FreqOf(opChannel) <= sccFreq /\ sccFreq < FreqOf(opChannel) + 5
    /\ sccFreq < 5000 \/ sccFreq % 5 = 0 => FreqOf(opChannel) = sccFreq

(* Through any sequence of MIRACAST and p2p_use_mcc commands, P2P is       *)
(* either restricted to exactly the channel it operates on, and that is    *)
(* the channel of the frequency; or it is free to use all configured       *)
(* channels, and cfg_op_channel says whether the one it operates on is a   *)
(* configured one or a random one.                                         *)
SccOrAllChannels ==
  IF sccFreq # 0 THEN channels = {opChannel} /\ SccOnFrequency
  ELSE /\ channels = CfgChannels
       /\ opChannel \in UNION {ConfiguredChannels(i) :
                               i \in {j \in Iface : Configured(j) <=> cfg_op_channel}}

(* drv_errors is the number of private commands that failed in a row, over *)
(* all interfaces, modulo the limit at which it starts over.               *)
ErrorsInARow == drv_errors = failures % (DRV_NUMBER_SEQUENTIAL_ERRORS + 1)

(* What the message of p2p_wfd_sink_config_scc says: "Enable SCC in WFD    *)
(* sink mode class %d, channel %d", the class and channel of the frequency *)
(* that was asked for.                                                     *)
SccOnRequestedFrequency == sccFreq # 0 => FreqOf(opChannel) = sccFreq

(* What the comment of priv_p2p_freq_to_channel says: "Returns: 0 on       *)
(* success, -1 if the specified frequency is unknown".  A frequency off    *)
(* the 5 MHz raster belongs to no channel.                                 *)
OffRasterUnknown ==
  sccFreq > 5000 /\ sccFreq % 5 # 0 => priv_p2p_freq_to_channel(sccFreq) = Unknown

(* What the message of set_scan_loading says: "Scan loading timeout= 1     *)
(* second".                                                                *)
ScanLoadingWithinASecond == timer <= 1

(* What the comment of set_p2p_scan_cache says: the command turns the      *)
(* "p2p scan results cache to file" on and off; where the cache is on      *)
(* there is the file.                                                      *)
CacheHasFile == cacheOn # {} => cacheFile
================================================================================

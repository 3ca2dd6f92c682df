---------------------------- MODULE DriverCmdProofs ----------------------------
(***************************************************************************)
(* Proofs about DriverCmd, for every set of interfaces, every set of       *)
(* frequencies, with and without CONFIG_MTK_P2P_5G, and every limit of the *)
(* error counter.                                                          *)
(***************************************************************************)
EXTENDS DriverCmd, TLAPS

K == DRV_NUMBER_SEQUENTIAL_ERRORS + 1

-----------------------------------------------------------------------------
(* Arithmetic of the counter: a remainder below twice the divisor.         *)
LEMMA SmallRemainder ==
  ASSUME NEW k \in Nat \ {0}, NEW x \in Nat
  PROVE  /\ x < k => x % k = x
         /\ k <= x /\ x < 2 * k => x % k = x - k
         /\ x = 2 * k => x % k = 0
OBVIOUS

(* The channel of a frequency fits its bytes, and its frequency is the one *)
(* it was computed from, rounded down to a multiple of 5 MHz.              *)
LEMMA ChannelOfFrequency ==
  ASSUME NEW f \in Nat, priv_p2p_freq_to_channel(f) # Unknown
  PROVE  LET c == priv_p2p_freq_to_channel(f) IN
           /\ c \in Channel
           /\ FreqOf(c) <= f /\ f < FreqOf(c) + 5
           /\ f < 5000 \/ f % 5 = 0 => FreqOf(c) = f
<1> DEFINE c == priv_p2p_freq_to_channel(f)
<1>1. \/ /\ 2412 <= f /\ f <= 2472 /\ (f - 2407) % 5 = 0
         /\ c = <<81, (f - 2407) \div 5>>
      \/ f = 2484 /\ c = <<82, 14>>
      \/ /\ 5180 <= f /\ f <= 5845
         /\ \E k \in {115, 118, 121, 124, 125} : c = <<k, (f - 5000) \div 5>>
  BY P2P_5GAssumption DEF priv_p2p_freq_to_channel, Unknown
<1> HIDE DEF c
<1> SUFFICES /\ c \in Channel
             /\ FreqOf(c) <= f /\ f < FreqOf(c) + 5
             /\ f < 5000 \/ f % 5 = 0 => FreqOf(c) = f
  BY DEF c
<1>2. CASE /\ 2412 <= f /\ f <= 2472 /\ (f - 2407) % 5 = 0
           /\ c = <<81, (f - 2407) \div 5>>
  <2>1. (f - 2407) \div 5 \in 0 .. 255 /\ 2407 + 5 * ((f - 2407) \div 5) = f
    BY <1>2
  <2> QED BY <1>2, <2>1 DEF Channel, FreqOf
<1>3. CASE f = 2484 /\ c = <<82, 14>>
  BY <1>3 DEF Channel, FreqOf
<1>4. ASSUME NEW k \in {115, 118, 121, 124, 125},
             5180 <= f, f <= 5845, c = <<k, (f - 5000) \div 5>>
      PROVE  /\ c \in Channel
             /\ FreqOf(c) <= f /\ f < FreqOf(c) + 5
             /\ f < 5000 \/ f % 5 = 0 => FreqOf(c) = f
  <2> DEFINE n == (f - 5000) \div 5
  <2>1. /\ n \in 0 .. 255 /\ 5000 + 5 * n <= f /\ f < 5000 + 5 * n + 5
        /\ f % 5 = 0 => 5000 + 5 * n = f
    BY <1>4
  <2>2. c \in Channel BY <1>4, <2>1 DEF Channel
  <2> HIDE DEF n
  <2>3. FreqOf(c) = 5000 + 5 * n BY <1>4 DEF FreqOf, n
  <2> QED BY <1>4, <2>1, <2>2, <2>3
<1> QED BY <1>1, <1>2, <1>3, <1>4

-----------------------------------------------------------------------------
(* The inductive invariant: the properties are inductive together.         *)
IInv ==
  /\ TypeOK /\ StateEventTrue /\ SccOrAllChannels /\ ErrorsInARow

(* What the SCC commands must establish.                                   *)
SccInv ==
  /\ sccFreq \in Freq \cup {0, NoFreq} /\ opChannel \in Channel /\ cfg_op_channel \in BOOLEAN
  /\ channels \subseteq Channel
  /\ SccOrAllChannels

(* What the private commands must establish.                               *)
ErrorInv ==
  /\ drv_errors \in 0 .. DRV_NUMBER_SEQUENTIAL_ERRORS /\ failures \in 0 .. MaxRun - 1
  /\ ErrorsInARow

(* The channels an interface is configured for fit their bytes.            *)
LEMMA ConfiguredType ==
  ASSUME NEW i \in Iface
  PROVE  ConfiguredChannels(i) \subseteq Channel
BY ConfAssumption DEF ConfiguredChannels, Configured, SocialChannel, Channel

(* Both branches of p2p_wfd_sink_config_scc leave P2P either on all        *)
(* channels or on one, whatever was there before.                          *)
LEMMA ConfigInv ==
  ASSUME SccInv, NEW i \in Iface, NEW f \in Freq \cup {0, -1, NoFreq}, p2p_wfd_sink_config_scc(i, f)
  PROVE  SccInv'
<1>1. f \in Int BY FreqAssumption DEF NoFreq
<1>2. CASE f <= 0
  <2>1. ConfigMcc(i) BY <1>1, <1>2 DEF p2p_wfd_sink_config_scc
  <2>2. opChannel' \in Channel BY <2>1, ConfiguredType DEF ConfigMcc
  <2>3. /\ sccFreq' = 0 /\ channels' = CfgChannels
        /\ cfg_op_channel' = Configured(i) /\ opChannel' \in ConfiguredChannels(i)
    BY <2>1 DEF ConfigMcc
  <2>4. cfg_op_channel' \in BOOLEAN BY <2>3 DEF Configured
  <2>5. opChannel' \in UNION {ConfiguredChannels(k) :
                             k \in {j \in Iface : Configured(j) <=> cfg_op_channel'}}
    BY <2>3
  <2> QED BY <2>2, <2>3, <2>4, <2>5, CfgAssumption DEF SccInv, SccOrAllChannels, Channel
<1>3. CASE f > 0
  <2>1. ConfigScc(f) BY <1>1, <1>3 DEF p2p_wfd_sink_config_scc
  <2>2. /\ sccFreq' = f /\ channels' = {opChannel'} /\ cfg_op_channel' \in BOOLEAN
        /\ f \in Freq \cup {0, NoFreq} /\ f \in Nat /\ f # 0
    BY <1>1, <1>3, <2>1 DEF ConfigScc, SccInv
  <2>3. CASE priv_p2p_freq_to_channel(f) = Unknown
    <3>1. opChannel' \in Channel BY <2>1, <2>3 DEF ConfigScc, Uninitialised, Channel
    <3> QED BY <2>2, <2>3, <3>1 DEF SccInv, SccOrAllChannels, SccOnFrequency
  <2>4. CASE priv_p2p_freq_to_channel(f) # Unknown
    <3>1. opChannel' = priv_p2p_freq_to_channel(f) BY <2>1, <2>4 DEF ConfigScc
    <3>2. /\ opChannel' \in Channel
          /\ FreqOf(opChannel') <= f /\ f < FreqOf(opChannel') + 5
          /\ f < 5000 \/ f % 5 = 0 => FreqOf(opChannel') = f
      BY <2>2, <2>4, <3>1, ChannelOfFrequency
    <3> QED BY <2>2, <3>2 DEF SccInv, SccOrAllChannels, SccOnFrequency
  <2> QED BY <2>3, <2>4
<1> QED BY <1>1, <1>2, <1>3

(* The counter and the failures in a row move together, around the limit   *)
(* and around the bound of the history.                                    *)
LEMMA CountInv ==
  ASSUME ErrorInv, PrivateCommand
  PROVE  ErrorInv'
<1>1. K \in Nat \ {0} /\ MaxRun = 2 * K /\ failures \in Nat /\ failures < 2 * K
  BY ErrorsAssumption DEF K, MaxRun, ErrorInv
<1>2. drv_errors = failures % K BY DEF ErrorInv, ErrorsInARow, K
<1>3. drv_errors = IF failures < K THEN failures ELSE failures - K
  <2>1. CASE failures < K BY <1>1, <1>2, <2>1, SmallRemainder
  <2>2. CASE K <= failures
    <3>1. failures % K = failures - K BY <1>1, <2>2, SmallRemainder, Zenon
    <3> QED BY <1>1, <1>2, <2>2, <3>1
  <2> QED BY <1>1, <2>1, <2>2
<1>4. CASE drv_errors' = 0 /\ failures' = 0
  <2>1. 0 % K = 0 BY <1>1, SmallRemainder
  <2> QED BY <1>1, <1>4, <2>1, ErrorsAssumption DEF ErrorInv, ErrorsInARow, K
<1>5. CASE /\ drv_errors' = IF drv_errors + 1 > DRV_NUMBER_SEQUENTIAL_ERRORS
                            THEN 0 ELSE drv_errors + 1
           /\ failures' = (failures + 1) % MaxRun
  <2>1. failures' = IF failures + 1 = 2 * K THEN 0 ELSE failures + 1
    <3>1. CASE failures + 1 = 2 * K
      <4>1. (2 * K) % (2 * K) = 0 BY <1>1
      <4> QED BY <1>1, <1>5, <3>1, <4>1
    <3>2. CASE failures + 1 < 2 * K
      <4> DEFINE M == 2 * K
                 x == failures + 1
      <4>1. M \in Nat \ {0} /\ x \in Nat /\ x < M BY <1>1, <3>2
      <4> HIDE DEF M, x
      <4>2. x % M = x BY <4>1, SmallRemainder
      <4> QED BY <1>1, <1>5, <3>2, <4>2 DEF M, x
    <3> QED BY <1>1, <3>1, <3>2
  <2>2. drv_errors' = IF failures + 1 = K \/ failures + 1 = 2 * K THEN 0
                      ELSE IF failures + 1 < K THEN failures + 1 ELSE failures + 1 - K
    BY <1>1, <1>3, <1>5, ErrorsAssumption DEF K
  <2>3. drv_errors' = failures' % K
    <3>1. 0 % K = 0 /\ K % K = 0 BY <1>1, SmallRemainder
    <3>2. CASE failures + 1 < K
      <4> DEFINE x == failures + 1
      <4>1. x \in Nat /\ x < K BY <1>1, <3>2
      <4> HIDE DEF x
      <4>2. x % K = x BY <1>1, <4>1, SmallRemainder
      <4> QED BY <1>1, <2>1, <2>2, <3>2, <4>2 DEF x
    <3>3. CASE failures + 1 = K BY <1>1, <2>1, <2>2, <3>1, <3>3
    <3>4. CASE K < failures + 1 /\ failures + 1 < 2 * K
      BY <1>1, <2>1, <2>2, <3>4, SmallRemainder
    <3>5. CASE failures + 1 = 2 * K BY <1>1, <2>1, <2>2, <3>1, <3>5
    <3> QED BY <1>1, <3>2, <3>3, <3>4, <3>5
  <2>4. failures' \in 0 .. MaxRun - 1 /\ drv_errors' \in 0 .. DRV_NUMBER_SEQUENTIAL_ERRORS
    BY <1>1, <2>1, <2>2, ErrorsAssumption DEF K
  <2> QED BY <2>3, <2>4 DEF ErrorInv, ErrorsInARow, K
<1> QED BY <1>4, <1>5 DEF PrivateCommand

-----------------------------------------------------------------------------
(* wpa_supplicant starts with all channels, and without an event sent.     *)
LEMMA InitInv == Init => IInv
<1> SUFFICES ASSUME Init PROVE IInv
  OBVIOUS
<1>1. PICK i \in ifaces : opChannel \in ConfiguredChannels(i) /\ cfg_op_channel = Configured(i)
  BY DEF Init
<1>2. i \in Iface /\ opChannel \in Channel /\ cfg_op_channel \in BOOLEAN
  BY <1>1, ConfiguredType DEF Init, Configured
<1>3. dev_capab \in 0 .. 255 BY CapabilityAssumption DEF Init
<1>4. MaxRun - 1 \in Nat /\ 0 <= MaxRun - 1 BY ErrorsAssumption DEF MaxRun
<1>5. ErrorsInARow
  BY ErrorsAssumption, SmallRemainder DEF Init, ErrorsInARow
<1>6. TypeOK
  <2>1. channels \subseteq Channel BY CfgAssumption DEF Init, Channel
  <2>2. ifaces \in (SUBSET Iface) \ {{}} /\ multichan \subseteq ifaces
        /\ concurrent \in BOOLEAN BY Zenon DEF Init
  <2>3. drv_errors \in 0 .. DRV_NUMBER_SEQUENTIAL_ERRORS /\ failures \in 0 .. MaxRun - 1
    BY <1>4, ErrorsAssumption DEF Init
  <2> QED BY <1>2, <1>3, <2>1, <2>2, <2>3, Zenon DEF Init, TypeOK
<1>7. opChannel \in UNION {ConfiguredChannels(k) :
                          k \in {j \in Iface : Configured(j) <=> cfg_op_channel}}
  BY <1>1, <1>2
<1> QED BY <1>5, <1>6, <1>7 DEF Init, IInv, StateEventTrue, SccOrAllChannels

(* Steps that leave the channels of P2P and the error counter alone.       *)
LEMMA OtherInv ==
  ASSUME IInv, UNCHANGED <<sccVars, errorVars>>,
         StateEventTrue',
         ifaces' \in (SUBSET Iface) \ {{}}, multichan' \subseteq ifaces',
         concurrent' \in BOOLEAN,
         up' \in BOOLEAN, driverState' \in {"none", "STARTED", "STOPPED"},
         aisFreq' \in ApFreq \cup {0}, use_mcc' \in BOOLEAN, dev_capab' \in 0 .. 255,
         cacheOn' \subseteq ifaces', cacheFile' \in BOOLEAN,
         timer' \in {0, ScanLoadingTimeout}
  PROVE  IInv'
BY DEF IInv, TypeOK, SccOrAllChannels, SccOnFrequency, ErrorsInARow, sccVars, errorVars

(* MIRACAST, with the station's frequency or with one of its own.          *)
LEMMA MiracastInv ==
  ASSUME IInv, NEW i \in Iface, NEW f \in Freq \cup {0, NoFreq},
         p2p_wfd_sink_config_scc(i, f), PrivateCommand,
         UNCHANGED <<linkVars, use_mcc, dev_capab, mccVars, cacheVars, timer>>
  PROVE  IInv'
<1>0. SccInv BY DEF IInv, TypeOK, SccInv
<1>1. SccInv' BY <1>0, ConfigInv
<1>2. ErrorInv BY DEF IInv, TypeOK, ErrorInv
<1>3. ErrorInv' BY <1>2, CountInv
<1> QED BY <1>1, <1>3
        DEF IInv, SccInv, ErrorInv, TypeOK, StateEventTrue,
            linkVars, mccVars, cacheVars

(* Every command of the library and every step of its surroundings.        *)
LEMMA NextInv == IInv /\ [Next]_vars => IInv'
<1> SUFFICES ASSUME IInv, [Next]_vars PROVE IInv'
  OBVIOUS
<1> USE DEF linkVars, p2pVars, mccVars, cacheVars
<1>0. TypeOK /\ StateEventTrue /\ ErrorInv /\ SccInv
  BY DEF IInv, TypeOK, ErrorInv, SccInv
<1>1. CASE Unsupported
  <2>1. ErrorInv' BY <1>0, <1>1, CountInv DEF Unsupported
  <2> QED BY <1>1, <2>1
          DEF Unsupported, IInv, ErrorInv, TypeOK, StateEventTrue, SccOrAllChannels,
              SccOnFrequency, sccVars
<1>2. CASE SetScanLoading \/ ScanLoadingExpires \/ Disconnect
  BY <1>0, <1>2, OtherInv
     DEF SetScanLoading, ScanLoadingExpires, Disconnect, TypeOK, StateEventTrue
<1>3. ASSUME NEW ok \in BOOLEAN, NEW deauth \in BOOLEAN, Start(ok) \/ Stop(deauth, ok)
      PROVE  IInv'
  <2>1. /\ up' \in BOOLEAN /\ driverState' \in {"none", "STARTED", "STOPPED"} /\ StateEventTrue'
        /\ aisFreq' \in ApFreq \cup {0}
    BY <1>0, <1>3, Zenon DEF Start, Stop, TypeOK, StateEventTrue
  <2>2. UNCHANGED <<p2pVars, mccVars, cacheVars, timer, errorVars>>
    BY <1>3 DEF Start, Stop
  <2> QED BY <1>0, <2>1, <2>2, OtherInv DEF TypeOK
<1>4. ASSUME NEW i \in Iface, NEW f \in Freq \cup {0}, MiracastFreq(i, f) PROVE IInv'
  BY <1>4, MiracastInv DEF MiracastFreq
<1>5. ASSUME NEW f \in ApFreq, Connect(f) PROVE IInv'
  BY <1>0, <1>5, OtherInv DEF Connect, TypeOK, StateEventTrue
<1>6. ASSUME NEW n \in Capability, p2p_set_capability(n) PROVE IInv'
  <2>1. n % 256 \in 0 .. 255 BY CapabilityAssumption
  <2> QED BY <1>0, <1>6, <2>1, OtherInv
          DEF p2p_set_capability, TypeOK, StateEventTrue
<1>7. ASSUME NEW on \in BOOLEAN, Mcc(on) PROVE IInv'
  BY <1>0, <1>7, OtherInv DEF Mcc, TypeOK, StateEventTrue
<1>8. ASSUME NEW on \in BOOLEAN, NEW i \in Iface, UseMcc(i, on) PROVE IInv'
  <2>1. \E f \in Freq \cup {0, -1, NoFreq} : p2p_wfd_sink_config_scc(i, f)
    BY <1>0, <1>8, FreqAssumption DEF UseMcc, SharedFreq, TypeOK
  <2>2. SccInv' BY <1>0, <2>1, ConfigInv
  <2> QED BY <1>8, <2>2
          DEF UseMcc, IInv, SccInv, TypeOK, StateEventTrue, ErrorsInARow,
              errorVars
<1>9. ASSUME NEW i \in Iface, NEW ok \in BOOLEAN, ScanCacheOn(i, ok) \/ ScanCacheOff(i, ok)
      PROVE  IInv'
  <2>1. i \in ifaces /\ cacheFile' \in BOOLEAN
        /\ cacheOn' \in {cacheOn, cacheOn \cup {i}, cacheOn \ {i}}
    BY <1>0, <1>9, Zenon DEF ScanCacheOn, ScanCacheOff, TypeOK
  <2>2. UNCHANGED <<linkVars, p2pVars, mccVars, timer, errorVars>>
    BY <1>9, Zenon DEF ScanCacheOn, ScanCacheOff
  <2>3. cacheOn' \subseteq ifaces' BY <1>0, <2>1, <2>2 DEF TypeOK
  <2> QED BY <1>0, <2>1, <2>2, <2>3, OtherInv DEF TypeOK, StateEventTrue
<1>10. ASSUME NEW i \in Iface, Miracast(i) PROVE IInv'
  <2>1. \A f \in SharedFreq : Unsigned(f) \in Freq \cup {0, NoFreq}
    BY <1>0, FreqAssumption DEF TypeOK, SharedFreq, Unsigned
  <2> QED BY <1>10, <2>1, MiracastInv DEF Miracast
<1>11. ASSUME NEW i \in Iface, AddIface(i) PROVE IInv'
  <2>1. ifaces' = ifaces \cup {i} /\ UNCHANGED <<multichan, concurrent>>
        /\ UNCHANGED <<linkVars, p2pVars, cacheVars, timer, errorVars>>
    BY <1>11 DEF AddIface
  <2>2. ifaces' \in (SUBSET Iface) \ {{}}
    <3>1. ifaces \subseteq Iface BY <1>0 DEF TypeOK
    <3>2. ifaces' \subseteq Iface /\ i \in ifaces' BY <2>1, <3>1
    <3>3. ifaces' # {} BY <3>2
    <3>4. ifaces' \in SUBSET Iface BY <3>2
    <3> QED BY <3>3, <3>4
  <2> QED BY <1>0, <2>1, <2>2, OtherInv DEF TypeOK, StateEventTrue
<1>12. ASSUME NEW i \in Iface, RemoveIface(i) PROVE IInv'
  BY <1>0, <1>12, OtherInv DEF RemoveIface, TypeOK, StateEventTrue
<1>13. CASE UNCHANGED vars
  BY <1>0, <1>13, OtherInv DEF vars, TypeOK, StateEventTrue
<1> QED
  BY <1>1, <1>2, <1>3, <1>4, <1>5, <1>6, <1>7, <1>8, <1>9, <1>10, <1>11, <1>12, <1>13
     DEF Next

(* The inductive invariant holds throughout.                               *)
THEOREM Invariance == Spec => []IInv
BY InitInv, NextInv, PTL DEF Spec

(* Classes and channel numbers fit their bytes, and so does the capability *)
(* that p2p_set_capability stores.                                         *)
THEOREM Types == Spec => []TypeOK
<1>1. IInv => TypeOK BY DEF IInv
<1> QED BY <1>1, Invariance, PTL

(* P2P is on all configured channels or on exactly the one it operates on, *)
(* through any sequence of MIRACAST and p2p_use_mcc commands, also when    *)
(* the shared frequency is -1; and                                         *)
(* priv_p2p_freq_to_channel and the operating classes agree for every      *)
(* frequency there is, whichever of them SCC has been configured with.     *)
THEOREM OneOrAll == Spec => []SccOrAllChannels
<1>1. IInv => SccOrAllChannels BY DEF IInv
<1> QED BY <1>1, Invariance, PTL

(* The last CTRL-EVENT-DRIVER-STATE is the truth about the interface.      *)
THEOREM StateEvents == Spec => []StateEventTrue
<1>1. IInv => StateEventTrue BY DEF IInv
<1> QED BY <1>1, Invariance, PTL

(* drv_errors counts failures in a row modulo the limit, for every limit.  *)
THEOREM ErrorsCounted == Spec => []ErrorsInARow
<1>1. IInv => ErrorsInARow BY DEF IInv
<1> QED BY <1>1, Invariance, PTL
================================================================================

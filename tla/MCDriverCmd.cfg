SPECIFICATION Spec
CONSTANTS
  Iface = {"wlan0", "p2p0"}
  Freq <- MCFreq
  ApFreq <- MCApFreq
  P2P_5G = TRUE
  ConfChannel <- MCConfChannel
  CfgChannels <- Channels
  Capability <- MCCapability
  DRV_NUMBER_SEQUENTIAL_ERRORS = 1
INVARIANTS TypeOK SccOrAllChannels

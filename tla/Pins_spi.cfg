CONSTANTS
    PinChips <- MCPinChips
    PinPorts = {0, 1, 2, 3, 4, 5, 7}
    PinFeature = {"SR_DR_IE"}
    PinCalls = 2
    AdcChannels = {0, 9}
    AdcClocks <- MCAdcClocks
    AdcCalls = 5
SPECIFICATION PinsSpec
INVARIANTS
    PinsConfigured
CHECK_DEADLOCK FALSE

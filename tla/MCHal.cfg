CONSTANTS
    x0 = x0
    x1 = x1
    FifoSize = 2
    Byte = {x0, x1}
    HalBlocks <- MCHalBlocks
    HalSends = 2
    HalRecvs = 3
    HalGets = {1, 2}
    AdvPackage = 48
    AdvNoP12 = FALSE
    AdvOutputs <- MCOutputs
    AdvInputs <- MCInputs
    AdvPulses = {0, 127, 128, 254, 256, 504, 512, 1008}
    AdvClocks = {11059200, 24000000, 22118400}
    AdvTargets = {1, 7, 50, 100, 168, 183, 200, 250, 366, 400, 1000, 30000}
    AdvCalls = 2
    CapScale = 2
    CapUsage <- MCCapUsage
    CapTicks = 2
    EnhCalls = 3
    PcaScale = 4
    PcaByte = 2
    PcaUse <- MCPcaUse
    PcaShifts = {1}
    PcaPeriod = 2
    PcaDuties <- MCPcaDuties
    PcaTicks = 6
    PcaStarts = 2
    TmrFamily = 8
    TmrPrescalers = TRUE
    COUNTER_MAX = 65536
    PRESCALER_MAX = 256
    TmrTimers = {0, 2, 3}
    TmrDivisors <- MCDivisors
    TmrChips <- MCTmrChips
    TmrCalls = 3
    SpiClock = 240
    SpiHighSpeed = FALSE
    SpiRates = {1, 5, 7, 8, 15, 16, 30, 31, 60, 61, 120, 300}
    SpiSizes <- MCSpiSizes
    SpiTransfers = 2
    I2cClock = 24000
    I2cRates = {100, 400, 90, 91, 24, 23, 12000, 3000}
    I2cRoom = 2
    I2cEvents = 5
    EeSize = 12
    EePage = 4
    EeBlocks <- MCEeBlocks
    EeAddresses = {1, 3, 5}
    EeBytes <- MCEeBytes
    EeWrites = 3
    LcdModels <- MCLcdModels
    LcdCalls = 2
    LcdSwitched = {"HD44780", "ST7920", "ST756x", "UC1609"}
    LcdRows = {0, 1, 3}
    LcdColumns = {0, 15}
    LcdXs = {0, 83}
    LcdYs = {9, 40}
    LcdAddresses = {0, 63}
    GfxDevices <- MCGfxDevices
    GfxCalls = 2
    GfxPoints <- MCGfxPoints
    GfxLines <- MCGfxLines
    GfxRectangles <- MCGfxRectangles
    GfxImages <- MCGfxImages
    GfxFont <- MCGfxFont
    GfxTexts <- MCGfxTexts
    TextWidth = 10
    TextHeight = 4
    LabelMax = 4
    Menus <- MCMenus
    MenuLabels <- MCMenuLabels
    MenuCalls = 3
    OwRom <- MCOwRom
    OwTemperatures = {401, 65374}
    OwCalls = 2
    UpChips <- MCUpChips
    UpTimes = {0, 1, 30, 50, 250, 500, 5000, 16384, 16385, 30000, 40000}
    UpPorts = {0, 3, 6}
    UpUnused <- MCUpUnused
    UpCalls = 5
    RtcRadix <- MCRtcRadix
    RtcTimes <- MCRtcTimes
    RtcInternal = TRUE
    RtcCalls = 4
    RtcTicks = 10
    PinChips <- MCPinChips
    PinPorts = {0, 1, 2, 3, 4, 5, 7}
    PinFeature = {"SR_DR_IE"}
    PinCalls = 2
    AdcChannels = {0, 9}
    AdcClocks <- MCAdcClocks
    AdcCalls = 3
SPECIFICATION HalUnitsSpec
INVARIANTS
    SerialKept
    
    
    
    
    BusesDeliver
    BlocksReadBack
    
    MenuIsShown
    
CHECK_DEADLOCK FALSE

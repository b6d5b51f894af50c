CONSTANTS
    MinSpan = 1
    Release = 2
    MinTap = 1
    Long = 3
    CalHold = 6
    Settle = 1
    DimAfter = 2
    Full = 2
    Passes <- MCPasses
    Panels <- MCPanels
    Strays <- MCStrays
SPECIFICATION Spec
INVARIANTS
    TouchTypeOK
    OneMeaningPerPress
    CalibrationIsTrue
PROPERTIES
    FirmwareMatchesTested

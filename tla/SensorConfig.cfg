CONSTANTS
    Sizes = {"Vga", "FullHd"}
    Qualities = {12}
    BrightnessLevels <- MCLevels
    SaturationLevels <- MCOne
    XclkHz <- Ten_MHz
    MaxFailures = 1
SPECIFICATION SensorSpec
INVARIANTS AsConfigured

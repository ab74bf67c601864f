CONSTANTS
    Versions <- MCFewVersions
    Digests = {"d1", "d2"}
SPECIFICATION Spec
INVARIANTS ChannelServesImage OneImagePerVersion
PROPERTIES ChannelMonotonic DevicesCatchUp

SPECIFICATION Spec
CONSTANTS
    LiveMax = 2
    MaxFds = 12
    MaxSSTs = 6
    MaxManifests = 5
    None = None
INVARIANTS
    ReadBack
PROPERTIES
    ManifestsImmutable
    CallsReturn

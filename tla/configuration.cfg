SPECIFICATION ConfigurationSpec
CONSTANTS
    EventNames <- MCEventNames
    UnknownNames <- MCUnknownNames
    Deprecations = "Deprecations"
    DeprecationEvents <- MCDeprecationEvents
    Versions <- MCVersions
    Spellings = {"plain", "dashed"}
    Specifiers <- MCSpecifiers
    MaxSpecifiers = 3
    MaxAvailable = 2
    OwnFields = {"tags", "meta", "grants", "enabled"}
    AdapterFields = {"packages", "names"}
    Methods = {"get"}
    Behavior <- MCBehavior
    Defaults <- MCDefaults
    ConfigCalls <- MCConfigCalls
    Items <- MCItems
    MaxConfigCalls = 3
    Dicts <- MCDicts
    MaxArguments = 3
    Takes <- MCTakes
    StringKinds = {"nullstr", "numstr", "isostr", "text"}
    Sources <- MCSources
    MaxTables = 3
CHECK_DEADLOCK FALSE
INVARIANTS FollowsHierarchy RangeIsIntersection PicksTheBest
    ConfigsAgree DeepMergeAssociates TablesAreUnited
PROPERTY AppendsAreMonotone

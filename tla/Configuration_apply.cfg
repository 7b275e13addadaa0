\* Settings made in slots and out of them, by two configurations and by static
\* functions, while features and service objects join and leave two groups.
SPECIFICATION Spec
CONSTANTS
    g1 = g1
    g2 = g2
    f1 = f1
    f2 = f2
    c1 = c1
    c2 = c2
    s1 = s1
    s2 = s2
    v1 = v1
    v2 = v2
    Groups = {g1, g2}
    Configs = {c1, c2}
    Features = {f1, f2}
    ServiceObjects = {s1, s2}
    GroupOf <- MCGroupOf
    FeatureOrder <- MCOrder
    FileSettings = {"simulationFile"}
    Overridable = {"simulationFile", "discoveryMode"}
    Values <- MCValues
    Default = Default
    Initial <- MCInitial
    Malformed = Malformed
    Files <- MCFiles
    Environments <- MCEnvironments
    NestedServiceSettings = FALSE
    AbortedCreation = FALSE
    MaxDepth = 4
    MaxCalls = 4
    None = None
INVARIANTS
    MembersAgree
    MembersBelong
    OverridesHold
    RegisteredIsUsable
SYMMETRY Symmetry
\* The application may stop calling, or the program may have aborted.
CHECK_DEADLOCK FALSE

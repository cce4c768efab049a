SPECIFICATION Spec
CONSTANTS
    Syncs = {s1, s2}
    ann = ann
    annAlias = annAlias
    bob = bob
    Rows <- MCRows
    KeyOf <- MCKeyOf
    MaxSyncs = 3
    MaxCrashes = 1
SYMMETRY MCSymmetry
INVARIANTS
    MetaDescribesList
    DeltasAddUp
PROPERTIES
    UnchangedIsCurrent
    LoneSyncRestores
CHECK_DEADLOCK FALSE

SPECIFICATION Spec
CONSTANTS
    Customers <- MCCustomers
    MinRingSize = 3
    DensityNum = 1
    DensityDen = 2
INVARIANTS
    RootsAreCommunities
    RingsAreDenseCommunities
CHECK_DEADLOCK FALSE

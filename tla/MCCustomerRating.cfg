SPECIFICATION RatingSpec
CONSTANTS
    c1 = c1
    c2 = c2
    Customers = {c1, c2}
    Names = {"n1", "n2"}
    NameOf <- MCNameOf
    Threshold = 2
    MaxChanges = 3
INVARIANTS
    FallsOnlyFromTheTop
    SettlesInTwo
    NewlyListedAreFlagged

SPECIFICATION Spec
CONSTANTS
    Absent = Absent
    None = None
    SVI = {sales, lab}
    Address = {gateway}
    Helper = {h1, h2}
    Budget <- Everything
INVARIANTS
    TwoAppliesSettle

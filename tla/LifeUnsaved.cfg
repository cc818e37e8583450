SPECIFICATION Spec
CONSTANTS
    Text = {"a", "b"}
    Kinds = {"vlan"}
    Refused = {}
    Absent = Absent
    Budget <- OneEdit
INVARIANT AppliedMeansSaved

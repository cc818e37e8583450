SPECIFICATION Spec
CONSTANTS
    Rule = {r1, r2, r3}
    MaxRules = 3
    Absent = Absent
    NoList = NoList
    Budget <- OneRefusal
PROPERTY NoStaleRules

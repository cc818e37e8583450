CONSTANTS
    Location = {"lab"}
    Host = {"h1", "h2"}
    Community = {"public", "private"}
    Unset = Unset
    Absent = Absent
    Budget <- Disturbed
SPECIFICATION Spec
INVARIANT TypeOK
PROPERTIES UpdateIsComplete DeleteIsComplete

SPECIFICATION Spec
CONSTANTS
    Text = {"a", "b"}
    Kinds <- Kind
    Refused = {"svi"}
    Absent = Absent
    Budget <- Restarts
INVARIANT AppliedMeansConfigured
INVARIANT DestroyedMeansGone

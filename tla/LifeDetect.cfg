SPECIFICATION FairSpec
CONSTANTS
    Text = {"a", "b"}
    Kinds <- Converging
    Refused = {}
    Absent = Absent
    Budget <- Repeated
INVARIANT TypeOK
INVARIANT DriftIsDetected
PROPERTY AcceptedMeansConfigured
PROPERTY Converges

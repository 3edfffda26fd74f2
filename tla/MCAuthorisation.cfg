SPECIFICATION AuthorisationSpec
CONSTANTS
    Plates = {p1}
    NoPlate = noplate
    MaxStaleness = 1
    FetchTime = 1
    MaxImageAge = 1
    DecisionTime = 2
    MaxStep = 1
    MaxTime = 5
    MaxCrashes = 2
CHECK_DEADLOCK FALSE
INVARIANTS AuthorisationTypeOK
PROPERTIES RevocationBounded NoOlderList

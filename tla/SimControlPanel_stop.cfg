\* One request at a time, one demo: does what was stopped end.
CONSTANTS
    Clients = {c1}
    Requests = {"demo", "stop"}
    Activities = {a1}
    Nobody = Nobody
SPECIFICATION FairSpec
PROPERTIES
    StoppedActivityEnds

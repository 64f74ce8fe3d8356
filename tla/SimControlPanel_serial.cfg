\* One request at a time: demos and benchmarks are started and stopped.
CONSTANTS
    Clients = {c1}
    Requests = {"demo", "benchmark", "stop"}
    Activities = {a1, a2, a3}
    Nobody = Nobody
SPECIFICATION PanelSpec
INVARIANTS
    PanelTypeOK
    OneWantedActivity
    NothingOrphaned
SYMMETRY Symmetry

CONSTANTS
    MaxSize = 8
    Capacities = {0, 8}
    Requests = {0, 1, 2, 3}
    Alignments = {0, 1, 2, 3, 4}
    Done = Done
    Refused = Refused
SPECIFICATION FreeListSpec
INVARIANTS Tiled
PROPERTY PlacesEveryRequest

SPECIFICATION Spec
CONSTANTS
    Threads = {loader, tester}
    Loader = loader
    Dlls = {d1, d2}
    Devices = {x1, x2}
    Names = {n1}
    None = None
    Clients = {c1, c2}
    Sizes = {0, 8, 16}
    MaxHolds = 1
SYMMETRY MCSymmetry
CHECK_DEADLOCK FALSE
INVARIANTS
    LibraryFollowsUsers
    LoadedDriverServes
    NothingLeftBehind

CONSTANTS
    None = None
    tcp = tcp
    pipe = pipe
    other = other
    h1 = h1
    h2 = h2
    Sockets <- TheSockets
    Handles <- TheHandles
    Kind <- Kinds
    Quiet <- TheQuiet
    Script <- CarefulScript
SPECIFICATION FairSpec
CHECK_DEADLOCK FALSE
INVARIANTS Reachable ReadersHaveContext
PROPERTIES ConnectAnswered CloseCompletes

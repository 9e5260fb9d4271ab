SPECIFICATION Spec
CONSTANTS
    socket = socket
    keyboard = keyboard
    Fds = {socket, keyboard}
    NumRules = 3
    Fd <- MCFd
    Direction <- MCDirection
    Affects <- MCAffects
    MaxPending = 2
INVARIANTS
    IInv
    NoBusyWait
PROPERTIES
    CallbackIsDue
    NoStarvation
CHECK_DEADLOCK FALSE

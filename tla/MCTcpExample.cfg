\* One client at a terminal, one at the end of a pipe, and the smallest
\* buffers that hold the replies of a round.
SPECIFICATION FairSpec
CONSTANTS
    terminal = terminal
    pipe = pipe
    Clients = {terminal, pipe}
    Pipes = {pipe}
    BUFFER_SIZE = 3
    KeyboardCapacity = 1
    UpCapacity = 1
    DownCapacity = 3
    ReplyLengths = {1}
    ReplyLength = 1
    Backlog = 1
    MaxTyped <- MCMaxTyped
INVARIANTS
    IInv
    NeverBothBlocked
    ProcessesEndForAReason
PROPERTIES
    EverythingIsAnswered
CHECK_DEADLOCK FALSE

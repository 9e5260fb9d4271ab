\* A client whose keyboard is a pipe, against the comment on its second rule.
SPECIFICATION Spec
CONSTANTS
    terminal = terminal
    pipe = pipe
    Clients = {pipe}
    Pipes = {pipe}
    BUFFER_SIZE = 6
    KeyboardCapacity = 1
    UpCapacity = 1
    DownCapacity = 6
    ReplyLengths = {2}
    ReplyLength = 2
    Backlog = 1
    MaxTyped <- MCMaxTyped
INVARIANTS
    WhatIsTypedIsSent
CHECK_DEADLOCK FALSE

----------------------------- MODULE TcpExample -----------------------------
(***************************************************************************)
(* The example programs over TCPSocket, FileDescriptor and Poller: clients *)
(* (src/examples/tcpclient.cc) that send what is typed, and the server     *)
(* (src/examples/tcpserver.cc) that answers each chunk it reads from one   *)
(* thread per client.                                                      *)
(*                                                                         *)
(* Bytes are counted, not named: a stream keeps their order, and neither   *)
(* program looks at what they are.  A blocking write is one byte a step,   *)
(* the finest grain at which the other end can see it.  A byte written is  *)
(* readable at once; a reset arrives at any later time.                    *)
(*                                                                         *)
(* pc[c] says where the client is:                                         *)
(*   "connect"   before connect() has returned                             *)
(*   "poll"      in Poller::poll                                           *)
(*   "socket"    about to run the callback of the first rule               *)
(*   "keyboard"  about to run the callback of the second rule              *)
(*   "write"     in that callback's write() to the socket                  *)
(*   "exited", "aborted", "killed": the process has returned, has thrown,  *)
(*       or was ended by a signal                                          *)
(* thread[c] says where the server's thread for it is:                     *)
(*   "none", "queued"  no connection, or not yet accepted                  *)
(*   "start", "read", "write", "bye"  at the first peer_address(), in      *)
(*       read(), in write(), at the last peer_address()                    *)
(*   "closed"    the server's end of the connection is closed              *)
(***************************************************************************)
EXTENDS Integers, Sequences

CONSTANTS
    Clients,
    Pipes,             \* the clients whose keyboard is a pipe
    BUFFER_SIZE,       \* the most one read() returns
    KeyboardCapacity,  \* what a terminal's line or a pipe holds
    UpCapacity,        \* what the connection holds towards the server
    DownCapacity,      \* and towards the client, send and receive buffers
    ReplyLengths,      \* lengths of "Received N bytes from you.\n"
    ReplyLength,       \* the longest of them
    Backlog,           \* connections the kernel queues for accept()
    MaxTyped           \* bound: bytes typed at each keyboard

CrLf == 2

(* What the replies to one round of the client come to, at one reply for   *)
(* each byte.                                                              *)
RepliesOfARound == ReplyLength * (KeyboardCapacity + CrLf)

ASSUME TcpAssumption ==
    /\ Pipes \subseteq Clients
    /\ BUFFER_SIZE \in Nat \ {0} /\ KeyboardCapacity \in Nat
    /\ UpCapacity \in Nat /\ DownCapacity \in Nat
    /\ ReplyLength \in Nat \ {0} /\ ReplyLengths \subseteq 1..ReplyLength
    /\ Backlog \in Nat /\ MaxTyped \in [Clients -> Nat]

(* The connection and one read() hold the replies of a round: 29 * 4098    *)
(* for a terminal.                                                         *)
ASSUME RoomForReplies ==
    RepliesOfARound <= DownCapacity /\ RepliesOfARound <= BUFFER_SIZE

VARIABLES
    (* the clients *)
    pc,
    typed,        \* bytes typed so far
    key,          \* typed and not yet read
    closed,       \* the keyboard is at its end, or its writer is gone
    eof,          \* keyboard.eof()
    keyEvents,    \* revents of the keyboard, set by ::poll
    rest,         \* what write() has still to write to the socket
    (* the connections *)
    up, down,     \* bytes on the way to the server and to the client
    finToServer, finToClient,        \* that end was closed in order
    resetAtServer, resetAtClient,    \* a reset has arrived at that end
    backlog,
    (* the server *)
    serverUp,
    thread,
    reply,        \* what the thread's write() has still to write
    killed        \* somebody stopped the server

clientVars     == <<typed, key, closed, eof, keyEvents, rest>>
connectionVars == <<finToServer, finToClient, resetAtServer, resetAtClient>>
serverVars     == <<backlog, serverUp, thread, reply, killed>>
vars == <<pc, clientVars, up, down, connectionVars, serverVars>>

Smaller(a, b) == IF a <= b THEN a ELSE b

Ended(c) == pc[c] \in {"exited", "aborted", "killed"}

Init ==
    /\ pc = [c \in Clients |-> "connect"]
    /\ typed = [c \in Clients |-> 0]
    /\ key = [c \in Clients |-> 0]
    /\ closed = [c \in Clients |-> FALSE]
    /\ eof = [c \in Clients |-> FALSE]
    /\ keyEvents = [c \in Clients |-> "none"]
    /\ rest = [c \in Clients |-> 0]
    /\ up = [c \in Clients |-> 0]
    /\ down = [c \in Clients |-> 0]
    /\ finToServer = [c \in Clients |-> FALSE]
    /\ finToClient = [c \in Clients |-> FALSE]
    /\ resetAtServer = [c \in Clients |-> FALSE]
    /\ resetAtClient = [c \in Clients |-> FALSE]
    /\ backlog = <<>>
    /\ serverUp = TRUE
    /\ thread = [c \in Clients |-> "none"]
    /\ reply = [c \in Clients |-> 0]
    /\ killed = FALSE

-----------------------------------------------------------------------------
(***************************************************************************)
(* The client.  When its process ends, the kernel closes the socket: in    *)
(* order, or with a reset when replies are left unread.                    *)
(***************************************************************************)
End(c, how, unread) ==
    /\ pc' = [pc EXCEPT ![c] = how]
    /\ finToServer' = [finToServer EXCEPT ![c] = (unread = 0)]
    /\ UNCHANGED <<finToClient, resetAtServer, resetAtClient>>

GoTo(c, where) ==
    /\ pc' = [pc EXCEPT ![c] = where]
    /\ UNCHANGED connectionVars

Connect(c) ==
    /\ pc[c] = "connect"
    /\ serverUp
    /\ Len(backlog) < Backlog
    /\ backlog' = Append(backlog, c)
    /\ thread' = [thread EXCEPT ![c] = "queued"]
    /\ GoTo(c, "poll")
    /\ UNCHANGED <<clientVars, up, down, serverUp, reply, killed>>

\* ECONNREFUSED
ConnectRefused(c) ==
    /\ pc[c] = "connect"
    /\ ~serverUp
    /\ GoTo(c, "aborted")
    /\ UNCHANGED <<clientVars, up, down, serverVars>>

SocketReadable(c) == down[c] > 0 \/ finToClient[c]

(***************************************************************************)
(* A pipe without a writer hangs up, also with data in it; a terminal or a *)
(* file at its end is readable, and not asked for again after that.        *)
(***************************************************************************)
KeyboardEvents(c) ==
    IF closed[c] /\ c \in Pipes THEN "hup"
    ELSE IF key[c] > 0 \/ (closed[c] /\ ~eof[c]) THEN "in"
    ELSE "none"

(***************************************************************************)
(* What poll() does for the keyboard, after the socket: POLLHUP is looked  *)
(* at first and makes it return Exit.                                      *)
(***************************************************************************)
ServeKeyboard(c, events, unread) ==
    \/ events = "hup"  /\ End(c, "exited", unread)
    \/ events = "in"   /\ GoTo(c, "keyboard")
    \/ events = "none" /\ GoTo(c, "poll")

\* a faulty variant: the keyboard's rule first
KeyboardFirst(c) ==
    LET events == KeyboardEvents(c)
    IN  /\ pc[c] = "poll"
        /\ ~resetAtClient[c]
        /\ SocketReadable(c) \/ events # "none"
        /\ IF events = "none" THEN GoTo(c, "socket")
           ELSE ServeKeyboard(c, events, down[c])
        /\ keyEvents' = [keyEvents EXCEPT ![c] = "none"]
        /\ UNCHANGED <<typed, key, closed, eof, rest, up, down, serverVars>>

PollReady(c) ==
    LET events == KeyboardEvents(c)
    IN  /\ pc[c] = "poll"
        /\ ~resetAtClient[c]
        /\ SocketReadable(c) \/ events # "none"
        /\ IF SocketReadable(c) THEN GoTo(c, "socket")
           ELSE ServeKeyboard(c, events, down[c])
        /\ keyEvents' = [keyEvents EXCEPT ![c] = events]
        /\ UNCHANGED <<typed, key, closed, eof, rest, up, down, serverVars>>

\* POLLERR and POLLHUP of the socket
PollError(c) ==
    /\ pc[c] = "poll"
    /\ resetAtClient[c]
    /\ End(c, "exited", down[c])
    /\ UNCHANGED <<clientVars, up, down, serverVars>>

(***************************************************************************)
(* First rule: print what the server says, exit at its end of file.        *)
(***************************************************************************)
SocketIn(c) ==
    /\ pc[c] = "socket"
    /\ LET unread == down[c] - Smaller(down[c], BUFFER_SIZE)
       IN  /\ down' = [down EXCEPT ![c] = unread]
           /\ IF down[c] = 0 THEN End(c, "exited", 0)
              ELSE ServeKeyboard(c, keyEvents[c], unread)
    /\ UNCHANGED <<clientVars, up, serverVars>>

\* a faulty variant: exits at the end of the keyboard, as at the socket's
KeyboardInExits(c) ==
    /\ pc[c] = "keyboard"
    /\ key' = [key EXCEPT ![c] = @ - Smaller(@, BUFFER_SIZE)]
    /\ rest' = [rest EXCEPT ![c] = Smaller(key[c], BUFFER_SIZE) + CrLf]
    /\ IF key[c] = 0 THEN End(c, "exited", down[c]) ELSE GoTo(c, "write")
    /\ UNCHANGED <<typed, closed, eof, keyEvents, up, down, serverVars>>

\* a faulty variant: nothing is written but what was typed
KeyboardInPlain(c) ==
    LET chunk == Smaller(key[c], BUFFER_SIZE)
    IN  /\ pc[c] = "keyboard"
        /\ key' = [key EXCEPT ![c] = @ - chunk]
        /\ eof' = [eof EXCEPT ![c] = @ \/ chunk = 0]
        /\ rest' = [rest EXCEPT ![c] = chunk]
        /\ GoTo(c, "write")
        /\ UNCHANGED <<typed, closed, keyEvents, up, down, serverVars>>

(***************************************************************************)
(* Second rule: what the keyboard has, a carriage return and a newline;    *)
(* these also when read() finds the end.                                   *)
(***************************************************************************)
KeyboardIn(c) ==
    LET chunk == Smaller(key[c], BUFFER_SIZE)
    IN  /\ pc[c] = "keyboard"
        /\ key' = [key EXCEPT ![c] = @ - chunk]
        /\ eof' = [eof EXCEPT ![c] = @ \/ chunk = 0]
        /\ rest' = [rest EXCEPT ![c] = chunk + CrLf]
        /\ GoTo(c, "write")
        /\ UNCHANGED <<typed, closed, keyEvents, up, down, serverVars>>

\* a faulty variant: write_all is false, a full buffer ends the write
WritePortion(c) ==
    /\ pc[c] = "write"
    /\ ~resetAtClient[c]
    /\ up[c] < UpCapacity
    /\ up' = [up EXCEPT ![c] = @ + 1]
    /\ rest' = [rest EXCEPT ![c] = @ - 1]
    /\ GoTo(c, IF rest[c] = 1 \/ up[c] + 1 = UpCapacity THEN "poll"
               ELSE "write")
    /\ UNCHANGED <<typed, key, closed, eof, keyEvents, down, serverVars>>

Write(c) ==
    /\ pc[c] = "write"
    /\ ~resetAtClient[c]
    /\ up[c] < UpCapacity
    /\ up' = [up EXCEPT ![c] = @ + 1]
    /\ rest' = [rest EXCEPT ![c] = @ - 1]
    /\ GoTo(c, IF rest[c] = 1 THEN "poll" ELSE "write")
    /\ UNCHANGED <<typed, key, closed, eof, keyEvents, down, serverVars>>

\* ECONNRESET, or SIGPIPE
WriteFails(c) ==
    /\ pc[c] = "write"
    /\ resetAtClient[c]
    /\ End(c, "aborted", down[c])
    /\ UNCHANGED <<clientVars, up, down, serverVars>>

\* Somebody stops the client, which handles no signal.
KillClient(c) ==
    /\ ~Ended(c)
    /\ End(c, "killed", down[c])
    /\ UNCHANGED <<clientVars, up, down, serverVars>>

Client(c) ==
    \/ Connect(c) \/ ConnectRefused(c)
    \/ PollReady(c) \/ PollError(c)
    \/ SocketIn(c) \/ KeyboardIn(c) \/ Write(c) \/ WriteFails(c)

-----------------------------------------------------------------------------
(* Whoever is at the keyboard.                                             *)
Type(c) ==
    /\ ~Ended(c) /\ ~closed[c]
    /\ typed[c] < MaxTyped[c] /\ key[c] < KeyboardCapacity
    /\ typed' = [typed EXCEPT ![c] = @ + 1]
    /\ key' = [key EXCEPT ![c] = @ + 1]
    /\ UNCHANGED <<pc, closed, eof, keyEvents, rest, up, down, connectionVars,
                   serverVars>>

CloseKeyboard(c) ==
    /\ ~Ended(c) /\ ~closed[c]
    /\ closed' = [closed EXCEPT ![c] = TRUE]
    /\ UNCHANGED <<pc, typed, key, eof, keyEvents, rest, up, down,
                   connectionVars, serverVars>>

Keyboard(c) == Type(c) \/ CloseKeyboard(c)

-----------------------------------------------------------------------------
(***************************************************************************)
(* The server.  The process is one: an exception that leaves a thread ends *)
(* them all.  The kernel closes every connection, in order if nothing is   *)
(* left unread, and resets those that were never accepted.                 *)
(***************************************************************************)
AcceptedOpen(c) == thread[c] \in {"start", "read", "write", "bye"}

ServerEnds ==
    /\ serverUp' = FALSE
    /\ backlog' = <<>>
    /\ thread' = [c \in Clients |-> IF thread[c] = "none" THEN "none"
                                    ELSE "closed"]
    /\ finToClient' = [c \in Clients |-> \/ finToClient[c]
                                         \/ AcceptedOpen(c) /\ up[c] = 0]
    /\ UNCHANGED <<pc, clientVars, up, down, finToServer, resetAtServer,
                   resetAtClient, reply>>

ServerThread(c, where) ==
    /\ thread' = [thread EXCEPT ![c] = where]
    /\ UNCHANGED <<pc, clientVars, finToServer, resetAtServer, resetAtClient,
                   backlog, serverUp, killed>>

Accept ==
    /\ serverUp
    /\ backlog # <<>>
    /\ thread' = [thread EXCEPT ![Head(backlog)] = "start"]
    /\ backlog' = Tail(backlog)
    /\ UNCHANGED <<pc, clientVars, up, down, connectionVars, serverUp, reply,
                   killed>>

(***************************************************************************)
(* peer_address() and write() throw on a connection that was reset, and    *)
(* read() when besides there is nothing to read.                           *)
(***************************************************************************)
Throw(c) ==
    /\ resetAtServer[c]
    /\ \/ thread[c] \in {"start", "write", "bye"}
       \/ thread[c] = "read" /\ up[c] = 0 /\ ~finToServer[c]
    /\ ServerEnds
    /\ UNCHANGED killed

Greet(c) ==
    /\ thread[c] = "start"
    /\ ~resetAtServer[c]
    /\ ServerThread(c, "read")
    /\ UNCHANGED <<up, down, finToClient, reply>>

ReadChunk(c) ==
    /\ thread[c] = "read"
    /\ up[c] > 0
    /\ up' = [up EXCEPT ![c] = @ - Smaller(@, BUFFER_SIZE)]
    /\ \E length \in ReplyLengths : reply' = [reply EXCEPT ![c] = length]
    /\ ServerThread(c, "write")
    /\ UNCHANGED <<down, finToClient>>

ReadEof(c) ==
    /\ thread[c] = "read"
    /\ up[c] = 0 /\ finToServer[c]
    /\ ServerThread(c, "bye")
    /\ UNCHANGED <<up, down, finToClient, reply>>

WriteReply(c) ==
    /\ thread[c] = "write"
    /\ ~resetAtServer[c]
    /\ down[c] < DownCapacity
    /\ down' = [down EXCEPT ![c] = @ + 1]
    /\ reply' = [reply EXCEPT ![c] = @ - 1]
    /\ ServerThread(c, IF reply[c] = 1 THEN "read" ELSE "write")
    /\ UNCHANGED <<up, finToClient>>

\* The handler returns and its socket is destroyed.
Goodbye(c) ==
    /\ thread[c] = "bye"
    /\ ~resetAtServer[c]
    /\ finToClient' = [finToClient EXCEPT ![c] = TRUE]
    /\ ServerThread(c, "closed")
    /\ UNCHANGED <<up, down, reply>>

Handler(c) ==
    \/ Throw(c) \/ Greet(c) \/ ReadChunk(c) \/ ReadEof(c)
    \/ WriteReply(c) \/ Goodbye(c)

\* Somebody stops the server.
Kill == serverUp /\ ServerEnds /\ killed' = TRUE

-----------------------------------------------------------------------------
(***************************************************************************)
(* A reset: the other end was not closed in order, or what was written to  *)
(* a closed end has arrived there.                                         *)
(***************************************************************************)
ResetServer(c) ==
    /\ Ended(c)
    /\ thread[c] = "queued" \/ AcceptedOpen(c)
    /\ ~resetAtServer[c]
    /\ ~finToServer[c] \/ down[c] > 0
    /\ resetAtServer' = [resetAtServer EXCEPT ![c] = TRUE]
    /\ UNCHANGED <<pc, clientVars, up, down, finToServer, finToClient,
                   resetAtClient, serverVars>>

ResetClient(c) ==
    /\ ~Ended(c)
    /\ thread[c] = "closed"
    /\ ~resetAtClient[c]
    /\ ~finToClient[c] \/ up[c] > 0
    /\ resetAtClient' = [resetAtClient EXCEPT ![c] = TRUE]
    /\ UNCHANGED <<pc, clientVars, up, down, finToServer, finToClient,
                   resetAtServer, serverVars>>

Reset(c) == ResetServer(c) \/ ResetClient(c)

Next ==
    \/ \E c \in Clients : \/ Client(c) \/ Keyboard(c) \/ KillClient(c)
                          \/ Handler(c) \/ Reset(c)
    \/ Accept
    \/ Kill

Spec == Init /\ [][Next]_vars

(***************************************************************************)
(* The programs' steps and the kernel's resets come in the end; nobody has *)
(* to type, to close a keyboard or to stop a process.                      *)
(***************************************************************************)
FairSpec ==
    /\ Spec
    /\ WF_vars(Accept)
    /\ \A c \in Clients : /\ WF_vars(Client(c))
                          /\ WF_vars(Handler(c))
                          /\ WF_vars(Reset(c))

-----------------------------------------------------------------------------
(***************************************************************************)
(* Properties.                                                             *)
(***************************************************************************)
ClientTypeOK ==
    /\ pc \in [Clients -> {"connect", "poll", "socket", "keyboard", "write",
                           "exited", "aborted", "killed"}]
    /\ typed \in [Clients -> Nat]
    /\ key \in [Clients -> 0..KeyboardCapacity]
    /\ closed \in [Clients -> BOOLEAN]
    /\ eof \in [Clients -> BOOLEAN]
    /\ keyEvents \in [Clients -> {"none", "in", "hup"}]
    /\ rest \in [Clients -> 0..(KeyboardCapacity + CrLf)]

ConnectionTypeOK ==
    /\ up \in [Clients -> 0..UpCapacity]
    /\ down \in [Clients -> 0..DownCapacity]
    /\ finToServer \in [Clients -> BOOLEAN]
    /\ finToClient \in [Clients -> BOOLEAN]
    /\ resetAtServer \in [Clients -> BOOLEAN]
    /\ resetAtClient \in [Clients -> BOOLEAN]

ServerTypeOK ==
    /\ backlog \in Seq(Clients)
    /\ serverUp \in BOOLEAN
    /\ thread \in [Clients -> {"none", "queued", "start", "read", "write",
                               "bye", "closed"}]
    /\ reply \in [Clients -> 0..ReplyLength]
    /\ killed \in BOOLEAN

(* write() is never called with nothing to write, at which it would throw  *)
(* (file_descriptor.cc:46-48), nor goes on when all is written.            *)
SomethingToWrite ==
    \A c \in Clients : /\ pc[c] = "write" => rest[c] > 0
                       /\ thread[c] = "write" => reply[c] > 0

(* The type of the state.                                                  *)
TypeOK ==
    ClientTypeOK /\ ConnectionTypeOK /\ ServerTypeOK /\ SomethingToWrite

(***************************************************************************)
(* What the client may still be told of what it has written and of what is *)
(* left of the chunk it writes, at one reply for each byte.                *)
(***************************************************************************)
Unanswered(c) == up[c] + (IF pc[c] = "write" THEN rest[c] ELSE 0)

Replies(c) == down[c] + (IF thread[c] = "write" THEN reply[c] ELSE 0)

Debt(c) == Replies(c) + ReplyLength * Unanswered(c)

(***************************************************************************)
(* Between two rounds of the client the debt is that of one round above    *)
(* what a full connection and one reply make; when it reads the keyboard   *)
(* it has read the socket, and the debt is no more than these.             *)
(***************************************************************************)
FullConnection == ReplyLength * (1 + UpCapacity)

DebtIsBounded(c) ==
    ~Ended(c) => /\ Debt(c) <= FullConnection + RepliesOfARound
                 /\ pc[c] = "keyboard" => Debt(c) <= FullConnection

(***************************************************************************)
(* Client and server write to each other with blocking calls and neither   *)
(* reads while it writes.  They never block on each other for ever, because*)
(* the client reads all there is before each chunk it writes (poller.cc:49,*)
(* tcpclient.cc:43 and 59, tcpserver.cc:56).                               *)
(***************************************************************************)
ClientBlocked(c) ==
    pc[c] = "write" /\ up[c] = UpCapacity /\ ~resetAtClient[c]

ThreadBlocked(c) ==
    thread[c] = "write" /\ down[c] = DownCapacity /\ ~resetAtServer[c]

NeverBothBlocked ==
    \A c \in Clients : ~(ClientBlocked(c) /\ ThreadBlocked(c))

(***************************************************************************)
(* Why a process ends.  The server: somebody stopped it, or a client whose *)
(* keyboard hung up, or which somebody stopped, has gone with a reply      *)
(* unread (an exception in one handler ends the process,                   *)
(* tcpserver.cc:46-61).  A client: somebody stopped it, its keyboard hung  *)
(* up, or the server is gone (tcpclient.cc:46 and 67).                     *)
(***************************************************************************)
LeftReplies(c) == Ended(c) /\ down[c] > 0

HungUp(c) == closed[c] /\ c \in Pipes

MayLeave(c) == HungUp(c) \/ pc[c] = "killed"

ProcessesEndForAReason ==
    /\ ~serverUp => killed \/ \E c \in Clients : LeftReplies(c) /\ MayLeave(c)
    /\ \A c \in Clients : Ended(c) => MayLeave(c) \/ ~serverUp

(***************************************************************************)
(* In the end everything that was typed is sent, read and answered and     *)
(* every answer printed, or both the client and its handler have ended: no *)
(* end waits for a byte the other has, and none outlives the other         *)
(* (tcpclient.cc:46 and 59, tcpserver.cc:53-56, poller.cc:50).             *)
(***************************************************************************)
Answered(c) ==
    /\ key[c] = 0 /\ rest[c] = 0 /\ Debt(c) = 0
    /\ pc[c] = "poll" /\ thread[c] = "read"

Over(c) == Ended(c) /\ thread[c] \in {"none", "closed"}

EverythingIsAnswered == \A c \in Clients : <>[](Answered(c) \/ Over(c))

(***************************************************************************)
(* The inductive invariant.  What the ends of a connection know of each    *)
(* other: an end is closed in order, or reset, only when the other process *)
(* has let go of it.                                                       *)
(***************************************************************************)
Connected(c) ==
    /\ pc[c] = "connect" => thread[c] = "none"
    /\ pc[c] = "socket" => SocketReadable(c)
    /\ keyEvents[c] = "hup" => HungUp(c)
    /\ finToServer[c] => Ended(c)
    /\ Ended(c) /\ thread[c] # "none" /\ ~finToServer[c] => down[c] > 0
    /\ resetAtServer[c] => LeftReplies(c)
    /\ thread[c] = "bye" => finToServer[c]
    /\ thread[c] = "closed" => ~serverUp \/ Ended(c)
    /\ finToClient[c] => thread[c] = "closed"
    /\ resetAtClient[c] => ~serverUp
    /\ ~serverUp => thread[c] \in {"none", "closed"}

Queue ==
    \A i \in 1..Len(backlog) :
        /\ thread[backlog[i]] = "queued"
        /\ \A j \in 1..Len(backlog) : backlog[i] = backlog[j] => i = j

IInv ==
    /\ TypeOK
    /\ \A c \in Clients : DebtIsBounded(c) /\ Connected(c)
    /\ Queue
    /\ ProcessesEndForAReason

(***************************************************************************)
(* "if the keyboard has data ready (also in the "In" direction), write it  *)
(* to the server, plus a carriage return and newline" (tcpclient.cc:55-56):*)
(* a client does not leave with something typed while the server is there. *)
(***************************************************************************)
WhatIsTypedIsSent ==
    \A c \in Clients : (pc[c] = "exited" /\ serverUp) => key[c] = 0
=============================================================================

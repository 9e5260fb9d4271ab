------------------------- MODULE TcpExample_proofs --------------------------
(***************************************************************************)
(* Proofs about the TCP examples, for any clients, keyboards and buffers   *)
(* that hold the replies of a round.                                       *)
(***************************************************************************)
EXTENDS TcpExample, TLAPS

USE TcpAssumption

-----------------------------------------------------------------------------
(***************************************************************************)
(* Arithmetic of the debt.                                                 *)
(***************************************************************************)
LEMMA TimesPlus ==
  ASSUME NEW r \in Nat, NEW a \in Nat, NEW b \in Nat
  PROVE  r * (a + b) = r * a + r * b /\ r * a \in Nat
  OBVIOUS

LEMMA TimesMonotonic ==
  ASSUME NEW r \in Nat, NEW a \in Nat, NEW b \in Nat, a <= b
  PROVE  r * a <= r * b /\ r * a \in Nat /\ r * b \in Nat
  <1>1. PICK d \in Nat : b = a + d
    <2>1. b - a \in Nat /\ b = a + (b - a)
      OBVIOUS
    <2> QED
      BY <2>1
  <1>2. r * b = r * a + r * d /\ r * a \in Nat /\ r * d \in Nat
    BY <1>1, TimesPlus
  <1> QED
    BY <1>2

(* The length of a reply is at least one and pays for a byte read.         *)
LEMMA Constants ==
  /\ RepliesOfARound \in Nat /\ FullConnection \in Nat
  /\ FullConnection = ReplyLength + ReplyLength * UpCapacity
  /\ \A x \in 0..(KeyboardCapacity + CrLf) : ReplyLength * x <= RepliesOfARound
  <1>1. KeyboardCapacity + CrLf \in Nat
    BY DEF CrLf
  <1>2. RepliesOfARound \in Nat
    BY <1>1, TimesMonotonic DEF RepliesOfARound
  <1>3. FullConnection = ReplyLength + ReplyLength * UpCapacity
        /\ FullConnection \in Nat
    <2>1. ReplyLength * (1 + UpCapacity)
             = ReplyLength * 1 + ReplyLength * UpCapacity
      BY TimesPlus
    <2>2. ReplyLength * 1 = ReplyLength /\ ReplyLength * UpCapacity \in Nat
      BY TimesPlus
    <2> QED
      BY <2>1, <2>2 DEF FullConnection
  <1>4. ASSUME NEW x \in 0..(KeyboardCapacity + CrLf)
        PROVE  ReplyLength * x <= RepliesOfARound
    BY <1>1, TimesMonotonic DEF RepliesOfARound
  <1> QED
    BY <1>2, <1>3, <1>4

LEMMA DebtType ==
  ASSUME TypeOK, NEW c \in Clients
  PROVE  /\ Replies(c) \in Nat /\ Unanswered(c) \in Nat /\ Debt(c) \in Nat
         /\ ReplyLength * Unanswered(c) \in Nat
         /\ Unanswered(c) <= UpCapacity + KeyboardCapacity + CrLf
  <1>1. /\ up[c] \in 0..UpCapacity /\ down[c] \in 0..DownCapacity
        /\ rest[c] \in 0..(KeyboardCapacity + CrLf)
        /\ reply[c] \in 0..ReplyLength
    BY DEF TypeOK, ClientTypeOK, ConnectionTypeOK, ServerTypeOK
  <1>2. Replies(c) \in Nat /\ Unanswered(c) \in Nat
        /\ Unanswered(c) <= UpCapacity + KeyboardCapacity + CrLf
    BY <1>1 DEF Replies, Unanswered, CrLf
  <1> QED
    BY <1>2, TimesPlus DEF Debt

-----------------------------------------------------------------------------
(* The initial states satisfy the invariant.                               *)
LEMMA InitInvariant == Init => IInv
  <1> SUFFICES ASSUME Init PROVE IInv
    OBVIOUS
  <1>1. TypeOK
    <2>1. /\ pc \in [Clients -> {"connect", "poll", "socket", "keyboard",
                               "write", "exited", "aborted", "killed"}]
          /\ keyEvents \in [Clients -> {"none", "in", "hup"}]
          /\ thread \in [Clients -> {"none", "queued", "start", "read", "write",
                                   "bye", "closed"}]
      BY DEF Init
    <2>2. /\ closed \in [Clients -> BOOLEAN] /\ eof \in [Clients -> BOOLEAN]
          /\ finToServer \in [Clients -> BOOLEAN]
          /\ finToClient \in [Clients -> BOOLEAN]
          /\ resetAtServer \in [Clients -> BOOLEAN]
          /\ resetAtClient \in [Clients -> BOOLEAN]
          /\ serverUp \in BOOLEAN /\ killed \in BOOLEAN
      BY DEF Init
    <2>3. /\ typed \in [Clients -> Nat]
          /\ key \in [Clients -> 0..KeyboardCapacity]
          /\ rest \in [Clients -> 0..(KeyboardCapacity + CrLf)]
          /\ up \in [Clients -> 0..UpCapacity]
          /\ down \in [Clients -> 0..DownCapacity]
          /\ reply \in [Clients -> 0..ReplyLength]
      BY DEF Init, CrLf
    <2>4. backlog \in Seq(Clients)
      BY DEF Init
    <2>5. \A c \in Clients : pc[c] # "write" /\ thread[c] # "write"
      BY DEF Init
    <2> QED
      BY <2>1, <2>2, <2>3, <2>4, <2>5 
         DEF TypeOK, ClientTypeOK, ConnectionTypeOK, ServerTypeOK,
             SomethingToWrite
  <1>2. ASSUME NEW c \in Clients PROVE DebtIsBounded(c)
    <2>1. Debt(c) = 0
      <3>1. Replies(c) = 0 /\ Unanswered(c) = 0
        BY DEF Init, Replies, Unanswered
      <3> QED
        BY <3>1 DEF Debt
    <2> QED
      BY <2>1, Constants DEF DebtIsBounded
  <1>3. ASSUME NEW c \in Clients PROVE Connected(c)
    BY DEF Init, Connected, Ended
  <1>4. Queue /\ ProcessesEndForAReason
    BY DEF Init, Queue, ProcessesEndForAReason, Ended
  <1> QED
    BY <1>1, <1>2, <1>3, <1>4 DEF IInv

-----------------------------------------------------------------------------
(* The connections in the server's queue are clients'.                     *)
LEMMA QueuedClients ==
  ASSUME TypeOK, NEW i \in 1..Len(backlog)
  PROVE  backlog[i] \in Clients
  BY DEF TypeOK, ServerTypeOK

(***************************************************************************)
(* A client whose own state and connection a step leaves alone keeps its   *)
(* part of the invariant.                                                  *)
(***************************************************************************)
Untouched(d) ==
  /\ pc'[d] = pc[d] /\ key'[d] = key[d] /\ closed'[d] = closed[d]
  /\ keyEvents'[d] = keyEvents[d] /\ rest'[d] = rest[d]
  /\ up'[d] = up[d] /\ down'[d] = down[d]
  /\ finToServer'[d] = finToServer[d] /\ finToClient'[d] = finToClient[d]
  /\ resetAtServer'[d] = resetAtServer[d]
  /\ resetAtClient'[d] = resetAtClient[d]
  /\ thread'[d] = thread[d] /\ reply'[d] = reply[d]

LEMMA UntouchedClient ==
  ASSUME NEW d \in Clients, DebtIsBounded(d), Connected(d),
         Untouched(d), serverUp' = serverUp
  PROVE  DebtIsBounded(d)' /\ Connected(d)'
  <1> USE DEF Untouched, Ended
  <1>1. DebtIsBounded(d)'
    BY DEF DebtIsBounded, Debt, Replies, Unanswered
  <1>2. Connected(d)'
    BY DEF Connected, SocketReadable, HungUp, LeftReplies
  <1> QED
    BY <1>1, <1>2

(***************************************************************************)
(* A step of client c alone: the others keep their part, and so do the     *)
(* server's queue and the reasons for which processes have ended.          *)
(***************************************************************************)
LEMMA ClientStep ==
  ASSUME IInv, NEW c \in Clients, TypeOK',
         \A d \in Clients \ {c} : Untouched(d),
         UNCHANGED <<backlog, serverUp, killed>>,
         thread'[c] = thread[c],
         closed[c] => closed'[c],
         Ended(c) => pc'[c] = pc[c] /\ down'[c] >= down[c],
         Ended(c)' => MayLeave(c)' \/ ~serverUp,
         DebtIsBounded(c)', Connected(c)'
  PROVE  IInv'
  <1>1. ASSUME NEW d \in Clients PROVE DebtIsBounded(d)' /\ Connected(d)'
    <2>1. CASE d = c
      BY <2>1
    <2>2. CASE d # c
      BY <2>2, UntouchedClient DEF IInv
    <2> QED
      BY <2>1, <2>2
  <1>2. \A d \in Clients : thread'[d] = thread[d]
    BY DEF Untouched
  <1>3. Queue'
    BY <1>2, QueuedClients DEF IInv, Queue
  <1>4. ProcessesEndForAReason'
    <2>1. ASSUME NEW d \in Clients, LeftReplies(d), MayLeave(d)
          PROVE  LeftReplies(d)' /\ MayLeave(d)'
      <3>1. CASE d = c
        <4>1. down[c] \in Nat /\ down'[c] \in Nat
          BY DEF IInv, TypeOK, ConnectionTypeOK
        <4> QED
          BY <2>1, <3>1, <4>1 DEF LeftReplies, MayLeave, HungUp, Ended
      <3>2. CASE d # c
        BY <2>1, <3>2 DEF LeftReplies, MayLeave, HungUp, Ended, Untouched
      <3> QED
        BY <3>1, <3>2
    <2>2. ASSUME NEW d \in Clients, Ended(d)'
          PROVE  MayLeave(d)' \/ ~serverUp'
      <3>1. CASE d = c
        BY <2>2, <3>1
      <3>2. CASE d # c
        BY <2>2, <3>2 DEF IInv, ProcessesEndForAReason, MayLeave, HungUp,
                         Ended, Untouched
      <3> QED
        BY <3>1, <3>2
    <2> QED
      BY <2>1, <2>2 DEF IInv, ProcessesEndForAReason
  <1> QED
    BY <1>1, <1>3, <1>4 DEF IInv
-----------------------------------------------------------------------------
(***************************************************************************)
(* The steps of a client.                                                  *)
(***************************************************************************)
(* What a client finds readable on its socket while it is connected: a     *)
(* reply, or the end of a server that is gone.                             *)
LEMMA EndOfFile ==
  ASSUME NEW c \in Clients, Connected(c), ~Ended(c), SocketReadable(c),
         TypeOK, down[c] = 0
  PROVE  ~serverUp
  BY DEF Connected, SocketReadable

LEMMA ConnectRefusedStep ==
  ASSUME IInv, NEW c \in Clients, ConnectRefused(c)
  PROVE  IInv'
  <1> USE DEF ConnectRefused, GoTo, clientVars, connectionVars, serverVars
  <1>1. pc \in [Clients -> {"connect", "poll", "socket", "keyboard", "write",
                           "exited", "aborted", "killed"}]
    BY DEF IInv, TypeOK, ClientTypeOK
  <1>2. TypeOK'
    BY <1>1 DEF IInv, TypeOK, ClientTypeOK, ConnectionTypeOK, ServerTypeOK,
                  SomethingToWrite
  <1>3. \A d \in Clients \ {c} : Untouched(d)
    BY <1>1 DEF Untouched
  <1>4. Ended(c)' /\ ~Ended(c) /\ ~serverUp
    BY <1>1 DEF Ended
  <1>5. DebtIsBounded(c)'
    BY <1>4 DEF DebtIsBounded
  <1>6. Connected(c)'
    <2>1. Connected(c) /\ pc'[c] = "aborted"
      BY <1>1 DEF IInv
    <2>2. ~resetAtServer[c] /\ ~finToServer[c] /\ thread[c] = "none"
      BY <2>1, <1>4 DEF Connected, LeftReplies
    <2> QED
      BY <2>1, <2>2 DEF Connected, Ended, HungUp, LeftReplies
  <1> QED
    BY <1>2, <1>3, <1>4, <1>5, <1>6, ClientStep

(***************************************************************************)
(* The process ends: the kernel closes its end of the connection.          *)
(***************************************************************************)
LEMMA EndStep ==
  ASSUME IInv, NEW c \in Clients, ~Ended(c),
         NEW how \in {"exited", "aborted", "killed"},
         NEW unread \in 0..DownCapacity,
         End(c, how, unread),
         down' = [down EXCEPT ![c] = unread],
         how = "killed" \/ HungUp(c) \/ ~serverUp,
         keyEvents' \in [Clients -> {"none", "in", "hup"}],
         \A d \in Clients \ {c} : keyEvents'[d] = keyEvents[d],
         keyEvents'[c] = "hup" => HungUp(c),
         UNCHANGED <<typed, key, closed, eof, rest, up, serverVars>>
  PROVE  IInv'
  <1> USE DEF End, serverVars
  <1>1. /\ pc \in [Clients -> {"connect", "poll", "socket", "keyboard", "write",
                              "exited", "aborted", "killed"}]
        /\ finToServer \in [Clients -> BOOLEAN]
        /\ down \in [Clients -> 0..DownCapacity]
    BY DEF IInv, TypeOK, ClientTypeOK, ConnectionTypeOK
  <1>2. /\ pc'[c] = how /\ finToServer'[c] = (unread = 0)
        /\ down'[c] = unread /\ Ended(c)'
    BY <1>1 DEF Ended
  <1>3. TypeOK'
    <2>1. ClientTypeOK'
      BY <1>1 DEF IInv, TypeOK, ClientTypeOK
    <2>2. ConnectionTypeOK'
      BY <1>1 DEF IInv, TypeOK, ConnectionTypeOK
    <2>3. ServerTypeOK'
      BY DEF IInv, TypeOK, ServerTypeOK
    <2>4. SomethingToWrite'
      BY <1>1 DEF IInv, TypeOK, SomethingToWrite
    <2> QED
      BY <2>1, <2>2, <2>3, <2>4 DEF TypeOK
  <1>4. \A d \in Clients \ {c} : Untouched(d)
    BY <1>1 DEF Untouched
  <1>5. DebtIsBounded(c)'
    BY <1>2 DEF DebtIsBounded
  <1>6. Connected(c)'
    <2>1. Connected(c) /\ ~finToServer[c] /\ ~resetAtServer[c]
      BY DEF IInv, Connected, LeftReplies
    <2>2. unread = 0 \/ down'[c] > 0
      BY <1>2
    <2> QED
      BY <1>2, <2>1, <2>2 DEF Connected, Ended, HungUp, LeftReplies
  <1> QED
    BY <1>2, <1>3, <1>4, <1>5, <1>6, ClientStep DEF HungUp, MayLeave

(* Somebody stops the client, wherever it is.                              *)
LEMMA KillClientStep ==
  ASSUME IInv, NEW c \in Clients, KillClient(c)
  PROVE  IInv'
  <1> USE DEF KillClient, clientVars
  <1>1. /\ down \in [Clients -> 0..DownCapacity]
        /\ keyEvents \in [Clients -> {"none", "in", "hup"}]
        /\ keyEvents[c] = "hup" => HungUp(c)
    BY DEF IInv, TypeOK, ClientTypeOK, ConnectionTypeOK, Connected
  <1>2. down' = [down EXCEPT ![c] = down[c]] /\ down[c] \in 0..DownCapacity
    BY <1>1
  <1> QED
    BY <1>1, <1>2, EndStep

LEMMA PollErrorStep ==
  ASSUME IInv, NEW c \in Clients, PollError(c)
  PROVE  IInv'
  <1> USE DEF PollError, clientVars
  <1>1. Connected(c) /\ down \in [Clients -> 0..DownCapacity]
        /\ keyEvents \in [Clients -> {"none", "in", "hup"}]
    BY DEF IInv, TypeOK, ClientTypeOK, ConnectionTypeOK
  <1>2. ~Ended(c) /\ ~serverUp /\ down[c] \in 0..DownCapacity
        /\ (keyEvents[c] = "hup" => HungUp(c))
    BY <1>1 DEF Connected, Ended
  <1>3. down' = [down EXCEPT ![c] = down[c]]
    BY <1>1
  <1> QED
    BY <1>1, <1>2, <1>3, EndStep

LEMMA WriteFailsStep ==
  ASSUME IInv, NEW c \in Clients, WriteFails(c)
  PROVE  IInv'
  <1> USE DEF WriteFails, clientVars
  <1>1. Connected(c) /\ down \in [Clients -> 0..DownCapacity]
        /\ keyEvents \in [Clients -> {"none", "in", "hup"}]
    BY DEF IInv, TypeOK, ClientTypeOK, ConnectionTypeOK
  <1>2. ~Ended(c) /\ ~serverUp /\ down[c] \in 0..DownCapacity
        /\ (keyEvents[c] = "hup" => HungUp(c))
    BY <1>1 DEF Connected, Ended
  <1>3. down' = [down EXCEPT ![c] = down[c]]
    BY <1>1
  <1> QED
    BY <1>1, <1>2, <1>3, EndStep

(***************************************************************************)
(* A connected client goes from one place of its loop to another.          *)
(***************************************************************************)
LEMMA GoToStep ==
  ASSUME IInv, NEW c \in Clients, ~Ended(c), pc[c] # "connect",
         NEW where \in {"poll", "socket", "keyboard", "write"},
         GoTo(c, where), TypeOK',
         where = "socket" => SocketReadable(c)',
         keyEvents'[c] = "hup" => HungUp(c),
         DebtIsBounded(c)',
         \A d \in Clients \ {c} :
             /\ key'[d] = key[d] /\ keyEvents'[d] = keyEvents[d]
             /\ rest'[d] = rest[d] /\ up'[d] = up[d] /\ down'[d] = down[d],
         UNCHANGED <<closed, serverVars>>
  PROVE  IInv'
  <1> USE DEF GoTo, connectionVars, serverVars
  <1>1. pc \in [Clients -> {"connect", "poll", "socket", "keyboard", "write",
                           "exited", "aborted", "killed"}]
    BY DEF IInv, TypeOK, ClientTypeOK
  <1>2. pc'[c] = where /\ ~Ended(c)'
    BY <1>1 DEF Ended
  <1>3. \A d \in Clients \ {c} : Untouched(d)
    BY <1>1 DEF Untouched
  <1>4. Connected(c)'
    <2>1. Connected(c)
      BY DEF IInv
    <2>2. ~finToServer[c] /\ ~resetAtServer[c] /\ thread[c] # "bye"
      BY <2>1 DEF Connected, LeftReplies
    <2> QED
      BY <1>2, <2>1, <2>2 DEF Connected, Ended, HungUp, LeftReplies
  <1> QED
    BY <1>2, <1>3, <1>4, ClientStep

(* ::poll returns: the debt is that of a full connection when nothing is   *)
(* to be read from the socket.                                             *)
LEMMA PollReadyStep ==
  ASSUME IInv, NEW c \in Clients, PollReady(c)
  PROVE  IInv'
  <1> DEFINE events == KeyboardEvents(c)
  <1>1. /\ pc[c] = "poll" /\ ~Ended(c) /\ events \in {"none", "in", "hup"}
        /\ events = "hup" => HungUp(c)
    BY DEF PollReady, KeyboardEvents, Ended, HungUp
  <1> HIDE DEF events
  <1>2. /\ keyEvents' = [keyEvents EXCEPT ![c] = events]
        /\ UNCHANGED <<typed, key, closed, eof, rest, up, down, serverVars>>
        /\ IF SocketReadable(c) THEN GoTo(c, "socket")
           ELSE ServeKeyboard(c, events, down[c])
    BY DEF PollReady, events
  <1>3. /\ pc \in [Clients -> {"connect", "poll", "socket", "keyboard", "write",
                              "exited", "aborted", "killed"}]
        /\ keyEvents \in [Clients -> {"none", "in", "hup"}]
        /\ down \in [Clients -> 0..DownCapacity]
    BY DEF IInv, TypeOK, ClientTypeOK, ConnectionTypeOK
  <1>4. /\ keyEvents' \in [Clients -> {"none", "in", "hup"}]
        /\ keyEvents'[c] = events
        /\ \A d \in Clients \ {c} : keyEvents'[d] = keyEvents[d]
        /\ down[c] \in 0..DownCapacity
    BY <1>1, <1>2, <1>3
  <1>5. ASSUME NEW where \in {"poll", "socket", "keyboard"}, GoTo(c, where)
        PROVE  TypeOK'
    <2>1. ClientTypeOK'
      BY <1>2, <1>4, <1>5 DEF IInv, TypeOK, ClientTypeOK, GoTo
    <2>2. ConnectionTypeOK'
      BY <1>2, <1>5 DEF IInv, TypeOK, ConnectionTypeOK, GoTo, connectionVars
    <2>3. ServerTypeOK'
      BY <1>2 DEF IInv, TypeOK, ServerTypeOK, serverVars
    <2>4. SomethingToWrite'
      BY <1>2, <1>3, <1>5
         DEF IInv, TypeOK, SomethingToWrite, GoTo, serverVars
    <2> QED
      BY <2>1, <2>2, <2>3, <2>4 DEF TypeOK
  <1>6. ASSUME NEW where \in {"poll", "socket", "keyboard"}, GoTo(c, where),
               where = "keyboard" => Debt(c) <= FullConnection
        PROVE  DebtIsBounded(c)'
    <2>1. pc'[c] = where /\ pc'[c] # "write"
      BY <1>3, <1>6 DEF GoTo
    <2>2. Debt(c)' = Debt(c)
      BY <1>1, <1>2, <2>1 DEF Debt, Replies, Unanswered, serverVars
    <2> QED
      BY <1>1, <1>6, <2>1, <2>2 DEF IInv, DebtIsBounded
  <1>7. CASE SocketReadable(c)
    <2>1. GoTo(c, "socket")
      BY <1>2, <1>7
    <2>2. SocketReadable(c)'
      BY <1>2, <1>7, <2>1 DEF GoTo, SocketReadable, connectionVars
    <2>3. TypeOK' /\ DebtIsBounded(c)'
      BY <1>5, <1>6, <2>1
    <2> QED
      BY <1>1, <1>2, <1>4, <2>1, <2>2, <2>3, GoToStep
  <1>8. CASE ~SocketReadable(c)
    <2>1. CASE events = "hup" /\ End(c, "exited", down[c])
      <3>1. down' = [down EXCEPT ![c] = down[c]]
        BY <1>2, <1>3
      <3> QED
        BY <1>1, <1>2, <1>4, <2>1, <3>1, EndStep
    <2>2. CASE GoTo(c, "keyboard")
      <3>1. Debt(c) <= FullConnection
        <4>1. down[c] = 0
          BY <1>4, <1>8 DEF SocketReadable
        <4>2. /\ reply[c] \in 0..ReplyLength /\ up[c] \in 0..UpCapacity
          BY DEF IInv, TypeOK, ServerTypeOK, ConnectionTypeOK
        <4>3. Replies(c) <= ReplyLength /\ Unanswered(c) = up[c]
              /\ Replies(c) \in Nat
          BY <1>1, <4>1, <4>2 DEF Replies, Unanswered
        <4>4. /\ ReplyLength * up[c] <= ReplyLength * UpCapacity
              /\ ReplyLength * up[c] \in Nat
              /\ ReplyLength * UpCapacity \in Nat
          BY <4>2, TimesMonotonic
        <4> QED
          BY <4>3, <4>4, Constants DEF Debt
      <3>2. TypeOK' /\ DebtIsBounded(c)'
        BY <1>5, <1>6, <2>2, <3>1
      <3> QED
        BY <1>1, <1>2, <1>4, <2>2, <3>2, GoToStep
    <2>3. CASE GoTo(c, "poll")
      <3>1. TypeOK' /\ DebtIsBounded(c)'
        BY <1>5, <1>6, <2>3
      <3> QED
        BY <1>1, <1>2, <1>4, <2>3, <3>1, GoToStep
    <2> QED
      BY <1>2, <1>8, <2>1, <2>2, <2>3 DEF ServeKeyboard
  <1> QED
    BY <1>7, <1>8

(***************************************************************************)
(* The client reads its socket: all there is, or so much that the debt is  *)
(* again that of a full connection.                                        *)
(***************************************************************************)
LEMMA SocketInStep ==
  ASSUME IInv, NEW c \in Clients, SocketIn(c)
  PROVE  IInv'
  <1> DEFINE unread == down[c] - Smaller(down[c], BUFFER_SIZE)
  <1>1. /\ pc[c] = "socket" /\ ~Ended(c) /\ SocketReadable(c)
        /\ down' = [down EXCEPT ![c] = unread]
        /\ UNCHANGED <<clientVars, up, serverVars>>
        /\ IF down[c] = 0 THEN End(c, "exited", 0)
           ELSE ServeKeyboard(c, keyEvents[c], unread)
    BY DEF SocketIn, Ended, IInv, Connected
  <1>2. /\ pc \in [Clients -> {"connect", "poll", "socket", "keyboard", "write",
                              "exited", "aborted", "killed"}]
        /\ keyEvents \in [Clients -> {"none", "in", "hup"}]
        /\ down \in [Clients -> 0..DownCapacity]
        /\ down[c] \in 0..DownCapacity
    BY DEF IInv, TypeOK, ClientTypeOK, ConnectionTypeOK
  <1>3. /\ unread \in 0..DownCapacity
        /\ unread <= down[c]
        /\ unread = 0 \/ unread + RepliesOfARound <= down[c]
        /\ down[c] = 0 => unread = 0
    BY <1>2, RoomForReplies, Constants DEF Smaller
  <1> HIDE DEF unread
  <1>4. /\ keyEvents[c] = "hup" => HungUp(c)
        /\ down[c] = 0 => ~serverUp
    BY <1>1, EndOfFile DEF IInv, Connected
  <1>5. down'[c] = unread /\ \A d \in Clients \ {c} : down'[d] = down[d]
    BY <1>1, <1>2
  <1>6. ASSUME NEW where \in {"poll", "keyboard"}, GoTo(c, where)
        PROVE  TypeOK'
    <2>1. ClientTypeOK'
      BY <1>1, <1>6 DEF IInv, TypeOK, ClientTypeOK, GoTo, clientVars
    <2>2. ConnectionTypeOK'
      BY <1>1, <1>3, <1>6 DEF IInv, TypeOK, ConnectionTypeOK, GoTo,
                              connectionVars
    <2>3. ServerTypeOK'
      BY <1>1 DEF IInv, TypeOK, ServerTypeOK, serverVars
    <2>4. SomethingToWrite'
      BY <1>1, <1>2, <1>6
         DEF IInv, TypeOK, SomethingToWrite, GoTo, serverVars, clientVars
    <2> QED
      BY <2>1, <2>2, <2>3, <2>4 DEF TypeOK
  <1>7. ASSUME NEW where \in {"poll", "keyboard"}, GoTo(c, where)
        PROVE  DebtIsBounded(c)'
    <2>1. pc'[c] = where
      BY <1>2, <1>7 DEF GoTo
    <2>2. /\ Debt(c)' = Debt(c) - down[c] + unread
          /\ unread = 0 => Debt(c)' <= FullConnection
      <3>1. /\ reply[c] \in 0..ReplyLength /\ up[c] \in 0..UpCapacity
        BY DEF IInv, TypeOK, ServerTypeOK, ConnectionTypeOK
      <3>2. /\ ReplyLength * up[c] <= ReplyLength * UpCapacity
            /\ ReplyLength * up[c] \in Nat
            /\ ReplyLength * UpCapacity \in Nat
        BY <3>1, TimesMonotonic
      <3>3. /\ Unanswered(c) = up[c] /\ Unanswered(c)' = up[c]
        BY <1>1, <2>1, <3>1 DEF Unanswered
      <3>4. PICK r \in 0..ReplyLength : /\ Replies(c) = down[c] + r
                                       /\ Replies(c)' = unread + r
        BY <1>1, <1>5, <3>1 DEF Replies, serverVars
      <3>5. /\ Debt(c) = down[c] + r + ReplyLength * up[c]
            /\ Debt(c)' = unread + r + ReplyLength * up[c]
        BY <3>3, <3>4 DEF Debt
      <3> QED
        BY <1>2, <1>3, <3>2, <3>4, <3>5, Constants
    <2>3. Debt(c)' <= FullConnection
      <3>1. Debt(c) <= FullConnection + RepliesOfARound
        BY <1>1 DEF IInv, DebtIsBounded
      <3>2. Debt(c) \in Nat
        BY DebtType DEF IInv
      <3> QED
        BY <1>2, <1>3, <2>2, <3>1, <3>2, Constants
    <2>4. Debt(c)' \in Int
      <3>1. Debt(c) \in Nat
        BY DebtType DEF IInv
      <3> QED
        BY <1>2, <1>3, <2>2, <3>1
    <2> QED
      BY <2>1, <2>3, <2>4, Constants DEF DebtIsBounded
  <1>8. CASE down[c] = 0
    BY <1>1, <1>2, <1>3, <1>4, <1>8, EndStep DEF clientVars
  <1>9. CASE down[c] # 0 /\ keyEvents[c] = "hup" /\ End(c, "exited", unread)
    BY <1>1, <1>2, <1>3, <1>4, <1>9, EndStep DEF clientVars
  <1>10. CASE GoTo(c, "keyboard") \/ GoTo(c, "poll")
    <2>1. TypeOK' /\ DebtIsBounded(c)'
      BY <1>6, <1>7, <1>10
    <2> QED
      BY <1>1, <1>4, <1>5, <1>10, <2>1, GoToStep DEF clientVars
  <1> QED
    BY <1>1, <1>8, <1>9, <1>10 DEF ServeKeyboard

(***************************************************************************)
(* The client reads the keyboard: the debt grows by the replies of a round.*)
(***************************************************************************)
LEMMA KeyboardInStep ==
  ASSUME IInv, NEW c \in Clients, KeyboardIn(c)
  PROVE  IInv'
  <1> DEFINE chunk == Smaller(key[c], BUFFER_SIZE)
  <1>1. /\ pc[c] = "keyboard" /\ ~Ended(c) /\ GoTo(c, "write")
        /\ key' = [key EXCEPT ![c] = @ - chunk]
        /\ eof' = [eof EXCEPT ![c] = @ \/ chunk = 0]
        /\ rest' = [rest EXCEPT ![c] = chunk + CrLf]
        /\ UNCHANGED <<typed, closed, keyEvents, up, down, serverVars>>
    BY DEF KeyboardIn, Ended
  <1>2. /\ pc \in [Clients -> {"connect", "poll", "socket", "keyboard", "write",
                              "exited", "aborted", "killed"}]
        /\ key \in [Clients -> 0..KeyboardCapacity]
        /\ eof \in [Clients -> BOOLEAN]
        /\ rest \in [Clients -> 0..(KeyboardCapacity + CrLf)]
        /\ key[c] \in 0..KeyboardCapacity
    BY DEF IInv, TypeOK, ClientTypeOK
  <1>3. /\ chunk \in 0..KeyboardCapacity /\ chunk <= key[c]
        /\ key[c] - chunk \in 0..KeyboardCapacity
        /\ chunk + CrLf \in 0..(KeyboardCapacity + CrLf)
        /\ chunk + CrLf > 0
    BY <1>2 DEF Smaller, CrLf
  <1> HIDE DEF chunk
  <1>4. /\ pc'[c] = "write" /\ rest'[c] = chunk + CrLf
        /\ \A d \in Clients \ {c} : pc'[d] = pc[d] /\ rest'[d] = rest[d]
                                    /\ key'[d] = key[d]
    BY <1>1, <1>2 DEF GoTo
  <1>5. TypeOK'
    <2>1. ClientTypeOK'
      <3>1. /\ key' \in [Clients -> 0..KeyboardCapacity]
            /\ eof' \in [Clients -> BOOLEAN]
            /\ rest' \in [Clients -> 0..(KeyboardCapacity + CrLf)]
        BY <1>1, <1>2, <1>3
      <3>2. pc' \in [Clients -> {"connect", "poll", "socket", "keyboard",
                                "write", "exited", "aborted", "killed"}]
        BY <1>1, <1>2 DEF GoTo
      <3> QED
        BY <1>1, <3>1, <3>2 DEF IInv, TypeOK, ClientTypeOK
    <2>2. ConnectionTypeOK'
      BY <1>1 DEF IInv, TypeOK, ConnectionTypeOK, GoTo, connectionVars
    <2>3. ServerTypeOK'
      BY <1>1 DEF IInv, TypeOK, ServerTypeOK, serverVars
    <2>4. SomethingToWrite'
      BY <1>1, <1>3, <1>4 DEF IInv, TypeOK, SomethingToWrite, serverVars
    <2> QED
      BY <2>1, <2>2, <2>3, <2>4 DEF TypeOK
  <1>6. DebtIsBounded(c)'
    <2>1. Debt(c) <= FullConnection
      BY <1>1 DEF IInv, DebtIsBounded
    <2>2. up[c] \in Nat
      BY DEF IInv, TypeOK, ConnectionTypeOK
    <2>3. /\ Unanswered(c) = up[c]
          /\ Unanswered(c)' = up[c] + (chunk + CrLf)
          /\ Replies(c)' = Replies(c) /\ Replies(c) \in Nat
      <3>1. Replies(c) \in Nat
        BY DebtType DEF IInv
      <3> QED
        BY <1>1, <1>4, <2>2, <3>1 DEF Unanswered, Replies, serverVars
    <2>4. /\ ReplyLength * (up[c] + (chunk + CrLf))
               = ReplyLength * up[c] + ReplyLength * (chunk + CrLf)
          /\ ReplyLength * up[c] \in Nat
          /\ ReplyLength * (chunk + CrLf) \in Nat
          /\ ReplyLength * (chunk + CrLf) <= RepliesOfARound
      <3>1. chunk + CrLf \in Nat
        BY <1>3 DEF CrLf
      <3> QED
        BY <1>3, <2>2, <3>1, TimesPlus, TimesMonotonic, Constants
    <2>5. /\ Debt(c) = Replies(c) + ReplyLength * up[c]
          /\ Debt(c)' = Replies(c)
                        + (ReplyLength * up[c] + ReplyLength * (chunk + CrLf))
      BY <2>3, <2>4 DEF Debt
    <2> QED
      BY <1>4, <2>1, <2>3, <2>4, <2>5, Constants DEF DebtIsBounded
  <1>7. keyEvents'[c] = "hup" => HungUp(c)
    BY <1>1 DEF IInv, Connected
  <1> QED
    BY <1>1, <1>4, <1>5, <1>6, <1>7, GoToStep

(***************************************************************************)
(* A byte goes from the client's write() into the connection.              *)
(***************************************************************************)
LEMMA WriteStep ==
  ASSUME IInv, NEW c \in Clients, Write(c)
  PROVE  IInv'
  <1> DEFINE where == IF rest[c] = 1 THEN "poll" ELSE "write"
  <1>1. /\ pc[c] = "write" /\ ~Ended(c) /\ up[c] < UpCapacity
        /\ where \in {"poll", "write"} /\ GoTo(c, where)
        /\ up' = [up EXCEPT ![c] = @ + 1]
        /\ rest' = [rest EXCEPT ![c] = @ - 1]
        /\ UNCHANGED <<typed, key, closed, eof, keyEvents, down, serverVars>>
    BY DEF Write, Ended
  <1>2. /\ pc \in [Clients -> {"connect", "poll", "socket", "keyboard", "write",
                              "exited", "aborted", "killed"}]
        /\ rest \in [Clients -> 0..(KeyboardCapacity + CrLf)]
        /\ up \in [Clients -> 0..UpCapacity]
        /\ rest[c] \in Nat /\ rest[c] > 0
        /\ rest[c] - 1 \in 0..(KeyboardCapacity + CrLf)
        /\ up[c] \in Nat /\ up[c] + 1 \in 0..UpCapacity
    BY <1>1 DEF IInv, TypeOK, ClientTypeOK, ConnectionTypeOK,
                SomethingToWrite, CrLf
  <1>3. /\ pc'[c] = where /\ rest'[c] = rest[c] - 1 /\ up'[c] = up[c] + 1
        /\ \A d \in Clients \ {c} : /\ pc'[d] = pc[d] /\ rest'[d] = rest[d]
                                    /\ up'[d] = up[d]
    BY <1>1, <1>2 DEF GoTo
  <1>4. where = "write" => rest[c] - 1 > 0
    BY <1>2
  <1>5. where = "poll" => rest[c] = 1
    OBVIOUS
  <1> HIDE DEF where
  <1>6. TypeOK'
    <2>1. ClientTypeOK'
      <3>1. rest' \in [Clients -> 0..(KeyboardCapacity + CrLf)]
        BY <1>1, <1>2
      <3>2. pc' \in [Clients -> {"connect", "poll", "socket", "keyboard",
                                "write", "exited", "aborted", "killed"}]
        BY <1>1, <1>2 DEF GoTo
      <3> QED
        BY <1>1, <3>1, <3>2 DEF IInv, TypeOK, ClientTypeOK
    <2>2. ConnectionTypeOK'
      BY <1>1, <1>2 DEF IInv, TypeOK, ConnectionTypeOK, GoTo, connectionVars
    <2>3. ServerTypeOK'
      BY <1>1 DEF IInv, TypeOK, ServerTypeOK, serverVars
    <2>4. SomethingToWrite'
      BY <1>1, <1>3, <1>4 DEF IInv, TypeOK, SomethingToWrite, serverVars
    <2> QED
      BY <2>1, <2>2, <2>3, <2>4 DEF TypeOK
  <1>7. DebtIsBounded(c)'
    <2>1. Unanswered(c)' = Unanswered(c)
      BY <1>1, <1>2, <1>3, <1>5 DEF Unanswered
    <2>2. Replies(c)' = Replies(c)
      BY <1>1 DEF Replies, serverVars
    <2>3. Debt(c)' = Debt(c)
      BY <2>1, <2>2 DEF Debt
    <2> QED
      BY <1>1, <1>3, <2>3 DEF IInv, DebtIsBounded
  <1>8. keyEvents'[c] = "hup" => HungUp(c)
    BY <1>1 DEF IInv, Connected
  <1> QED
    BY <1>1, <1>3, <1>6, <1>7, <1>8, GoToStep

(***************************************************************************)
(* The kernel accepts the connection on the server's behalf.               *)
(***************************************************************************)
LEMMA ConnectStep ==
  ASSUME IInv, NEW c \in Clients, Connect(c)
  PROVE  IInv'
  <1>1. /\ pc[c] = "connect" /\ serverUp /\ ~Ended(c)
        /\ backlog' = Append(backlog, c)
        /\ thread' = [thread EXCEPT ![c] = "queued"]
        /\ pc' = [pc EXCEPT ![c] = "poll"]
        /\ UNCHANGED <<clientVars, up, down, connectionVars, serverUp, reply,
                       killed>>
    BY DEF Connect, GoTo, Ended
  <1>2. /\ pc \in [Clients -> {"connect", "poll", "socket", "keyboard", "write",
                              "exited", "aborted", "killed"}]
        /\ thread \in [Clients -> {"none", "queued", "start", "read", "write",
                                  "bye", "closed"}]
        /\ backlog \in Seq(Clients)
        /\ Connected(c) /\ thread[c] = "none"
    BY <1>1 DEF IInv, TypeOK, ClientTypeOK, ServerTypeOK, Connected
  <1>3. /\ pc'[c] = "poll" /\ thread'[c] = "queued"
        /\ \A d \in Clients \ {c} : pc'[d] = pc[d] /\ thread'[d] = thread[d]
    BY <1>1, <1>2
  <1>4. TypeOK'
    <2>1. ClientTypeOK'
      BY <1>1, <1>2 DEF IInv, TypeOK, ClientTypeOK, clientVars
    <2>2. ConnectionTypeOK'
      BY <1>1 DEF IInv, TypeOK, ConnectionTypeOK, connectionVars
    <2>3. ServerTypeOK'
      <3>1. backlog' \in Seq(Clients)
        BY <1>1, <1>2
      <3>2. thread' \in [Clients -> {"none", "queued", "start", "read", "write",
                                    "bye", "closed"}]
        BY <1>1, <1>2
      <3> QED
        BY <1>1, <3>1, <3>2 DEF IInv, TypeOK, ServerTypeOK
    <2>4. SomethingToWrite'
      BY <1>1, <1>3 DEF IInv, TypeOK, SomethingToWrite, clientVars
    <2> QED
      BY <2>1, <2>2, <2>3, <2>4 DEF TypeOK
  <1>5. ASSUME NEW d \in Clients PROVE DebtIsBounded(d)' /\ Connected(d)'
    <2>1. CASE d # c
      <3>1. Untouched(d)
        BY <1>1, <1>3, <2>1 DEF Untouched, clientVars, connectionVars
      <3> QED
        BY <1>1, <3>1, UntouchedClient DEF IInv
    <2>2. CASE d = c
      <3>1. Debt(c)' = Debt(c)
        BY <1>1, <1>2, <1>3
           DEF Debt, Replies, Unanswered, clientVars, connectionVars
      <3>2. DebtIsBounded(c)'
        BY <1>1, <1>3, <3>1 DEF IInv, DebtIsBounded
      <3>3. Connected(c)'
        BY <1>1, <1>2, <1>3
           DEF Connected, Ended, HungUp, LeftReplies, clientVars,
               connectionVars
      <3> QED
        BY <2>2, <3>2, <3>3
    <2> QED
      BY <2>1, <2>2
  <1>6. Queue'
    <2>1. /\ Len(backlog) \in Nat /\ Len(backlog') = Len(backlog) + 1
          /\ backlog'[Len(backlog) + 1] = c
          /\ \A i \in 1..Len(backlog) : /\ backlog'[i] = backlog[i]
                                       /\ backlog[i] \in Clients
      BY <1>1, <1>2
    <2>2. \A i \in 1..Len(backlog) : /\ thread[backlog[i]] = "queued"
                                    /\ backlog[i] # c
      BY <1>2 DEF IInv, Queue
    <2> QED
      BY <1>3, <2>1, <2>2 DEF IInv, Queue
  <1>7. ProcessesEndForAReason'
    BY <1>1, <1>3
       DEF IInv, ProcessesEndForAReason, Ended, MayLeave, HungUp, clientVars
  <1> QED
    BY <1>4, <1>5, <1>6, <1>7 DEF IInv

-----------------------------------------------------------------------------
(***************************************************************************)
(* The keyboard, and the resets of the kernel.                             *)
(***************************************************************************)
LEMMA KeyboardStep ==
  ASSUME IInv, NEW c \in Clients, Keyboard(c)
  PROVE  IInv'
  <1> USE DEF connectionVars, serverVars
  <1>1. /\ ~Ended(c) /\ (closed[c] => closed'[c])
        /\ UNCHANGED <<pc, eof, keyEvents, rest, up, down, connectionVars,
                       serverVars>>
        /\ \A d \in Clients \ {c} : key'[d] = key[d] /\ closed'[d] = closed[d]
        /\ ClientTypeOK'
    <2>1. ClientTypeOK
      BY DEF IInv, TypeOK
    <2>2. CASE Type(c)
      BY <2>1, <2>2 DEF Type, ClientTypeOK
    <2>3. CASE CloseKeyboard(c)
      BY <2>1, <2>3 DEF CloseKeyboard, ClientTypeOK
    <2> QED
      BY <2>2, <2>3 DEF Keyboard
  <1>2. TypeOK'
    <2>1. ConnectionTypeOK' /\ ServerTypeOK' /\ SomethingToWrite'
      BY <1>1 DEF IInv, TypeOK, ConnectionTypeOK, ServerTypeOK,
                  SomethingToWrite
    <2> QED
      BY <1>1, <2>1 DEF TypeOK
  <1>3. \A d \in Clients \ {c} : Untouched(d)
    BY <1>1 DEF Untouched
  <1>4. DebtIsBounded(c)'
    BY <1>1 DEF IInv, DebtIsBounded, Debt, Replies, Unanswered, Ended
  <1>5. Connected(c)'
    BY <1>1 DEF IInv, Connected, Ended, HungUp, LeftReplies, SocketReadable
  <1>6. ~Ended(c)'
    BY <1>1 DEF Ended
  <1> QED
    BY <1>1, <1>2, <1>3, <1>4, <1>5, <1>6, ClientStep

LEMMA ResetStep ==
  ASSUME IInv, NEW c \in Clients, Reset(c)
  PROVE  IInv'
  <1> USE DEF clientVars, serverVars
  <1>1. /\ UNCHANGED <<pc, clientVars, up, down, finToServer, finToClient,
                       serverVars>>
        /\ \A d \in Clients \ {c} : /\ resetAtServer'[d] = resetAtServer[d]
                                    /\ resetAtClient'[d] = resetAtClient[d]
        /\ ConnectionTypeOK'
        /\ resetAtServer'[c] => resetAtServer[c] \/ LeftReplies(c)
        /\ resetAtClient'[c] => resetAtClient[c] \/ ~serverUp
    <2>1. ConnectionTypeOK /\ Connected(c)
      BY DEF IInv, TypeOK
    <2>2. CASE ResetServer(c)
      <3>1. LeftReplies(c)
        BY <2>1, <2>2 DEF ResetServer, Connected, AcceptedOpen, LeftReplies
      <3> QED
        BY <2>1, <2>2, <3>1 DEF ResetServer, ConnectionTypeOK
    <2>3. CASE ResetClient(c)
      <3>1. ~serverUp
        BY <2>1, <2>3 DEF ResetClient, Connected
      <3> QED
        BY <2>1, <2>3, <3>1 DEF ResetClient, ConnectionTypeOK
    <2> QED
      BY <2>2, <2>3 DEF Reset
  <1>2. TypeOK'
    <2>1. ClientTypeOK' /\ ServerTypeOK' /\ SomethingToWrite'
      BY <1>1 DEF IInv, TypeOK, ClientTypeOK, ServerTypeOK, SomethingToWrite
    <2> QED
      BY <1>1, <2>1 DEF TypeOK
  <1>3. \A d \in Clients \ {c} : Untouched(d)
    BY <1>1 DEF Untouched
  <1>4. DebtIsBounded(c)'
    BY <1>1 DEF IInv, DebtIsBounded, Debt, Replies, Unanswered, Ended
  <1>5. Connected(c)'
    BY <1>1 DEF IInv, Connected, Ended, HungUp, LeftReplies, SocketReadable
  <1>6. down[c] \in Nat /\ (Ended(c) <=> Ended(c)')
    BY <1>1 DEF IInv, TypeOK, ConnectionTypeOK, Ended
  <1>7. Ended(c)' => MayLeave(c)' \/ ~serverUp
    BY <1>1, <1>6 DEF IInv, ProcessesEndForAReason, MayLeave, HungUp, Ended
  <1> QED
    BY <1>1, <1>2, <1>3, <1>4, <1>5, <1>6, <1>7, ClientStep

-----------------------------------------------------------------------------
(***************************************************************************)
(* The steps of the server.  A handler's step on an accepted connection:   *)
(* no reply is taken back, and the debt does not grow.                     *)
(***************************************************************************)
LEMMA HandlerStep ==
  ASSUME IInv, NEW c \in Clients, TypeOK',
         NEW where \in {"read", "write", "bye", "closed"},
         AcceptedOpen(c), ServerThread(c, where),
         \A d \in Clients \ {c} :
             /\ up'[d] = up[d] /\ down'[d] = down[d]
             /\ reply'[d] = reply[d] /\ finToClient'[d] = finToClient[d],
         where = "bye" => finToServer[c],
         where = "closed" => Ended(c),
         finToClient'[c] => finToClient[c] \/ where = "closed",
         down'[c] >= down[c],
         Debt(c)' <= Debt(c)
  PROVE  IInv'
  <1> USE DEF ServerThread, clientVars
  <1>1. /\ thread \in [Clients -> {"none", "queued", "start", "read", "write",
                                  "bye", "closed"}]
        /\ down[c] \in Nat /\ down'[c] \in Nat
    BY DEF IInv, TypeOK, ServerTypeOK, ConnectionTypeOK
  <1>2. /\ thread'[c] = where
        /\ \A d \in Clients \ {c} : Untouched(d)
        /\ \A d \in Clients : Ended(d)' <=> Ended(d)
        /\ \A d \in Clients : MayLeave(d)' <=> MayLeave(d)
        /\ \A d \in Clients : LeftReplies(d) => LeftReplies(d)'
    <2>1. thread'[c] = where
      BY <1>1
    <2>2. \A d \in Clients \ {c} : Untouched(d)
      BY <1>1 DEF Untouched
    <2>3. \A d \in Clients : Ended(d)' <=> Ended(d)
      BY DEF Ended
    <2>4. \A d \in Clients : MayLeave(d)' <=> MayLeave(d)
      BY DEF MayLeave, HungUp
    <2>5. ASSUME NEW d \in Clients, LeftReplies(d) PROVE LeftReplies(d)'
      BY <1>1, <2>3, <2>5 DEF LeftReplies, Ended
    <2> QED
      BY <2>1, <2>2, <2>3, <2>4, <2>5
  <1>3. ASSUME NEW d \in Clients PROVE DebtIsBounded(d)' /\ Connected(d)'
    <2>1. CASE d # c
      BY <1>2, <2>1, UntouchedClient DEF IInv
    <2>2. CASE d = c
      <3>1. DebtIsBounded(c)'
        <4>1. Debt(c) \in Nat
          BY DebtType DEF IInv
        <4>2. Debt(c)' \in Int
          <5>1. /\ up'[c] \in Nat /\ rest'[c] \in Nat /\ reply'[c] \in Nat
            BY DEF TypeOK, ClientTypeOK, ConnectionTypeOK, ServerTypeOK, CrLf
          <5>2. Replies(c)' \in Nat /\ Unanswered(c)' \in Nat
            BY <1>1, <5>1 DEF Replies, Unanswered
          <5> QED
            BY <5>2, TimesPlus DEF Debt
        <4> QED
          BY <1>2, <4>1, <4>2, Constants DEF IInv, DebtIsBounded
      <3>2. Connected(c)'
        BY <1>1, <1>2 DEF IInv, Connected, AcceptedOpen, SocketReadable,
                         LeftReplies, HungUp
      <3> QED
        BY <2>2, <3>1, <3>2
    <2> QED
      BY <2>1, <2>2
  <1>4. Queue'
    BY <1>1, <1>2, QueuedClients DEF IInv, Queue, AcceptedOpen, Untouched
  <1>5. ProcessesEndForAReason'
    BY <1>2 DEF IInv, ProcessesEndForAReason
  <1> QED
    BY <1>3, <1>4, <1>5 DEF IInv

(* The first line the handler prints, the end of its input, and the end of *)
(* the connection.                                                         *)
LEMMA QuietStep ==
  ASSUME IInv, NEW c \in Clients, Greet(c) \/ ReadEof(c) \/ Goodbye(c)
  PROVE  IInv'
  <1> DEFINE where == IF thread[c] = "start" THEN "read"
                      ELSE IF thread[c] = "read" THEN "bye" ELSE "closed"
  <1>1. /\ thread[c] \in {"start", "read", "bye"} /\ AcceptedOpen(c)
        /\ where \in {"read", "bye", "closed"} /\ ServerThread(c, where)
        /\ UNCHANGED <<up, down, reply>>
        /\ where = "bye" => finToServer[c]
        /\ thread[c] = "bye" <=> where = "closed"
        /\ \/ UNCHANGED finToClient
           \/ where = "closed" /\ finToClient' = [finToClient EXCEPT ![c] = TRUE]
    BY DEF Greet, ReadEof, Goodbye, AcceptedOpen
  <1> HIDE DEF where
  <1>2. /\ thread \in [Clients -> {"none", "queued", "start", "read", "write",
                                  "bye", "closed"}]
        /\ finToClient \in [Clients -> BOOLEAN] /\ down[c] \in Nat
        /\ Connected(c)
    BY DEF IInv, TypeOK, ServerTypeOK, ConnectionTypeOK
  <1>3. thread'[c] = where /\ \A d \in Clients \ {c} : thread'[d] = thread[d]
    BY <1>1, <1>2 DEF ServerThread
  <1>4. /\ \A d \in Clients \ {c} : finToClient'[d] = finToClient[d]
        /\ finToClient' \in [Clients -> BOOLEAN]
        /\ finToClient'[c] => finToClient[c] \/ where = "closed"
    BY <1>1, <1>2
  <1>5. TypeOK'
    <2>1. ClientTypeOK'
      BY <1>1 DEF IInv, TypeOK, ClientTypeOK, ServerThread, clientVars
    <2>2. ConnectionTypeOK'
      BY <1>1, <1>4 DEF IInv, TypeOK, ConnectionTypeOK, ServerThread
    <2>3. ServerTypeOK'
      BY <1>1, <1>2 DEF IInv, TypeOK, ServerTypeOK, ServerThread
    <2>4. SomethingToWrite'
      BY <1>1, <1>3
         DEF IInv, TypeOK, SomethingToWrite, ServerThread, clientVars
    <2> QED
      BY <2>1, <2>2, <2>3, <2>4 DEF TypeOK
  <1>6. Debt(c)' = Debt(c) /\ Debt(c) \in Nat
    <2>1. Debt(c)' = Debt(c)
      BY <1>1, <1>3 DEF Debt, Replies, Unanswered, ServerThread, clientVars
    <2> QED
      BY <2>1, DebtType DEF IInv
  <1>7. where = "closed" => Ended(c)
    BY <1>1, <1>2 DEF Connected
  <1> QED
    BY <1>1, <1>2, <1>4, <1>5, <1>6, <1>7, HandlerStep

(* A chunk is read: the reply to it is paid for by its first byte.         *)
LEMMA ReadChunkStep ==
  ASSUME IInv, NEW c \in Clients, ReadChunk(c)
  PROVE  IInv'
  <1> DEFINE chunk == Smaller(up[c], BUFFER_SIZE)
  <1>1. /\ thread[c] = "read" /\ AcceptedOpen(c) /\ up[c] > 0
        /\ up' = [up EXCEPT ![c] = @ - chunk]
        /\ ServerThread(c, "write")
        /\ UNCHANGED <<down, finToClient>>
    BY DEF ReadChunk, AcceptedOpen
  <1>2. PICK length \in ReplyLengths : reply' = [reply EXCEPT ![c] = length]
    BY DEF ReadChunk
  <1>3. /\ thread \in [Clients -> {"none", "queued", "start", "read", "write",
                                  "bye", "closed"}]
        /\ reply \in [Clients -> 0..ReplyLength]
        /\ up \in [Clients -> 0..UpCapacity] /\ up[c] \in 0..UpCapacity
        /\ down[c] \in Nat /\ rest[c] \in Nat
        /\ length \in 1..ReplyLength
    BY DEF IInv, TypeOK, ClientTypeOK, ServerTypeOK, ConnectionTypeOK, CrLf
  <1>4. chunk \in 1..UpCapacity /\ up[c] - chunk \in 0..UpCapacity
    BY <1>1, <1>3 DEF Smaller
  <1> HIDE DEF chunk
  <1>5. /\ thread'[c] = "write" /\ up'[c] = up[c] - chunk /\ reply'[c] = length
        /\ \A d \in Clients \ {c} : /\ thread'[d] = thread[d]
                                    /\ up'[d] = up[d] /\ reply'[d] = reply[d]
    BY <1>1, <1>2, <1>3 DEF ServerThread
  <1>6. TypeOK'
    <2>1. ClientTypeOK'
      BY <1>1 DEF IInv, TypeOK, ClientTypeOK, ServerThread, clientVars
    <2>2. ConnectionTypeOK'
      BY <1>1, <1>3, <1>4 DEF IInv, TypeOK, ConnectionTypeOK, ServerThread
    <2>3. ServerTypeOK'
      <3>1. reply' \in [Clients -> 0..ReplyLength]
        BY <1>2, <1>3
      <3> QED
        BY <1>1, <1>3, <3>1 DEF IInv, TypeOK, ServerTypeOK, ServerThread
    <2>4. SomethingToWrite'
      BY <1>1, <1>3, <1>5
         DEF IInv, TypeOK, SomethingToWrite, ServerThread, clientVars
    <2> QED
      BY <2>1, <2>2, <2>3, <2>4 DEF TypeOK
  <1>7. Debt(c)' <= Debt(c)
    <2>1. /\ Replies(c) = down[c] /\ Replies(c)' = down[c] + length
      BY <1>1, <1>3, <1>5 DEF Replies
    <2>2. /\ Unanswered(c)' \in Nat
          /\ Unanswered(c) = Unanswered(c)' + chunk
      <3>1. pc' = pc /\ rest' = rest
        BY <1>1 DEF ServerThread, clientVars
      <3> QED
        BY <1>3, <1>4, <1>5, <3>1 DEF Unanswered
    <2>3. /\ ReplyLength * Unanswered(c)
               = ReplyLength * Unanswered(c)' + ReplyLength * chunk
          /\ ReplyLength * Unanswered(c)' \in Nat
          /\ ReplyLength * chunk \in Nat
          /\ ReplyLength * 1 <= ReplyLength * chunk
          /\ ReplyLength * 1 = ReplyLength
      BY <1>4, <2>2, TimesPlus, TimesMonotonic
    <2>4. /\ Debt(c) = down[c] + (ReplyLength * Unanswered(c)'
                                      + ReplyLength * chunk)
          /\ Debt(c)' = down[c] + length + ReplyLength * Unanswered(c)'
      BY <2>1, <2>3 DEF Debt
    <2> QED
      BY <1>3, <2>3, <2>4
  <1> QED
    BY <1>1, <1>3, <1>5, <1>6, <1>7, HandlerStep

(* A byte goes from the handler's write() into the connection.             *)
LEMMA WriteReplyStep ==
  ASSUME IInv, NEW c \in Clients, WriteReply(c)
  PROVE  IInv'
  <1> DEFINE where == IF reply[c] = 1 THEN "read" ELSE "write"
  <1>1. /\ thread[c] = "write" /\ AcceptedOpen(c) /\ down[c] < DownCapacity
        /\ down' = [down EXCEPT ![c] = @ + 1]
        /\ reply' = [reply EXCEPT ![c] = @ - 1]
        /\ where \in {"read", "write"} /\ ServerThread(c, where)
        /\ UNCHANGED <<up, finToClient>>
    BY DEF WriteReply, AcceptedOpen
  <1>2. /\ thread \in [Clients -> {"none", "queued", "start", "read", "write",
                                  "bye", "closed"}]
        /\ reply \in [Clients -> 0..ReplyLength]
        /\ down \in [Clients -> 0..DownCapacity]
        /\ reply[c] \in 1..ReplyLength /\ reply[c] - 1 \in 0..ReplyLength
        /\ down[c] \in Nat /\ down[c] + 1 \in 0..DownCapacity
    BY <1>1 DEF IInv, TypeOK, ServerTypeOK, ConnectionTypeOK,
                SomethingToWrite
  <1>3. where = "write" => reply[c] - 1 > 0
    BY <1>2
  <1>4. where = "read" => reply[c] = 1
    OBVIOUS
  <1> HIDE DEF where
  <1>5. /\ thread'[c] = where /\ down'[c] = down[c] + 1
        /\ reply'[c] = reply[c] - 1
        /\ \A d \in Clients \ {c} : /\ thread'[d] = thread[d]
                                    /\ down'[d] = down[d]
                                    /\ reply'[d] = reply[d]
    BY <1>1, <1>2 DEF ServerThread
  <1>6. TypeOK'
    <2>1. ClientTypeOK'
      BY <1>1 DEF IInv, TypeOK, ClientTypeOK, ServerThread, clientVars
    <2>2. ConnectionTypeOK'
      BY <1>1, <1>2 DEF IInv, TypeOK, ConnectionTypeOK, ServerThread
    <2>3. ServerTypeOK'
      <3>1. reply' \in [Clients -> 0..ReplyLength]
        BY <1>1, <1>2
      <3> QED
        BY <1>1, <1>2, <3>1 DEF IInv, TypeOK, ServerTypeOK, ServerThread
    <2>4. SomethingToWrite'
      BY <1>1, <1>3, <1>5
         DEF IInv, TypeOK, SomethingToWrite, ServerThread, clientVars
    <2> QED
      BY <2>1, <2>2, <2>3, <2>4 DEF TypeOK
  <1>7. Debt(c)' = Debt(c) /\ Debt(c) \in Nat
    <2>1. Replies(c)' = Replies(c)
      BY <1>1, <1>2, <1>4, <1>5 DEF Replies
    <2>2. Unanswered(c)' = Unanswered(c)
      BY <1>1 DEF Unanswered, ServerThread, clientVars
    <2> QED
      BY <2>1, <2>2, DebtType DEF IInv, Debt
  <1>8. down'[c] >= down[c]
    BY <1>2, <1>5
  <1> QED
    BY <1>1, <1>5, <1>6, <1>7, <1>8, HandlerStep

(***************************************************************************)
(* The server's process ends.                                              *)
(***************************************************************************)
LEMMA ServerEndsStep ==
  ASSUME IInv, ServerEnds, killed' \in BOOLEAN, killed => killed',
         killed' \/ \E c \in Clients : LeftReplies(c) /\ MayLeave(c)
  PROVE  IInv'
  <1> USE DEF ServerEnds, clientVars
  <1>1. TypeOK'
    <2>1. ClientTypeOK'
      BY DEF IInv, TypeOK, ClientTypeOK
    <2>2. ConnectionTypeOK'
      <3>1. finToClient' \in [Clients -> BOOLEAN]
        BY DEF AcceptedOpen, IInv, TypeOK, ConnectionTypeOK
      <3> QED
        BY <3>1 DEF IInv, TypeOK, ConnectionTypeOK
    <2>3. ServerTypeOK'
      <3>1. thread' \in [Clients -> {"none", "queued", "start", "read", "write",
                                    "bye", "closed"}]
        OBVIOUS
      <3>2. backlog' \in Seq(Clients)
        OBVIOUS
      <3> QED
        BY <3>1, <3>2 DEF IInv, TypeOK, ServerTypeOK
    <2>4. SomethingToWrite'
      BY DEF IInv, TypeOK, SomethingToWrite
    <2> QED
      BY <2>1, <2>2, <2>3, <2>4 DEF TypeOK
  <1>2. ASSUME NEW d \in Clients
        PROVE  /\ Ended(d)' <=> Ended(d)
               /\ MayLeave(d)' <=> MayLeave(d)
               /\ LeftReplies(d)' <=> LeftReplies(d)
    BY DEF Ended, MayLeave, HungUp, LeftReplies
  <1>3. ASSUME NEW d \in Clients PROVE DebtIsBounded(d)' /\ Connected(d)'
    <2>1. /\ thread'[d] = (IF thread[d] = "none" THEN "none" ELSE "closed")
          /\ finToClient'[d] => finToClient[d] \/ thread'[d] = "closed"
      BY DEF AcceptedOpen
    <2>2. DebtIsBounded(d)'
      <3>1. /\ up[d] \in Nat /\ down[d] \in Nat /\ reply[d] \in Nat
            /\ rest[d] \in Nat
        BY DEF IInv, TypeOK, ClientTypeOK, ConnectionTypeOK, ServerTypeOK,
               CrLf
      <3>2. Unanswered(d)' = Unanswered(d)
        BY DEF Unanswered
      <3>3. Replies(d)' <= Replies(d) /\ Replies(d)' \in Nat
        BY <2>1, <3>1 DEF Replies
      <3>4. Debt(d)' <= Debt(d) /\ Debt(d) \in Nat /\ Debt(d)' \in Int
        <4>1. Debt(d)' = Replies(d)' + ReplyLength * Unanswered(d)
          BY <3>2 DEF Debt
        <4> QED
          BY <3>3, <4>1, DebtType DEF IInv, Debt
      <3> QED
        BY <1>2, <3>4, Constants DEF IInv, DebtIsBounded
    <2>3. Connected(d)'
      BY <1>2, <2>1
         DEF IInv, Connected, SocketReadable, AcceptedOpen, LeftReplies, HungUp
    <2> QED
      BY <2>2, <2>3
  <1>4. Queue'
    BY DEF Queue
  <1>5. ProcessesEndForAReason'
    BY <1>2 DEF IInv, ProcessesEndForAReason
  <1> QED
    BY <1>1, <1>3, <1>4, <1>5 DEF IInv

LEMMA ThrowStep ==
  ASSUME IInv, NEW c \in Clients, Throw(c)
  PROVE  IInv'
  <1>1. ServerEnds /\ resetAtServer[c] /\ UNCHANGED killed
        /\ thread[c] \in {"start", "write", "bye", "read"}
    BY DEF Throw
  <1>2. LeftReplies(c) /\ serverUp
    BY <1>1 DEF IInv, Connected
  <1>3. MayLeave(c)
    BY <1>2 DEF IInv, ProcessesEndForAReason, LeftReplies
  <1> QED
    BY <1>1, <1>2, <1>3, ServerEndsStep DEF IInv, TypeOK, ServerTypeOK

LEMMA KillStep == IInv /\ Kill => IInv'
  BY ServerEndsStep DEF Kill

LEMMA AcceptStep ==
  ASSUME IInv, Accept
  PROVE  IInv'
  <1> USE DEF Accept, clientVars, connectionVars
  <1>1. /\ thread \in [Clients -> {"none", "queued", "start", "read", "write",
                                  "bye", "closed"}]
        /\ backlog \in Seq(Clients) /\ backlog # <<>>
    BY DEF IInv, TypeOK, ServerTypeOK
  <1>0. PICK c \in Clients : c = Head(backlog)
    BY <1>1
  <1>2. /\ c = backlog[1] /\ c \in Clients
        /\ Len(backlog) \in Nat /\ Len(backlog) >= 1
        /\ backlog' \in Seq(Clients)
        /\ Len(backlog') = Len(backlog) - 1
        /\ \A i \in 1..Len(backlog') : /\ backlog'[i] = backlog[i + 1]
                                      /\ backlog'[i] \in Clients
    BY <1>0, <1>1
  <1>3. thread[c] = "queued"
    BY <1>2 DEF IInv, Queue
  <1>4. /\ thread'[c] = "start"
        /\ \A d \in Clients \ {c} : thread'[d] = thread[d]
        /\ thread' \in [Clients -> {"none", "queued", "start", "read", "write",
                                   "bye", "closed"}]
    BY <1>0, <1>1
  <1>5. TypeOK'
    <2>1. ClientTypeOK' /\ ConnectionTypeOK'
      BY DEF IInv, TypeOK, ClientTypeOK, ConnectionTypeOK
    <2>2. ServerTypeOK'
      BY <1>2, <1>4 DEF IInv, TypeOK, ServerTypeOK
    <2>3. SomethingToWrite'
      BY <1>4 DEF IInv, TypeOK, SomethingToWrite
    <2> QED
      BY <2>1, <2>2, <2>3 DEF TypeOK
  <1>6. ASSUME NEW d \in Clients PROVE DebtIsBounded(d)' /\ Connected(d)'
    <2>1. CASE d # c
      <3>1. Untouched(d)
        BY <1>4, <2>1 DEF Untouched
      <3> QED
        BY <3>1, UntouchedClient DEF IInv
    <2>2. CASE d = c
      <3>1. Debt(c)' = Debt(c)
        BY <1>3, <1>4 DEF Debt, Replies, Unanswered
      <3>2. DebtIsBounded(c)'
        BY <1>2, <3>1 DEF IInv, DebtIsBounded, Ended
      <3>3. Connected(c)'
        BY <1>2, <1>3, <1>4
           DEF IInv, Connected, Ended, HungUp, LeftReplies, SocketReadable
      <3> QED
        BY <2>2, <3>2, <3>3
    <2> QED
      BY <2>1, <2>2
  <1>7. Queue'
    <2>1. \A i \in 1..Len(backlog') : /\ i + 1 \in 1..Len(backlog)
                                     /\ backlog[i + 1] # c
      BY <1>2 DEF IInv, Queue
    <2> QED
      BY <1>2, <1>4, <2>1 DEF IInv, Queue
  <1>8. ProcessesEndForAReason'
    BY DEF IInv, ProcessesEndForAReason, Ended, MayLeave, HungUp, LeftReplies
  <1> QED
    BY <1>5, <1>6, <1>7, <1>8 DEF IInv

-----------------------------------------------------------------------------
(* Every step of the examples keeps the invariant.                         *)
LEMMA NextInvariant == IInv /\ [Next]_vars => IInv'
  <1> SUFFICES ASSUME IInv, [Next]_vars PROVE IInv'
    OBVIOUS
  <1>1. ASSUME NEW c \in Clients, Client(c) PROVE IInv'
    BY <1>1, ConnectStep, ConnectRefusedStep, PollReadyStep, PollErrorStep,
       SocketInStep, KeyboardInStep, WriteStep, WriteFailsStep DEF Client
  <1>2. ASSUME NEW c \in Clients, Handler(c) PROVE IInv'
    BY <1>2, ThrowStep, QuietStep, ReadChunkStep, WriteReplyStep DEF Handler
  <1>3. ASSUME NEW c \in Clients, Keyboard(c) \/ KillClient(c) \/ Reset(c)
        PROVE  IInv'
    BY <1>3, KeyboardStep, KillClientStep, ResetStep
  <1>4. CASE UNCHANGED vars
    <2> USE <1>4 DEF vars, clientVars, connectionVars, serverVars
    <2>1. TypeOK'
      BY DEF IInv, TypeOK, ClientTypeOK, ConnectionTypeOK, ServerTypeOK,
             SomethingToWrite
    <2>2. ASSUME NEW d \in Clients PROVE DebtIsBounded(d)' /\ Connected(d)'
      <3>1. Untouched(d)
        BY DEF Untouched
      <3> QED
        BY <3>1, UntouchedClient DEF IInv
    <2>3. Queue' /\ ProcessesEndForAReason'
      BY DEF IInv, Queue, ProcessesEndForAReason, Ended, MayLeave, HungUp,
             LeftReplies
    <2> QED
      BY <2>1, <2>2, <2>3 DEF IInv
  <1> QED
    BY <1>1, <1>2, <1>3, <1>4, AcceptStep, KillStep DEF Next

(* The inductive invariant holds in every reachable state.                 *)
THEOREM Invariance == Spec => []IInv
  <1>1. Init => IInv
    BY InitInvariant
  <1>2. IInv /\ [Next]_vars => IInv'
    BY NextInvariant
  <1> QED
    BY <1>1, <1>2, PTL DEF Spec

(* Type correctness; write() is never called with nothing to write.        *)
THEOREM TypeCorrect == Spec => []TypeOK
  <1>1. IInv => TypeOK
    BY DEF IInv
  <1> QED
    BY <1>1, Invariance, PTL

(* The server ends only when somebody stopped it, or a client that was     *)
(* stopped or whose keyboard hung up has left a reply unread; a client     *)
(* only when it was stopped, its keyboard hung up or the server is gone.   *)
THEOREM EndsHaveReasons == Spec => []ProcessesEndForAReason
  <1>1. IInv => ProcessesEndForAReason
    BY DEF IInv
  <1> QED
    BY <1>1, Invariance, PTL

(* The client and its handler never wait for each other in write().        *)
THEOREM NoMutualBlocking == Spec => []NeverBothBlocked
  <1>1. IInv => NeverBothBlocked
    <2> SUFFICES ASSUME IInv, NEW c \in Clients,
                        ClientBlocked(c), ThreadBlocked(c)
                 PROVE  FALSE
      BY DEF NeverBothBlocked
    <2>1. /\ pc[c] = "write" /\ up[c] = UpCapacity /\ rest[c] \in Nat
          /\ thread[c] = "write" /\ down[c] = DownCapacity
          /\ reply[c] \in Nat /\ rest[c] > 0 /\ reply[c] > 0
      BY DEF IInv, TypeOK, ClientTypeOK, ServerTypeOK, SomethingToWrite,
             ClientBlocked, ThreadBlocked, CrLf
    <2>2. Debt(c) <= FullConnection + RepliesOfARound
      BY <2>1 DEF IInv, DebtIsBounded, Ended
    <2>3. Debt(c) > DownCapacity + ReplyLength * (1 + UpCapacity)
      <3>1. /\ ReplyLength * (1 + UpCapacity)
                   <= ReplyLength * (UpCapacity + rest[c])
            /\ ReplyLength * (1 + UpCapacity) \in Nat
            /\ ReplyLength * (UpCapacity + rest[c]) \in Nat
        <4>1. PICK a \in Nat : a = 1 + UpCapacity
          OBVIOUS
        <4>2. PICK b \in Nat : b = UpCapacity + rest[c]
          BY <2>1
        <4>3. a <= b /\ ReplyLength \in Nat
          BY <2>1, <4>1, <4>2
        <4>4. /\ ReplyLength * a <= ReplyLength * b
              /\ ReplyLength * a \in Nat /\ ReplyLength * b \in Nat
          BY ONLY <4>3, TimesMonotonic
        <4> QED
          BY <4>1, <4>2, <4>4
      <3>2. Debt(c) = (DownCapacity + reply[c])
                        + ReplyLength * (UpCapacity + rest[c])
        BY <2>1 DEF Debt, Replies, Unanswered
      <3> QED
        BY <2>1, <3>1, <3>2
    <2> QED
      BY <2>2, <2>3, RoomForReplies, Constants, DebtType
         DEF FullConnection, IInv
  <1> QED
    BY <1>1, Invariance, PTL
=============================================================================

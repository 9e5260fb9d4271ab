# A TLA+ model of datagrump, its event loop and the TCP examples

The repository holds *datagrump*, a sender and a receiver of UDP datagrams with
exchangeable congestion controllers, the small socket library ("sourdough")
both are written with, and a TCP client and server that show the library. This
directory models them in TLA+, checks the models with TLC and proves every
safety property it checks with TLAPS.

    tlc -workers 2 -config MCDatagrump_unordered.cfg MCDatagrump.tla
    tlapm Datagrump_proofs.tla

## 1. The system

### Components, their state and their operations

| Component | State | Operations |
|---|---|---|
| `DatagrumpSender` (datagrump/sender.cc) | `sequence_number_`, `next_ack_expected_`, socket, controller | `loop` (two poller rules and the timeout), `send_datagram`, `got_ack`, `window_is_open` |
| receiver (datagrump/receiver.cc) | its own `sequence_number` | `recv`, turn the datagram into its ack, `sendto` |
| `ContestMessage` | six 64-bit header fields, a payload | `set_send_timestamp`, `transform_into_ack`, `is_ack`, wire format |
| `timestamp_ms` (src/timestamp.cc) | the static `EPOCH` of each process | clock read minus `EPOCH`, in 64-bit words |
| `Controller` (datagrump/controller.hh) | abstract | `window_size`, `datagram_was_sent`, `ack_received`, `timeout_ms` |
| Default, ExA | none | a constant window |
| ExB | `cwnd_` | additive increase, multiplicative decrease on timeouts |
| ExC, ExD | `cwnd_`, an average and a minimum of round trips, ExD all samples | additive increase and decrease, triggered by long round trips. ExD is the one the sender uses |
| ExDLH | estimates of round trip and rate, `outstanding_packets_`, a static time stamp | window = datagrams that leave in one round trip |
| ExDJM, ExDJM2 | samples, `time_to_data_map_`, BBR states and gains; `cwnd_`, `did_increase_cwnd_` | window from the bandwidth-delay product; growth while the minimum round trip is stable |
| `Poller` (src/poller.cc) | rules (`actions_`), `pollfds_` | `add_action`, `poll` |
| `FileDescriptor`, sockets | `eof_`, read and write counts; the kernel's buffers and pending error | `read`, `write`, `recv`, `send`, `sendto` |
| tcpclient (examples/tcpclient.cc) | socket, keyboard, poller | two rules: print what the server says; send what is typed and a line end |
| tcpserver (examples/tcpserver.cc) | listening socket, one detached thread for each client | `accept`; in the thread `peer_address`, `read`, `write` |
| `Address`, `debug_printf`, scripts, report | | not modelled (section 7) |

### How they interact

The sender is one thread. It calls `Poller::poll`, which evaluates both rules'
conditions (the first one's is `window_is_open`), blocks in `::poll`, and runs
the callbacks of the rules that are ready: the first sends datagrams until the
window is closed, the second takes one ack and calls `got_ack`. Both call back
into the controller, which answers the window when asked. When nothing happens
for `timeout_ms()`, the loop sends one datagram whatever the window. The
receiver echoes each datagram's number and send time in an ack. The two
programs share the network only; the kernel stamps each arrival, keeps it in
the socket's buffer and reports an unreachable port as an error of the next
system call. A receiver that is started again on the port has a new `EPOCH` and
counts from 0, and the sender cannot tell.

The TCP client is one thread around `Poller::poll`, with the socket's rule
first. The server's main thread accepts, and hands each socket to a thread that
answers every chunk it reads. Client and thread share the connection, two
byte streams of finite capacity, and the ends' closes and resets; the threads
share their process, so that an exception in one ends all.

### What is hard

Acks arrive late, twice, in another order or never while one unsigned
subtraction decides whether to send; conditions are evaluated before `::poll`
and used after it; the error of a dead peer shows up in `::poll`, `send` or
`recv`; the static `EPOCH` is initialised between two clock reads; only
timeouts save a sender whose acks are lost; controllers mix units, integer
widths and orders of update, and count what the network may lose. TCP client
and server write to each other with blocking calls and neither reads while it
writes; a close may be in order or a reset, before or after the other's last
byte. PROJECT.json lists each such place with the property that is about it.

### What makes each component correct

* sender and receiver: the counter of acks never passes that of sends and never
  moves back; round trips handed to a controller are true; the window bounds
  what is in flight; the sender goes on whatever is lost, and ends only if its
  receiver has;
* poller: no spurious "busy wait", no read with nothing to read, no starvation;
* controllers: the window stays open and grows as slowly as designed; only long
  round trips shrink it; estimates are of what was really measured;
* wire format: each message arrives as it was sent, and a short one is refused;
* TCP examples: no mutual blocking, everything typed is answered or both ends
  are gone, and each process ends for a known reason.

## 2. Modules

| Module | Models |
|---|---|
| `ContestMessage` | messages as records, 64-bit words that wrap (`PlusWord`, `MinusWord`) |
| `Datagrump` | sender, receiver, network, clocks; the controller is *any* window after each callback |
| `ContestMessageWire`, `DatagrumpWire` | the bytes of a message and their parsing, and the protocol's messages on the wire |
| `AckedDelivery` | the abstract specification: datagrams are sent once each, some are delivered, and the sender's counter moves up past delivered ones |
| `Datagrump_proofs`, `DatagrumpWire_proofs` | theorems about the protocol, and about what is on its way between the two ends |
| `ExDLHController`, `DatagrumpLH`, `DatagrumpLH_proofs` | one concrete controller, and the protocol that runs it, and theorems about it |
| `ExBController`, `ExCController`, `ExDController`, `Controllers`, `Controllers_proofs` | three controllers, what drives them, and theorems about them |
| `AckStatistics`, `ExDJMController`, `ExDJM2Controller`, `RateControllers`, `RateControllers_proofs` | the statistics two controllers share, those controllers, what drives them, and theorems about them |
| `LeastAndGreatest` | lemmas: the least and the greatest of a set of numbers |
| `Poller`, `Poller_proofs` | `Poller::poll` over file descriptors, and its theorems |
| `TcpExample`, `TcpExample_proofs` | tcpclient and tcpserver over the connections between them, and their theorems |
| `MC*` | instances for TLC |

### Datagrump

`pc` is where the sender's thread is: `poll`, `out` (first callback), `in`
(second), `timeout`, or ended (`exited` by poll's Exit, `aborted` by an
exception). `PollReady`, `PollError` and `PollTimeout` are the three returns of
`::poll`. `CloseWindow` is one round of the first rule's while loop, so that the
network, the receiver and errors come between any two sends; `WindowClosed` ends
the loop and makes the poller's busy-wait check (`wrote`). `GotAck` is recv and
got_ack; `SendOnTimeout` the send after a timeout. `Acknowledge` is one round of
the receiver's loop. Between a system call and the next the sender touches only
its own state, so a step from one call to the next hides no interleaving.

The sender's window is a variable that takes any value of `Windows` after a
callback: each controller of the repository changes what it answers in its
callbacks only, so that what holds here holds under each of them. `WordSize` is 2^64
in the code: the proofs ask only that the counters stay below it, and
TLC uses 16 or 64. `now` is the clock both ends read; each has its own `EPOCH`
(`epoch`, `receiverEpoch`). `SendDatagram` lets a millisecond pass
between the two clock reads of the first call; the receiver's first call happens
after the arrival it is about, and `now` may have moved by then.

The network (external) delivers any datagram in flight, or with
`Reordering = FALSE` the oldest, may duplicate and lose, and answers a datagram
to a dead receiver with `sockErr`. `ReceiverStops` loses what was in the
receiver's buffer, `ReceiverRestarts` starts a new one, with a new `EPOCH` and
acks numbered from 0; it may stop `MaxStops` times. `sentAt`, `received`,
`timeouts`, `sample`, `lost`, `duplicated` and `stops` are history and bounds:
no guard of the programs reads them.

### The wire format

`Wire` puts the six fields, most significant byte first, and the payload;
`Parse` refuses a string too short for one of them and reads them back by
position. `Datagrump` passes messages as records, and `DatagrumpWire` checks
that this loses nothing for any message the protocol makes, wrapped time stamps
included. `PlaceValue` is what a byte counts for by its place, and a word is the
place value after its last byte. TLC uses fields of two bytes of four values,
which fill the word of 16.

### The controllers

A C++ `double` is an integer multiple of 1/`Scale`, rounded down where the code
would round to the nearest of 2^53: the properties are inequalities that this
does not touch at the scales used, or compare values computed alike. Gains are
percentages. `Controllers` and
`RateControllers` drive several controllers with the same callbacks so that they
can be compared; what a callback may be given is what `RoundTripIsTrue` says.
`DatagrumpLH` puts `ExDLHController` in the protocol, because what
it counts depends on what the network loses and duplicates; its `unsigned int`s
wrap at `UnsignedSize`. Division by zero is
modelled by the comparison the infinity or NaN makes (`RttIsStable`,
`HasDrained`), and the conversion of an infinity to int by what x86 does
(`TimeoutMs`).

`AckStatistics` is what ExDJM and ExDJM2 remember of their acks. The map's keys
are `int` where times are `uint64_t`: `ToInt` wraps them at `IntSize`, 2^32, and
`DeltasArePositive` is the assertion in `delivery_rates()`, on a difference of
two `int`s that wraps at the same size, as g++ compiles it at each level of
optimisation. When it fails the program is gone, halfway through
`ack_received`: `Aborted` ends both controllers. When it does not, although the
times have wrapped, a delivery rate may be negative, and stays so in the model.
`TimesFitInt` says that the clock has not come so far.

### Poller

`BeginPoll` is the first half of `poll()`, `PollReturns` and `PollTimesOut` the
system call, `Serve`, `Skip` and `ServeFailed` one round of the service loop.
Callbacks are abstract: one does its I/O if its rule's condition holds when it
runs, as the sender's while loop does, answers any result, and may change the
conditions of the rules in `Affects`. `RulesAssumption` says what the
repository's programs observe: one rule for each descriptor and direction, and
no callback changes the condition of a *later* rule. This
order is what makes the sender safe: its first rule may close the window, and
its second opens it. `called` is history: the rule whose callback the last step
ran.

### TcpExample

`pc[c]` is where the client's thread is, `thread[c]` where the server's thread
for it is. `PollReady` is poll() up to the first callback, `SocketIn` and
`KeyboardIn` the callbacks; after the first poll() serves the second rule with
the events that `::poll` found (`keyEvents`), which may be older than the
keyboard's state. `Accept` is the main thread. `Throw` is an exception of a
handler: nothing catches it, and `ServerEnds` closes every connection, in order
or with a reset if something is left unread. `Kill` and `KillClient` are signals
from outside, at any time: neither program handles one, and the kernel closes
what the process held.

Neither program looks at what the bytes are and a stream keeps their order, so
bytes are counted. A blocking write is one byte a step; a byte written is
readable at once, as a byte on the way only looks as if it were written later;
a reset arrives at any later time (`ResetClient`, `ResetServer`). `down` and
`up` count all a connection holds, send and receive buffers together. A reply
is one of `ReplyLengths` bytes long.

`RoomForReplies` assumes that the connection, and one `read()`, hold the replies
to one round of the client if the server answers each byte by itself. With the
longest reply of 29 bytes and a terminal's line of 4096 that is 29 * 4098, about
119 KB, less than `BUFFER_SIZE` of 1 MiB and what Linux grants a connection; a
pipe of 64 KiB that the server reads byte by byte would need 1.9 MB, and the
theorems do not speak of it.

## 3. Runs

| Run | Question | Bounds |
|---|---|---|
| `unordered` | safety and the refinement on a network that duplicates and reorders | 3 datagrams, 1 ms, 1 duplicate, windows 0 and 2 |
| `fifo` | on a network that keeps order: the counter's difference is what is in flight, the window bounds it; each message survives the wire | 4 datagrams, 1 loss, windows 0, 1, 3, payload of 2 bytes |
| `fair` | does the sender go on whatever is lost, are datagrams acknowledged, and does it notice a receiver that stays away? | 3 datagrams, 1 loss (any may be held back for ever), a full send buffer, the receiver stops twice |
| `lh` | ExDLH in the protocol with a receiver that is started again: its count under loss and duplication | 3 datagrams, 2 losses, 1 duplicate, 1 restart, window of at most 1 |
| `controllers` | windows of ExB, ExC, ExD over all orders of callbacks | 6 acks, 3 timeouts, 4 round trips, minimum over 3 samples, 1000 for the largest double |
| `rates` | ExDJM and ExDJM2 over bursts and silences | 4 datagrams, 5 acks, gaps and round trips of 0, 1, 2 ms, minimum over 2 samples, 1000 for the largest double, `int`s of 12 values |
| `poller` | poll() with three rules on two descriptors | 2 chunks of input waiting |
| `tcp` | a client at a terminal and one at a pipe against one server, any of them stopped at any time | 2 bytes and 1 byte typed, replies of one byte, the smallest buffers that hold those of a round |
| `epoch`, `lh_rate`, `half`, `tcp_hangup` | statements of the repository the code does not keep (section 4) | |

Why the bounds are enough. Three datagrams with a duplicate give every relative
order of an old, a current and a new ack, and a duplicate of each; the
acknowledged counter depends on the largest only. One
millisecond suffices for each timestamp to be before or after `EPOCH`, and for
the wrap. In `unordered` the network may hold a datagram back for ever, which
for safety is its loss, so that run needs no step that names it
(`MaxLoss = 0`). Under `fair` the network may hold everything back for ever,
which the sender cannot tell from losing it: `KeepsMoving` holds there against
any number of losses, and the one named loss is for the other properties, which
say what a loss excuses. A receiver that may stop twice can die, come
back and stay away. `controllers` and `rates` forget samples (3 and 2 of 6 and 5), reach the
minimum window, exceed the allowance and come back; `rates` also leaves drain
mode, with a datagram unacknowledged and with none, and its clock of up to 10 ms
passes the largest `int` of 5, with and without failing the assertion. The `lh` run loses more than its
largest window of 1. `MaxDouble` only has to be larger than every round trip. In `tcp` the two bytes at the terminal may come as one
chunk or as two rounds, which is what a client that reads its keyboard before
its socket needs to block for good; the queue of `accept` holds one
connection, so that the second client waits. The theorems remove the bounds for
every safety property.

`CHECK_DEADLOCK FALSE` is in every cfg because the programs really stop, by Exit,
by an exception or by a signal, and because the bounds end every behaviour. That the TCP
ends do not wait for each other is `EverythingIsAnswered` and `NeverBothBlocked`.

### Properties

* `NoWindowUnderflow`, `RoundTripIsTrue`, `NextAckNeverMovesBack`: what the
  controllers rest on, whatever the network does.
* `ImplementsAckedDelivery`: under `sent <- sequence_number`,
  `delivered <- received`, `acked <- next_ack_expected`, each step is a step of
  `AckedDelivery` or a stutter. It promises no order and no cumulative
  acknowledgment: the code gives none.
* `OutstandingIsInFlight`, `InFlightIsBounded`, `AcksComeAsExpected`: what the
  comment at sender.cc:26-28 says, with its premise. `OrderInv` is the inductive
  invariant behind them.
* `KeepsMoving`, `EverySentIsAcked`, `SenderNoticesStop`,
  `SenderOutlivesReceiver`: progress, and when the sender may end.
* `OutstandingLeaks`, `LossClosesTheWindow`: one invariant gives ExDLH's count
  exactly, as what is in flight plus the losses less the duplicates. More losses than
  the largest window close it for good, minimum window or not, because the
  draining check comes before it. Both speak of a receiver that never stopped.
* `MessagesSurviveTheWire`, `ShortDatagramsAreRefused`: the wire format, and a
  datagram cut anywhere.
* `IInv`, of each module that has one, is the inductive invariant its theorems
  rest on, its type invariant included.
* `WindowsStayOpen`, `AimdGrowsSlowly`, `ExDGrowsSlowly`,
  `AverageAboveLowest`, `OnlyLongRoundTripsShrink`, `SameUntilForgotten`,
  `NeverLaxerThanExD`: the additive-increase controllers. Growth is bounded
  through the square of the window, to which an ack adds at most
  2 alpha + alpha^2. ExC and ExD are the same until ExD forgets a round trip;
  from then on ExC is never the laxer of the two: a round trip at which ExD's
  window shrinks always shrinks ExC's, also after the path has become longer.
* `RateCountsPreviousAcks`, `SpikesAreSeenLate`, `LossKeepsDraining`: the map
  that keeps the first entry of a millisecond shifts each rate by one entry but
  loses nothing, as long as times fit an `int`; a jump of the round trip is seen only when the
  samples before it are forgotten; and ExDJM counts a lost datagram as in flight
  for ever, so that drain mode ends only while the losses are few for the largest
  burst and the minimum round trip, and with a round trip of 0 only if acks
  outnumber the datagrams.
* `NoBusyWait`, `CallbackIsDue`, `NoStarvation`: the poller. A callback that
  reads takes something or finds the end and marks it, and the end is marked only
  where it is.
* `NeverBothBlocked`, `EverythingIsAnswered`, `ProcessesEndForAReason`: the TCP
  examples. The server ends by itself only when a client that was stopped, or
  whose keyboard is a pipe that hung up, left a reply unread: the reset throws in
  that client's thread, and takes every other client's connection with it.

### Fairness

`SenderFairness` is weak fairness of the sender's thread: it is one runnable
process, and `::poll` returns after `timeout_ms()` at the latest, which every
controller answers finite and positive. `fair` assumes nothing else
(`SenderFairSpec`). `NetworkFairness` says that the receiver runs and that
the network does not hold a datagram back for ever without losing it;
`EverySentIsAcked` and `SenderNoticesStop` state it as their premise,
`NetworkFairness => ...`, and both allow for a loss. Nobody has to start a
receiver again.
The poller's `Spec` has weak fairness of `Poll`, since each program calls it in an
endless loop; `NoStarvation` assumes nothing of the environment. `TcpExample`'s
`FairSpec` has weak fairness of each client's thread, of each handler, of the
accepting thread, which are runnable when they are not blocked, and of the
kernel's resets. Nobody has to type, to close a keyboard or to stop a program.

## 4. Where the code and its words differ

* `epoch`: the first `timestamp_ms()` may be 2^64 - 1 (timestamp.cc:26 and 34).
  `RoundTripIsTrue` holds all the same: the subtraction wraps back.
* `lh_rate`: together with a 32-bit static, the wrapped time stamp makes the rate estimate
  explode (exercised_lh.cc:82-91).
* `tcp_hangup`: poll() looks at POLLHUP before POLLIN, so that a client at a pipe
  leaves with what was written to it unread (poller.cc:50), where the comment
  says it sends what the keyboard has ready (tcpclient.cc:55-56).
* `half`: the additional `1/2` for a higher delivery rate is an integer division,
  0 (exercised_jm2.cc:247-248).

Four more are modelled as the code has them, and no property says otherwise:

* `sliding_min_rtt` counts from 1 and stops at `num_samples`, so that it looks at
  one round trip fewer than "the past number of samples" it is asked for
  (exercised.cc:26-28, exercised.hh:22). `MinimumIsRecent`, a part of the
  inductive invariant of `Controllers`, says what it finds.
* ExDJM's window of datagrams is a number of bytes, where the header says that
  it "stays below Bandwidth Delay Product" (exercised_jm.cc:43, exercised_jm.hh:12).
* After 2^31 ms, some 25 days, the `int` keys of the statistics wrap, and
  `assert(delta_time > 0)` may fail at an ack (exercised_jm.cc:119 and 201,
  exercised_jm2.cc:137 and 224); nothing defines `NDEBUG`. `rates` runs through
  it (`Aborted`), and the properties that need times in order say so
  (`TimesFitInt`).
* ExDJM2's comment asks for a stable round trip *and* an increased bandwidth
  before the window grows; the code adds a tenth without the second
  (exercised_jm2.cc:242 and 251).

## 5. Proofs

### The protocol

`Datagrump_proofs` proves for every value of the constants that meets
`WordSizeAssumption` and `DatagrumpAssumption` (finite bounds of any size, and
counters and clock that stay below 2^64; a receiver that is never started again
if the network keeps the order):

| Theorem | States |
|---|---|
| `Invariance` | `Spec => []IInv` |
| `TypeCorrect` | `Spec => []TypeOK` |
| `WindowNeverUnderflows` | `Spec => []NoWindowUnderflow` |
| `RoundTripTime` | `Spec => []RoundTripIsTrue` |
| `SenderSurvives` | `Spec => []SenderOutlivesReceiver` |
| `NextAckIsMonotonic` | `Spec => NextAckNeverMovesBack` |
| `Refinement` | `Spec => ImplementsAckedDelivery` |

None of these invariants is inductive alone. That the counter does not pass the
sends depends on each ack in the sender's buffer naming a datagram that was
received; that depends on the acks in flight, those on the datagrams in the
receiver's buffer and in flight, and those on what was sent. `IInv` therefore says
of all four places that messages are genuine (`MessagesAreGenuine`): a datagram
carries the number and the time it was sent with, an ack echoes both of a
received one, and no arrival precedes the send. `SendHistory` fixes `epoch` once something was
sent, since a stamp made under another epoch would be false. For
`SenderSurvives`, `PollStillHolds` says that what `::poll` found still holds
when the callbacks run: the window has not closed under the first, and the
buffer has not emptied under the second; `StopsAreCounted` ties a pending
error to a receiver that has stopped. There is one lemma for each action; a
shared one covers the steps of the thread that move no message, another the
sends, and two for the arrivals. `StampDifference` is the arithmetic behind the round trip: the
difference of two stamps under one epoch is that of the clock readings, although either
may have wrapped. `Refinement` and `NextAckIsMonotonic` follow from the
invariant at each step.

### The TCP examples

`TcpExample_proofs` proves for any number of clients, any keyboards and buffers
that meet `TcpAssumption` and `RoomForReplies`:

| Theorem | States |
|---|---|
| `Invariance` | `Spec => []IInv` |
| `TypeCorrect` | `Spec => []TypeOK` |
| `NoMutualBlocking` | `Spec => []NeverBothBlocked` |
| `EndsHaveReasons` | `Spec => []ProcessesEndForAReason` |

`NeverBothBlocked` is not inductive. What a client may still be told of what it
has written, its `Debt`, is the reply bytes on the way and the longest reply for
each byte the server has not answered. `DebtIsBounded` says that while a client
runs its debt exceeds that of a full connection by one round at most, and not at
all when it is about to read the keyboard: the socket's rule is first, and one
`read()` takes all that is there. Reading a byte and writing its reply do not
raise it. Were both ends blocked, the two full directions would be more than the
bound. `Connected` says what the two ends know of each other: an end is closed or
reset only when the other process has let go of it, so that an exception is the
server's only after a client left replies unread. `Queue` says that the accept
queue holds each waiting client once.

### The poller

`Poller_proofs` proves for any descriptors and any rules that meet
`PollerAssumption` and `RulesAssumption`:

| Theorem | States |
|---|---|
| `Invariance` | `Spec => []IInv` |
| `NeverABusyWait` | `Spec => []NoBusyWait` |
| `CallbacksAreDue` | `Spec => CallbackIsDue` |

`AskedForIsWanted` says that the rules asked for an event are active, interested
and not at their end as long as `::poll` waits, because nothing runs in the
program meanwhile. `FoundIsDue` says the same, and that there is something to
read, of the rules the service loop has not reached. A callback keeps it:
it changes the conditions of no later rule, and no later rule reads the
descriptor it has read; that is where `RulesAssumption` is needed. `EofIsTheEnd`
says that a descriptor is marked only when nothing is left in it and nobody will
write more, so that a callback that finds nothing has found the end.

### The protocol under ExDLH

`DatagrumpLH_proofs` proves, for every width of the count and every window:

| Theorem | States |
|---|---|
| `LHInvariance` | `LHSpec => []LHInv` |
| `CountLeaks` | `LHSpec => []OutstandingLeaks` |
| `LossesCloseTheWindow` | `LHSpec => []LossClosesTheWindow`, if `MaxSeq < UnsignedSize` |

`LHNext` restricts `Next` to the windows that ExDLH answers, so that the
protocol's invariant is used as it stands. The count is followed by
`Balance`, the same sum without the wrap: a send adds one to it, an ack that is
read takes one away, and every other step leaves it. For that a datagram and an
ack put on the network must be new there, since the network is a set: a
datagram's number was never sent before (`MessagesAreGenuine`), and an ack's
never used (`AcksAreNumbered`), as long as the receiver counts on, that is
until it stops. The last theorem's premise says that the count has not wrapped.

### What is on its way

`DatagrumpWire_proofs` adds what the comment at sender.cc:26-28 needs, that the
network keeps the order, and what both programs need, the wire format. `OrderInv`
is inductive given the protocol's `IInv`:

| Theorem | States |
|---|---|
| `OrderInvariance` | `Spec => []OrderInv` |
| `OutstandingIsRight` | `Spec => []OutstandingIsInFlight` |
| `InFlightStaysBounded` | `Spec => []InFlightIsBounded` |
| `EachAckIsExpected` | `Spec => AcksComeAsExpected` |
| `EveryMessageSurvives` | `Spec => []MessagesSurviveTheWire` |
| `EveryShortOneIsRefused` | `Spec => []ShortDatagramsAreRefused` |

A datagram that was sent and not yet taken as acknowledged is in one of four
places: the sender's socket as an ack, the network as an ack, the receiver's
socket, the network. `PlacesInOrder` says that the numbers only increase from
place to place, `EachInOrder` that they do in each, and `InWindow` that they lie
between `next_ack_expected` and `sequence_number`, and fill that gap if nothing
was lost. Each step takes the least number of one place to the end of the one
before it, or drops a number. The oldest ack is found by the number the receiver
gave it, so that `NumberedInOrder` is needed: the receiver's own numbers are not
ahead of those it acknowledges. What is in flight is then the size of an
interval.

A field is written by dividing by place values and read back by multiplying and
adding; after i bytes the word read is the field divided by the place value of
those to come (`DigitStep`). That holds for every `FieldSize`, `ByteSize` and
message, and the payload is what is left of the string.

### The window controllers

`Controllers_proofs`, for any constants that meet `ControllersAssumption` (any
number of callbacks, any round trips, any scale of at least 10):

| Theorem | States |
|---|---|
| `Invariance` | `Spec => []IInv` |
| `WindowsAreOpen` | `Spec => []WindowsStayOpen` |
| `AimdWindowIsBounded` | `Spec => []AimdGrowsSlowly` |
| `ExDWindowIsBounded` | `Spec => []ExDGrowsSlowly` |
| `AverageIsAboveLowest` | `Spec => []AverageAboveLowest` |
| `MinimumIsOfRecent` | `Spec => []MinimumIsRecent` |
| `AlikeUntilForgotten` | `Spec => []SameUntilForgotten` |
| `ExCIsNeverLaxer` | `Spec => []NeverLaxerThanExD` |
| `ShrinksAtLongRoundTrips` | `Spec => OnlyLongRoundTripsShrink` |

The invariant keeps every window at `Scale` or more, which is what makes each
decrease and each division well defined, and its square below the bound. That the
average stays above the lowest round trip needs that it is reset to a minimum of
some of them (`MinimumIsRecent`), and `AlikeAtFirst` is the start from which the
two delay controllers take the same steps. That ExC is never the laxer needs that
its minimum is below every round trip there was (`MinimumIsOfAll`), ExD's recent
one included, and that the two averages are the same until ExC's is first reset
to that minimum, above which ExD's then stays (`AlikeOrReset`).
`SlidingMinimum` is about the loop of `sliding_min_rtt`: what it has found after
n rounds is the least of the last n samples.

### The controllers with statistics

`RateControllers_proofs`, for any constants that meet `RateControllersAssumption`
(any acks at any times, a scale that tenths divide and an even number of `int`s):

| Theorem | States |
|---|---|
| `Invariance` | `Spec => []IInv` |
| `RatesCountEveryAck` | `Spec => []RateCountsPreviousAcks`, while `TimesFitInt` |
| `SpikesAreIgnoredAtFirst` | `Spec => SpikesAreSeenLate` |
| `LossHoldsTheDrain` | `Spec => LossKeepsDraining`, while `TimesFitInt` |

`KeysAreTimes` says that a map's keys are the times of the acks as `int`, also
when they have wrapped, and that is enough for every answer of ExDJM to be a
number (`BandwidthIsANumber`). `CountsFirstAcks` says what a map holds while times
fit: one entry for each time of an ack, of
the bytes acknowledged before that time and one packet, since `emplace` keeps the
first. The difference of two neighbours is then exactly the acks of the earlier
time (`DifferenceIsAcksAt`), a rate at most `PacketSize` times the largest burst
(`BandwidthIsBounded`), and that is what bounds the datagrams with which drain
mode may end. `MinimumIsKept` ties the previous minimum of ExDJM2 to its samples:
without it, a step could be compared with a minimum that never was.

### Recursive definitions

The provers have no induction over data. Three definitions are recursive
functions all the same: `SlidingMinRtt`, `PlaceValue` and the word in
`GetHeaderField`. For each there is a lemma that some function satisfies the
recursive equation, and one that says what each that does is worth. Both suppose
a least argument for which it fails (`LeastExists`), and look at the one before.

### Only model-checked

Liveness: the properties of the run `fair`, `NoStarvation` and
`EverythingIsAnswered`, all but `SenderOutlivesReceiver`, rest on fairness, which
is beyond the prover. Every other property of a passing run is a theorem.

## 6. Plan

Done: the protocol with its abstract specification, restarts of the receiver,
the wire format, all controllers that have state, ExDLH in the protocol, the
poller and the TCP examples, and a theorem for each of their safety properties.
Next, in this order:

1. ExDJM within the protocol, as `DatagrumpLH` is: `LossKeepsDraining` then
   speaks of what the network loses.
2. ExD, the controller the sender uses, within the protocol, with the bound of
   its window as one of what is in flight.

## 7. Not modelled

* `Address`, `debug_printf`, socket options, `bind`, `listen` and argument
  checks: they run once before any interleaving, or only convert and format.
* What the TCP examples print, and a signal that interrupts a system call.
* DefaultController and ExAController have no state: `Datagrump` with one window.
* A `CLOCK_REALTIME` that is set back, and processes on hosts with
  different clocks: the round trip uses the sender's clock only, but one-way
  comparisons (`RateWasSeen`) take one clock.
* The 2^64th datagram, excluded by an assumption.
* `run-contest`, the build and the report.

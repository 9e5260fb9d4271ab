------------------------------- MODULE Poller -------------------------------
(***************************************************************************)
(* The event loop of src/src/poller.cc with its file descriptors           *)
(* (src/src/file_descriptor.cc).  A rule is an Action: a descriptor, a     *)
(* direction, a callback and a condition, when_interested.                 *)
(*                                                                         *)
(* The callbacks are abstract: a callback does its I/O when its rule's     *)
(* condition holds at that moment, as the sender's "while ( window_is_open *)
(* () )" does, answers Continue, Cancel or Exit, and may change the        *)
(* conditions of the rules in Affects.  Between two calls of poll() the    *)
(* program may change any condition, as the sender's timeout does.         *)
(***************************************************************************)
EXTENDS Integers, FiniteSets

CONSTANTS
    NumRules,       \* actions_.size(); rules are served in this order
    Fds,
    Fd,             \* the descriptor of each rule
    Direction,      \* "In" or "Out", of each rule
    Affects,        \* the rules whose condition a rule's callback may change
    MaxPending      \* bound: chunks of input waiting on a descriptor

Rules == 1..NumRules

ASSUME PollerAssumption ==
    /\ NumRules \in Nat /\ MaxPending \in Nat
    /\ Fd \in [Rules -> Fds]
    /\ Direction \in [Rules -> {"In", "Out"}]
    /\ Affects \in [Rules -> SUBSET Rules]

(***************************************************************************)
(* What the programs of the repository observe: a descriptor has one rule  *)
(* for each direction, and a callback changes no condition of a later rule.*)
(***************************************************************************)
ASSUME RulesAssumption ==
    /\ \A r, s \in Rules :
         (Fd[r] = Fd[s] /\ Direction[r] = Direction[s]) => r = s
    /\ \A r \in Rules : \A s \in Affects[r] : s <= r

VARIABLES
    pc,             \* "idle", "polling", "service", "exited" or "thrown"
    next,           \* the index of the service loop
    interested,     \* what when_interested() of each rule returns
    active,
    events,         \* the rules with pollfds_.events # 0
    revents,        \* the rules whose event ::poll found
    failed,         \* the rules for which it found POLLERR, POLLHUP, POLLNVAL
    pending,        \* input waiting on each descriptor
    closed,         \* descriptors at whose end read() returns 0
    hungUp,         \* descriptors for which ::poll reports POLLHUP
    eof,            \* FileDescriptor::eof_
    called          \* history: the rule whose callback the last step ran, or 0

kernelVars == <<pending, closed, hungUp>>
vars == <<pc, next, interested, active, events, revents, failed, kernelVars,
          eof, called>>

Init ==
    /\ pc = "idle"
    /\ next = 1
    /\ interested \in [Rules -> BOOLEAN]
    /\ active = [r \in Rules |-> TRUE]
    /\ events = {} /\ revents = {} /\ failed = {}
    /\ pending = [f \in Fds |-> 0]
    /\ closed = {} /\ hungUp = {}
    /\ eof = {}
    /\ called = 0

\* a faulty variant: a descriptor at its end is polled for input
AsksForIgnoringEof(r) == active[r] /\ interested[r]

\* a faulty variant: when_interested is not evaluated
AsksForAnyway(r) == active[r] /\ ~(Direction[r] = "In" /\ Fd[r] \in eof)

AsksFor(r) == /\ active[r] /\ interested[r]
              /\ ~(Direction[r] = "In" /\ Fd[r] \in eof)

(***************************************************************************)
(* The first half of poll(): the conditions of all rules are evaluated.    *)
(* It returns Exit when no rule asks for an event.                         *)
(***************************************************************************)
BeginPoll ==
    /\ pc = "idle"
    /\ events' = {r \in Rules : AsksFor(r)}
    /\ pc' = IF events' = {} THEN "exited" ELSE "polling"
    /\ called' = 0
    /\ UNCHANGED <<next, interested, active, revents, failed, kernelVars, eof>>

Readable(f) == pending[f] > 0 \/ f \in closed \/ f \in hungUp

Found(r) == Direction[r] = "Out" \/ Readable(Fd[r])

HasFailed(r) == Fd[r] \in hungUp

PollReturns ==
    /\ pc = "polling"
    /\ \E r \in Rules : HasFailed(r) \/ (r \in events /\ Found(r))
    /\ revents' = {r \in events : Found(r)}
    /\ failed' = {r \in Rules : HasFailed(r)}
    /\ pc' = "service"
    /\ next' = 1
    /\ UNCHANGED <<interested, active, events, kernelVars, eof, called>>

PollTimesOut ==
    /\ pc = "polling"
    /\ ~ \E r \in Rules : HasFailed(r) \/ (r \in events /\ Found(r))
    /\ pc' = "idle"
    /\ UNCHANGED <<next, interested, active, events, revents, failed,
                   kernelVars, eof, called>>

\* a faulty variant: a short read is taken for the end of the input
ReadShortIsEnd(f) ==
    IF pending[f] > 0
    THEN \E n \in 0..(pending[f] - 1) :
            /\ pending' = [pending EXCEPT ![f] = n]
            /\ eof' = IF n = 0 THEN eof \cup {f} ELSE eof
    ELSE /\ eof' = eof \cup {f}
         /\ UNCHANGED pending

(***************************************************************************)
(* FileDescriptor::read: at least one chunk, or the end of the input.      *)
(***************************************************************************)
Read(f) ==
    IF pending[f] > 0
    THEN /\ \E n \in 0..(pending[f] - 1) : pending' = [pending EXCEPT ![f] = n]
         /\ UNCHANGED eof
    ELSE /\ eof' = eof \cup {f}
         /\ UNCHANGED pending

(***************************************************************************)
(* The callback of rule r.  Without I/O the rule's count has not moved and *)
(* poll() throws "busy wait detected".                                     *)
(***************************************************************************)
Callback(r) ==
    /\ called' = r
    /\ IF ~interested[r]
       THEN /\ pc' = "thrown"
            /\ UNCHANGED <<next, interested, active, pending, eof>>
       ELSE /\ IF Direction[r] = "In" THEN Read(Fd[r])
               ELSE UNCHANGED <<pending, eof>>
            /\ \E flips \in SUBSET Affects[r] :
                 interested' = [s \in Rules |-> IF s \in flips
                                                THEN ~interested[s]
                                                ELSE interested[s]]
            /\ \E result \in {"Continue", "Cancel", "Exit"} :
                 /\ active' = IF result = "Cancel"
                              THEN [active EXCEPT ![r] = FALSE] ELSE active
                 /\ pc' = IF result = "Exit" THEN "exited" ELSE "service"
            /\ next' = next + 1

(***************************************************************************)
(* One round of the service loop.                                          *)
(***************************************************************************)
\* a faulty variant: poll() returns after the first callback
ServeOnlyFirst(r) ==
    /\ pc = "service" /\ next = r
    /\ r \notin failed /\ r \in revents
    /\ called' = r
    /\ pc' = "idle"
    /\ IF Direction[r] = "In" THEN Read(Fd[r]) ELSE UNCHANGED <<pending, eof>>
    /\ UNCHANGED <<next, interested, active, events, revents, failed, closed,
                   hungUp>>

Serve(r) ==
    /\ pc = "service" /\ next = r
    /\ r \notin failed /\ r \in revents
    /\ Callback(r)
    /\ UNCHANGED <<events, revents, failed, closed, hungUp>>

Skip(r) ==
    /\ pc = "service" /\ next = r
    /\ r \notin failed /\ r \notin revents
    /\ next' = next + 1
    /\ called' = 0
    /\ UNCHANGED <<pc, interested, active, events, revents, failed, kernelVars,
                   eof>>

ServeFailed(r) ==
    /\ pc = "service" /\ next = r
    /\ r \in failed
    /\ pc' = "exited"
    /\ called' = 0
    /\ UNCHANGED <<next, interested, active, events, revents, failed,
                   kernelVars, eof>>

EndPoll ==
    /\ pc = "service" /\ next > NumRules
    /\ pc' = "idle"
    /\ called' = 0
    /\ UNCHANGED <<next, interested, active, events, revents, failed,
                   kernelVars, eof>>

Poll == \/ BeginPoll \/ PollReturns \/ PollTimesOut \/ EndPoll
        \/ \E r \in Rules : Serve(r) \/ Skip(r) \/ ServeFailed(r)

(***************************************************************************)
(* The program between two calls of poll().                                *)
(***************************************************************************)
ChangeConditions ==
    /\ pc = "idle"
    /\ interested' \in [Rules -> BOOLEAN]
    /\ UNCHANGED <<pc, next, active, events, revents, failed, kernelVars, eof,
                   called>>

(***************************************************************************)
(* The other ends of the descriptors.  Closing is a TCP FIN or the end of  *)
(* a terminal's input; hanging up, a pipe whose writer is gone.            *)
(***************************************************************************)
Input(f) ==
    /\ f \notin closed \cup hungUp
    /\ pending[f] < MaxPending
    /\ pending' = [pending EXCEPT ![f] = @ + 1]
    /\ UNCHANGED <<closed, hungUp>>

Close(f) ==
    /\ f \notin closed \cup hungUp
    /\ closed' = closed \cup {f}
    /\ UNCHANGED <<pending, hungUp>>

HangUp(f) ==
    /\ f \notin closed \cup hungUp
    /\ hungUp' = hungUp \cup {f}
    /\ UNCHANGED <<pending, closed>>

Environment ==
    /\ pc \notin {"exited", "thrown"}
    /\ \E f \in Fds : Input(f) \/ Close(f) \/ HangUp(f)
    /\ UNCHANGED <<pc, next, interested, active, events, revents, failed, eof,
                   called>>

Next == Poll \/ ChangeConditions \/ Environment

(***************************************************************************)
(* The loop runs: each program calls poll() for ever.                      *)
(***************************************************************************)
Spec == Init /\ [][Next]_vars /\ WF_vars(Poll)

-----------------------------------------------------------------------------
TypeOK ==
    /\ pc \in {"idle", "polling", "service", "exited", "thrown"}
    /\ next \in 1..(NumRules + 1)
    /\ interested \in [Rules -> BOOLEAN]
    /\ active \in [Rules -> BOOLEAN]
    /\ events \subseteq Rules /\ revents \subseteq Rules
    /\ failed \subseteq Rules
    /\ pending \in [Fds -> 0..MaxPending]
    /\ closed \subseteq Fds /\ hungUp \subseteq Fds /\ eof \subseteq Fds
    /\ called \in 0..NumRules

(***************************************************************************)
(* poll() never throws "busy wait detected": the conditions were evaluated *)
(* before the callbacks ran, and yet each still holds when its callback    *)
(* does, because no callback changes the condition of a later rule         *)
(* (poller.cc:27-32 and 57-62).                                            *)
(***************************************************************************)
NoBusyWait == pc # "thrown"

(***************************************************************************)
(* A callback runs only for a rule that was not cancelled, and one that    *)
(* reads finds input or an end of input that it has not seen, and leaves   *)
(* less input or the end marked: it neither blocks, nor reads beyond the   *)
(* end, nor is called for the same end for ever (poller.cc:34-38 and       *)
(* 54-69, file_descriptor.cc:64-66).                                       *)
(***************************************************************************)
CallbackIsDue ==
    [][ \A r \in Rules :
          (pc = "service" /\ called' = r /\ next = r)
          => /\ active[r]
             /\ Direction[r] = "In"
                  => /\ Readable(Fd[r]) /\ Fd[r] \notin eof
                     /\ \/ pending'[Fd[r]] < pending[Fd[r]]
                        \/ Fd[r] \in eof' ]_vars

(***************************************************************************)
(* The inductive invariant: what ::poll was asked for, and what it found,  *)
(* still holds for the rules that the service loop has not reached; and a  *)
(* descriptor that is marked eof, and so never asked for again, has no     *)
(* input left and will get none (poller.cc:27-38 and 49-69,                *)
(* file_descriptor.cc:64-66).                                              *)
(***************************************************************************)
IsDue(r) == /\ active[r] /\ interested[r]
            /\ Direction[r] = "In" => Readable(Fd[r]) /\ Fd[r] \notin eof

AskedForIsWanted == pc = "polling" => \A r \in events : AsksFor(r)

FoundIsDue ==
    pc = "service" => \A r \in revents : r >= next => IsDue(r)

CalledBeforeNext == /\ pc = "polling" => called = 0
                    /\ pc = "service" => called < next

EofIsTheEnd == \A f \in eof : pending[f] = 0 /\ f \in closed \cup hungUp

IInv == /\ TypeOK /\ AskedForIsWanted /\ FoundIsDue /\ CalledBeforeNext
        /\ EofIsTheEnd /\ NoBusyWait

(***************************************************************************)
(* No rule is starved by the rules before it: one that stays active,       *)
(* interested and with an event to serve is called again and again, unless *)
(* the loop ends (poller.cc:49-73).                                        *)
(***************************************************************************)
Waiting(r) == /\ active[r] /\ interested[r]
              /\ Direction[r] = "Out" \/ (pending[Fd[r]] > 0 /\ Fd[r] \notin eof)
              /\ pc \notin {"exited", "thrown"}

NoStarvation == \A r \in Rules : <>[]Waiting(r) => []<>(called = r)
=============================================================================

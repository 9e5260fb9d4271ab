---------------------------- MODULE Poller_proofs ----------------------------
(***************************************************************************)
(* Proofs about Poller::poll, for any rules that meet RulesAssumption and  *)
(* any descriptors.                                                        *)
(***************************************************************************)
EXTENDS Poller, TLAPS

USE PollerAssumption DEF Rules

-----------------------------------------------------------------------------
(* One lemma for each action: what a step does to the invariant.           *)
LEMMA InitInvariant == Init => IInv
  BY DEF Init, IInv, TypeOK, AskedForIsWanted, FoundIsDue, CalledBeforeNext,
         EofIsTheEnd, NoBusyWait

LEMMA BeginPollStep ==
  ASSUME IInv, BeginPoll
  PROVE  IInv'
  <1> USE DEF BeginPoll, kernelVars
  <1>1. TypeOK'
    BY DEF IInv, TypeOK
  <1>2. AskedForIsWanted'
    BY DEF IInv, AskedForIsWanted, AsksFor
  <1>3. FoundIsDue' /\ CalledBeforeNext' /\ NoBusyWait' /\ EofIsTheEnd'
    BY DEF IInv, FoundIsDue, CalledBeforeNext, NoBusyWait, EofIsTheEnd
  <1> QED
    BY <1>1, <1>2, <1>3 DEF IInv

(* What ::poll finds is due, because the rules asked for it.               *)
LEMMA PollReturnsStep ==
  ASSUME IInv, PollReturns
  PROVE  IInv'
  <1> USE DEF PollReturns, kernelVars
  <1>1. TypeOK'
    <2>1. TypeOK
      BY DEF IInv
    <2>2. next' \in 1..(NumRules + 1)
      OBVIOUS
    <2>3. revents' \subseteq Rules /\ failed' \subseteq Rules
      BY <2>1 DEF TypeOK
    <2> QED
      BY <2>1, <2>2, <2>3 DEF TypeOK
  <1>2. AskedForIsWanted' /\ CalledBeforeNext' /\ NoBusyWait' /\ EofIsTheEnd'
    BY DEF IInv, TypeOK, AskedForIsWanted, CalledBeforeNext, NoBusyWait,
           EofIsTheEnd
  <1>3. FoundIsDue'
    <2> SUFFICES ASSUME NEW r \in revents'
                 PROVE  IsDue(r)'
      BY DEF FoundIsDue
    <2>1. r \in events /\ Found(r) /\ AsksFor(r)
      BY DEF IInv, AskedForIsWanted
    <2>2. r \in Rules /\ Direction[r] \in {"In", "Out"}
      BY <2>1 DEF IInv, TypeOK
    <2> QED
      BY <2>1, <2>2 DEF IsDue, AsksFor, Found, Readable
  <1> QED
    BY <1>1, <1>2, <1>3 DEF IInv

(* Steps that end poll() or leave everything as it was.                    *)
LEMMA PollEndsStep ==
  ASSUME IInv,
         \/ PollTimesOut \/ EndPoll
         \/ \E r \in Rules : ServeFailed(r)
         \/ ChangeConditions
  PROVE  IInv'
  <1> USE DEF PollTimesOut, EndPoll, ServeFailed, ChangeConditions, kernelVars
  <1>1. TypeOK'
    <2>1. TypeOK
      BY DEF IInv
    <2>2. CASE PollTimesOut \/ EndPoll \/ \E r \in Rules : ServeFailed(r)
      <3>1. /\ pc' \in {"idle", "exited"} /\ called' \in {0, called}
            /\ UNCHANGED <<next, interested, active, events, revents, failed,
                           kernelVars, eof>>
        BY <2>2
      <3>2. called' \in 0..NumRules
        BY <2>1, <3>1 DEF TypeOK
      <3> QED
        BY <2>1, <3>1, <3>2 DEF TypeOK
    <2>3. CASE ChangeConditions
      BY <2>1, <2>3 DEF TypeOK
    <2> QED
      BY <2>2, <2>3
  <1>2. /\ AskedForIsWanted' /\ FoundIsDue' /\ CalledBeforeNext' /\ NoBusyWait'
        /\ EofIsTheEnd'
    BY DEF IInv, AskedForIsWanted, FoundIsDue, CalledBeforeNext, NoBusyWait,
           EofIsTheEnd
  <1> QED
    BY <1>1, <1>2 DEF IInv

LEMMA SkipStep ==
  ASSUME IInv, NEW r \in Rules, Skip(r)
  PROVE  IInv'
  <1> USE DEF Skip, kernelVars
  <1>1. TypeOK'
    <2>1. TypeOK
      BY DEF IInv
    <2>2. next' \in 1..(NumRules + 1) /\ called' \in 0..NumRules
      OBVIOUS
    <2> QED
      BY <2>1, <2>2 DEF TypeOK
  <1>2. AskedForIsWanted' /\ CalledBeforeNext' /\ NoBusyWait' /\ EofIsTheEnd'
    BY DEF IInv, TypeOK, AskedForIsWanted, CalledBeforeNext, NoBusyWait,
           EofIsTheEnd
  <1>3. FoundIsDue'
    BY DEF IInv, TypeOK, FoundIsDue, IsDue, Readable
  <1> QED
    BY <1>1, <1>2, <1>3 DEF IInv

-----------------------------------------------------------------------------
(* A rule that is served is due.                                           *)
LEMMA ServedIsDue ==
  ASSUME IInv, NEW r \in Rules, Serve(r)
  PROVE  IsDue(r)
  BY DEF IInv, FoundIsDue, Serve

(* A read takes input or finds the end, and leaves the other descriptors   *)
(* alone.                                                                  *)
LEMMA ReadEffect ==
  ASSUME TypeOK, NEW f \in Fds, Read(f)
  PROVE  /\ pending' \in [Fds -> 0..MaxPending]
         /\ \/ pending'[f] < pending[f] /\ eof' = eof
            \/ pending' = pending /\ pending[f] = 0 /\ f \in eof'
         /\ eof' \subseteq Fds
         /\ \A g \in Fds : g # f => /\ pending'[g] = pending[g]
                                    /\ g \in eof' => g \in eof
  <1>1. CASE pending[f] > 0
    <2>1. PICK n \in 0..(pending[f] - 1) :
            pending' = [pending EXCEPT ![f] = n]
      BY <1>1 DEF Read
    <2>2. pending[f] \in 0..MaxPending /\ n \in 0..MaxPending
      BY DEF TypeOK
    <2> QED
      BY <1>1, <2>1, <2>2 DEF Read, TypeOK
  <1>2. CASE ~(pending[f] > 0)
    BY <1>2 DEF Read, TypeOK
  <1> QED
    BY <1>1, <1>2

(***************************************************************************)
(* The callback of a rule that is due.  The rules after it stay due: no    *)
(* callback changes their conditions, and none of them reads the           *)
(* descriptor that it has read.                                            *)
(***************************************************************************)
LEMMA ServeStep ==
  ASSUME IInv, NEW r \in Rules, Serve(r)
  PROVE  IInv'
  <1>1. IsDue(r)
    BY ServedIsDue
  <1>2. Callback(r) /\ interested[r] /\ next = r /\ pc = "service"
    BY <1>1 DEF Serve, IsDue
  <1>3. /\ called' = r
        /\ IF Direction[r] = "In" THEN Read(Fd[r])
           ELSE UNCHANGED <<pending, eof>>
        /\ next' = next + 1
        /\ pc' \in {"exited", "service"}
    BY <1>2 DEF Callback
  <1>4. PICK flips \in SUBSET Affects[r] :
          interested' = [s \in Rules |-> IF s \in flips THEN ~interested[s]
                                         ELSE interested[s]]
    BY <1>2 DEF Callback
  <1>5. active' = active \/ active' = [active EXCEPT ![r] = FALSE]
    BY <1>2 DEF Callback
  <1>6. UNCHANGED <<events, revents, failed, closed, hungUp>>
    BY DEF Serve
  <1>7. TypeOK /\ Fd[r] \in Fds
    BY DEF IInv
  <1>8. /\ pending' \in [Fds -> 0..MaxPending] /\ eof' \subseteq Fds
        /\ \A f \in Fds : (Direction[r] = "In" => f # Fd[r])
                            => /\ pending'[f] = pending[f]
                               /\ f \in eof' => f \in eof
    <2>1. CASE Direction[r] = "In"
      BY <1>3, <1>7, <2>1, ReadEffect
    <2>2. CASE Direction[r] # "In"
      BY <1>3, <1>7, <2>2 DEF TypeOK
    <2> QED
      BY <2>1, <2>2
  <1>9. interested' \in [Rules -> BOOLEAN] /\ active' \in [Rules -> BOOLEAN]
    <2>1. interested' \in [Rules -> BOOLEAN]
      BY <1>4, <1>7 DEF TypeOK
    <2>2. active' \in [Rules -> BOOLEAN]
      BY <1>5, <1>7 DEF TypeOK
    <2> QED
      BY <2>1, <2>2
  <1>10. TypeOK'
    BY <1>2, <1>3, <1>6, <1>7, <1>8, <1>9 DEF TypeOK
  <1>13. EofIsTheEnd'
    <2> SUFFICES ASSUME NEW f \in eof'
                 PROVE  pending'[f] = 0 /\ f \in closed \cup hungUp
      BY <1>6 DEF EofIsTheEnd
    <2>1. /\ f \in Fds /\ pending[f] \in Nat
          /\ f \in eof => pending[f] = 0 /\ f \in closed \cup hungUp
      BY <1>7, <1>8 DEF IInv, EofIsTheEnd, TypeOK
    <2>2. CASE Direction[r] = "In" /\ f = Fd[r]
      <3>1. Readable(f) /\ f \notin eof
        BY <1>1, <2>2 DEF IsDue
      <3>2. pending' = pending /\ pending[f] = 0
        BY <1>3, <1>7, <2>2, <3>1, ReadEffect
      <3> QED
        BY <3>1, <3>2 DEF Readable
    <2>3. CASE ~(Direction[r] = "In" /\ f = Fd[r])
      BY <1>8, <2>1, <2>3
    <2> QED
      BY <2>2, <2>3
  <1>11. AskedForIsWanted' /\ CalledBeforeNext' /\ NoBusyWait'
    BY <1>2, <1>3 DEF AskedForIsWanted, CalledBeforeNext, NoBusyWait
  <1>12. FoundIsDue'
    <2> SUFFICES ASSUME NEW s \in revents', s >= next'
                 PROVE  IsDue(s)'
      BY DEF FoundIsDue
    <2>1. s \in Rules /\ s \in revents /\ s > r
      BY <1>2, <1>3, <1>6, <1>7 DEF TypeOK
    <2>2. IsDue(s)
      BY <1>2, <2>1 DEF IInv, FoundIsDue
    <2>3. s \notin flips
      BY <1>4, <2>1, RulesAssumption
    <2>4. interested'[s]
      BY <1>4, <2>1, <2>2, <2>3 DEF IsDue
    <2>5. active'[s]
      BY <1>5, <1>7, <2>1, <2>2 DEF IsDue, TypeOK
    <2>6. ASSUME Direction[s] = "In"
          PROVE  Readable(Fd[s])' /\ Fd[s] \notin eof'
      <3>1. Direction[r] = "In" => Fd[s] # Fd[r]
        BY <2>1, <2>6, RulesAssumption
      <3>2. Fd[s] \in Fds
        BY <2>1
      <3>3. pending'[Fd[s]] = pending[Fd[s]] /\ Fd[s] \notin eof'
        BY <1>8, <2>2, <2>6, <3>1, <3>2 DEF IsDue
      <3> QED
        BY <1>6, <2>2, <2>6, <3>3 DEF IsDue, Readable
    <2> QED
      BY <2>4, <2>5, <2>6 DEF IsDue
  <1> QED
    BY <1>10, <1>11, <1>12, <1>13 DEF IInv

(* The other ends only add to what can be read.                            *)
LEMMA EnvironmentStep ==
  ASSUME IInv, Environment
  PROVE  IInv'
  <1>1. PICK f \in Fds : Input(f) \/ Close(f) \/ HangUp(f)
    BY DEF Environment
  <1>2. UNCHANGED <<pc, next, interested, active, events, revents, failed, eof,
                    called>>
    BY DEF Environment
  <1>3. TypeOK
    BY DEF IInv
  <1>4. /\ pending' \in [Fds -> 0..MaxPending]
        /\ closed' \subseteq Fds /\ hungUp' \subseteq Fds
        /\ \A g \in Fds : Readable(g) => Readable(g)'
    <2>1. CASE Input(f)
      <3>1. /\ pending' = [pending EXCEPT ![f] = @ + 1]
            /\ pending[f] < MaxPending
            /\ UNCHANGED <<closed, hungUp>>
        BY <2>1 DEF Input
      <3>2. pending[f] \in 0..MaxPending
        BY <1>3 DEF TypeOK
      <3>3. pending' \in [Fds -> 0..MaxPending]
        BY <1>3, <3>1, <3>2 DEF TypeOK
      <3>4. \A g \in Fds : pending[g] > 0 => pending'[g] > 0
        BY <1>3, <3>1, <3>2 DEF TypeOK
      <3> QED
        BY <1>3, <3>1, <3>3, <3>4 DEF TypeOK, Readable
    <2>2. CASE Close(f)
      BY <1>3, <2>2 DEF Close, TypeOK, Readable
    <2>3. CASE HangUp(f)
      BY <1>3, <2>3 DEF HangUp, TypeOK, Readable
    <2> QED
      BY <1>1, <2>1, <2>2, <2>3
  <1>5. TypeOK'
    BY <1>2, <1>3, <1>4 DEF TypeOK
  <1>6. AskedForIsWanted' /\ CalledBeforeNext' /\ NoBusyWait'
    BY <1>2 DEF IInv, AskedForIsWanted, AsksFor, CalledBeforeNext, NoBusyWait
  <1>7. FoundIsDue'
    <2> SUFFICES ASSUME pc = "service", NEW r \in revents, r >= next
                 PROVE  IsDue(r)'
      BY <1>2 DEF FoundIsDue
    <2>1. IsDue(r) /\ Fd[r] \in Fds
      BY <1>3 DEF IInv, FoundIsDue, TypeOK
    <2> QED
      BY <1>2, <1>4, <2>1 DEF IsDue
  <1>8. EofIsTheEnd'
    BY <1>1, <1>2, <1>3 DEF IInv, EofIsTheEnd, TypeOK, Input, Close, HangUp
  <1> QED
    BY <1>5, <1>6, <1>7, <1>8 DEF IInv

LEMMA StutteringStep ==
  ASSUME IInv, UNCHANGED vars
  PROVE  IInv'
  BY DEF IInv, TypeOK, AskedForIsWanted, AsksFor, FoundIsDue, IsDue, Readable,
         CalledBeforeNext, EofIsTheEnd, NoBusyWait, vars, kernelVars

LEMMA NextStep ==
  ASSUME IInv, [Next]_vars
  PROVE  IInv'
  <1>1. CASE Poll
    BY <1>1, BeginPollStep, PollReturnsStep, PollEndsStep, SkipStep, ServeStep
       DEF Poll
  <1>2. CASE ChangeConditions
    BY <1>2, PollEndsStep
  <1>3. CASE Environment
    BY <1>3, EnvironmentStep
  <1>4. CASE UNCHANGED vars
    BY <1>4, StutteringStep
  <1> QED
    BY <1>1, <1>2, <1>3, <1>4 DEF Next

-----------------------------------------------------------------------------
(* What ::poll was asked for and found still holds for the rules that the  *)
(* service loop has not reached.                                           *)
THEOREM Invariance == Spec => []IInv
  <1>1. Init => IInv
    BY InitInvariant
  <1>2. IInv /\ [Next]_vars => IInv'
    BY NextStep
  <1> QED
    BY <1>1, <1>2, PTL DEF Spec

(* poll() never throws "busy wait detected" (poller.cc:60-62), whatever    *)
(* the callbacks do to the conditions of the rules before their own.       *)
THEOREM NeverABusyWait == Spec => []NoBusyWait
  <1>1. IInv => NoBusyWait
    BY DEF IInv
  <1> QED
    BY <1>1, Invariance, PTL

(* Each callback is called for a rule that is active and, if it reads,     *)
(* that has something to read, and makes the input shorter or finds its    *)
(* end (poller.cc:34-38 and 54-69).                                        *)
THEOREM CallbacksAreDue == Spec => CallbackIsDue
  <1>1. ASSUME IInv, [Next]_vars, NEW r \in Rules,
               pc = "service", called' = r, next = r
        PROVE  /\ IsDue(r)
               /\ Direction[r] = "In" => \/ pending'[Fd[r]] < pending[Fd[r]]
                                         \/ Fd[r] \in eof'
    <2>1. called' \in Nat \ {0}
      BY <1>1
    <2>2. CASE \E s \in Rules : Serve(s)
      <3>1. PICK s \in Rules : Serve(s)
        BY <2>2
      <3>2. s = r
        BY <1>1, <3>1 DEF Serve
      <3>3. IsDue(r) /\ Serve(r)
        BY <1>1, <3>1, <3>2, ServedIsDue
      <3>4. Direction[r] = "In" => Read(Fd[r])
        BY <3>3 DEF Serve, Callback, IsDue
      <3>5. TypeOK /\ Fd[r] \in Fds
        BY <1>1 DEF IInv
      <3>6. Direction[r] = "In" => \/ pending'[Fd[r]] < pending[Fd[r]]
                                   \/ Fd[r] \in eof'
        BY <3>4, <3>5, ReadEffect
      <3> QED
        BY <3>3, <3>6
    <2>3. CASE \E s \in Rules : Skip(s) \/ ServeFailed(s)
      BY <1>1, <2>1, <2>3 DEF Skip, ServeFailed
    <2>4. CASE BeginPoll \/ PollReturns \/ PollTimesOut \/ ChangeConditions
      BY <1>1, <2>4 DEF BeginPoll, PollReturns, PollTimesOut, ChangeConditions
    <2>5. CASE EndPoll
      BY <1>1, <2>1, <2>5 DEF EndPoll
    <2>6. CASE Environment \/ UNCHANGED vars
      BY <1>1, <2>6 DEF IInv, TypeOK, CalledBeforeNext, Environment, vars
    <2> QED
      BY <1>1, <2>2, <2>3, <2>4, <2>5, <2>6 DEF Next, Poll
  <1>2. IInv /\ [Next]_vars
          => [ \A r \in Rules :
                 (pc = "service" /\ called' = r /\ next = r)
                 => /\ active[r]
                    /\ Direction[r] = "In"
                         => /\ Readable(Fd[r]) /\ Fd[r] \notin eof
                            /\ \/ pending'[Fd[r]] < pending[Fd[r]]
                               \/ Fd[r] \in eof' ]_vars
    BY <1>1 DEF IsDue
  <1> QED
    BY <1>2, Invariance, PTL DEF Spec, CallbackIsDue
=============================================================================

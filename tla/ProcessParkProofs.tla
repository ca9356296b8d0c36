------------------------- MODULE ProcessParkProofs --------------------------
(***************************************************************************)
(* Proofs about ProcessPark, for any number of workers, killers, calls,    *)
(* messages, timers and resumes.  For every choice of Parks and Kills: the *)
(* process is scheduled at one place at most, a gated call ends by its own *)
(* event, the body is disposed of once, and a published result survives    *)
(* until it is consumed.  For a process that makes no dirty call and has   *)
(* no slice hook: no wake is lost; and, when it is killed by signals only, *)
(* it leaves nothing behind.                                               *)
(***************************************************************************)
EXTENDS ProcessPark, TLAPS

----------------------------------------------------------------------------
(* Actors *)

\* The actors of the model are pairwise different threads.
LEMMA ActorFacts ==
    /\ Workers \subseteq Actors /\ Killers \subseteq Actors /\ Calls \subseteq Actors
    /\ Sender \in Actors /\ TimerThread \in Actors /\ Resumer \in Actors
    /\ Workers \cap Calls = {} /\ Killers \cap Calls = {} /\ Workers \cap Killers = {}
    /\ Sender \notin Workers /\ TimerThread \notin Workers /\ Resumer \notin Workers
    /\ Sender \notin Calls /\ TimerThread \notin Calls /\ Resumer \notin Calls
    /\ NoWorker \notin Workers
<1>1. \A w \in Workers : w[1] = "worker"
  BY DEF Workers
<1>2. \A k \in Killers : k[1] = "killer"
  BY DEF Killers
<1>3. \A c \in Calls : c[1] = "call"
  BY DEF Calls
<1>4. QED
  BY <1>1, <1>2, <1>3 DEF Actors, Sender, TimerThread, Resumer, NoWorker

\* Calls and call ids correspond.
LEMMA CallFacts ==
    /\ \A i \in 1 .. MaxCalls : <<"call", i>> \in Calls /\ <<"call", i>>[2] = i
    /\ \A c \in Calls : c[2] \in 1 .. MaxCalls /\ c = <<"call", c[2]>>
BY DEF Calls

----------------------------------------------------------------------------
(* Types *)

\* A slice that has ended has an outcome.
OutcomeKnown ==
    \A w \in Workers : pc[w] \in {"ended", "store", "stored"} => outcome[w] # "none"

TypeInv == TypeOK /\ OutcomeKnown

\* The Boolean part of TypeOK.
FlagsOK ==
    /\ inTable \in BOOLEAN /\ tomb \in BOOLEAN /\ timed \in BOOLEAN
    /\ mail \in BOOLEAN /\ pending \in BOOLEAN

\* A step that only moves an actor, and ends no slice, keeps the types.
LEMMA MoveKeepsTypes ==
    ASSUME TypeInv, NEW a \in Actors, NEW label \in Labels \ {"ended", "store", "stored"},
           pc' = [pc EXCEPT ![a] = label],
           UNCHANGED <<outcome, bodyVars, suspVars, waitVars, timerVars, deathVars, counters>>
    PROVE  TypeInv'
<1> USE DEF TypeInv, TypeOK, bodyVars, suspVars, waitVars, timerVars, deathVars, counters
<1>1. pc' \in [Actors -> Labels]
  OBVIOUS
<1>2. OutcomeKnown'
  BY ActorFacts DEF OutcomeKnown
<1>3. FlagsOK'
  BY DEF FlagsOK
<1>4. QED
  BY <1>1, <1>2, <1>3 DEF FlagsOK

\* A slice of the process, and the arm that follows it, keep the types.
LEMMA RunProcessTypes ==
    ASSUME TypeInv, NEW w \in Workers, RunProcess(w) \/ TakeMessages(w) \/ ForgetTimeout(w)
    PROVE  TypeInv'
<1> USE ActorFacts, CallFacts, CountsAssumption
        DEF TypeInv, TypeOK, OutcomeKnown, Goto, Labels, CallRecords, CallKinds, NoCall, NoResume,
            bodyVars, suspVars, waitVars, timerVars, deathVars, counters
<1>1. CASE PopPid(w)
  BY <1>1 DEF PopPid
<1>2. CASE TakeRunnable(w)
  BY <1>2 DEF TakeRunnable
<1>3. CASE GateExited(w)
  BY <1>3 DEF GateExited
<1>4. CASE GateFree(w)
  BY <1>4 DEF GateFree, ApplyTimer
<1>5. CASE GateResult(w)
  <2>1. FlagsOK'
    BY <1>5 DEF GateResult, EndCall, FlagsOK
  <2>2. pc' \in [Actors -> Labels]
    BY <1>5 DEF GateResult, EndCall
  <2>3. OutcomeKnown'
    BY <1>5 DEF GateResult, EndCall
  <2>4. record' \in CallRecords /\ mirror' \in CallRecords
    BY <1>5 DEF GateResult, EndCall
  <2>5. endedBy' \in [1 .. MaxCalls -> {"none", "open", "result", "timeout", "message", "resume"}]
    BY <1>5 DEF GateResult, EndCall
  <2>6. QED
    BY <1>5, <2>1, <2>2, <2>3, <2>4, <2>5 DEF GateResult, EndCall, FlagsOK
<1>6. CASE GateNoResult(w)
  BY <1>6 DEF GateNoResult
<1>7. CASE GateStale(w)
  BY <1>7 DEF GateStale
<1>8. CASE GateHostAwait(w)
  BY <1>8 DEF GateHostAwait, ApplyTimer, EndCall
<1>9. CASE GateSuspended(w)
  <2>1. FlagsOK'
    BY <1>9 DEF GateSuspended, ApplyTimer, EndCall, FlagsOK
  <2>2. pc' \in [Actors -> Labels]
    <3>1. \E label \in Labels : pc' = [pc EXCEPT ![w] = label]
      BY <1>9 DEF GateSuspended, ApplyTimer, EndCall
    <3>2. QED
      BY <3>1
  <2>3. OutcomeKnown'
    BY <1>9 DEF GateSuspended, ApplyTimer, EndCall
  <2>4. record' \in CallRecords /\ mirror' \in CallRecords
    BY <1>9 DEF GateSuspended, ApplyTimer, EndCall
  <2>5. endedBy' \in [1 .. MaxCalls -> {"none", "open", "result", "timeout", "message", "resume"}]
    <3>1. endedBy' = endedBy \/ endedBy' = [endedBy EXCEPT ![record.id] = "resume"]
      BY <1>9 DEF GateSuspended, EndCall
    <3>2. endedBy \in [1 .. MaxCalls -> {"none", "open", "result", "timeout", "message", "resume"}]
      OBVIOUS
    <3> HIDE DEF TypeInv, TypeOK
    <3>3. QED
      BY <3>1, <3>2
  <2>6. tref' \in 0 .. timers' /\ marks' \subseteq 1 .. timers'
    <3>1. timers' = timers /\ (tref' = tref \/ tref' = 0) /\ (marks' = marks \/ marks' = {})
      <4>1. CASE record.kind = "hook" /\ resume \in {ResumeAny, record.id}
        BY <1>9, <4>1 DEF GateSuspended, ApplyTimer, TimerJumps
      <4>2. CASE ~(record.kind = "hook" /\ resume \in {ResumeAny, record.id})
        BY <1>9, <4>2 DEF GateSuspended
      <4>3. QED
        BY <4>1, <4>2
    <3>2. timers \in Nat /\ tref \in 0 .. timers /\ marks \subseteq 1 .. timers
      OBVIOUS
    <3>3. tref' \in 0 .. timers'
      BY <3>1, <3>2
    <3>4. marks' \subseteq 1 .. timers'
      BY <3>1, <3>2
    <3>5. QED
      BY <3>3, <3>4
  <2>7. status' \in {"Running", "Suspended"} /\ resume' \in 0 .. NoResume
    BY <1>9 DEF GateSuspended
  <2>8. outcome' \in [Workers -> {"none", "requeue", "wait", "suspended", "exited"}]
    <3>1. outcome' = outcome \/ outcome' = [outcome EXCEPT ![w] = "suspended"]
      BY <1>9 DEF GateSuspended
    <3>2. QED
      BY <3>1
  <2>9. UNCHANGED <<slot, result, resumeId, callKind, waitVars, wheel, released, counters>>
    BY <1>9 DEF GateSuspended
  <2>10. QED
    BY <2>1, <2>2, <2>3, <2>4, <2>5, <2>6, <2>7, <2>8, <2>9 DEF FlagsOK
<1>10. CASE TakeMessages(w)
  <2>1. FlagsOK'
    BY <1>10 DEF TakeMessages, FlagsOK
  <2>2. QED
    BY <1>10, <2>1 DEF TakeMessages, FlagsOK
<1>11. CASE ForgetTimeout(w)
  <2>1. FlagsOK'
    BY <1>11 DEF ForgetTimeout, FlagsOK
  <2>2. QED
    BY <1>11, <2>1 DEF ForgetTimeout, FlagsOK
<1>12. CASE Yield(w)
  BY <1>12 DEF Yield, EndSlice
<1>13. CASE Exit(w)
  <2>1. FlagsOK'
    BY <1>13 DEF Exit, EndSlice, FlagsOK
  <2>2. QED
    BY <1>13, <2>1 DEF Exit, EndSlice, FlagsOK
<1>14. CASE DirtyCall(w)
  <2>1. FlagsOK'
    BY <1>14 DEF DirtyCall, EndSlice, OpenCall, NewCall, FlagsOK
  <2>2. pc' \in [Actors -> Labels]
    BY <1>14 DEF DirtyCall, EndSlice, OpenCall, NewCall
  <2>3. OutcomeKnown'
    BY <1>14 DEF DirtyCall, EndSlice, OpenCall, NewCall
  <2>4. record' \in CallRecords /\ mirror' \in CallRecords
    BY <1>14 DEF DirtyCall, EndSlice, OpenCall, NewCall
  <2>5. callKind' \in [1 .. MaxCalls -> CallKinds]
    BY <1>14 DEF DirtyCall, EndSlice, OpenCall, NewCall
  <2>6. endedBy' \in [1 .. MaxCalls -> {"none", "open", "result", "timeout", "message", "resume"}]
    BY <1>14 DEF DirtyCall, EndSlice, OpenCall, NewCall
  <2>7. QED
    BY <1>14, <2>1, <2>2, <2>3, <2>4, <2>5, <2>6 DEF DirtyCall, EndSlice, OpenCall, NewCall, FlagsOK
<1>15. CASE HookSuspends(w)
  BY <1>15 DEF HookSuspends, EndSlice, OpenCall, NewCall
<1>16. CASE SliceEnded(w)
  BY <1>16 DEF SliceEnded
<1>17. CASE StoreRunnable(w)
  <2>1. FlagsOK'
    BY <1>17 DEF StoreRunnable, FlagsOK
  <2>2. QED
    BY <1>17, <2>1 DEF StoreRunnable, FlagsOK
<1>18. CASE AfterStore(w)
  BY <1>18 DEF AfterStore
<1>19. CASE RequeueArm(w)
  BY <1>19 DEF RequeueArm
<1>20. CASE RegisterArm(w)
  BY <1>20 DEF RegisterArm
<1>21. CASE DeathRecheck(w)
  BY <1>21 DEF DeathRecheck
<1>22. CASE Withdraw(w)
  BY <1>22 DEF Withdraw
<1>23. CASE Recheck(w)
  BY <1>23 DEF Recheck
<1>24. CASE SelfWake(w)
  BY <1>24 DEF SelfWake
<1>25. CASE EventCheck(w)
  BY <1>25 DEF EventCheck
<1>26. CASE Fallback(w)
  BY <1>26 DEF Fallback, MoveToWoken
<1>27. ASSUME NEW after \in BOOLEAN, ReceiveWaits(w, after) PROVE TypeInv'
  BY <1>27 DEF ReceiveWaits, EndSlice
<1>28. ASSUME NEW after \in BOOLEAN, NEW kind \in {"await", "select"}, SuspendsOnHost(w, kind, after)
     PROVE  TypeInv'
  <2>1. FlagsOK'
    BY <1>28 DEF SuspendsOnHost, EndSlice, OpenCall, NewCall, FlagsOK
  <2>2. pc' \in [Actors -> Labels]
    BY <1>28 DEF SuspendsOnHost, EndSlice, OpenCall, NewCall
  <2>3. OutcomeKnown'
    BY <1>28 DEF SuspendsOnHost, EndSlice, OpenCall, NewCall
  <2>4. record' \in CallRecords /\ mirror' \in CallRecords
    BY <1>28 DEF SuspendsOnHost, EndSlice, OpenCall, NewCall
  <2>5. callKind' \in [1 .. MaxCalls -> CallKinds]
    BY <1>28 DEF SuspendsOnHost, EndSlice, OpenCall, NewCall
  <2>6. endedBy' \in [1 .. MaxCalls -> {"none", "open", "result", "timeout", "message", "resume"}]
    BY <1>28 DEF SuspendsOnHost, EndSlice, OpenCall, NewCall
  <2>7. QED
    BY <1>28, <2>1, <2>2, <2>3, <2>4, <2>5, <2>6 DEF SuspendsOnHost, EndSlice, OpenCall, NewCall,
       FlagsOK
<1>29. ASSUME NEW after \in BOOLEAN, NEW kind \in {"await", "select"}, GateDirtySuspend(w, kind, after)
     PROVE  TypeInv'
  <2>1. FlagsOK'
    BY <1>29 DEF GateDirtySuspend, NewCall, FlagsOK
  <2>2. pc' \in [Actors -> Labels]
    BY <1>29 DEF GateDirtySuspend, NewCall
  <2>3. OutcomeKnown'
    BY <1>29 DEF GateDirtySuspend, NewCall
  <2>4. record' \in CallRecords /\ mirror' \in CallRecords
    BY <1>29 DEF GateDirtySuspend, NewCall
  <2>5. callKind' \in [1 .. MaxCalls -> CallKinds]
    BY <1>29 DEF GateDirtySuspend, NewCall
  <2>6. endedBy' \in [1 .. MaxCalls -> {"none", "open", "result", "timeout", "message", "resume"}]
    BY <1>29 DEF GateDirtySuspend, NewCall
  <2>7. calls' \in 0 .. MaxCalls /\ tref' \in 0 .. timers' /\ marks' \subseteq 1 .. timers'
    BY <1>29 DEF GateDirtySuspend
  <2>8. outcome' \in [Workers -> {"none", "requeue", "wait", "suspended", "exited"}]
    BY <1>29 DEF GateDirtySuspend
  <2>9. /\ UNCHANGED <<slot, resume, resumeId, waitVars, wheel, released, timers, messages, resumes>>
        /\ status' = "Waiting" /\ result' = 0
    BY <1>29 DEF GateDirtySuspend
  <2>10. QED
    BY <2>1, <2>2, <2>3, <2>4, <2>5, <2>6, <2>7, <2>8, <2>9 DEF FlagsOK
<1> HIDE DEF TypeInv
<1>30. QED
  BY <1>1, <1>2, <1>3, <1>4, <1>5, <1>6, <1>7, <1>8, <1>9, <1>10, <1>11, <1>12, <1>13, <1>14,
     <1>15, <1>16, <1>17, <1>18, <1>19, <1>20, <1>21, <1>22, <1>23, <1>24, <1>25, <1>26, <1>27,
     <1>28, <1>29 DEF RunProcess, Gate, Slice

\* So do the routines that several actors share.
LEMMA RoutineTypes ==
    ASSUME TypeInv, NEW a \in Actors, Routine(a)
    PROVE  TypeInv'
<1> USE ActorFacts, CallFacts, CountsAssumption
        DEF TypeInv, TypeOK, OutcomeKnown, Goto, Finish, Refused, Labels, CallRecords, CallKinds,
            NoCall, NoResume, bodyVars, suspVars, waitVars, timerVars, deathVars, counters
<1>1. CASE WakeCheck(a)
  <2>1. \E label \in Labels \ {"ended", "store", "stored"} : pc' = [pc EXCEPT ![a] = label]
    BY <1>1 DEF WakeCheck
  <2>2. UNCHANGED <<outcome, bodyVars, suspVars, waitVars, timerVars, deathVars, counters>>
    BY <1>1 DEF WakeCheck
  <2> HIDE DEF TypeInv
  <2>3. QED
    BY <2>1, <2>2, MoveKeepsTypes
<1>2. CASE WakeMove(a)
  <2>1. FlagsOK'
    BY <1>2 DEF WakeMove, FlagsOK
  <2>2. pc' \in [Actors -> Labels] /\ OutcomeKnown'
    BY <1>2 DEF WakeMove
  <2>3. waiting' \in Workers \cup {NoWorker} /\ woken' \in Nat /\ queued' = queued
    BY <1>2 DEF WakeMove, MoveToWoken
  <2>4. UNCHANGED <<outcome, bodyVars, suspVars, timerVars, deathVars, counters>>
    BY <1>2 DEF WakeMove
  <2>5. QED
    BY <2>1, <2>2, <2>3, <2>4 DEF FlagsOK
<1>3. CASE ResumeCheck(a)
  <2>1. \E label \in Labels \ {"ended", "store", "stored"} : pc' = [pc EXCEPT ![a] = label]
    BY <1>3 DEF ResumeCheck
  <2>2. UNCHANGED <<outcome, bodyVars, suspVars, waitVars, timerVars, deathVars, counters>>
    BY <1>3 DEF ResumeCheck
  <2> HIDE DEF TypeInv
  <2>3. QED
    BY <2>1, <2>2, MoveKeepsTypes
<1>4. CASE ResumeFlip(a)
  BY <1>4 DEF ResumeFlip
<1>5. CASE ResumeMove(a)
  <2>1. FlagsOK'
    BY <1>5 DEF ResumeMove, MoveToWoken, FlagsOK
  <2>2. pc' \in [Actors -> Labels]
    <3>1. \E label \in Labels : pc' = [pc EXCEPT ![a] = label]
      BY <1>5 DEF ResumeMove, MoveToWoken
    <3>2. QED
      BY <3>1
  <2>3. OutcomeKnown'
    <3>1. \E label \in Labels \ {"ended", "store", "stored"} : pc' = [pc EXCEPT ![a] = label]
      BY <1>5 DEF ResumeMove
    <3>2. outcome' = outcome
      BY <1>5 DEF ResumeMove
    <3>3. QED
      BY <3>1, <3>2
  <2>4. waiting' \in Workers \cup {NoWorker} /\ woken' \in Nat /\ queued' = queued
    BY <1>5 DEF ResumeMove, MoveToWoken
  <2>5. UNCHANGED <<outcome, bodyVars, suspVars, timerVars, deathVars, counters>>
    BY <1>5 DEF ResumeMove
  <2>6. QED
    BY <2>1, <2>2, <2>3, <2>4, <2>5 DEF FlagsOK
<1>6. CASE Tombstone(a)
  BY <1>6 DEF Tombstone
<1>7. CASE TakeTableToken(a)
  <2>1. FlagsOK'
    BY <1>7 DEF TakeTableToken, FlagsOK
  <2>2. QED
    BY <1>7, <2>1 DEF TakeTableToken, FlagsOK
<1>8. CASE TakeBody(a)
  <2>1. FlagsOK'
    BY <1>8 DEF TakeBody, FlagsOK
  <2>2. QED
    BY <1>8, <2>1 DEF TakeBody, FlagsOK
<1>9. CASE SweepWaitSet(a)
  BY <1>9 DEF SweepWaitSet
<1>10. CASE DropMarks(a)
  BY <1>10 DEF DropMarks
<1>11. CASE Purge(a)
  BY <1>11 DEF Purge
<1> HIDE DEF TypeInv
<1>12. QED
  BY <1>1, <1>2, <1>3, <1>4, <1>5, <1>6, <1>7, <1>8, <1>9, <1>10, <1>11 DEF Routine

\* So do the other threads.
LEMMA OtherTypes ==
    ASSUME TypeInv,
           \/ \E c \in Calls : Publish(c)
           \/ \E k \in Killers : Kill(k)
           \/ DrainWoken \/ Deliver \/ TimerStep \/ ResumeProcess \/ Resume
    PROVE  TypeInv'
<1> USE ActorFacts, CallFacts, CountsAssumption
        DEF TypeInv, TypeOK, OutcomeKnown, Goto, Finish, Labels, CallRecords, CallKinds,
            NoCall, NoResume, ResumeAny, bodyVars, suspVars, waitVars, timerVars, deathVars, counters
<1>1. CASE DrainWoken
  BY <1>1 DEF DrainWoken
<1>2. CASE Deliver
  <2>1. FlagsOK'
    BY <1>2 DEF Deliver, FlagsOK
  <2>2. QED
    BY <1>2, <2>1 DEF Deliver, FlagsOK
<1>3. CASE MarkCheck
  BY <1>3 DEF MarkCheck
<1>4. CASE WithdrawMark
  BY <1>4 DEF WithdrawMark
<1>5. CASE ResumeProcess
  BY <1>5 DEF ResumeProcess
<1>6. CASE InsertResume
  BY <1>6 DEF InsertResume
<1>7. CASE ResumeLive
  BY <1>7 DEF ResumeLive
<1>8. CASE WithdrawResume
  BY <1>8 DEF WithdrawResume
<1>9. ASSUME NEW t \in wheel, TimerExpires(t) PROVE TypeInv'
  <2>1. FlagsOK'
    BY <1>9 DEF TimerExpires, FlagsOK
  <2>2. pc' \in [Actors -> Labels]
    BY <1>9 DEF TimerExpires
  <2>3. OutcomeKnown'
    BY <1>9 DEF TimerExpires
  <2>4. wheel' \subseteq 1 .. timers' /\ marks' \subseteq 1 .. timers'
    <3>1. wheel' = wheel \ {t} /\ (marks' = marks \/ marks' = marks \cup {t}) /\ timers' = timers
      BY <1>9 DEF TimerExpires
    <3>2. wheel \subseteq 1 .. timers /\ marks \subseteq 1 .. timers /\ t \in wheel
      BY <1>9
    <3> HIDE DEF TypeInv, TypeOK
    <3>3. QED
      BY <3>1, <3>2, Zenon
  <2>5. QED
    BY <1>9, <2>1, <2>2, <2>3, <2>4 DEF TimerExpires, FlagsOK
<1>10. ASSUME NEW c \in Calls, PublishCheck(c) PROVE TypeInv'
  <2>1. \E label \in Labels \ {"ended", "store", "stored"} : pc' = [pc EXCEPT ![c] = label]
    BY <1>10 DEF PublishCheck
  <2>2. UNCHANGED <<outcome, bodyVars, suspVars, waitVars, timerVars, deathVars, counters>>
    BY <1>10 DEF PublishCheck
  <2> HIDE DEF TypeInv
  <2>3. QED
    BY <2>1, <2>2, MoveKeepsTypes
<1>11. ASSUME NEW c \in Calls, PublishInsert(c) PROVE TypeInv'
  <2>1. FlagsOK'
    BY <1>11 DEF PublishInsert, FlagsOK
  <2>2. \E label \in Labels \ {"ended", "store", "stored"} : pc' = [pc EXCEPT ![c] = label]
    BY <1>11 DEF PublishInsert
  <2>3. pc' \in [Actors -> Labels] /\ OutcomeKnown'
    <3>1. outcome' = outcome
      BY <1>11 DEF PublishInsert
    <3>2. QED
      BY <2>2, <3>1
  <2>4. result' \in 0 .. MaxCalls
    BY <1>11 DEF PublishInsert
  <2>5. UNCHANGED <<outcome, bodyVars, mirror, resume, resumeId, callKind, endedBy,
                    waitVars, timerVars, deathVars, counters>>
    BY <1>11 DEF PublishInsert
  <2>6. QED
    BY <2>1, <2>3, <2>4, <2>5 DEF FlagsOK
<1>12. ASSUME NEW c \in Calls, PublishLiveCheck(c) PROVE TypeInv'
  <2>1. \E label \in Labels \ {"ended", "store", "stored"} : pc' = [pc EXCEPT ![c] = label]
    BY <1>12 DEF PublishLiveCheck
  <2>2. UNCHANGED <<outcome, bodyVars, suspVars, waitVars, timerVars, deathVars, counters>>
    BY <1>12 DEF PublishLiveCheck
  <2> HIDE DEF TypeInv
  <2>3. QED
    BY <2>1, <2>2, MoveKeepsTypes
<1>13. ASSUME NEW c \in Calls, WithdrawResult(c) PROVE TypeInv'
  BY <1>13 DEF WithdrawResult
<1>14. ASSUME NEW c \in Calls, PublisherWakes(c) PROVE TypeInv'
  <2>1. \E label \in Labels \ {"ended", "store", "stored"} : pc' = [pc EXCEPT ![c] = label]
    BY <1>14 DEF PublisherWakes
  <2>2. UNCHANGED <<outcome, bodyVars, suspVars, waitVars, timerVars, deathVars, counters>>
    BY <1>14 DEF PublisherWakes
  <2> HIDE DEF TypeInv
  <2>3. QED
    BY <2>1, <2>2, MoveKeepsTypes
<1>15. ASSUME NEW k \in Killers, ExitSignal(k) PROVE TypeInv'
  <2>1. FlagsOK'
    BY <1>15 DEF ExitSignal, TerminateBody, FlagsOK
  <2>2. pc' \in [Actors -> Labels]
    BY <1>15 DEF ExitSignal, TerminateBody
  <2>3. OutcomeKnown'
    BY <1>15 DEF ExitSignal, TerminateBody
  <2>4. QED
    BY <1>15, <2>1, <2>2, <2>3 DEF ExitSignal, TerminateBody, FlagsOK
<1>16. ASSUME NEW k \in Killers, CascadeKill(k) PROVE TypeInv'
  <2>1. FlagsOK'
    BY <1>16 DEF CascadeKill, TerminateBody, FlagsOK
  <2>2. pc' \in [Actors -> Labels]
    BY <1>16 DEF CascadeKill, TerminateBody
  <2>3. OutcomeKnown'
    BY <1>16 DEF CascadeKill, TerminateBody
  <2>4. QED
    BY <1>16, <2>1, <2>2, <2>3 DEF CascadeKill, TerminateBody, FlagsOK
<1>17. ASSUME NEW k \in Killers, TerminateProcess(k) PROVE TypeInv'
  BY <1>17 DEF TerminateProcess
<1> HIDE DEF TypeInv
<1>18. QED
  BY <1>1, <1>2, <1>3, <1>4, <1>5, <1>6, <1>7, <1>8, <1>9, <1>10, <1>11, <1>12, <1>13, <1>14,
     <1>15, <1>16, <1>17 DEF Publish, Kill, TimerStep, Resume

\* TypeInv is inductive: TypeOK alone is not, as AfterStore goes to the arm that
\* the outcome names.
LEMMA TypesInductive == Spec => []TypeInv
<1>1. Init => TypeInv
  <2> SUFFICES ASSUME Init PROVE TypeInv
    OBVIOUS
  <2>1. FlagsOK
    BY DEF Init, FlagsOK
  <2>2. pc \in [Actors -> Labels] /\ OutcomeKnown
    BY ActorFacts DEF Init, OutcomeKnown, Labels
  <2>3. record \in CallRecords /\ mirror \in CallRecords
    BY CountsAssumption DEF Init, CallRecords, CallKinds, NoCall
  <2>4. QED
    BY <2>1, <2>2, <2>3, CountsAssumption DEF Init, TypeInv, TypeOK, FlagsOK, CallKinds, NoResume
<1>2. TypeInv /\ [Next]_vars => TypeInv'
  <2> SUFFICES ASSUME TypeInv, [Next]_vars PROVE TypeInv'
    OBVIOUS
  <2>1. CASE UNCHANGED vars
    BY <2>1 DEF vars, TypeInv, TypeOK, OutcomeKnown, bodyVars, suspVars, waitVars, timerVars,
                deathVars, counters
  <2>2. CASE Next
    BY <2>2, RunProcessTypes, RoutineTypes, OtherTypes DEF Next
  <2>3. QED
    BY <2>1, <2>2
<1>3. QED
  BY <1>1, <1>2, PTL DEF Spec

\* Every variable keeps its type, and a timer reference in use was handed out.
THEOREM Types == Spec => []TypeOK
<1>1. TypeInv => TypeOK
  BY DEF TypeInv
<1>2. QED
  BY <1>1, TypesInductive, PTL

----------------------------------------------------------------------------
(* The process is scheduled once *)

\* Most steps add no entry and give the process to nobody new: an entry moves
\* from the wait set to the woken list, from there to a run queue, or goes.
NothingAdded ==
    /\ Entries' <= Entries
    /\ \A v \in Workers : Holds(v)' => Holds(v)

\* The naturals are closed under addition.
LEMMA NatPlus == \A m, n \in Nat : m + n \in Nat
OBVIOUS

\* Such a step keeps the process scheduled at one place at most.
LEMMA NothingAddedKeeps ==
    ASSUME TypeInv, TypeInv', ScheduledOnce, NothingAdded
    PROVE  ScheduledOnce'
<1>1. woken \in Nat /\ queued \in Nat /\ woken' \in Nat /\ queued' \in Nat
  BY DEF TypeInv, TypeOK
<1>2. Entries \in Nat
  BY <1>1 DEF Entries
<1>3. Entries' \in Nat
  BY <1>1, NatPlus DEF Entries
<1>4. QED
  BY <1>2, <1>3 DEF ScheduledOnce, NothingAdded

\* The steps of a worker that already holds the process, or that only moves
\* or withdraws the entry it has registered.
LEMMA RunProcessAdds ==
    ASSUME TypeInv, NEW w \in Workers,
           RunProcess(w) \/ TakeMessages(w) \/ ForgetTimeout(w),
           ~PopPid(w), ~RequeueArm(w), ~RegisterArm(w)
    PROVE  NothingAdded
<1> USE ActorFacts, CallFacts
        DEF TypeInv, TypeOK, NothingAdded, Entries, Holds, Goto, waitVars
<1>1. CASE TakeRunnable(w)
  BY <1>1 DEF TakeRunnable
<1>2. CASE GateExited(w)
  BY <1>2 DEF GateExited
<1>3. CASE GateFree(w)
  BY <1>3 DEF GateFree
<1>4. CASE GateResult(w)
  BY <1>4 DEF GateResult
<1>5. CASE GateNoResult(w)
  BY <1>5 DEF GateNoResult
<1>6. CASE GateStale(w)
  BY <1>6 DEF GateStale
<1>7. CASE GateHostAwait(w)
  BY <1>7 DEF GateHostAwait
<1>8. CASE GateSuspended(w)
  BY <1>8 DEF GateSuspended
<1>9. CASE TakeMessages(w)
  BY <1>9 DEF TakeMessages
<1>10. CASE ForgetTimeout(w)
  BY <1>10 DEF ForgetTimeout
<1>11. CASE Yield(w)
  BY <1>11 DEF Yield
<1>12. CASE Exit(w)
  BY <1>12 DEF Exit
<1>13. CASE DirtyCall(w)
  BY <1>13 DEF DirtyCall
<1>14. CASE HookSuspends(w)
  BY <1>14 DEF HookSuspends
<1>15. CASE SliceEnded(w)
  BY <1>15 DEF SliceEnded
<1>16. CASE StoreRunnable(w)
  BY <1>16 DEF StoreRunnable
<1>17. CASE AfterStore(w)
  BY <1>17 DEF AfterStore
<1>18. CASE DeathRecheck(w)
  BY <1>18 DEF DeathRecheck
<1>19. CASE Withdraw(w)
  BY <1>19 DEF Withdraw
<1>20. CASE Recheck(w)
  BY <1>20 DEF Recheck, WakeWorthy, HasConsumable, Gated, HasQueuedMessages
<1>21. CASE SelfWake(w)
  BY <1>21 DEF SelfWake
<1>22. CASE EventCheck(w)
  BY <1>22 DEF EventCheck, HasConsumable
<1>23. CASE Fallback(w)
  BY <1>23 DEF Fallback, MoveToWoken, HasConsumable
<1>24. ASSUME NEW after \in BOOLEAN, ReceiveWaits(w, after) PROVE NothingAdded
  BY <1>24 DEF ReceiveWaits
<1>25. ASSUME NEW after \in BOOLEAN, NEW kind \in {"await", "select"}, SuspendsOnHost(w, kind, after)
     PROVE  NothingAdded
  BY <1>25 DEF SuspendsOnHost, OpenCall
<1>26. ASSUME NEW after \in BOOLEAN, NEW kind \in {"await", "select"}, GateDirtySuspend(w, kind, after)
     PROVE  NothingAdded
  BY <1>26 DEF GateDirtySuspend
<1> HIDE DEF NothingAdded
<1>27. QED
  BY <1>1, <1>2, <1>3, <1>4, <1>5, <1>6, <1>7, <1>8, <1>9, <1>10, <1>11, <1>12, <1>13, <1>14,
     <1>15, <1>16, <1>17, <1>18, <1>19, <1>20, <1>21, <1>22, <1>23, <1>24, <1>25, <1>26
     DEF RunProcess, Gate, Slice

\* The shared routines move an entry or sweep it away.
LEMMA RoutineAdds ==
    ASSUME TypeInv, NEW a \in Actors, Routine(a)
    PROVE  NothingAdded
<1> USE ActorFacts
        DEF TypeInv, TypeOK, NothingAdded, Entries, Holds, Goto, Finish, Refused, waitVars
<1>1. CASE WakeCheck(a)
  BY <1>1 DEF WakeCheck, BlocksWake, Gated, HasConsumable
<1>2. CASE WakeMove(a)
  BY <1>2 DEF WakeMove, MoveToWoken
<1>3. CASE ResumeCheck(a)
  BY <1>3 DEF ResumeCheck, HasConsumable
<1>4. CASE ResumeFlip(a)
  BY <1>4 DEF ResumeFlip
<1>5. CASE ResumeMove(a)
  BY <1>5 DEF ResumeMove, MoveToWoken
<1>6. CASE Tombstone(a)
  BY <1>6 DEF Tombstone
<1>7. CASE TakeTableToken(a)
  BY <1>7 DEF TakeTableToken
<1>8. CASE TakeBody(a)
  BY <1>8 DEF TakeBody
<1>9. CASE SweepWaitSet(a)
  BY <1>9 DEF SweepWaitSet
<1>10. CASE DropMarks(a)
  BY <1>10 DEF DropMarks
<1>11. CASE Purge(a)
  BY <1>11 DEF Purge
<1> HIDE DEF NothingAdded
<1>12. QED
  BY <1>1, <1>2, <1>3, <1>4, <1>5, <1>6, <1>7, <1>8, <1>9, <1>10, <1>11 DEF Routine

\* Senders, publishers, timers, resumers and killers do not touch the entries
\* themselves; draining moves them.
LEMMA OtherAdds ==
    ASSUME TypeInv,
           \/ \E c \in Calls : Publish(c)
           \/ \E k \in Killers : Kill(k)
           \/ DrainWoken \/ Deliver \/ TimerStep \/ ResumeProcess \/ Resume
    PROVE  NothingAdded
<1> USE ActorFacts
        DEF TypeInv, TypeOK, NothingAdded, Entries, Holds, Goto, Finish, waitVars
<1>1. CASE DrainWoken
  BY <1>1 DEF DrainWoken
<1>2. CASE Deliver
  BY <1>2 DEF Deliver
<1>3. CASE MarkCheck
  BY <1>3 DEF MarkCheck
<1>4. CASE WithdrawMark
  BY <1>4 DEF WithdrawMark
<1>5. CASE ResumeProcess
  BY <1>5 DEF ResumeProcess
<1>6. CASE InsertResume
  BY <1>6 DEF InsertResume
<1>7. CASE ResumeLive
  BY <1>7 DEF ResumeLive
<1>8. CASE WithdrawResume
  BY <1>8 DEF WithdrawResume
<1>9. ASSUME NEW t \in wheel, TimerExpires(t) PROVE NothingAdded
  BY <1>9 DEF TimerExpires
<1>10. ASSUME NEW c \in Calls, PublishCheck(c) PROVE NothingAdded
  BY <1>10 DEF PublishCheck
<1>11. ASSUME NEW c \in Calls, PublishInsert(c) PROVE NothingAdded
  BY <1>11 DEF PublishInsert
<1>12. ASSUME NEW c \in Calls, PublishLiveCheck(c) PROVE NothingAdded
  BY <1>12 DEF PublishLiveCheck
<1>13. ASSUME NEW c \in Calls, WithdrawResult(c) PROVE NothingAdded
  BY <1>13 DEF WithdrawResult
<1>14. ASSUME NEW c \in Calls, PublisherWakes(c) PROVE NothingAdded
  BY <1>14 DEF PublisherWakes
<1>15. ASSUME NEW k \in Killers, ExitSignal(k) PROVE NothingAdded
  BY <1>15 DEF ExitSignal
<1>16. ASSUME NEW k \in Killers, CascadeKill(k) PROVE NothingAdded
  BY <1>16 DEF CascadeKill
<1>17. ASSUME NEW k \in Killers, TerminateProcess(k) PROVE NothingAdded
  BY <1>17 DEF TerminateProcess
<1> HIDE DEF NothingAdded
<1>18. QED
  BY <1>1, <1>2, <1>3, <1>4, <1>5, <1>6, <1>7, <1>8, <1>9, <1>10, <1>11, <1>12, <1>13, <1>14,
     <1>15, <1>16, <1>17 DEF Publish, Kill, TimerStep, Resume

\* Whatever races, the process has one entry or one holder, never two.  Only
\* three steps add an entry or a holder, and each gives up the other: PopPid
\* takes its entry, RequeueArm and RegisterArm let go of the pid.
THEOREM ScheduledAtOnePlace == Spec => []ScheduledOnce
<1>1. Init => ScheduledOnce
  BY ActorFacts DEF Init, ScheduledOnce, Entries, Holds
<1>2. TypeInv /\ TypeInv' /\ ScheduledOnce /\ [Next]_vars => ScheduledOnce'
  <2> SUFFICES ASSUME TypeInv, TypeInv', ScheduledOnce, [Next]_vars PROVE ScheduledOnce'
    OBVIOUS
  <2> USE ActorFacts
  <2>0. woken \in Nat /\ queued \in Nat /\ pc \in [Actors -> Labels]
    BY DEF TypeInv, TypeOK
  <2>1. CASE UNCHANGED vars
    BY <2>1 DEF vars, ScheduledOnce, Entries, Holds, waitVars
  <2>2. ASSUME NEW w \in Workers, PopPid(w) PROVE ScheduledOnce'
    <3>1. Entries = 1 /\ Entries' = 0
      BY <2>2, <2>0 DEF PopPid, ScheduledOnce, Entries
    <3>2. \A v \in Workers : ~Holds(v)
      BY <3>1 DEF ScheduledOnce
    <3>3. \A v \in Workers : v # w => ~Holds(v)'
      BY <2>2, <3>2, <2>0 DEF PopPid, Goto, Holds
    <3>4. QED
      BY <3>1, <3>3 DEF ScheduledOnce
  <2>3. ASSUME NEW w \in Workers, RequeueArm(w) PROVE ScheduledOnce'
    <3>1. Entries = 0 /\ \A v \in Workers : Holds(v) => v = w
      BY <2>3 DEF RequeueArm, ScheduledOnce, Holds
    <3>2. Entries' = 1
      BY <2>3, <3>1, <2>0 DEF RequeueArm, Entries
    <3>3. \A v \in Workers : ~Holds(v)'
      BY <2>3, <3>1, <2>0 DEF RequeueArm, Goto, Holds
    <3>4. QED
      BY <3>2, <3>3 DEF ScheduledOnce
  <2>4. ASSUME NEW w \in Workers, RegisterArm(w) PROVE ScheduledOnce'
    <3>1. Entries = 0 /\ \A v \in Workers : Holds(v) => v = w
      BY <2>4 DEF RegisterArm, ScheduledOnce, Holds
    <3>2. Entries' = 1
      BY <2>4, <3>1, <2>0 DEF RegisterArm, Entries
    <3>3. \A v \in Workers : ~Holds(v)'
      BY <2>4, <3>1, <2>0 DEF RegisterArm, Goto, Holds
    <3>4. QED
      BY <3>2, <3>3 DEF ScheduledOnce
  <2>5. CASE NothingAdded
    BY <2>5, NothingAddedKeeps
  <2>6. QED
    BY <2>1, <2>2, <2>3, <2>4, <2>5, RunProcessAdds, RoutineAdds, OtherAdds DEF Next
<1>3. QED
  BY <1>1, <1>2, TypesInductive, PTL DEF Spec

----------------------------------------------------------------------------
(* A gated call ends by its own event *)

\* The suspension record is an open call, of the kind it was opened with.
RecordOpen ==
    record # NoCall => /\ record.id \in 1 .. calls
                       /\ callKind[record.id] = record.kind
                       /\ record.kind # "none"
                       /\ endedBy[record.id] = "open"

\* A call that was not made yet has no kind.
LaterCallsUnused == \A i \in 1 .. MaxCalls : i > calls => callKind[i] = "none"

\* Only host awaits and dirty calls have a completion in flight ...
NoHookCompletion ==
    \A c \in Calls : pc[c] # "done" => callKind[c[2]] \in {"await", "select", "dirty"}

\* ... so no result is ever published for a hook suspension.
NoHookResult == result # 0 => callKind[result] \in {"await", "select", "dirty"}

CallInv ==
    RecordOpen /\ LaterCallsUnused /\ NoHookCompletion /\ NoHookResult /\ GatedCallEndsByItsOwnEvent

\* Most steps open and end no call and publish nothing.
CallsUntouched ==
    /\ UNCHANGED <<calls, callKind, endedBy>>
    /\ record' \in {record, NoCall}
    /\ result' \in {result, 0}
    /\ \A c \in Calls : pc'[c] # "done" => pc[c] # "done"

\* Such a step keeps the invariant.
LEMMA CallsUntouchedKeeps ==
    ASSUME CallInv, CallsUntouched
    PROVE  CallInv'
BY DEF CallInv, CallsUntouched, RecordOpen, LaterCallsUnused, NoHookCompletion, NoHookResult,
       GatedCallEndsByItsOwnEvent

\* The steps of a worker that open or end a call.
GateOpensOrEnds(w) ==
    \/ GateResult(w) \/ GateHostAwait(w) \/ GateSuspended(w)
    \/ \E kind \in {"await", "select"}, after \in BOOLEAN : GateDirtySuspend(w, kind, after)

SliceOpens(w) ==
    \/ DirtyCall(w) \/ HookSuspends(w)
    \/ \E after \in BOOLEAN, kind \in {"await", "select"} : SuspendsOnHost(w, kind, after)

\* The other steps of a worker leave the calls alone.
LEMMA RunProcessCalls ==
    ASSUME TypeInv, NEW w \in Workers,
           RunProcess(w) \/ TakeMessages(w) \/ ForgetTimeout(w),
           ~GateOpensOrEnds(w), ~SliceOpens(w)
    PROVE  CallsUntouched
<1> USE ActorFacts
        DEF TypeInv, TypeOK, CallsUntouched, Goto, bodyVars, suspVars, counters
<1>1. CASE PopPid(w)
  BY <1>1 DEF PopPid
<1>2. CASE TakeRunnable(w)
  BY <1>2 DEF TakeRunnable
<1>3. CASE GateExited(w)
  BY <1>3 DEF GateExited
<1>4. CASE GateFree(w)
  BY <1>4 DEF GateFree
<1>5. CASE GateNoResult(w)
  BY <1>5 DEF GateNoResult
<1>6. CASE GateStale(w)
  BY <1>6 DEF GateStale
<1>7. CASE TakeMessages(w)
  BY <1>7 DEF TakeMessages
<1>8. CASE ForgetTimeout(w)
  BY <1>8 DEF ForgetTimeout
<1>9. CASE Yield(w)
  BY <1>9 DEF Yield, EndSlice
<1>10. CASE Exit(w)
  BY <1>10 DEF Exit, EndSlice
<1>11. CASE SliceEnded(w)
  BY <1>11 DEF SliceEnded
<1>12. CASE StoreRunnable(w)
  BY <1>12 DEF StoreRunnable
<1>13. CASE AfterStore(w)
  BY <1>13 DEF AfterStore
<1>14. CASE RequeueArm(w)
  BY <1>14 DEF RequeueArm
<1>15. CASE RegisterArm(w)
  BY <1>15 DEF RegisterArm
<1>16. CASE DeathRecheck(w)
  BY <1>16 DEF DeathRecheck
<1>17. CASE Withdraw(w)
  BY <1>17 DEF Withdraw
<1>18. CASE Recheck(w)
  BY <1>18 DEF Recheck, WakeWorthy, HasConsumable, Gated, HasQueuedMessages
<1>19. CASE SelfWake(w)
  BY <1>19 DEF SelfWake
<1>20. CASE EventCheck(w)
  BY <1>20 DEF EventCheck, HasConsumable
<1>21. CASE Fallback(w)
  BY <1>21 DEF Fallback
<1>22. ASSUME NEW after \in BOOLEAN, ReceiveWaits(w, after) PROVE CallsUntouched
  BY <1>22 DEF ReceiveWaits
<1> HIDE DEF CallsUntouched
<1>23. QED
  BY <1>1, <1>2, <1>3, <1>4, <1>5, <1>6, <1>7, <1>8, <1>9, <1>10, <1>11, <1>12, <1>13, <1>14,
     <1>15, <1>16, <1>17, <1>18, <1>19, <1>20, <1>21, <1>22 DEF RunProcess, Gate, Slice,
     GateOpensOrEnds, SliceOpens

\* So do the shared routines.
LEMMA RoutineCalls ==
    ASSUME TypeInv, NEW a \in Actors, Routine(a)
    PROVE  CallsUntouched
<1> USE ActorFacts
        DEF TypeInv, TypeOK, CallsUntouched, Goto, Finish, Refused, bodyVars, suspVars, counters
<1>1. CASE WakeCheck(a)
  BY <1>1 DEF WakeCheck, BlocksWake, Gated, HasConsumable
<1>2. CASE WakeMove(a)
  BY <1>2 DEF WakeMove
<1>3. CASE ResumeCheck(a)
  BY <1>3 DEF ResumeCheck, HasConsumable
<1>4. CASE ResumeFlip(a)
  BY <1>4 DEF ResumeFlip
<1>5. CASE ResumeMove(a)
  BY <1>5 DEF ResumeMove
<1>6. CASE Tombstone(a)
  BY <1>6 DEF Tombstone
<1>7. CASE TakeTableToken(a)
  BY <1>7 DEF TakeTableToken
<1>8. CASE TakeBody(a)
  BY <1>8 DEF TakeBody
<1>9. CASE SweepWaitSet(a)
  BY <1>9 DEF SweepWaitSet
<1>10. CASE DropMarks(a)
  BY <1>10 DEF DropMarks
<1>11. CASE Purge(a)
  BY <1>11 DEF Purge
<1> HIDE DEF CallsUntouched
<1>12. QED
  BY <1>1, <1>2, <1>3, <1>4, <1>5, <1>6, <1>7, <1>8, <1>9, <1>10, <1>11 DEF Routine

\* So do the other threads, but for the insertion of a result.
LEMMA OtherCalls ==
    ASSUME TypeInv,
           \/ \E c \in Calls : Publish(c) /\ ~PublishInsert(c)
           \/ \E k \in Killers : Kill(k)
           \/ DrainWoken \/ Deliver \/ TimerStep \/ ResumeProcess \/ Resume
    PROVE  CallsUntouched
<1> USE ActorFacts
        DEF TypeInv, TypeOK, CallsUntouched, Goto, Finish, bodyVars, suspVars, counters
<1>1. CASE DrainWoken
  BY <1>1 DEF DrainWoken
<1>2. CASE Deliver
  BY <1>2 DEF Deliver
<1>3. CASE MarkCheck
  BY <1>3 DEF MarkCheck
<1>4. CASE WithdrawMark
  BY <1>4 DEF WithdrawMark
<1>5. CASE ResumeProcess
  BY <1>5 DEF ResumeProcess
<1>6. CASE InsertResume
  BY <1>6 DEF InsertResume
<1>7. CASE ResumeLive
  BY <1>7 DEF ResumeLive
<1>8. CASE WithdrawResume
  BY <1>8 DEF WithdrawResume
<1>9. ASSUME NEW t \in wheel, TimerExpires(t) PROVE CallsUntouched
  BY <1>9 DEF TimerExpires
<1>10. ASSUME NEW c \in Calls, PublishCheck(c) PROVE CallsUntouched
  BY <1>10 DEF PublishCheck
<1>11. ASSUME NEW c \in Calls, PublishLiveCheck(c) PROVE CallsUntouched
  BY <1>11 DEF PublishLiveCheck
<1>12. ASSUME NEW c \in Calls, WithdrawResult(c) PROVE CallsUntouched
  BY <1>12 DEF WithdrawResult
<1>13. ASSUME NEW c \in Calls, PublisherWakes(c) PROVE CallsUntouched
  BY <1>13 DEF PublisherWakes
<1>14. ASSUME NEW k \in Killers, ExitSignal(k) PROVE CallsUntouched
  BY <1>14 DEF ExitSignal, TerminateBody
<1>15. ASSUME NEW k \in Killers, CascadeKill(k) PROVE CallsUntouched
  BY <1>15 DEF CascadeKill, TerminateBody
<1>16. ASSUME NEW k \in Killers, TerminateProcess(k) PROVE CallsUntouched
  BY <1>16 DEF TerminateProcess, TerminateBody
<1> HIDE DEF CallsUntouched
<1>17. QED
  BY <1>1, <1>2, <1>3, <1>4, <1>5, <1>6, <1>7, <1>8, <1>9, <1>10, <1>11, <1>12, <1>13, <1>14,
     <1>15, <1>16 DEF Publish, Kill, TimerStep, Resume

\* Ending the recorded call by an event of its own kind keeps the invariant.
LEMMA EndKeeps ==
    ASSUME TypeInv, CallInv, record # NoCall,
           NEW how \in {"result", "timeout", "message", "resume"},
           record.kind = "dirty" => how = "result",
           record.kind = "await" => how \in {"result", "timeout"},
           record.kind = "hook" => how = "resume",
           endedBy' = [endedBy EXCEPT ![record.id] = how],
           record' = NoCall,
           result' \in {result, 0},
           UNCHANGED <<calls, callKind>>,
           \A c \in Calls : pc'[c] = pc[c]
    PROVE  CallInv'
<1> USE DEF TypeInv, TypeOK, CallInv
<1>1. RecordOpen' /\ LaterCallsUnused' /\ NoHookCompletion' /\ NoHookResult'
  BY DEF RecordOpen, LaterCallsUnused, NoHookCompletion, NoHookResult
<1>2. GatedCallEndsByItsOwnEvent'
  BY DEF RecordOpen, GatedCallEndsByItsOwnEvent
<1>3. QED
  BY <1>1, <1>2

\* The slice-start gate ends a call by an event of its own kind.
LEMMA GateEndsRightly ==
    ASSUME TypeInv, CallInv, NEW w \in Workers, GateOpensOrEnds(w)
    PROVE  CallInv'
<1> USE ActorFacts, CallFacts, CountsAssumption
        DEF TypeInv, TypeOK, CallInv, RecordOpen, LaterCallsUnused, NoHookCompletion, NoHookResult,
            GatedCallEndsByItsOwnEvent, NoCall, CallRecords, CallKinds, EndCall, Goto, counters
<1>1. CASE GateResult(w)
  BY <1>1 DEF GateResult
<1>2. CASE GateHostAwait(w)
  <2>1. CASE TimerJumps
    <3>1. /\ record # NoCall /\ record.kind \in {"await", "select"}
          /\ endedBy' = [endedBy EXCEPT ![record.id] = "timeout"] /\ record' = NoCall
          /\ UNCHANGED <<calls, callKind, result>>
      BY <1>2, <2>1 DEF GateHostAwait
    <3>2. \A c \in Calls : pc'[c] = pc[c]
      BY <1>2, <2>1 DEF GateHostAwait
    <3>3. QED
      BY <3>1, <3>2, EndKeeps
  <2>2. CASE ~TimerJumps /\ record.kind = "select"
    BY <1>2, <2>2, EndKeeps DEF GateHostAwait
  <2>3. CASE ~TimerJumps /\ record.kind # "select"
    BY <1>2, <2>3, CallsUntouchedKeeps DEF GateHostAwait, CallsUntouched
  <2>4. QED
    BY <2>1, <2>2, <2>3
<1>3. CASE GateSuspended(w)
  <2>1. CASE record.kind = "hook" /\ resume \in {ResumeAny, record.id}
    BY <1>3, <2>1, EndKeeps DEF GateSuspended
  <2>2. CASE ~(record.kind = "hook" /\ resume \in {ResumeAny, record.id})
    BY <1>3, <2>2, CallsUntouchedKeeps DEF GateSuspended, CallsUntouched
  <2>3. QED
    BY <2>1, <2>2
<1>4. ASSUME NEW kind \in {"await", "select"}, NEW after \in BOOLEAN, GateDirtySuspend(w, kind, after)
     PROVE  CallInv'
  <2>1. RecordOpen'
    BY <1>4 DEF GateDirtySuspend, NewCall
  <2>2. LaterCallsUnused' /\ NoHookResult'
    BY <1>4 DEF GateDirtySuspend
  <2>3. NoHookCompletion'
    BY <1>4 DEF GateDirtySuspend
  <2>4. GatedCallEndsByItsOwnEvent'
    <3>1. callKind[record.id] = "dirty" /\ record.id \in 1 .. calls /\ calls + 1 \in 1 .. MaxCalls
      BY <1>4 DEF GateDirtySuspend
    <3>2. callKind'[calls + 1] = kind /\ endedBy'[calls + 1] = "open"
      BY <1>4, <3>1 DEF GateDirtySuspend
    <3>3. callKind'[record.id] = "dirty" /\ endedBy'[record.id] = "result"
      BY <1>4, <3>1 DEF GateDirtySuspend
    <3>4. \A i \in (1 .. MaxCalls) \ {record.id, calls + 1} :
              callKind'[i] = callKind[i] /\ endedBy'[i] = endedBy[i]
      BY <1>4 DEF GateDirtySuspend
    <3>5. \A i \in 1 .. MaxCalls :
              /\ callKind'[i] = "dirty" => endedBy'[i] \in {"open", "result"}
              /\ callKind'[i] = "await" => endedBy'[i] \in {"open", "result", "timeout"}
              /\ callKind'[i] = "hook" => endedBy'[i] \in {"open", "resume"}
      <4> TAKE i \in 1 .. MaxCalls
      <4>1. CASE i \in {record.id, calls + 1}
        BY <4>1, <3>2, <3>3
      <4>2. CASE i \notin {record.id, calls + 1}
        BY <4>2, <3>4
      <4>3. QED
        BY <4>1, <4>2
    <3>6. QED
      BY <3>5
  <2>5. QED
    BY <2>1, <2>2, <2>3, <2>4
<1> HIDE DEF CallInv
<1>5. QED
  BY <1>1, <1>2, <1>3, <1>4 DEF GateOpensOrEnds

\* A slice opens a call under a fresh id.
LEMMA SliceOpensRightly ==
    ASSUME TypeInv, CallInv, NEW w \in Workers, SliceOpens(w)
    PROVE  CallInv'
<1> USE ActorFacts, CallFacts, CountsAssumption
        DEF TypeInv, TypeOK, CallInv, RecordOpen, LaterCallsUnused, NoHookCompletion, NoHookResult,
            GatedCallEndsByItsOwnEvent, NoCall, CallRecords, CallKinds, OpenCall, NewCall, Goto
<1>1. CASE DirtyCall(w)
  BY <1>1 DEF DirtyCall
<1>2. CASE HookSuspends(w)
  <2>1. RecordOpen'
    BY <1>2 DEF HookSuspends
  <2>2. LaterCallsUnused' /\ NoHookResult'
    BY <1>2 DEF HookSuspends
  <2>3. NoHookCompletion'
    BY <1>2 DEF HookSuspends
  <2>4. GatedCallEndsByItsOwnEvent'
    BY <1>2 DEF HookSuspends
  <2>5. QED
    BY <2>1, <2>2, <2>3, <2>4
<1>3. ASSUME NEW after \in BOOLEAN, NEW kind \in {"await", "select"}, SuspendsOnHost(w, kind, after)
     PROVE  CallInv'
  BY <1>3 DEF SuspendsOnHost
<1> HIDE DEF CallInv
<1>4. QED
  BY <1>1, <1>2, <1>3 DEF SliceOpens

\* CallInv is inductive, given the types.
LEMMA CallsInductive == Spec => []CallInv
<1>1. Init => CallInv
  BY ActorFacts DEF Init, CallInv, RecordOpen, LaterCallsUnused, NoHookCompletion, NoHookResult,
                    GatedCallEndsByItsOwnEvent
<1>2. TypeInv /\ CallInv /\ [Next]_vars => CallInv'
  <2> SUFFICES ASSUME TypeInv, CallInv, [Next]_vars PROVE CallInv'
    OBVIOUS
  <2>1. CASE UNCHANGED vars
    <3>1. CallsUntouched
      BY <2>1 DEF vars, CallsUntouched, bodyVars, suspVars, counters
    <3>2. QED
      BY <3>1, CallsUntouchedKeeps
  <2>2. ASSUME NEW c \in Calls, PublishInsert(c) PROVE CallInv'
    BY <2>2, ActorFacts, CallFacts
       DEF PublishInsert, Goto, TypeInv, TypeOK, CallInv, RecordOpen, LaterCallsUnused,
           NoHookCompletion, NoHookResult, GatedCallEndsByItsOwnEvent, bodyVars, counters
  <2>3. CASE CallsUntouched
    BY <2>3, CallsUntouchedKeeps
  <2>4. QED
    BY <2>1, <2>2, <2>3, RunProcessCalls, RoutineCalls, OtherCalls, GateEndsRightly,
       SliceOpensRightly
       DEF Next
<1>3. QED
  BY <1>1, <1>2, TypesInductive, PTL DEF Spec

\* A dirty call ends by its result, an await by its result or timeout, a hook
\* suspension by a resume: no stray wake of any thread ends a gated call.
THEOREM GatedCallsEndRightly == Spec => []GatedCallEndsByItsOwnEvent
<1>1. CallInv => GatedCallEndsByItsOwnEvent
  BY DEF CallInv
<1>2. QED
  BY <1>1, CallsInductive, PTL

----------------------------------------------------------------------------
(* The body is disposed of once *)

\* A worker has the body checked out.
HoldsBody(w) == pc[w] \in {"gate", "gateStale", "gateKind", "running", "ended", "store"}

\* It was disposed of when the slot is gone and nobody has it.
DisposedWhenGone == released = IF slot = "Gone" /\ \A w \in Workers : ~HoldsBody(w) THEN 1 ELSE 0

\* The slot says whether it is checked out, until it is gone.
SlotTellsWhoHolds ==
    /\ slot = "Present" => \A w \in Workers : ~HoldsBody(w)
    /\ slot = "Executing" => \E w \in Workers : HoldsBody(w)

\* Whoever took the table token goes on to take the body.
TokenLeadsToBody == ~inTable => slot = "Gone" \/ \E a \in Actors : pc[a] = "finalizeBody"

BodyInv == DisposedWhenGone /\ SlotTellsWhoHolds /\ TokenLeadsToBody

\* Most steps neither take nor give back the body or a token.
BodyUntouched ==
    /\ UNCHANGED <<slot, released, inTable>>
    /\ \A v \in Workers : HoldsBody(v)' <=> HoldsBody(v)
    /\ \A a \in Actors : pc[a] = "finalizeBody" => pc'[a] = "finalizeBody"

\* Such a step keeps the invariant.
LEMMA BodyUntouchedKeeps ==
    ASSUME BodyInv, BodyUntouched
    PROVE  BodyInv'
BY DEF BodyInv, BodyUntouched, DisposedWhenGone, SlotTellsWhoHolds, TokenLeadsToBody

\* A worker takes the body in TakeRunnable and lets go of it in StoreRunnable.
LEMMA RunProcessBody ==
    ASSUME TypeInv, CallInv, NEW w \in Workers,
           RunProcess(w) \/ TakeMessages(w) \/ ForgetTimeout(w),
           ~TakeRunnable(w), ~StoreRunnable(w)
    PROVE  BodyUntouched
<1> USE ActorFacts, CallFacts
        DEF TypeInv, TypeOK, BodyUntouched, HoldsBody, Goto, bodyVars, deathVars
<1>0. calls < MaxCalls => pc[<<"call", calls + 1>>] = "done"
  <2> SUFFICES ASSUME calls < MaxCalls PROVE pc[<<"call", calls + 1>>] = "done"
    OBVIOUS
  <2>1. calls + 1 \in 1 .. MaxCalls /\ calls + 1 > calls
    BY CountsAssumption
  <2>2. callKind[calls + 1] = "none"
    BY <2>1 DEF CallInv, LaterCallsUnused
  <2>3. QED
    BY <2>1, <2>2 DEF CallInv, NoHookCompletion
<1>1. CASE PopPid(w)
  BY <1>1 DEF PopPid
<1>2. CASE GateExited(w)
  BY <1>2 DEF GateExited
<1>3. CASE GateFree(w)
  BY <1>3 DEF GateFree
<1>4. CASE GateResult(w)
  BY <1>4 DEF GateResult
<1>5. CASE GateNoResult(w)
  BY <1>5 DEF GateNoResult
<1>6. CASE GateStale(w)
  BY <1>6 DEF GateStale
<1>7. CASE GateHostAwait(w)
  BY <1>7 DEF GateHostAwait
<1>8. CASE GateSuspended(w)
  BY <1>8 DEF GateSuspended
<1>9. CASE TakeMessages(w)
  BY <1>9 DEF TakeMessages
<1>10. CASE ForgetTimeout(w)
  BY <1>10 DEF ForgetTimeout
<1>11. CASE Yield(w)
  BY <1>11 DEF Yield
<1>12. CASE Exit(w)
  BY <1>12 DEF Exit
<1>13. CASE DirtyCall(w)
  BY <1>0, <1>13 DEF DirtyCall, OpenCall
<1>14. CASE HookSuspends(w)
  BY <1>14 DEF HookSuspends
<1>15. CASE SliceEnded(w)
  BY <1>15 DEF SliceEnded
<1>16. CASE AfterStore(w)
  BY <1>16 DEF AfterStore
<1>17. CASE RequeueArm(w)
  BY <1>17 DEF RequeueArm
<1>18. CASE RegisterArm(w)
  BY <1>18 DEF RegisterArm
<1>19. CASE DeathRecheck(w)
  BY <1>19 DEF DeathRecheck
<1>20. CASE Withdraw(w)
  BY <1>20 DEF Withdraw
<1>21. CASE Recheck(w)
  BY <1>21 DEF Recheck, WakeWorthy, HasConsumable, Gated, HasQueuedMessages
<1>22. CASE SelfWake(w)
  BY <1>22 DEF SelfWake
<1>23. CASE EventCheck(w)
  BY <1>23 DEF EventCheck, HasConsumable
<1>24. CASE Fallback(w)
  BY <1>24 DEF Fallback
<1>25. ASSUME NEW after \in BOOLEAN, ReceiveWaits(w, after) PROVE BodyUntouched
  BY <1>25 DEF ReceiveWaits
<1>26. ASSUME NEW after \in BOOLEAN, NEW kind \in {"await", "select"}, SuspendsOnHost(w, kind, after)
     PROVE  BodyUntouched
  BY <1>0, <1>26 DEF SuspendsOnHost, OpenCall
<1>27. ASSUME NEW after \in BOOLEAN, NEW kind \in {"await", "select"}, GateDirtySuspend(w, kind, after)
     PROVE  BodyUntouched
  BY <1>0, <1>27 DEF GateDirtySuspend
<1> HIDE DEF BodyUntouched
<1>28. QED
  BY <1>1, <1>2, <1>3, <1>4, <1>5, <1>6, <1>7, <1>8, <1>9, <1>10, <1>11, <1>12, <1>13, <1>14,
     <1>15, <1>16, <1>17, <1>18, <1>19, <1>20, <1>21, <1>22, <1>23, <1>24, <1>25, <1>26, <1>27
     DEF RunProcess, Gate, Slice

\* Of the shared routines only the two tokens of the finalization matter.
LEMMA RoutineBody ==
    ASSUME TypeInv, NEW a \in Actors, Routine(a), ~TakeTableToken(a), ~TakeBody(a)
    PROVE  BodyUntouched
<1> USE ActorFacts
        DEF TypeInv, TypeOK, BodyUntouched, HoldsBody, Goto, Finish, Refused, bodyVars, deathVars
<1>1. CASE WakeCheck(a)
  BY <1>1 DEF WakeCheck, BlocksWake, Gated, HasConsumable
<1>2. CASE WakeMove(a)
  BY <1>2 DEF WakeMove
<1>3. CASE ResumeCheck(a)
  BY <1>3 DEF ResumeCheck, HasConsumable
<1>4. CASE ResumeFlip(a)
  BY <1>4 DEF ResumeFlip
<1>5. CASE ResumeMove(a)
  BY <1>5 DEF ResumeMove
<1>6. CASE Tombstone(a)
  BY <1>6 DEF Tombstone
<1>7. CASE SweepWaitSet(a)
  BY <1>7 DEF SweepWaitSet
<1>8. CASE DropMarks(a)
  BY <1>8 DEF DropMarks
<1>9. CASE Purge(a)
  BY <1>9 DEF Purge
<1> HIDE DEF BodyUntouched
<1>10. QED
  BY <1>1, <1>2, <1>3, <1>4, <1>5, <1>6, <1>7, <1>8, <1>9 DEF Routine

\* The other threads never touch the body's place.
LEMMA OtherBody ==
    ASSUME TypeInv,
           \/ \E c \in Calls : Publish(c)
           \/ \E k \in Killers : Kill(k)
           \/ DrainWoken \/ Deliver \/ TimerStep \/ ResumeProcess \/ Resume
    PROVE  BodyUntouched
<1> USE ActorFacts
        DEF TypeInv, TypeOK, BodyUntouched, HoldsBody, Goto, Finish, bodyVars, deathVars
<1>1. CASE DrainWoken
  BY <1>1 DEF DrainWoken
<1>2. CASE Deliver
  BY <1>2 DEF Deliver
<1>3. CASE MarkCheck
  BY <1>3 DEF MarkCheck
<1>4. CASE WithdrawMark
  BY <1>4 DEF WithdrawMark
<1>5. CASE ResumeProcess
  BY <1>5 DEF ResumeProcess
<1>6. CASE InsertResume
  BY <1>6 DEF InsertResume
<1>7. CASE ResumeLive
  BY <1>7 DEF ResumeLive
<1>8. CASE WithdrawResume
  BY <1>8 DEF WithdrawResume
<1>9. ASSUME NEW t \in wheel, TimerExpires(t) PROVE BodyUntouched
  BY <1>9 DEF TimerExpires
<1>10. ASSUME NEW c \in Calls, PublishCheck(c) PROVE BodyUntouched
  BY <1>10 DEF PublishCheck
<1>11. ASSUME NEW c \in Calls, PublishInsert(c) PROVE BodyUntouched
  BY <1>11 DEF PublishInsert
<1>12. ASSUME NEW c \in Calls, PublishLiveCheck(c) PROVE BodyUntouched
  BY <1>12 DEF PublishLiveCheck
<1>13. ASSUME NEW c \in Calls, WithdrawResult(c) PROVE BodyUntouched
  BY <1>13 DEF WithdrawResult
<1>14. ASSUME NEW c \in Calls, PublisherWakes(c) PROVE BodyUntouched
  BY <1>14 DEF PublisherWakes
<1>15. ASSUME NEW k \in Killers, ExitSignal(k) PROVE BodyUntouched
  BY <1>15 DEF ExitSignal, TerminateBody
<1>16. ASSUME NEW k \in Killers, CascadeKill(k) PROVE BodyUntouched
  BY <1>16 DEF CascadeKill, TerminateBody
<1>17. ASSUME NEW k \in Killers, TerminateProcess(k) PROVE BodyUntouched
  BY <1>17 DEF TerminateProcess
<1> HIDE DEF BodyUntouched
<1>18. QED
  BY <1>1, <1>2, <1>3, <1>4, <1>5, <1>6, <1>7, <1>8, <1>9, <1>10, <1>11, <1>12, <1>13, <1>14,
     <1>15, <1>16, <1>17 DEF Publish, Kill, TimerStep, Resume

\* Checking the body out and storing it back.
LEMMA CheckoutKeepsBody ==
    ASSUME TypeInv, ScheduledOnce, BodyInv, NEW w \in Workers, TakeRunnable(w) \/ StoreRunnable(w)
    PROVE  BodyInv'
<1> USE ActorFacts
<1>1. pc \in [Actors -> Labels] /\ slot \in {"Present", "Executing", "Gone"}
  BY DEF TypeInv, TypeOK
<1>2. TokenLeadsToBody'
  BY <1>1 DEF TakeRunnable, StoreRunnable, Goto, BodyInv, TokenLeadsToBody, deathVars
<1>3. ASSUME TakeRunnable(w) PROVE BodyInv'
  <2>1. CASE slot = "Present"
    <3>1. slot' = "Executing" /\ released' = released /\ HoldsBody(w)'
      BY <1>1, <1>3, <2>1 DEF TakeRunnable, Goto, HoldsBody, deathVars
    <3>2. released = 0
      BY <2>1 DEF BodyInv, DisposedWhenGone
    <3>3. QED
      BY <1>2, <3>1, <3>2 DEF BodyInv, DisposedWhenGone, SlotTellsWhoHolds
  <2>2. CASE slot # "Present"
    <3>1. slot' = slot /\ released' = released /\ \A v \in Workers : HoldsBody(v)' <=> HoldsBody(v)
      BY <1>1, <1>3, <2>2 DEF TakeRunnable, Goto, HoldsBody, deathVars
    <3>2. QED
      BY <1>2, <3>1 DEF BodyInv, DisposedWhenGone, SlotTellsWhoHolds
  <2>3. QED
    BY <2>1, <2>2
<1>4. ASSUME StoreRunnable(w) PROVE BodyInv'
  <2>1. HoldsBody(w) /\ \A v \in Workers : HoldsBody(v) => v = w
    BY <1>4 DEF StoreRunnable, ScheduledOnce, Holds, HoldsBody
  <2>2. \A v \in Workers : ~HoldsBody(v)'
    BY <1>1, <1>4, <2>1 DEF StoreRunnable, Goto, HoldsBody
  <2>3. released = 0
    BY <2>1 DEF BodyInv, DisposedWhenGone
  <2>4. CASE slot = "Gone"
    <3>1. slot' = "Gone" /\ released' = 1
      BY <1>4, <2>3, <2>4 DEF StoreRunnable
    <3>2. QED
      BY <1>2, <2>2, <3>1 DEF BodyInv, DisposedWhenGone, SlotTellsWhoHolds
  <2>5. CASE slot # "Gone"
    <3>1. slot' = "Present" /\ released' = 0
      BY <1>4, <2>3, <2>5 DEF StoreRunnable
    <3>2. QED
      BY <1>2, <2>2, <3>1 DEF BodyInv, DisposedWhenGone, SlotTellsWhoHolds
  <2>6. QED
    BY <2>4, <2>5
<1>5. QED
  BY <1>3, <1>4

\* The two tokens: one finalizer gets past the table, and the body it finds in
\* its slot is disposed of there and then.
LEMMA TokensKeepBody ==
    ASSUME TypeInv, BodyInv, NEW a \in Actors, TakeTableToken(a) \/ TakeBody(a)
    PROVE  BodyInv'
<1> USE ActorFacts
<1>1. pc \in [Actors -> Labels] /\ slot \in {"Present", "Executing", "Gone"}
  BY DEF TypeInv, TypeOK
<1>2. \A v \in Workers : HoldsBody(v)' <=> HoldsBody(v)
  BY <1>1 DEF TakeTableToken, TakeBody, Goto, Finish, HoldsBody
<1>3. ASSUME TakeTableToken(a) PROVE BodyInv'
  <2>1. slot' = slot /\ released' = released
    BY <1>3 DEF TakeTableToken, bodyVars
  <2>2. CASE inTable
    <3>1. pc'[a] = "finalizeBody"
      BY <1>1, <1>3, <2>2 DEF TakeTableToken, Goto
    <3>2. QED
      BY <1>2, <2>1, <3>1 DEF BodyInv, DisposedWhenGone, SlotTellsWhoHolds, TokenLeadsToBody
  <2>3. CASE ~inTable
    <3>1. \A b \in Actors : pc[b] = "finalizeBody" => pc'[b] = "finalizeBody"
      BY <1>1, <1>3, <2>3 DEF TakeTableToken, Finish, Goto
    <3>2. QED
      BY <1>2, <2>1, <2>3, <3>1 DEF BodyInv, DisposedWhenGone, SlotTellsWhoHolds, TokenLeadsToBody
  <2>4. QED
    BY <2>2, <2>3
<1>4. ASSUME TakeBody(a) PROVE BodyInv'
  <2>1. slot' = "Gone" /\ released' = released + (IF slot = "Present" THEN 1 ELSE 0)
    BY <1>4 DEF TakeBody
  <2>2. CASE slot = "Present"
    BY <1>2, <2>1, <2>2 DEF BodyInv, DisposedWhenGone, SlotTellsWhoHolds, TokenLeadsToBody
  <2>3. CASE slot # "Present"
    <3>1. released' = released
      BY <2>1, <2>3 DEF BodyInv, DisposedWhenGone
    <3>2. SlotTellsWhoHolds' /\ TokenLeadsToBody'
      BY <2>1 DEF SlotTellsWhoHolds, TokenLeadsToBody
    <3>3. DisposedWhenGone'
      BY <1>1, <1>2, <2>1, <2>3, <3>1 DEF BodyInv, DisposedWhenGone, SlotTellsWhoHolds
    <3>4. QED
      BY <3>2, <3>3 DEF BodyInv
  <2>4. QED
    BY <2>2, <2>3
<1>5. QED
  BY <1>3, <1>4

\* BodyInv is inductive, given the types, the calls and the single schedule.
LEMMA BodyInductive == Spec => []BodyInv
<1>1. Init => BodyInv
  BY ActorFacts DEF Init, BodyInv, DisposedWhenGone, SlotTellsWhoHolds, TokenLeadsToBody, HoldsBody
<1>2. TypeInv /\ CallInv /\ ScheduledOnce /\ BodyInv /\ [Next]_vars => BodyInv'
  <2> SUFFICES ASSUME TypeInv, CallInv, ScheduledOnce, BodyInv, [Next]_vars PROVE BodyInv'
    OBVIOUS
  <2>1. CASE UNCHANGED vars
    <3>1. BodyUntouched
      BY <2>1 DEF vars, BodyUntouched, HoldsBody, bodyVars, deathVars
    <3>2. QED
      BY <3>1, BodyUntouchedKeeps
  <2>2. CASE BodyUntouched
    BY <2>2, BodyUntouchedKeeps
  <2>3. QED
    BY <2>1, <2>2, RunProcessBody, RoutineBody, OtherBody, CheckoutKeepsBody, TokensKeepBody
       DEF Next
<1>3. QED
  BY <1>1, <1>2, TypesInductive, CallsInductive, ScheduledAtOnePlace, PTL DEF Spec

\* The body is disposed of once, by the finalizer that found it stored or by the
\* worker that had it checked out, whichever kills raced; the argument needs
\* that no two workers hold the process.
THEOREM BodyDisposedOnceAlways == Spec => []BodyDisposedOnce
<1>1. TypeInv /\ BodyInv => BodyDisposedOnce
  BY ActorFacts DEF TypeInv, TypeOK, BodyInv, DisposedWhenGone, TokenLeadsToBody, BodyDisposedOnce,
     Quiet,
                    HoldsBody
<1>2. QED
  BY <1>1, TypesInductive, BodyInductive, PTL

----------------------------------------------------------------------------
(* A published result survives *)

\* Where the one finalizer that got the table token is, and a worker that found
\* the pid dead when it rechecked its registration.
Dying == {"finalizeBody", "sweep", "dropMarks", "purge", "withdraw"}

\* The process waits for the last call it made, ...
RecordIsLast == record # NoCall => record.id = calls

\* ... which the mirror names as long as the process lives.
MirrorIsRecord == inTable /\ record # NoCall => mirror = record

\* Only calls that were made are completed or have a result.
OnlyMadeCalls == result <= calls /\ \A c \in Calls : c[2] > calls => pc[c] = "done"

\* The finalizers' tokens and the withdrawal of a result follow a death.
DeadFirst ==
    /\ \A a \in Actors : pc[a] \in Dying => ~inTable
    /\ \A c \in Calls : pc[c] = "withdrawResult" => ~inTable
    /\ slot = "Gone" => ~inTable

\* The completion of the call the process waits for is under way or published.
CompletionUnderWay ==
    \A c \in Calls :
        inTable /\ record.id = c[2] /\ callKind[c[2]] # "hook"
            => pc[c] \in {"flying", "insert"} \/ result = c[2]

ResultInv == RecordIsLast /\ MirrorIsRecord /\ OnlyMadeCalls /\ DeadFirst /\ CompletionUnderWay

\* Most steps open no call and publish nothing; they drop a result or a mirror
\* only when the call is over, when the result is another call's, or when the
\* process is dead.
NothingPublished ==
    /\ UNCHANGED <<calls, callKind>>
    /\ record' \in {record, NoCall}
    /\ mirror' = mirror \/ record' = NoCall \/ ~inTable
    /\ result' # result => result' = 0 /\ (record' = NoCall \/ result # record.id \/ ~inTable)
    /\ inTable' => inTable
    /\ slot' = "Gone" => slot = "Gone" \/ ~inTable
    /\ \A a \in Actors : pc'[a] \in Dying => pc[a] \in Dying \/ ~inTable'
    /\ \A c \in Calls :
           \/ pc'[c] = pc[c]
           \/ (pc[c] \notin {"flying", "insert", "done"} /\ (pc'[c] = "withdrawResult" => ~inTable))

\* Such a step keeps the invariant.
LEMMA NothingPublishedKeeps ==
    ASSUME TypeInv, ResultInv, NothingPublished
    PROVE  ResultInv'
<1> USE CallFacts
<1>1. calls \in 0 .. MaxCalls /\ result \in 0 .. MaxCalls /\ MaxCalls \in Nat
  BY CountsAssumption DEF TypeInv, TypeOK
<1>2. RecordIsLast' /\ MirrorIsRecord'
  BY DEF ResultInv, NothingPublished, RecordIsLast, MirrorIsRecord
<1>3. OnlyMadeCalls'
  BY <1>1 DEF ResultInv, NothingPublished, OnlyMadeCalls
<1>4. DeadFirst'
  BY DEF ResultInv, NothingPublished, DeadFirst
<1>5. CompletionUnderWay'
  BY <1>1 DEF ResultInv, NothingPublished, CompletionUnderWay, DeadFirst, NoCall
<1>6. QED
  BY <1>2, <1>3, <1>4, <1>5 DEF ResultInv

\* A worker opens calls and nothing else: the rest of run_process publishes nothing.
LEMMA RunProcessPublishes ==
    ASSUME TypeInv, CallInv, ResultInv, NEW w \in Workers,
           RunProcess(w) \/ TakeMessages(w) \/ ForgetTimeout(w),
           ~SliceOpens(w),
           ~(\E kind \in {"await", "select"}, after \in BOOLEAN : GateDirtySuspend(w, kind, after))
    PROVE  NothingPublished
<1> USE ActorFacts, CallFacts
        DEF TypeInv, TypeOK, NothingPublished, Dying, Goto, bodyVars, suspVars, deathVars, counters
<1>1. CASE PopPid(w)
  BY <1>1 DEF PopPid
<1>2. CASE TakeRunnable(w)
  BY <1>2 DEF TakeRunnable
<1>3. CASE GateExited(w)
  BY <1>3 DEF GateExited
<1>4. CASE GateFree(w)
  BY <1>4 DEF GateFree, ApplyTimer
<1>5. CASE GateResult(w)
  BY <1>5 DEF GateResult, EndCall
<1>6. CASE GateNoResult(w)
  BY <1>6 DEF GateNoResult
<1>7. CASE GateStale(w)
  BY <1>7 DEF GateStale
<1>8. CASE GateHostAwait(w)
  BY <1>8 DEF GateHostAwait, ApplyTimer, EndCall
<1>9. CASE GateSuspended(w)
  BY <1>9 DEF GateSuspended, ApplyTimer, EndCall
<1>10. CASE TakeMessages(w)
  BY <1>10 DEF TakeMessages
<1>11. CASE ForgetTimeout(w)
  BY <1>11 DEF ForgetTimeout
<1>12. CASE Yield(w)
  BY <1>12 DEF Yield, EndSlice
<1>13. CASE Exit(w)
  BY <1>13 DEF Exit, EndSlice
<1>14. CASE SliceEnded(w)
  BY <1>14 DEF SliceEnded
<1>15. CASE StoreRunnable(w)
  BY <1>15 DEF StoreRunnable
<1>16. CASE AfterStore(w)
  BY <1>16 DEF AfterStore, OutcomeKnown
<1>17. CASE RequeueArm(w)
  BY <1>17 DEF RequeueArm
<1>18. CASE RegisterArm(w)
  BY <1>18 DEF RegisterArm
<1>19. CASE DeathRecheck(w)
  BY <1>19 DEF DeathRecheck
<1>20. CASE Withdraw(w)
  BY <1>20 DEF Withdraw
<1>21. CASE Recheck(w)
  BY <1>21 DEF Recheck, WakeWorthy, HasConsumable, Gated, HasQueuedMessages
<1>22. CASE SelfWake(w)
  BY <1>22 DEF SelfWake
<1>23. CASE EventCheck(w)
  BY <1>23 DEF EventCheck, HasConsumable
<1>24. CASE Fallback(w)
  BY <1>24 DEF Fallback, MoveToWoken, HasConsumable
<1>25. ASSUME NEW after \in BOOLEAN, ReceiveWaits(w, after) PROVE NothingPublished
  BY <1>25 DEF ReceiveWaits, EndSlice
<1> HIDE DEF NothingPublished, TypeInv
<1>26. QED
  BY <1>1, <1>2, <1>3, <1>4, <1>5, <1>6, <1>7, <1>8, <1>9, <1>10, <1>11, <1>12, <1>13, <1>14,
     <1>15, <1>16, <1>17, <1>18, <1>19, <1>20, <1>21, <1>22, <1>23, <1>24, <1>25 DEF RunProcess,
     Gate, Slice, SliceOpens

\* So do the shared routines: what the finalizer drops is a dead process's.
LEMMA RoutinePublishes ==
    ASSUME TypeInv, ResultInv, NEW a \in Actors, Routine(a)
    PROVE  NothingPublished
<1> USE ActorFacts, CallFacts
        DEF TypeInv, TypeOK, NothingPublished, Dying, Goto, Finish, Refused,
            bodyVars, suspVars, deathVars, counters
<1>1. CASE WakeCheck(a)
  BY <1>1 DEF WakeCheck, BlocksWake, Gated, HasConsumable
<1>2. CASE WakeMove(a)
  BY <1>2 DEF WakeMove, MoveToWoken
<1>3. CASE ResumeCheck(a)
  BY <1>3 DEF ResumeCheck, HasConsumable
<1>4. CASE ResumeFlip(a)
  BY <1>4 DEF ResumeFlip
<1>5. CASE ResumeMove(a)
  BY <1>5 DEF ResumeMove, MoveToWoken
<1>6. CASE Tombstone(a)
  BY <1>6 DEF Tombstone
<1>7. CASE TakeTableToken(a)
  BY <1>7 DEF TakeTableToken
<1>8. CASE TakeBody(a)
  BY <1>8 DEF TakeBody, ResultInv, DeadFirst
<1>9. CASE SweepWaitSet(a)
  BY <1>9 DEF SweepWaitSet
<1>10. CASE DropMarks(a)
  BY <1>10 DEF DropMarks
<1>11. CASE Purge(a)
  BY <1>11 DEF Purge, ResultInv, DeadFirst
<1> HIDE DEF NothingPublished, TypeInv
<1>12. QED
  BY <1>1, <1>2, <1>3, <1>4, <1>5, <1>6, <1>7, <1>8, <1>9, <1>10, <1>11 DEF Routine

\* So do the other threads, but for publish_suspension_result's check and insert.
LEMMA OtherPublishes ==
    ASSUME TypeInv, ResultInv,
           \/ \E c \in Calls : Publish(c) /\ ~PublishCheck(c) /\ ~PublishInsert(c)
           \/ \E k \in Killers : Kill(k)
           \/ DrainWoken \/ Deliver \/ TimerStep \/ ResumeProcess \/ Resume
    PROVE  NothingPublished
<1> USE ActorFacts, CallFacts
        DEF TypeInv, TypeOK, NothingPublished, Dying, Goto, Finish,
            bodyVars, suspVars, deathVars, counters
<1>1. CASE DrainWoken
  BY <1>1 DEF DrainWoken
<1>2. CASE Deliver
  BY <1>2 DEF Deliver
<1>3. CASE MarkCheck
  BY <1>3 DEF MarkCheck
<1>4. CASE WithdrawMark
  BY <1>4 DEF WithdrawMark
<1>5. CASE ResumeProcess
  BY <1>5 DEF ResumeProcess
<1>6. CASE InsertResume
  BY <1>6 DEF InsertResume
<1>7. CASE ResumeLive
  BY <1>7 DEF ResumeLive
<1>8. CASE WithdrawResume
  BY <1>8 DEF WithdrawResume
<1>9. ASSUME NEW t \in wheel, TimerExpires(t) PROVE NothingPublished
  BY <1>9 DEF TimerExpires
<1>10. ASSUME NEW c \in Calls, PublishLiveCheck(c) PROVE NothingPublished
  BY <1>10 DEF PublishLiveCheck
<1>11. ASSUME NEW c \in Calls, WithdrawResult(c) PROVE NothingPublished
  BY <1>11 DEF WithdrawResult, ResultInv, DeadFirst
<1>12. ASSUME NEW c \in Calls, PublisherWakes(c) PROVE NothingPublished
  BY <1>12 DEF PublisherWakes
<1>13. ASSUME NEW k \in Killers, ExitSignal(k) PROVE NothingPublished
  BY <1>13 DEF ExitSignal, TerminateBody
<1>14. ASSUME NEW k \in Killers, CascadeKill(k) PROVE NothingPublished
  BY <1>14 DEF CascadeKill, TerminateBody
<1>15. ASSUME NEW k \in Killers, TerminateProcess(k) PROVE NothingPublished
  BY <1>15 DEF TerminateProcess
<1> HIDE DEF NothingPublished, TypeInv
<1>16. QED
  BY <1>1, <1>2, <1>3, <1>4, <1>5, <1>6, <1>7, <1>8, <1>9, <1>10, <1>11, <1>12, <1>13, <1>14,
     <1>15 DEF Publish, Kill, TimerStep, Resume

\* A call that is opened for the host gets a fresh id and a completion in flight;
\* a hook suspension has none.
LEMMA OpeningKeepsResult ==
    ASSUME TypeInv, ResultInv, calls < MaxCalls, NEW kind \in CallKinds,
           calls' = calls + 1, record' = NewCall(kind), mirror' = NewCall(kind),
           callKind' = [callKind EXCEPT ![calls + 1] = kind],
           kind = "hook" \/ pc'[<<"call", calls + 1>>] = "flying",
           \A c \in Calls : pc'[c] = pc[c] \/ (c[2] = calls + 1 /\ pc'[c] # "withdrawResult"),
           \A a \in Actors : pc'[a] \in Dying => pc[a] \in Dying,
           result' \in {result, 0}, inTable' = inTable, slot' = slot
    PROVE  ResultInv'
<1> USE CallFacts
<1>1. calls \in 0 .. MaxCalls /\ result \in 0 .. MaxCalls /\ MaxCalls \in Nat
  BY CountsAssumption DEF TypeInv, TypeOK
<1>2. calls + 1 \in 1 .. MaxCalls /\ callKind'[calls + 1] = kind
  BY <1>1 DEF TypeInv, TypeOK
<1>3. RecordIsLast' /\ MirrorIsRecord'
  BY DEF RecordIsLast, MirrorIsRecord, NewCall
<1>4. OnlyMadeCalls'
  BY <1>1 DEF ResultInv, OnlyMadeCalls
<1>5. DeadFirst'
  BY DEF ResultInv, DeadFirst
<1>6. CompletionUnderWay'
  BY <1>2 DEF CompletionUnderWay, NewCall
<1>7. QED
  BY <1>3, <1>4, <1>5, <1>6 DEF ResultInv

\* Every step that opens a call does so.
LEMMA OpensKeepResult ==
    ASSUME TypeInv, ResultInv, NEW w \in Workers,
           \/ SliceOpens(w)
           \/ \E kind \in {"await", "select"}, after \in BOOLEAN : GateDirtySuspend(w, kind, after)
    PROVE  ResultInv'
<1> USE ActorFacts, CallFacts, CountsAssumption
<1>0. pc \in [Actors -> Labels] /\ calls \in 0 .. MaxCalls /\ MaxCalls \in Nat
  BY DEF TypeInv, TypeOK
<1>1. CASE DirtyCall(w)
  BY <1>0, <1>1, OpeningKeepsResult DEF DirtyCall, OpenCall, Dying, CallKinds, deathVars
<1>2. CASE HookSuspends(w)
  BY <1>0, <1>2, OpeningKeepsResult DEF HookSuspends, OpenCall, Goto, Dying, CallKinds, deathVars
<1>3. ASSUME NEW after \in BOOLEAN, NEW kind \in {"await", "select"}, SuspendsOnHost(w, kind, after)
     PROVE  ResultInv'
  <2>1. /\ pc'[<<"call", calls + 1>>] = "flying"
        /\ \A c \in Calls : pc'[c] = pc[c] \/ (c[2] = calls + 1 /\ pc'[c] # "withdrawResult")
        /\ \A a \in Actors : pc'[a] \in Dying => pc[a] \in Dying
    BY <1>0, <1>3 DEF SuspendsOnHost, OpenCall, Dying
  <2>2. /\ calls < MaxCalls /\ calls' = calls + 1
        /\ record' = NewCall(kind) /\ mirror' = NewCall(kind)
        /\ callKind' = [callKind EXCEPT ![calls + 1] = kind]
        /\ result' \in {result, 0} /\ inTable' = inTable /\ slot' = slot
    BY <1>3 DEF SuspendsOnHost, OpenCall, deathVars
  <2>3. QED
    BY <2>1, <2>2, OpeningKeepsResult DEF CallKinds
<1>4. ASSUME NEW after \in BOOLEAN, NEW kind \in {"await", "select"}, GateDirtySuspend(w, kind, after)
     PROVE  ResultInv'
  <2>1. /\ pc'[<<"call", calls + 1>>] = "flying"
        /\ \A c \in Calls : pc'[c] = pc[c] \/ (c[2] = calls + 1 /\ pc'[c] # "withdrawResult")
        /\ \A a \in Actors : pc'[a] \in Dying => pc[a] \in Dying
    BY <1>0, <1>4 DEF GateDirtySuspend, Dying
  <2>2. /\ calls < MaxCalls /\ calls' = calls + 1
        /\ record' = NewCall(kind) /\ mirror' = NewCall(kind)
        /\ callKind' = [callKind EXCEPT ![calls + 1] = kind]
        /\ result' \in {result, 0} /\ inTable' = inTable /\ slot' = slot
    BY <1>4 DEF GateDirtySuspend, deathVars
  <2>3. QED
    BY <2>1, <2>2, OpeningKeepsResult DEF CallKinds
<1>5. QED
  BY <1>1, <1>2, <1>3, <1>4 DEF SliceOpens

\* publish_suspension_result: the check lets the last call's completion through,
\* as the mirror names it, and no insert replaces it by an older call's.
LEMMA PublishKeepsResult ==
    ASSUME TypeInv, ResultInv, NEW c \in Calls, PublishCheck(c) \/ PublishInsert(c)
    PROVE  ResultInv'
<1> USE ActorFacts, CallFacts, CountsAssumption
        DEF TypeInv, TypeOK, Goto, bodyVars, suspVars, deathVars, counters
<1>1. CASE PublishCheck(c)
  <2>1. /\ \A a \in Actors : pc'[a] \in Dying => pc[a] \in Dying
        /\ \A d \in Calls : /\ pc'[d] = "withdrawResult" => pc[d] = "withdrawResult"
                            /\ pc[d] = "done" => pc'[d] = "done"
                            /\ pc[d] \in {"flying", "insert"} /\ mirror.id = d[2]
                                   => pc'[d] \in {"flying", "insert"}
    BY <1>1 DEF PublishCheck, Dying
  <2>2. UNCHANGED <<record, mirror, result, calls, callKind, slot>> /\ inTable' = inTable
    BY <1>1 DEF PublishCheck
  <2>3. RecordIsLast' /\ MirrorIsRecord' /\ OnlyMadeCalls' /\ DeadFirst'
    BY <2>1, <2>2 DEF ResultInv, RecordIsLast, MirrorIsRecord, OnlyMadeCalls, DeadFirst
  <2>4. CompletionUnderWay'
    BY <2>1, <2>2 DEF ResultInv, MirrorIsRecord, CompletionUnderWay, NoCall
  <2>5. QED
    BY <2>3, <2>4 DEF ResultInv
<1>2. CASE PublishInsert(c)
  <2>1. /\ \A a \in Actors : pc'[a] \in Dying => pc[a] \in Dying
        /\ \A d \in Calls : /\ pc'[d] = "withdrawResult" => pc[d] = "withdrawResult"
                            /\ pc[d] = "done" => pc'[d] = "done"
                            /\ d # c => pc'[d] = pc[d]
    BY <1>2 DEF PublishInsert, Dying
  <2>2. UNCHANGED <<record, mirror, calls, callKind, slot>> /\ inTable' = inTable
    BY <1>2 DEF PublishInsert
  <2>3. c[2] <= calls
    BY <1>2 DEF PublishInsert, ResultInv, OnlyMadeCalls
  <2>4. result' = (IF result > c[2] THEN result ELSE c[2])
    BY <1>2 DEF PublishInsert
  <2>5. RecordIsLast' /\ MirrorIsRecord' /\ DeadFirst'
    BY <2>1, <2>2 DEF ResultInv, RecordIsLast, MirrorIsRecord, DeadFirst
  <2>6. OnlyMadeCalls'
    BY <2>1, <2>2, <2>3, <2>4 DEF ResultInv, OnlyMadeCalls
  <2>7. CompletionUnderWay'
    <3> SUFFICES ASSUME NEW d \in Calls, inTable', record'.id = d[2], callKind'[d[2]] # "hook"
                 PROVE  pc'[d] \in {"flying", "insert"} \/ result' = d[2]
      BY DEF CompletionUnderWay
    <3>1. d[2] = calls
      BY <2>2 DEF ResultInv, RecordIsLast, NoCall
    <3>2. pc[d] \in {"flying", "insert"} \/ result = d[2]
      BY <2>2 DEF ResultInv, CompletionUnderWay
    <3>3. CASE d = c
      BY <3>1, <3>3, <2>4 DEF ResultInv, OnlyMadeCalls
    <3>4. CASE d # c
      BY <3>1, <3>2, <3>4, <2>1, <2>3, <2>4 DEF ResultInv, OnlyMadeCalls
    <3>5. QED
      BY <3>3, <3>4
  <2>8. QED
    BY <2>5, <2>6, <2>7 DEF ResultInv
<1>3. QED
  BY <1>1, <1>2

\* ResultInv is inductive, given the types and the calls.
LEMMA ResultsInductive == Spec => []ResultInv
<1>1. Init => ResultInv
  BY ActorFacts, CallFacts, CountsAssumption
     DEF Init, ResultInv, RecordIsLast, MirrorIsRecord, OnlyMadeCalls, DeadFirst, CompletionUnderWay,
         Dying, NoCall
<1>2. TypeInv /\ CallInv /\ ResultInv /\ [Next]_vars => ResultInv'
  <2> SUFFICES ASSUME TypeInv, CallInv, ResultInv, [Next]_vars PROVE ResultInv'
    OBVIOUS
  <2>1. CASE UNCHANGED vars
    <3>1. NothingPublished
      BY <2>1 DEF vars, NothingPublished, bodyVars, suspVars, deathVars, counters
    <3>2. QED
      BY <3>1, NothingPublishedKeeps
  <2>2. CASE NothingPublished
    BY <2>2, NothingPublishedKeeps
  <2>3. QED
    BY <2>1, <2>2, RunProcessPublishes, RoutinePublishes, OtherPublishes, OpensKeepResult,
       PublishKeepsResult DEF Next
<1>3. QED
  BY <1>1, <1>2, TypesInductive, CallsInductive, PTL DEF Spec

\* A completion published for the call the process waits for stays in
\* suspension_results until the process consumes it: publish_suspension_result
\* refuses an older call's completion once a newer one is there, the slice-start
\* gate drops only another call's, and only a death clears it.  It holds for
\* every way of parking and of killing.
THEOREM PublishedResultsSurvive == Spec => []PublishedResultSurvives
<1>1. ResultInv => PublishedResultSurvives
  BY DEF ResultInv, CompletionUnderWay, PublishedResultSurvives
<1>2. QED
  BY <1>1, ResultsInductive, PTL

----------------------------------------------------------------------------
(* No wake is lost, for a process that makes no dirty call and has no slice hook *)

\* The process parks in a receive or on a host call, never in a dirty call or
\* by a slice hook: it always goes through the Wait arm.
HostParksOnly == Parks \subseteq {"receive", "await", "select"}

HostKinds == {"none", "await", "select"}

\* So no call is a dirty one or a hook's, and no worker is in the Suspended arm.
HostInv ==
    /\ record.kind \in HostKinds /\ mirror.kind \in HostKinds
    /\ \A i \in 1 .. MaxCalls : callKind[i] \in HostKinds
    /\ \A w \in Workers : pc[w] # "suspended" /\ outcome[w] # "suspended"

\* A step that opens no call and does not end a slice as suspended.
HostKept ==
    /\ record' \in {record, NoCall} /\ mirror' \in {mirror, NoCall}
    /\ callKind' = callKind
    /\ \A v \in Workers : /\ pc'[v] = "suspended" => pc[v] = "suspended" \/ outcome[v] = "suspended"
                          /\ outcome'[v] = "suspended" => outcome[v] = "suspended"

\* Such a step keeps the invariant.
LEMMA HostKeptKeeps ==
    ASSUME HostInv, HostKept
    PROVE  HostInv'
BY DEF HostInv, HostKept, HostKinds, NoCall

\* A worker that opens no call keeps it; GateSuspended cannot happen.
LEMMA RunProcessHost ==
    ASSUME TypeInv, HostInv, NEW w \in Workers,
           RunProcess(w) \/ TakeMessages(w) \/ ForgetTimeout(w),
           ~SliceOpens(w),
           ~(\E kind \in {"await", "select"}, after \in BOOLEAN : GateDirtySuspend(w, kind, after))
    PROVE  HostKept
<1> USE ActorFacts, CallFacts
        DEF TypeInv, TypeOK, HostKept, Goto, bodyVars, suspVars
<1>1. CASE PopPid(w)
  BY <1>1 DEF PopPid
<1>2. CASE TakeRunnable(w)
  BY <1>2 DEF TakeRunnable
<1>3. CASE GateExited(w)
  BY <1>3 DEF GateExited
<1>4. CASE GateFree(w)
  BY <1>4 DEF GateFree, ApplyTimer
<1>5. CASE GateResult(w)
  BY <1>5 DEF GateResult, EndCall
<1>6. CASE GateNoResult(w)
  BY <1>6 DEF GateNoResult
<1>7. CASE GateStale(w)
  BY <1>7 DEF GateStale
<1>8. CASE GateHostAwait(w)
  BY <1>8 DEF GateHostAwait, ApplyTimer, EndCall
<1>9. CASE GateSuspended(w)
  BY <1>9 DEF GateSuspended, HostInv, HostKinds
<1>10. CASE TakeMessages(w)
  BY <1>10 DEF TakeMessages
<1>11. CASE ForgetTimeout(w)
  BY <1>11 DEF ForgetTimeout
<1>12. CASE Yield(w)
  BY <1>12 DEF Yield, EndSlice
<1>13. CASE Exit(w)
  BY <1>13 DEF Exit, EndSlice
<1>14. CASE SliceEnded(w)
  BY <1>14 DEF SliceEnded
<1>15. CASE StoreRunnable(w)
  BY <1>15 DEF StoreRunnable
<1>16. CASE AfterStore(w)
  BY <1>16 DEF AfterStore
<1>17. CASE RequeueArm(w)
  BY <1>17 DEF RequeueArm
<1>18. CASE RegisterArm(w)
  BY <1>18 DEF RegisterArm
<1>19. CASE DeathRecheck(w)
  BY <1>19 DEF DeathRecheck
<1>20. CASE Withdraw(w)
  BY <1>20 DEF Withdraw
<1>21. CASE Recheck(w)
  BY <1>21 DEF Recheck, WakeWorthy, HasConsumable, Gated, HasQueuedMessages
<1>22. CASE SelfWake(w)
  BY <1>22 DEF SelfWake
<1>23. CASE EventCheck(w)
  BY <1>23 DEF EventCheck, HasConsumable
<1>24. CASE Fallback(w)
  BY <1>24 DEF Fallback, MoveToWoken, HasConsumable
<1>25. ASSUME NEW after \in BOOLEAN, ReceiveWaits(w, after) PROVE HostKept
  BY <1>25 DEF ReceiveWaits, EndSlice
<1> HIDE DEF HostKept, TypeInv
<1>26. QED
  BY <1>1, <1>2, <1>3, <1>4, <1>5, <1>6, <1>7, <1>8, <1>9, <1>10, <1>11, <1>12, <1>13, <1>14,
     <1>15, <1>16, <1>17, <1>18, <1>19, <1>20, <1>21, <1>22, <1>23, <1>24, <1>25 DEF RunProcess,
     Gate, Slice, SliceOpens

\* So do the shared routines.
LEMMA RoutineHost ==
    ASSUME TypeInv, NEW a \in Actors, Routine(a)
    PROVE  HostKept
<1> USE ActorFacts, CallFacts
        DEF TypeInv, TypeOK, HostKept, Goto, Finish, Refused, bodyVars, suspVars
<1>1. CASE WakeCheck(a)
  BY <1>1 DEF WakeCheck, BlocksWake, Gated, HasConsumable
<1>2. CASE WakeMove(a)
  BY <1>2 DEF WakeMove, MoveToWoken
<1>3. CASE ResumeCheck(a)
  BY <1>3 DEF ResumeCheck, HasConsumable
<1>4. CASE ResumeFlip(a)
  BY <1>4 DEF ResumeFlip
<1>5. CASE ResumeMove(a)
  BY <1>5 DEF ResumeMove, MoveToWoken
<1>6. CASE Tombstone(a)
  BY <1>6 DEF Tombstone
<1>7. CASE TakeTableToken(a)
  BY <1>7 DEF TakeTableToken
<1>8. CASE TakeBody(a)
  BY <1>8 DEF TakeBody
<1>9. CASE SweepWaitSet(a)
  BY <1>9 DEF SweepWaitSet
<1>10. CASE DropMarks(a)
  BY <1>10 DEF DropMarks
<1>11. CASE Purge(a)
  BY <1>11 DEF Purge
<1> HIDE DEF HostKept, TypeInv
<1>12. QED
  BY <1>1, <1>2, <1>3, <1>4, <1>5, <1>6, <1>7, <1>8, <1>9, <1>10, <1>11 DEF Routine

\* So do the other threads.
LEMMA OtherHost ==
    ASSUME TypeInv,
           \/ \E c \in Calls : Publish(c)
           \/ \E k \in Killers : Kill(k)
           \/ DrainWoken \/ Deliver \/ TimerStep \/ ResumeProcess \/ Resume
    PROVE  HostKept
<1> USE ActorFacts, CallFacts
        DEF TypeInv, TypeOK, HostKept, Goto, Finish, bodyVars, suspVars
<1>1. CASE DrainWoken
  BY <1>1 DEF DrainWoken
<1>2. CASE Deliver
  BY <1>2 DEF Deliver
<1>3. CASE MarkCheck
  BY <1>3 DEF MarkCheck
<1>4. CASE WithdrawMark
  BY <1>4 DEF WithdrawMark
<1>5. CASE ResumeProcess
  BY <1>5 DEF ResumeProcess
<1>6. CASE InsertResume
  BY <1>6 DEF InsertResume
<1>7. CASE ResumeLive
  BY <1>7 DEF ResumeLive
<1>8. CASE WithdrawResume
  BY <1>8 DEF WithdrawResume
<1>9. ASSUME NEW t \in wheel, TimerExpires(t) PROVE HostKept
  BY <1>9 DEF TimerExpires
<1>10. ASSUME NEW c \in Calls, PublishCheck(c) PROVE HostKept
  BY <1>10 DEF PublishCheck
<1>11. ASSUME NEW c \in Calls, PublishInsert(c) PROVE HostKept
  BY <1>11 DEF PublishInsert
<1>12. ASSUME NEW c \in Calls, PublishLiveCheck(c) PROVE HostKept
  BY <1>12 DEF PublishLiveCheck
<1>13. ASSUME NEW c \in Calls, WithdrawResult(c) PROVE HostKept
  BY <1>13 DEF WithdrawResult
<1>14. ASSUME NEW c \in Calls, PublisherWakes(c) PROVE HostKept
  BY <1>14 DEF PublisherWakes
<1>15. ASSUME NEW k \in Killers, ExitSignal(k) PROVE HostKept
  BY <1>15 DEF ExitSignal, TerminateBody
<1>16. ASSUME NEW k \in Killers, CascadeKill(k) PROVE HostKept
  BY <1>16 DEF CascadeKill, TerminateBody
<1>17. ASSUME NEW k \in Killers, TerminateProcess(k) PROVE HostKept
  BY <1>17 DEF TerminateProcess
<1> HIDE DEF HostKept, TypeInv
<1>18. QED
  BY <1>1, <1>2, <1>3, <1>4, <1>5, <1>6, <1>7, <1>8, <1>9, <1>10, <1>11, <1>12, <1>13, <1>14,
     <1>15, <1>16, <1>17 DEF Publish, Kill, TimerStep, Resume

\* A call that is opened is of one of the host's kinds; no call is a dirty one,
\* so none is taken up by apply_dirty_suspend.
LEMMA OpensKeepHost ==
    ASSUME HostParksOnly, TypeInv, HostInv, NEW w \in Workers,
           \/ SliceOpens(w)
           \/ \E kind \in {"await", "select"}, after \in BOOLEAN : GateDirtySuspend(w, kind, after)
    PROVE  HostInv'
<1> USE ActorFacts, CallFacts, CountsAssumption DEF TypeInv, TypeOK
<1>1. ASSUME NEW after \in BOOLEAN, NEW kind \in {"await", "select"}, SuspendsOnHost(w, kind, after)
     PROVE  HostInv'
  <2>1. \A v \in Workers : pc'[v] # "suspended"
    BY <1>1 DEF SuspendsOnHost, HostInv
  <2>2. \A v \in Workers : outcome'[v] # "suspended"
    BY <1>1 DEF SuspendsOnHost, EndSlice, HostInv
  <2>3. record'.kind \in HostKinds /\ mirror'.kind \in HostKinds
    BY <1>1 DEF SuspendsOnHost, OpenCall, NewCall, HostKinds
  <2>4. \A i \in 1 .. MaxCalls : callKind'[i] \in HostKinds
    BY <1>1 DEF SuspendsOnHost, OpenCall, HostInv, HostKinds
  <2>5. QED
    BY <2>1, <2>2, <2>3, <2>4 DEF HostInv
<1>2. ~DirtyCall(w) /\ ~HookSuspends(w)
  BY DEF HostParksOnly, DirtyCall, HookSuspends
<1>3. ASSUME NEW after \in BOOLEAN, NEW kind \in {"await", "select"}, GateDirtySuspend(w, kind, after)
     PROVE  FALSE
  BY <1>3 DEF GateDirtySuspend, HostInv, HostKinds
<1>4. QED
  BY <1>1, <1>2, <1>3 DEF SliceOpens

\* HostInv is inductive, given the types.
LEMMA HostInductive ==
    ASSUME HostParksOnly
    PROVE  Spec => []HostInv
<1>1. Init => HostInv
  BY ActorFacts DEF Init, HostInv, HostKinds, NoCall
<1>2. TypeInv /\ HostInv /\ [Next]_vars => HostInv'
  <2> SUFFICES ASSUME TypeInv, HostInv, [Next]_vars PROVE HostInv'
    OBVIOUS
  <2>1. CASE UNCHANGED vars
    BY <2>1 DEF vars, HostInv, bodyVars, suspVars
  <2>2. CASE HostKept
    BY <2>2, HostKeptKeeps
  <2>3. QED
    BY <2>1, <2>2, RunProcessHost, RoutineHost, OtherHost, OpensKeepHost DEF Next
<1>3. QED
  BY <1>1, <1>2, TypesInductive, PTL DEF Spec

\* A thread that is about to wake the process, or to look whether it must.
Waking == {"deathRecheck", "recheck", "selfWake", "wakeCheck", "wakeMove", "markCheck", "liveCheck",
           "published"}

\* A thread is about to take the process out of the table.
Ending == {"tombstone", "finalize"}

\* A live process is in the woken list or a run queue, held by a worker, about
\* to be finalized, or registered; and once something it waits for has happened
\* to a registered process, somebody is on the way to see it.
WakeInv ==
    inTable => \/ woken + queued > 0
               \/ \E w \in Workers : Holds(w)
               \/ \E a \in Actors : pc[a] \in Ending
               \/ waiting # NoWorker /\ (WakeWorthy => \E a \in Actors : pc[a] \in Waking)

\* A step that takes no entry, holder or waker away and lets nothing happen
\* that the process waits for.
WakeKept ==
    /\ inTable' => inTable
    /\ woken + queued > 0 => woken' + queued' > 0
    /\ waiting' = waiting
    /\ WakeWorthy' => WakeWorthy
    /\ \A v \in Workers : Holds(v) => Holds(v)'
    /\ \A a \in Actors : /\ pc[a] \in Ending => pc'[a] \in Ending
                         /\ pc[a] \in Waking => pc'[a] \in Waking

\* Such a step keeps the invariant.
LEMMA WakeKeptKeeps ==
    ASSUME WakeInv, WakeKept
    PROVE  WakeInv'
<1> SUFFICES ASSUME inTable' PROVE WakeInv'
  BY DEF WakeInv
<1>1. CASE woken + queued > 0 \/ \E w \in Workers : Holds(w)
  BY <1>1 DEF WakeKept, WakeInv
<1>2. CASE \E a \in Actors : pc[a] \in Ending
  BY <1>2 DEF WakeKept, WakeInv
<1>3. CASE waiting # NoWorker /\ (WakeWorthy => \E a \in Actors : pc[a] \in Waking)
  <2>1. waiting' # NoWorker
    BY <1>3 DEF WakeKept
  <2>2. WakeWorthy' => \E a \in Actors : pc'[a] \in Waking
    BY <1>3 DEF WakeKept
  <2>3. QED
    BY <2>1, <2>2 DEF WakeInv
<1>4. QED
  BY <1>1, <1>2, <1>3 DEF WakeKept, WakeInv

\* What the recheck looks at does not change when these variables do not.
LEMMA SameWakeWorthy ==
    ASSUME UNCHANGED <<mirror, result, resume, marks, slot>>, mail' = mail
    PROVE  WakeWorthy' => WakeWorthy
BY DEF WakeWorthy, HasConsumable, Gated, HasQueuedMessages

\* An actor that takes the registration away puts an entry in its place.
LEMMA TakingKeepsWake ==
    ASSUME TypeInv, WakeInv, NEW a \in Actors, NEW label \in Labels,
           pc[a] \in {"selfWake", "wakeMove", "resumeMove", "fallback"},
           pc' = [pc EXCEPT ![a] = label],
           inTable' => inTable, waiting' = NoWorker,
           woken' + queued' = woken + queued + (IF waiting = NoWorker THEN 0 ELSE 1)
    PROVE  WakeInv'
<1> USE ActorFacts
<1>0. woken + queued \in Nat /\ pc \in [Actors -> Labels]
  BY NatPlus DEF TypeInv, TypeOK
<1>1. CASE waiting # NoWorker
  <2>1. woken' + queued' > 0
    BY <1>0, <1>1
  <2>2. QED
    BY <2>1 DEF WakeInv
<1>2. CASE waiting = NoWorker
  <2>1. woken' + queued' = woken + queued
    BY <1>0, <1>2
  <2>2. \A v \in Workers : Holds(v) => Holds(v)'
    BY <1>0 DEF Holds
  <2>3. \A b \in Actors : pc[b] \in Ending => pc'[b] \in Ending
    BY <1>0 DEF Ending
  <2>4. QED
    BY <1>2, <2>1, <2>2, <2>3 DEF WakeInv
<1>3. QED
  BY <1>1, <1>2

\* A step of the worker that holds the process, after which it still does.
LEMMA HoldingKeepsWake ==
    ASSUME NEW w \in Workers, Holds(w)'
    PROVE  WakeInv'
BY DEF WakeInv

\* Somebody is on the way, and the registration stays.
LEMMA WakingKeepsWake ==
    ASSUME TypeInv, WakeInv, NEW a \in Actors, NEW label \in Waking,
           pc[a] \notin Ending, a \in Workers => ~Holds(a),
           pc' = [pc EXCEPT ![a] = label],
           inTable' => inTable, UNCHANGED <<waiting, woken, queued>>
    PROVE  WakeInv'
<1> USE ActorFacts
<1>0. pc \in [Actors -> Labels]
  BY DEF TypeInv, TypeOK
<1>1. pc'[a] \in Waking
  BY <1>0
<1>2. \A v \in Workers : Holds(v) => Holds(v)'
  BY <1>0 DEF Holds
<1>3. \A b \in Actors : pc[b] \in Ending => pc'[b] \in Ending
  BY <1>0
<1>4. QED
  BY <1>1, <1>2, <1>3 DEF WakeInv

\* A worker that runs the process, parks it or rechecks after it has parked it.
\* TakeRunnable finds the body: the pid was popped, so nobody else has it.
LEMMA RunProcessWake ==
    ASSUME TypeInv, ScheduledOnce, BodyInv, ResultInv, HostInv, WakeInv, NEW w \in Workers,
           RunProcess(w) \/ TakeMessages(w) \/ ForgetTimeout(w)
    PROVE  WakeInv'
<1> USE ActorFacts, CallFacts
<1>0. pc \in [Actors -> Labels] /\ woken \in Nat /\ queued \in Nat /\ calls \in 0 .. MaxCalls
  BY DEF TypeInv, TypeOK
<1>1. CASE PopPid(w)
  <2>1. inTable => Holds(w)'
    BY <1>0, <1>1 DEF PopPid, Goto, Holds
  <2>2. inTable' = inTable
    BY <1>1 DEF PopPid, deathVars
  <2>3. QED
    BY <2>1, <2>2 DEF WakeInv
<1>2. CASE TakeRunnable(w)
  <2>1. inTable' = inTable
    BY <1>2 DEF TakeRunnable, deathVars
  <2>2. CASE slot = "Present"
    <3>1. Holds(w)'
      BY <1>0, <2>2, <1>2 DEF TakeRunnable, Goto, Holds
    <3>2. QED
      BY <3>1, HoldingKeepsWake
  <2>3. CASE slot = "Executing"
    <3>1. PICK v \in Workers : HoldsBody(v)
      BY <2>3 DEF BodyInv, SlotTellsWhoHolds
    <3>2. Holds(v) /\ Holds(w) /\ v # w
      BY <3>1, <1>2 DEF TakeRunnable, HoldsBody, Holds
    <3>3. QED
      BY <3>2 DEF ScheduledOnce
  <2>4. CASE slot = "Gone"
    BY <2>1, <2>4 DEF ResultInv, DeadFirst, WakeInv
  <2>5. QED
    BY <2>2, <2>3, <2>4 DEF TypeInv, TypeOK
<1>3. CASE GateExited(w)
  <2>1. Holds(w)'
    BY <1>0, <1>3 DEF GateExited, Goto, Holds
  <2>2. QED
    BY <2>1, HoldingKeepsWake
<1>4. CASE GateFree(w)
  <2>1. Holds(w)'
    BY <1>0, <1>4 DEF GateFree, Goto, Holds
  <2>2. QED
    BY <2>1, HoldingKeepsWake
<1>5. CASE GateResult(w)
  <2>1. Holds(w)'
    BY <1>0, <1>5 DEF GateResult, Goto, Holds
  <2>2. QED
    BY <2>1, HoldingKeepsWake
<1>6. CASE GateNoResult(w)
  <2>1. Holds(w)'
    BY <1>0, <1>6 DEF GateNoResult, Goto, Holds
  <2>2. QED
    BY <2>1, HoldingKeepsWake
<1>7. CASE GateStale(w)
  <2>1. Holds(w)'
    BY <1>0, <1>7 DEF GateStale, Goto, Holds
  <2>2. QED
    BY <2>1, HoldingKeepsWake
<1>8. CASE GateHostAwait(w)
  <2>1. Holds(w)'
    BY <1>0, <1>8 DEF GateHostAwait, EndCall, Goto, Holds
  <2>2. QED
    BY <2>1, HoldingKeepsWake
<1>9. CASE GateSuspended(w)
  <2>1. Holds(w)'
    BY <1>0, <1>9 DEF GateSuspended, EndCall, Goto, Holds
  <2>2. QED
    BY <2>1, HoldingKeepsWake
<1>10. CASE TakeMessages(w)
  <2>1. Holds(w)'
    BY <1>0, <1>10 DEF TakeMessages, Goto, Holds
  <2>2. QED
    BY <2>1, HoldingKeepsWake
<1>11. CASE ForgetTimeout(w)
  <2>1. Holds(w)'
    BY <1>0, <1>11 DEF ForgetTimeout, Goto, Holds
  <2>2. QED
    BY <2>1, HoldingKeepsWake
<1>12. CASE Yield(w)
  <2>1. Holds(w)'
    BY <1>0, <1>12 DEF Yield, Goto, Holds
  <2>2. QED
    BY <2>1, HoldingKeepsWake
<1>13. CASE Exit(w)
  <2>1. Holds(w)'
    BY <1>0, <1>13 DEF Exit, Goto, Holds
  <2>2. QED
    BY <2>1, HoldingKeepsWake
<1>14. CASE DirtyCall(w)
  <2>1. Holds(w)'
    BY <1>0, <1>14 DEF DirtyCall, Goto, Holds
  <2>2. QED
    BY <2>1, HoldingKeepsWake
<1>15. CASE HookSuspends(w)
  <2>1. Holds(w)'
    BY <1>0, <1>15 DEF HookSuspends, Goto, Holds
  <2>2. QED
    BY <2>1, HoldingKeepsWake
<1>16. CASE SliceEnded(w)
  <2>1. Holds(w)'
    BY <1>0, <1>16 DEF SliceEnded, Goto, Holds
  <2>2. QED
    BY <2>1, HoldingKeepsWake
<1>17. CASE StoreRunnable(w)
  <2>1. Holds(w)'
    BY <1>0, <1>17 DEF StoreRunnable, Goto, Holds
  <2>2. QED
    BY <2>1, HoldingKeepsWake
<1>18. CASE AfterStore(w)
  <2>1. outcome[w] \in {"requeue", "wait", "exited"}
    BY <1>18 DEF AfterStore, HostInv, TypeInv, TypeOK, OutcomeKnown
  <2>2. pc'[w] \in Ending \cup {"requeue", "wait"}
    BY <1>0, <2>1, <1>18 DEF AfterStore, Goto, Ending
  <2>3. QED
    BY <2>2 DEF WakeInv, Holds
<1>19. CASE RequeueArm(w)
  <2>1. woken' + queued' > 0
    BY <1>0, <1>19 DEF RequeueArm
  <2>2. QED
    BY <2>1 DEF WakeInv
<1>20. CASE RegisterArm(w)
  <2>1. waiting' # NoWorker /\ pc'[w] = "deathRecheck"
    BY <1>0, <1>20 DEF RegisterArm, Goto, HostInv
  <2>2. QED
    BY <2>1 DEF WakeInv, Waking
<1>21. CASE DeathRecheck(w)
  <2>1. CASE inTable
    <3>1. /\ pc' = [pc EXCEPT ![w] = "recheck"]
          /\ inTable' = inTable /\ UNCHANGED <<waiting, woken, queued>>
      BY <1>21, <2>1 DEF DeathRecheck, Goto, deathVars, waitVars
    <3>2. pc[w] = "deathRecheck"
      BY <1>21 DEF DeathRecheck
    <3>3. QED
      BY <3>1, <3>2, WakingKeepsWake DEF Waking, Ending, Holds
  <2>2. CASE ~inTable
    BY <1>21, <2>2 DEF DeathRecheck, deathVars, WakeInv
  <2>3. QED
    BY <2>1, <2>2
<1>22. CASE Withdraw(w)
  BY <1>22 DEF Withdraw, deathVars, WakeInv, ResultInv, DeadFirst, Dying
<1>23. CASE Recheck(w)
  <2>1. CASE WakeWorthy
    <3>1. /\ pc' = [pc EXCEPT ![w] = "selfWake"]
          /\ inTable' = inTable /\ UNCHANGED <<waiting, woken, queued>>
      BY <1>23, <2>1 DEF Recheck, Goto, deathVars, waitVars
    <3>2. pc[w] = "recheck"
      BY <1>23 DEF Recheck
    <3>3. QED
      BY <3>1, <3>2, WakingKeepsWake DEF Waking, Ending, Holds
  <2>2. CASE ~WakeWorthy
    <3>1. ~WakeWorthy'
      <4>1. UNCHANGED <<mirror, result, resume, marks, slot>> /\ mail' = mail
        BY <1>23 DEF Recheck, bodyVars, suspVars, timerVars
      <4>2. QED
        BY <2>2, <4>1, SameWakeWorthy
    <3>2. /\ \A v \in Workers : Holds(v) => Holds(v)'
          /\ \A b \in Actors : pc[b] \in Ending => pc'[b] \in Ending
      BY <1>0, <1>23 DEF Recheck, Goto, Holds, Ending
    <3>3. inTable' = inTable /\ UNCHANGED <<waiting, woken, queued>>
      BY <1>23 DEF Recheck, deathVars, waitVars
    <3>4. QED
      BY <3>1, <3>2, <3>3 DEF WakeInv
  <2>3. QED
    BY <2>1, <2>2
<1>24. CASE SelfWake(w)
  <2>1. /\ pc[w] = "selfWake" /\ pc' = [pc EXCEPT ![w] = "idle"]
        /\ inTable' = inTable /\ waiting' = NoWorker
        /\ woken' + queued' = woken + queued + (IF waiting = NoWorker THEN 0 ELSE 1)
    BY <1>0, <1>24 DEF SelfWake, Goto, deathVars
  <2>2. QED
    BY <2>1, TakingKeepsWake DEF Labels
<1>25. CASE EventCheck(w)
  <2>1. WakeKept
    <3>1. UNCHANGED <<mirror, result, resume, marks, slot>> /\ mail' = mail
      BY <1>25 DEF EventCheck, bodyVars, suspVars, timerVars
    <3>2. /\ \A v \in Workers : Holds(v) => Holds(v)'
          /\ \A b \in Actors : /\ pc[b] \in Ending => pc'[b] \in Ending
                               /\ pc[b] \in Waking => pc'[b] \in Waking
      BY <1>0, <1>25 DEF EventCheck, Goto, Holds, Ending, Waking
    <3>3. inTable' = inTable /\ UNCHANGED <<waiting, woken, queued>>
      BY <1>25 DEF EventCheck, deathVars, waitVars
    <3>4. QED
      BY <3>1, <3>2, <3>3, SameWakeWorthy DEF WakeKept
  <2>2. QED
    BY <2>1, WakeKeptKeeps
<1>26. CASE Fallback(w)
  <2>1. inTable' = inTable /\ pc[w] = "fallback" /\ pc' = [pc EXCEPT ![w] = "idle"]
    BY <1>26 DEF Fallback, Goto, deathVars
  <2>2. CASE HasConsumable
    <3>1. /\ waiting' = NoWorker
          /\ woken' + queued' = woken + queued + (IF waiting = NoWorker THEN 0 ELSE 1)
      BY <1>0, <2>2, <1>26 DEF Fallback, MoveToWoken
    <3>2. QED
      BY <2>1, <3>1, TakingKeepsWake DEF Labels
  <2>3. CASE ~HasConsumable
    <3>1. UNCHANGED <<mirror, result, resume, marks, slot>> /\ mail' = mail
      BY <1>26 DEF Fallback, bodyVars, suspVars, timerVars
    <3>2. /\ \A v \in Workers : Holds(v) => Holds(v)'
          /\ \A b \in Actors : /\ pc[b] \in Ending => pc'[b] \in Ending
                               /\ pc[b] \in Waking => pc'[b] \in Waking
      BY <1>0, <2>1 DEF Holds, Ending, Waking
    <3>3. UNCHANGED <<waiting, woken, queued>>
      BY <2>3, <1>26 DEF Fallback, waitVars
    <3>4. WakeKept
      BY <2>1, <3>1, <3>2, <3>3, SameWakeWorthy DEF WakeKept
    <3>5. QED
      BY <3>4, WakeKeptKeeps
  <2>4. QED
    BY <2>2, <2>3
<1>27. ASSUME NEW after \in BOOLEAN, ReceiveWaits(w, after) PROVE WakeInv'
  <2>1. Holds(w)'
    BY <1>0, <1>27 DEF ReceiveWaits, Goto, Holds
  <2>2. QED
    BY <2>1, HoldingKeepsWake
<1>28. ASSUME NEW after \in BOOLEAN, NEW kind \in {"await", "select"}, SuspendsOnHost(w, kind, after)
     PROVE  WakeInv'
  <2>1. Holds(w)'
    BY <1>0, <1>28 DEF SuspendsOnHost, Goto, Holds
  <2>2. QED
    BY <2>1, HoldingKeepsWake
<1>29. ASSUME NEW after \in BOOLEAN, NEW kind \in {"await", "select"}, GateDirtySuspend(w, kind, after)
     PROVE  WakeInv'
  <2>1. Holds(w)'
    BY <1>0, <1>29 DEF GateDirtySuspend, Goto, Holds
  <2>2. QED
    BY <2>1, HoldingKeepsWake
<1>30. QED
  BY <1>1, <1>2, <1>3, <1>4, <1>5, <1>6, <1>7, <1>8, <1>9, <1>10, <1>11, <1>12, <1>13, <1>14,
     <1>15, <1>16, <1>17, <1>18, <1>19, <1>20, <1>21, <1>22, <1>23, <1>24, <1>25, <1>26, <1>27,
     <1>28, <1>29 DEF RunProcess, Gate, Slice

\* wake_process gives up only when the gate says that nothing has happened; the
\* finalization is a dead process's.
LEMMA RoutineWake ==
    ASSUME TypeInv, ResultInv, WakeInv, NEW a \in Actors, Routine(a)
    PROVE  WakeInv'
<1> USE ActorFacts, CallFacts
<1>0. pc \in [Actors -> Labels] /\ woken \in Nat /\ queued \in Nat
  BY DEF TypeInv, TypeOK
<1>1. CASE WakeCheck(a)
  <2>1. pc[a] = "wakeCheck" /\ inTable' = inTable /\ UNCHANGED <<waiting, woken, queued>>
    BY <1>1 DEF WakeCheck, deathVars, waitVars
  <2>2. CASE BlocksWake
    <3>1. ~WakeWorthy'
      <4>1. UNCHANGED <<mirror, result, resume, marks, slot>> /\ mail' = mail
        BY <1>1 DEF WakeCheck, bodyVars, suspVars, timerVars
      <4>2. ~WakeWorthy
        BY <2>2 DEF BlocksWake, WakeWorthy
      <4>3. QED
        BY <4>1, <4>2, SameWakeWorthy
    <3>2. /\ \A v \in Workers : Holds(v) => Holds(v)'
          /\ \A b \in Actors : pc[b] \in Ending => pc'[b] \in Ending
      BY <1>0, <2>2, <1>1 DEF WakeCheck, Goto, Finish, Holds, Ending
    <3>3. QED
      BY <2>1, <3>1, <3>2 DEF WakeInv
  <2>3. CASE ~BlocksWake
    <3>1. pc' = [pc EXCEPT ![a] = "wakeMove"]
      BY <2>3, <1>1 DEF WakeCheck, Goto
    <3>2. QED
      BY <2>1, <3>1, WakingKeepsWake DEF Waking, Ending, Holds
  <2>4. QED
    BY <2>2, <2>3
<1>2. CASE WakeMove(a)
  <2>1. /\ pc[a] = "wakeMove" /\ inTable' = inTable /\ waiting' = NoWorker
        /\ woken' + queued' = woken + queued + (IF waiting = NoWorker THEN 0 ELSE 1)
    BY <1>0, <1>2 DEF WakeMove, MoveToWoken, deathVars
  <2>2. \E label \in Labels : pc' = [pc EXCEPT ![a] = label]
    BY <1>2 DEF WakeMove, Goto, Finish, Refused, Labels
  <2>3. QED
    BY <2>1, <2>2, TakingKeepsWake
<1>3. CASE ResumeCheck(a)
  <2>1. WakeKept
    <3>1. WakeWorthy' => WakeWorthy
      <4>1. UNCHANGED <<mirror, result, resume, marks, slot>> /\ mail' = mail
        BY <1>3 DEF ResumeCheck, bodyVars, suspVars, timerVars
      <4>2. QED
        BY <4>1, SameWakeWorthy
    <3>2. /\ \A v \in Workers : Holds(v) => Holds(v)'
          /\ \A b \in Actors : /\ pc[b] \in Ending => pc'[b] \in Ending
                               /\ pc[b] \in Waking => pc'[b] \in Waking
      BY <1>0, <1>3 DEF ResumeCheck, Goto, Finish, Refused, Holds, Ending, Waking
    <3>3. /\ inTable' => inTable
          /\ woken + queued > 0 => woken' + queued' > 0
          /\ waiting' = waiting
      BY <1>0, <1>3 DEF ResumeCheck, deathVars, waitVars
    <3>4. QED
      BY <3>1, <3>2, <3>3 DEF WakeKept
  <2>2. QED
    BY <2>1, WakeKeptKeeps
<1>4. CASE ResumeFlip(a)
  <2>1. WakeKept
    <3>1. WakeWorthy' => WakeWorthy
      <4>1. UNCHANGED <<mirror, result, resume, marks, slot>> /\ mail' = mail
        BY <1>4 DEF ResumeFlip, bodyVars, suspVars, timerVars
      <4>2. QED
        BY <4>1, SameWakeWorthy
    <3>2. /\ \A v \in Workers : Holds(v) => Holds(v)'
          /\ \A b \in Actors : /\ pc[b] \in Ending => pc'[b] \in Ending
                               /\ pc[b] \in Waking => pc'[b] \in Waking
      BY <1>0, <1>4 DEF ResumeFlip, Goto, Finish, Refused, Holds, Ending, Waking
    <3>3. /\ inTable' => inTable
          /\ woken + queued > 0 => woken' + queued' > 0
          /\ waiting' = waiting
      BY <1>0, <1>4 DEF ResumeFlip, deathVars, waitVars
    <3>4. QED
      BY <3>1, <3>2, <3>3 DEF WakeKept
  <2>2. QED
    BY <2>1, WakeKeptKeeps
<1>5. CASE ResumeMove(a)
  <2>1. /\ pc[a] = "resumeMove" /\ inTable' = inTable /\ waiting' = NoWorker
        /\ woken' + queued' = woken + queued + (IF waiting = NoWorker THEN 0 ELSE 1)
    BY <1>0, <1>5 DEF ResumeMove, MoveToWoken, deathVars
  <2>2. \E label \in Labels : pc' = [pc EXCEPT ![a] = label]
    BY <1>5 DEF ResumeMove, Goto, Finish, Refused, Labels
  <2>3. QED
    BY <2>1, <2>2, TakingKeepsWake
<1>6. CASE Tombstone(a)
  <2>1. pc'[a] \in Ending
    BY <1>0, <1>6 DEF Tombstone, Goto, Ending
  <2>2. QED
    BY <2>1 DEF WakeInv
<1>7. CASE TakeTableToken(a)
  BY <1>7 DEF TakeTableToken, WakeInv
<1>8. CASE TakeBody(a)
  BY <1>8 DEF TakeBody, deathVars, WakeInv, ResultInv, DeadFirst, Dying
<1>9. CASE SweepWaitSet(a)
  BY <1>9 DEF SweepWaitSet, deathVars, WakeInv, ResultInv, DeadFirst, Dying
<1>10. CASE DropMarks(a)
  BY <1>10 DEF DropMarks, deathVars, WakeInv, ResultInv, DeadFirst, Dying
<1>11. CASE Purge(a)
  BY <1>11 DEF Purge, deathVars, WakeInv, ResultInv, DeadFirst, Dying
<1>12. QED
  BY <1>1, <1>2, <1>3, <1>4, <1>5, <1>6, <1>7, <1>8, <1>9, <1>10, <1>11 DEF Routine

\* A thread that makes something happen is itself on the way to wake the process,
\* and a resume is nothing that a host call waits for.
LEMMA OtherWake ==
    ASSUME TypeInv, ResultInv, HostInv, WakeInv,
           \/ \E c \in Calls : Publish(c)
           \/ \E k \in Killers : Kill(k)
           \/ DrainWoken \/ Deliver \/ TimerStep \/ ResumeProcess \/ Resume
    PROVE  WakeInv'
<1> USE ActorFacts, CallFacts
<1>0. pc \in [Actors -> Labels] /\ woken \in Nat /\ queued \in Nat
  BY DEF TypeInv, TypeOK
<1>1. CASE DrainWoken
  <2>1. woken' + queued' > 0
    BY <1>0, <1>1 DEF DrainWoken
  <2>2. QED
    BY <2>1 DEF WakeInv
<1>2. CASE Deliver
  <2>1. /\ pc[Sender] = "idle" /\ pc' = [pc EXCEPT ![Sender] = "wakeCheck"]
        /\ inTable' = inTable /\ UNCHANGED <<waiting, woken, queued>>
    BY <1>2 DEF Deliver, Goto, deathVars, waitVars
  <2>2. QED
    BY <2>1, WakingKeepsWake DEF Waking, Ending, Holds
<1>3. CASE MarkCheck
  <2>1. inTable' = inTable /\ UNCHANGED <<waiting, woken, queued>>
    BY <1>3 DEF MarkCheck, deathVars, waitVars
  <2>2. CASE inTable
    <3>1. pc[TimerThread] = "markCheck" /\ pc' = [pc EXCEPT ![TimerThread] = "wakeMove"]
      BY <1>3, <2>2 DEF MarkCheck, Goto
    <3>2. QED
      BY <2>1, <3>1, WakingKeepsWake DEF Waking, Ending, Holds
  <2>3. CASE ~inTable
    BY <2>1, <2>3 DEF WakeInv
  <2>4. QED
    BY <2>2, <2>3
<1>4. CASE WithdrawMark
  <2>1. WakeKept
    <3>1. WakeWorthy' => WakeWorthy
      BY <1>4 DEF WithdrawMark, bodyVars, suspVars, WakeWorthy, HasConsumable, Gated,
         HasQueuedMessages
    <3>2. /\ \A v \in Workers : Holds(v) => Holds(v)'
          /\ \A b \in Actors : /\ pc[b] \in Ending => pc'[b] \in Ending
                               /\ pc[b] \in Waking => pc'[b] \in Waking
      BY <1>0, <1>4 DEF WithdrawMark, Goto, Finish, Refused, Holds, Ending, Waking
    <3>3. /\ inTable' => inTable
          /\ woken + queued > 0 => woken' + queued' > 0
          /\ waiting' = waiting
      BY <1>0, <1>4 DEF WithdrawMark, deathVars, waitVars
    <3>4. QED
      BY <3>1, <3>2, <3>3 DEF WakeKept
  <2>2. QED
    BY <2>1, WakeKeptKeeps
<1>5. CASE ResumeProcess
  <2>1. WakeKept
    <3>1. WakeWorthy' => WakeWorthy
      <4>1. UNCHANGED <<mirror, result, resume, marks, slot>> /\ mail' = mail
        BY <1>5 DEF ResumeProcess, bodyVars, suspVars, timerVars
      <4>2. QED
        BY <4>1, SameWakeWorthy
    <3>2. /\ \A v \in Workers : Holds(v) => Holds(v)'
          /\ \A b \in Actors : /\ pc[b] \in Ending => pc'[b] \in Ending
                               /\ pc[b] \in Waking => pc'[b] \in Waking
      BY <1>0, <1>5 DEF ResumeProcess, Goto, Finish, Refused, Holds, Ending, Waking
    <3>3. /\ inTable' => inTable
          /\ woken + queued > 0 => woken' + queued' > 0
          /\ waiting' = waiting
      BY <1>0, <1>5 DEF ResumeProcess, deathVars, waitVars
    <3>4. QED
      BY <3>1, <3>2, <3>3 DEF WakeKept
  <2>2. QED
    BY <2>1, WakeKeptKeeps
<1>6. CASE InsertResume
  <2>1. WakeKept
    <3>1. WakeWorthy' => WakeWorthy
      <4>1. UNCHANGED <<mirror, result, marks, slot>> /\ mail' = mail /\ mirror.kind # "hook"
        BY <1>6 DEF InsertResume, bodyVars, timerVars, HostInv, HostKinds
      <4>2. QED
        BY <4>1 DEF WakeWorthy, HasConsumable, Gated, HasQueuedMessages
    <3>2. /\ \A v \in Workers : Holds(v) => Holds(v)'
          /\ \A b \in Actors : /\ pc[b] \in Ending => pc'[b] \in Ending
                               /\ pc[b] \in Waking => pc'[b] \in Waking
      BY <1>0, <1>6 DEF InsertResume, Goto, Finish, Refused, Holds, Ending, Waking
    <3>3. /\ inTable' => inTable
          /\ woken + queued > 0 => woken' + queued' > 0
          /\ waiting' = waiting
      BY <1>0, <1>6 DEF InsertResume, deathVars, waitVars
    <3>4. QED
      BY <3>1, <3>2, <3>3 DEF WakeKept
  <2>2. QED
    BY <2>1, WakeKeptKeeps
<1>7. CASE ResumeLive
  <2>1. WakeKept
    <3>1. WakeWorthy' => WakeWorthy
      <4>1. UNCHANGED <<mirror, result, resume, marks, slot>> /\ mail' = mail
        BY <1>7 DEF ResumeLive, bodyVars, suspVars, timerVars
      <4>2. QED
        BY <4>1, SameWakeWorthy
    <3>2. /\ \A v \in Workers : Holds(v) => Holds(v)'
          /\ \A b \in Actors : /\ pc[b] \in Ending => pc'[b] \in Ending
                               /\ pc[b] \in Waking => pc'[b] \in Waking
      BY <1>0, <1>7 DEF ResumeLive, Goto, Finish, Refused, Holds, Ending, Waking
    <3>3. /\ inTable' => inTable
          /\ woken + queued > 0 => woken' + queued' > 0
          /\ waiting' = waiting
      BY <1>0, <1>7 DEF ResumeLive, deathVars, waitVars
    <3>4. QED
      BY <3>1, <3>2, <3>3 DEF WakeKept
  <2>2. QED
    BY <2>1, WakeKeptKeeps
<1>8. CASE WithdrawResume
  <2>1. WakeKept
    <3>1. WakeWorthy' => WakeWorthy
      <4>1. UNCHANGED <<mirror, result, marks, slot>> /\ mail' = mail /\ mirror.kind # "hook"
        BY <1>8 DEF WithdrawResume, bodyVars, timerVars, HostInv, HostKinds
      <4>2. QED
        BY <4>1 DEF WakeWorthy, HasConsumable, Gated, HasQueuedMessages
    <3>2. /\ \A v \in Workers : Holds(v) => Holds(v)'
          /\ \A b \in Actors : /\ pc[b] \in Ending => pc'[b] \in Ending
                               /\ pc[b] \in Waking => pc'[b] \in Waking
      BY <1>0, <1>8 DEF WithdrawResume, Goto, Finish, Refused, Holds, Ending, Waking
    <3>3. /\ inTable' => inTable
          /\ woken + queued > 0 => woken' + queued' > 0
          /\ waiting' = waiting
      BY <1>0, <1>8 DEF WithdrawResume, deathVars, waitVars
    <3>4. QED
      BY <3>1, <3>2, <3>3 DEF WakeKept
  <2>2. QED
    BY <2>1, WakeKeptKeeps
<1>9. ASSUME NEW t \in wheel, TimerExpires(t) PROVE WakeInv'
  <2>1. inTable' = inTable /\ UNCHANGED <<waiting, woken, queued>>
    BY <1>9 DEF TimerExpires, deathVars, waitVars
  <2>2. CASE inTable
    <3>1. pc[TimerThread] = "idle" /\ pc' = [pc EXCEPT ![TimerThread] = "markCheck"]
      BY <1>9, <2>2 DEF TimerExpires, Goto
    <3>2. QED
      BY <2>1, <3>1, WakingKeepsWake DEF Waking, Ending, Holds
  <2>3. CASE ~inTable
    BY <2>1, <2>3 DEF WakeInv
  <2>4. QED
    BY <2>2, <2>3
<1>10. ASSUME NEW c \in Calls, PublishCheck(c) PROVE WakeInv'
  <2>1. WakeKept
    <3>1. WakeWorthy' => WakeWorthy
      <4>1. UNCHANGED <<mirror, result, resume, marks, slot>> /\ mail' = mail
        BY <1>10 DEF PublishCheck, bodyVars, suspVars, timerVars
      <4>2. QED
        BY <4>1, SameWakeWorthy
    <3>2. /\ \A v \in Workers : Holds(v) => Holds(v)'
          /\ \A b \in Actors : /\ pc[b] \in Ending => pc'[b] \in Ending
                               /\ pc[b] \in Waking => pc'[b] \in Waking
      BY <1>0, <1>10 DEF PublishCheck, Goto, Finish, Refused, Holds, Ending, Waking
    <3>3. /\ inTable' => inTable
          /\ woken + queued > 0 => woken' + queued' > 0
          /\ waiting' = waiting
      BY <1>0, <1>10 DEF PublishCheck, deathVars, waitVars
    <3>4. QED
      BY <3>1, <3>2, <3>3 DEF WakeKept
  <2>2. QED
    BY <2>1, WakeKeptKeeps
<1>11. ASSUME NEW c \in Calls, PublishInsert(c) PROVE WakeInv'
  <2>1. CASE result > c[2]
    <3>1. WakeKept
      <4>1. WakeWorthy' => WakeWorthy
        <5>1. UNCHANGED <<mirror, result, resume, marks, slot>> /\ mail' = mail
          BY <1>11, <2>1 DEF PublishInsert, bodyVars, suspVars, timerVars
        <5>2. QED
          BY <5>1, SameWakeWorthy
      <4>2. /\ \A v \in Workers : Holds(v) => Holds(v)'
            /\ \A b \in Actors : /\ pc[b] \in Ending => pc'[b] \in Ending
                                 /\ pc[b] \in Waking => pc'[b] \in Waking
        BY <1>0, <1>11, <2>1 DEF PublishInsert, Goto, Finish, Refused, Holds, Ending, Waking
      <4>3. /\ inTable' => inTable
            /\ woken + queued > 0 => woken' + queued' > 0
            /\ waiting' = waiting
        BY <1>0, <1>11, <2>1 DEF PublishInsert, deathVars, waitVars
      <4>4. QED
        BY <4>1, <4>2, <4>3 DEF WakeKept
    <3>2. QED
      BY <3>1, WakeKeptKeeps
  <2>2. CASE ~(result > c[2])
    <3>1. /\ pc[c] = "insert" /\ pc' = [pc EXCEPT ![c] = "liveCheck"]
          /\ inTable' = inTable /\ UNCHANGED <<waiting, woken, queued>>
      BY <1>11, <2>2 DEF PublishInsert, Goto, deathVars, waitVars
    <3>2. QED
      BY <3>1, WakingKeepsWake DEF Waking, Ending, Holds
  <2>3. QED
    BY <2>1, <2>2
<1>12. ASSUME NEW c \in Calls, PublishLiveCheck(c) PROVE WakeInv'
  <2>1. inTable' = inTable /\ UNCHANGED <<waiting, woken, queued>>
    BY <1>12 DEF PublishLiveCheck, deathVars, waitVars
  <2>2. CASE inTable
    <3>1. pc[c] = "liveCheck" /\ pc' = [pc EXCEPT ![c] = "published"]
      BY <1>12, <2>2 DEF PublishLiveCheck, Goto
    <3>2. QED
      BY <2>1, <3>1, WakingKeepsWake DEF Waking, Ending, Holds
  <2>3. CASE ~inTable
    BY <2>1, <2>3 DEF WakeInv
  <2>4. QED
    BY <2>2, <2>3
<1>13. ASSUME NEW c \in Calls, WithdrawResult(c) PROVE WakeInv'
  BY <1>13 DEF WithdrawResult, deathVars, WakeInv, ResultInv, DeadFirst
<1>14. ASSUME NEW c \in Calls, PublisherWakes(c) PROVE WakeInv'
  <2>1. callKind[c[2]] # "dirty"
    BY DEF HostInv, HostKinds
  <2>2. /\ pc[c] \in {"published", "refused"}
        /\ inTable' = inTable /\ UNCHANGED <<waiting, woken, queued>>
    BY <1>14 DEF PublisherWakes, deathVars, waitVars
  <2>3. CASE pc' = [pc EXCEPT ![c] = "wakeCheck"]
    BY <2>2, <2>3, WakingKeepsWake DEF Waking, Ending, Holds
  <2>4. CASE pc[c] = "refused" /\ pc' = [pc EXCEPT ![c] = "done"]
    <3>1. WakeWorthy' => WakeWorthy
      <4>1. UNCHANGED <<mirror, result, resume, marks, slot>> /\ mail' = mail
        BY <1>14 DEF PublisherWakes, bodyVars, suspVars, timerVars
      <4>2. QED
        BY <4>1, SameWakeWorthy
    <3>2. /\ \A v \in Workers : Holds(v) => Holds(v)'
          /\ \A b \in Actors : /\ pc[b] \in Ending => pc'[b] \in Ending
                               /\ pc[b] \in Waking => pc'[b] \in Waking
      BY <1>0, <2>4 DEF Holds, Ending, Waking
    <3>3. WakeKept
      BY <2>2, <3>1, <3>2 DEF WakeKept
    <3>4. QED
      BY <3>3, WakeKeptKeeps
  <2>5. QED
    BY <2>1, <2>3, <2>4, <1>14 DEF PublisherWakes, Goto, Finish
<1>15. ASSUME NEW k \in Killers, ExitSignal(k) PROVE WakeInv'
  <2>1. CASE pc'[k] \in Ending
    BY <2>1 DEF WakeInv
  <2>2. CASE pc'[k] \notin Ending
    <3>1. UNCHANGED <<bodyVars, suspVars, waitVars, timerVars>> /\ inTable' = inTable
      BY <1>0, <2>2, <1>15 DEF ExitSignal, Goto, Ending
    <3>2. pc[k] = "idle" /\ \E label \in Labels : pc' = [pc EXCEPT ![k] = label]
      BY <1>15 DEF ExitSignal, Goto, Labels
    <3>3. /\ \A v \in Workers : Holds(v) => Holds(v)'
          /\ \A b \in Actors : /\ pc[b] \in Ending => pc'[b] \in Ending
                               /\ pc[b] \in Waking => pc'[b] \in Waking
      BY <1>0, <3>2 DEF Holds, Ending, Waking
    <3>4. WakeWorthy' => WakeWorthy
      BY <3>1, SameWakeWorthy DEF bodyVars, suspVars, timerVars
    <3>5. WakeKept
      BY <3>1, <3>3, <3>4 DEF WakeKept, waitVars
    <3>6. QED
      BY <3>5, WakeKeptKeeps
  <2>3. QED
    BY <2>1, <2>2
<1>16. ASSUME NEW k \in Killers, CascadeKill(k) PROVE WakeInv'
  <2>1. CASE pc'[k] \in Ending
    BY <2>1 DEF WakeInv
  <2>2. CASE pc'[k] \notin Ending
    <3>1. UNCHANGED <<bodyVars, suspVars, waitVars, timerVars>> /\ inTable' = inTable
      BY <1>0, <2>2, <1>16 DEF CascadeKill, Goto, Ending
    <3>2. pc[k] = "idle" /\ \E label \in Labels : pc' = [pc EXCEPT ![k] = label]
      BY <1>16 DEF CascadeKill, Goto, Labels
    <3>3. /\ \A v \in Workers : Holds(v) => Holds(v)'
          /\ \A b \in Actors : /\ pc[b] \in Ending => pc'[b] \in Ending
                               /\ pc[b] \in Waking => pc'[b] \in Waking
      BY <1>0, <3>2 DEF Holds, Ending, Waking
    <3>4. WakeWorthy' => WakeWorthy
      BY <3>1, SameWakeWorthy DEF bodyVars, suspVars, timerVars
    <3>5. WakeKept
      BY <3>1, <3>3, <3>4 DEF WakeKept, waitVars
    <3>6. QED
      BY <3>5, WakeKeptKeeps
  <2>3. QED
    BY <2>1, <2>2
<1>17. ASSUME NEW k \in Killers, TerminateProcess(k) PROVE WakeInv'
  <2>1. pc'[k] \in Ending
    BY <1>0, <1>17 DEF TerminateProcess, Goto, Ending
  <2>2. QED
    BY <2>1 DEF WakeInv
<1>18. QED
  BY <1>1, <1>2, <1>3, <1>4, <1>5, <1>6, <1>7, <1>8, <1>9, <1>10, <1>11, <1>12, <1>13, <1>14,
     <1>15, <1>16, <1>17 DEF Publish, Kill, TimerStep, Resume

\* No wake is lost on a process that parks in receives and host calls, with or
\* without timeouts, whoever sends, completes, resumes or kills it: a sender, a
\* publisher or the timer thread that comes before the registration is seen by
\* the Wait arm's recheck, one that comes after it finds the registration.
\* Dirty calls are excepted: resume_suspended can give up on one
\* (run ParkDirtyStuck).
THEOREM NoEventIsMissed ==
    ASSUME HostParksOnly
    PROVE  Spec => []NeverParkedOnAnEvent
<1>1. Init => WakeInv
  BY DEF Init, WakeInv
<1>2. TypeInv /\ ScheduledOnce /\ BodyInv /\ ResultInv /\ HostInv /\ WakeInv /\ [Next]_vars => WakeInv'
  <2> SUFFICES ASSUME TypeInv, ScheduledOnce, BodyInv, ResultInv, HostInv, WakeInv, [Next]_vars
               PROVE  WakeInv'
    OBVIOUS
  <2>1. CASE UNCHANGED vars
    <3>1. WakeWorthy' => WakeWorthy
      BY <2>1, SameWakeWorthy DEF vars, bodyVars, suspVars, timerVars
    <3>2. WakeKept
      BY <2>1, <3>1 DEF vars, WakeKept, Holds, waitVars, deathVars
    <3>3. QED
      BY <3>2, WakeKeptKeeps
  <2>2. QED
    BY <2>1, RunProcessWake, RoutineWake, OtherWake DEF Next
<1>3. TypeInv /\ WakeInv => NeverParkedOnAnEvent
  BY ActorFacts DEF WakeInv, NeverParkedOnAnEvent, Quiet, Holds, Ending, Waking
<1>4. QED
  BY <1>1, <1>2, <1>3, TypesInductive, ScheduledAtOnePlace, BodyInductive, ResultsInductive,
     HostInductive, PTL DEF Spec

----------------------------------------------------------------------------
(* A dead pid leaves nothing behind *)

\* The process is killed by exit signals and by the link cascade, which leave a
\* process that a worker runs to that worker; not by terminate_process.
SignalsOnly == Kills \subseteq {"exit", "cascade"}

\* A worker that is past the gate's look at the status, and may start the slice.
Slicing == {"gateStale", "gateKind", "running"}

\* The gate will turn away whoever pops the pid ...
GateShut == status = "Exited" /\ \A w \in Workers : pc[w] \notin Slicing

\* ... or nobody will pop it.
Unscheduled == Entries = 0 /\ \A w \in Workers : ~Holds(w)

\* Nobody runs a process that is dead or about to be taken out of the table.
EndsIdle == ~inTable \/ (\E a \in Actors : pc[a] \in Ending) => Unscheduled \/ GateShut

\* A process that was terminated where it was stored stays so: whoever checks
\* the body out is turned away.
LEMMA RunProcessShut ==
    ASSUME TypeInv, NEW w \in Workers, RunProcess(w) \/ TakeMessages(w) \/ ForgetTimeout(w), GateShut
    PROVE  GateShut'
<1> USE ActorFacts, CallFacts DEF TypeInv, TypeOK, OutcomeKnown, GateShut, Slicing, Goto, bodyVars
<1>1. CASE PopPid(w)
  BY <1>1 DEF PopPid
<1>2. CASE TakeRunnable(w)
  BY <1>2 DEF TakeRunnable
<1>3. CASE GateExited(w)
  BY <1>3 DEF GateExited
<1>4. CASE GateFree(w)
  BY <1>4 DEF GateFree, ApplyTimer
<1>5. CASE GateResult(w)
  BY <1>5 DEF GateResult, EndCall
<1>6. CASE GateNoResult(w)
  BY <1>6 DEF GateNoResult
<1>7. CASE GateStale(w)
  BY <1>7 DEF GateStale
<1>8. CASE GateHostAwait(w)
  BY <1>8 DEF GateHostAwait, ApplyTimer, EndCall
<1>9. CASE GateSuspended(w)
  BY <1>9 DEF GateSuspended, ApplyTimer, EndCall
<1>10. CASE TakeMessages(w)
  BY <1>10 DEF TakeMessages
<1>11. CASE ForgetTimeout(w)
  BY <1>11 DEF ForgetTimeout
<1>12. CASE Yield(w)
  BY <1>12 DEF Yield, EndSlice
<1>13. CASE Exit(w)
  BY <1>13 DEF Exit, EndSlice
<1>14. CASE DirtyCall(w)
  BY <1>14 DEF DirtyCall, EndSlice, OpenCall, NewCall
<1>15. CASE HookSuspends(w)
  BY <1>15 DEF HookSuspends, EndSlice, OpenCall, NewCall
<1>16. CASE SliceEnded(w)
  BY <1>16 DEF SliceEnded
<1>17. CASE StoreRunnable(w)
  BY <1>17 DEF StoreRunnable
<1>18. CASE AfterStore(w)
  BY <1>18 DEF AfterStore
<1>19. CASE RequeueArm(w)
  BY <1>19 DEF RequeueArm
<1>20. CASE RegisterArm(w)
  BY <1>20 DEF RegisterArm
<1>21. CASE DeathRecheck(w)
  BY <1>21 DEF DeathRecheck
<1>22. CASE Withdraw(w)
  BY <1>22 DEF Withdraw
<1>23. CASE Recheck(w)
  BY <1>23 DEF Recheck, WakeWorthy, HasConsumable, Gated, HasQueuedMessages
<1>24. CASE SelfWake(w)
  BY <1>24 DEF SelfWake
<1>25. CASE EventCheck(w)
  BY <1>25 DEF EventCheck, HasConsumable
<1>26. CASE Fallback(w)
  BY <1>26 DEF Fallback, MoveToWoken, HasConsumable
<1>27. ASSUME NEW after \in BOOLEAN, ReceiveWaits(w, after) PROVE GateShut'
  BY <1>27 DEF ReceiveWaits, EndSlice
<1>28. ASSUME NEW after \in BOOLEAN, NEW kind \in {"await", "select"}, SuspendsOnHost(w, kind, after)
     PROVE  GateShut'
  BY <1>28 DEF SuspendsOnHost, EndSlice, OpenCall, NewCall
<1>29. ASSUME NEW after \in BOOLEAN, NEW kind \in {"await", "select"}, GateDirtySuspend(w, kind, after)
     PROVE  GateShut'
  BY <1>29 DEF GateDirtySuspend, NewCall
<1> HIDE DEF GateShut, TypeInv
<1>30. QED
  BY <1>1, <1>2, <1>3, <1>4, <1>5, <1>6, <1>7, <1>8, <1>9, <1>10, <1>11, <1>12, <1>13, <1>14,
     <1>15, <1>16, <1>17, <1>18, <1>19, <1>20, <1>21, <1>22, <1>23, <1>24, <1>25, <1>26, <1>27,
     <1>28, <1>29 DEF RunProcess, Gate, Slice

\* The shared routines do not bring it back either; ResumeFlip is for a process
\* that is suspended.
LEMMA RoutineShut ==
    ASSUME TypeInv, NEW a \in Actors, Routine(a), GateShut
    PROVE  GateShut'
<1> USE ActorFacts DEF TypeInv, TypeOK, GateShut, Slicing, Goto, Finish, Refused, bodyVars
<1>1. CASE WakeCheck(a)
  BY <1>1 DEF WakeCheck, BlocksWake, Gated, HasConsumable
<1>2. CASE WakeMove(a)
  BY <1>2 DEF WakeMove, MoveToWoken
<1>3. CASE ResumeCheck(a)
  BY <1>3 DEF ResumeCheck, HasConsumable
<1>4. CASE ResumeFlip(a)
  BY <1>4 DEF ResumeFlip
<1>5. CASE ResumeMove(a)
  BY <1>5 DEF ResumeMove, MoveToWoken
<1>6. CASE Tombstone(a)
  BY <1>6 DEF Tombstone
<1>7. CASE TakeTableToken(a)
  BY <1>7 DEF TakeTableToken
<1>8. CASE TakeBody(a)
  BY <1>8 DEF TakeBody
<1>9. CASE SweepWaitSet(a)
  BY <1>9 DEF SweepWaitSet
<1>10. CASE DropMarks(a)
  BY <1>10 DEF DropMarks
<1>11. CASE Purge(a)
  BY <1>11 DEF Purge
<1> HIDE DEF GateShut, TypeInv
<1>12. QED
  BY <1>1, <1>2, <1>3, <1>4, <1>5, <1>6, <1>7, <1>8, <1>9, <1>10, <1>11 DEF Routine

\* Nor do the other threads.
LEMMA OtherShut ==
    ASSUME TypeInv, GateShut,
           \/ \E c \in Calls : Publish(c)
           \/ \E k \in Killers : Kill(k)
           \/ DrainWoken \/ Deliver \/ TimerStep \/ ResumeProcess \/ Resume
    PROVE  GateShut'
<1> USE ActorFacts DEF TypeInv, TypeOK, GateShut, Slicing, Goto, Finish, bodyVars
<1>1. CASE DrainWoken
  BY <1>1 DEF DrainWoken
<1>2. CASE Deliver
  BY <1>2 DEF Deliver
<1>3. CASE MarkCheck
  BY <1>3 DEF MarkCheck
<1>4. CASE WithdrawMark
  BY <1>4 DEF WithdrawMark
<1>5. CASE ResumeProcess
  BY <1>5 DEF ResumeProcess
<1>6. CASE InsertResume
  BY <1>6 DEF InsertResume
<1>7. CASE ResumeLive
  BY <1>7 DEF ResumeLive
<1>8. CASE WithdrawResume
  BY <1>8 DEF WithdrawResume
<1>9. ASSUME NEW t \in wheel, TimerExpires(t) PROVE GateShut'
  BY <1>9 DEF TimerExpires
<1>10. ASSUME NEW c \in Calls, PublishCheck(c) PROVE GateShut'
  BY <1>10 DEF PublishCheck
<1>11. ASSUME NEW c \in Calls, PublishInsert(c) PROVE GateShut'
  BY <1>11 DEF PublishInsert
<1>12. ASSUME NEW c \in Calls, PublishLiveCheck(c) PROVE GateShut'
  BY <1>12 DEF PublishLiveCheck
<1>13. ASSUME NEW c \in Calls, WithdrawResult(c) PROVE GateShut'
  BY <1>13 DEF WithdrawResult
<1>14. ASSUME NEW c \in Calls, PublisherWakes(c) PROVE GateShut'
  BY <1>14 DEF PublisherWakes
<1>15. ASSUME NEW k \in Killers, ExitSignal(k) PROVE GateShut'
  BY <1>15 DEF ExitSignal, TerminateBody
<1>16. ASSUME NEW k \in Killers, CascadeKill(k) PROVE GateShut'
  BY <1>16 DEF CascadeKill, TerminateBody
<1>17. ASSUME NEW k \in Killers, TerminateProcess(k) PROVE GateShut'
  BY <1>17 DEF TerminateProcess
<1> HIDE DEF GateShut, TypeInv
<1>18. QED
  BY <1>1, <1>2, <1>3, <1>4, <1>5, <1>6, <1>7, <1>8, <1>9, <1>10, <1>11, <1>12, <1>13, <1>14,
     <1>15, <1>16, <1>17 DEF Publish, Kill, TimerStep, Resume

\* An unscheduled process stays unscheduled: only the worker that holds it
\* requeues or registers it.
LEMMA UnscheduledStays ==
    ASSUME TypeInv, TypeInv', Unscheduled, [Next]_vars
    PROVE  Unscheduled'
<1>0. woken \in Nat /\ queued \in Nat /\ woken' \in Nat /\ queued' \in Nat
  BY DEF TypeInv, TypeOK
<1>1. CASE NothingAdded
  <2>1. Entries' \in Nat /\ Entries' <= 0
    BY <1>0, <1>1, NatPlus DEF NothingAdded, Unscheduled, Entries
  <2>2. QED
    BY <1>1, <2>1 DEF NothingAdded, Unscheduled
<1>2. CASE UNCHANGED vars
  BY <1>2 DEF vars, Unscheduled, Entries, Holds, waitVars
<1>3. ASSUME NEW w \in Workers, PopPid(w) PROVE FALSE
  BY <1>0, <1>3 DEF PopPid, Unscheduled, Entries
<1>4. ASSUME NEW w \in Workers, RequeueArm(w) \/ RegisterArm(w) PROVE FALSE
  BY <1>4 DEF RequeueArm, RegisterArm, Unscheduled, Holds
<1>5. QED
  BY <1>1, <1>2, <1>3, <1>4, RunProcessAdds, RoutineAdds, OtherAdds DEF Next

\* Most steps end the process for nobody.
NothingEnds ==
    /\ ~inTable' => ~inTable \/ \E a \in Actors : pc[a] \in Ending
    /\ \A a \in Actors : pc'[a] \in Ending => pc[a] \in Ending

\* A worker ends it after it has stored it back.
LEMMA RunProcessEnds ==
    ASSUME TypeInv, NEW w \in Workers,
           RunProcess(w) \/ TakeMessages(w) \/ ForgetTimeout(w), ~AfterStore(w)
    PROVE  NothingEnds
<1> USE ActorFacts, CallFacts
        DEF TypeInv, TypeOK, NothingEnds, Ending, Goto, deathVars
<1>1. CASE PopPid(w)
  BY <1>1 DEF PopPid
<1>2. CASE TakeRunnable(w)
  BY <1>2 DEF TakeRunnable
<1>3. CASE GateExited(w)
  BY <1>3 DEF GateExited
<1>4. CASE GateFree(w)
  BY <1>4 DEF GateFree, ApplyTimer
<1>5. CASE GateResult(w)
  BY <1>5 DEF GateResult, EndCall
<1>6. CASE GateNoResult(w)
  BY <1>6 DEF GateNoResult
<1>7. CASE GateStale(w)
  BY <1>7 DEF GateStale
<1>8. CASE GateHostAwait(w)
  BY <1>8 DEF GateHostAwait, ApplyTimer, EndCall
<1>9. CASE GateSuspended(w)
  BY <1>9 DEF GateSuspended, ApplyTimer, EndCall
<1>10. CASE TakeMessages(w)
  BY <1>10 DEF TakeMessages
<1>11. CASE ForgetTimeout(w)
  BY <1>11 DEF ForgetTimeout
<1>12. CASE Yield(w)
  BY <1>12 DEF Yield, EndSlice
<1>13. CASE Exit(w)
  BY <1>13 DEF Exit, EndSlice
<1>14. CASE DirtyCall(w)
  BY <1>14 DEF DirtyCall, EndSlice, OpenCall, NewCall
<1>15. CASE HookSuspends(w)
  BY <1>15 DEF HookSuspends, EndSlice, OpenCall, NewCall
<1>16. CASE SliceEnded(w)
  BY <1>16 DEF SliceEnded
<1>17. CASE StoreRunnable(w)
  BY <1>17 DEF StoreRunnable
<1>18. CASE RequeueArm(w)
  BY <1>18 DEF RequeueArm
<1>19. CASE RegisterArm(w)
  BY <1>19 DEF RegisterArm
<1>20. CASE DeathRecheck(w)
  BY <1>20 DEF DeathRecheck
<1>21. CASE Withdraw(w)
  BY <1>21 DEF Withdraw
<1>22. CASE Recheck(w)
  BY <1>22 DEF Recheck, WakeWorthy, HasConsumable, Gated, HasQueuedMessages
<1>23. CASE SelfWake(w)
  BY <1>23 DEF SelfWake
<1>24. CASE EventCheck(w)
  BY <1>24 DEF EventCheck, HasConsumable
<1>25. CASE Fallback(w)
  BY <1>25 DEF Fallback, MoveToWoken, HasConsumable
<1>26. ASSUME NEW after \in BOOLEAN, ReceiveWaits(w, after) PROVE NothingEnds
  BY <1>26 DEF ReceiveWaits, EndSlice
<1>27. ASSUME NEW after \in BOOLEAN, NEW kind \in {"await", "select"}, SuspendsOnHost(w, kind, after)
     PROVE  NothingEnds
  BY <1>27 DEF SuspendsOnHost, EndSlice, OpenCall, NewCall
<1>28. ASSUME NEW after \in BOOLEAN, NEW kind \in {"await", "select"}, GateDirtySuspend(w, kind, after)
     PROVE  NothingEnds
  BY <1>28 DEF GateDirtySuspend, NewCall
<1> HIDE DEF NothingEnds, TypeInv
<1>29. QED
  BY <1>1, <1>2, <1>3, <1>4, <1>5, <1>6, <1>7, <1>8, <1>9, <1>10, <1>11, <1>12, <1>13, <1>14,
     <1>15, <1>16, <1>17, <1>18, <1>19, <1>20, <1>21, <1>22, <1>23, <1>24, <1>25, <1>26, <1>27,
     <1>28 DEF RunProcess, Gate, Slice

\* The shared routines carry on with an end that has begun.
LEMMA RoutineEnds ==
    ASSUME TypeInv, NEW a \in Actors, Routine(a)
    PROVE  NothingEnds
<1> USE ActorFacts, CallFacts
        DEF TypeInv, TypeOK, NothingEnds, Ending, Goto, Finish, Refused, deathVars
<1>1. CASE WakeCheck(a)
  BY <1>1 DEF WakeCheck, BlocksWake, Gated, HasConsumable
<1>2. CASE WakeMove(a)
  BY <1>2 DEF WakeMove, MoveToWoken
<1>3. CASE ResumeCheck(a)
  BY <1>3 DEF ResumeCheck, HasConsumable
<1>4. CASE ResumeFlip(a)
  BY <1>4 DEF ResumeFlip
<1>5. CASE ResumeMove(a)
  BY <1>5 DEF ResumeMove, MoveToWoken
<1>6. CASE Tombstone(a)
  BY <1>6 DEF Tombstone
<1>7. CASE TakeTableToken(a)
  BY <1>7 DEF TakeTableToken
<1>8. CASE TakeBody(a)
  BY <1>8 DEF TakeBody
<1>9. CASE SweepWaitSet(a)
  BY <1>9 DEF SweepWaitSet
<1>10. CASE DropMarks(a)
  BY <1>10 DEF DropMarks
<1>11. CASE Purge(a)
  BY <1>11 DEF Purge
<1> HIDE DEF NothingEnds, TypeInv
<1>12. QED
  BY <1>1, <1>2, <1>3, <1>4, <1>5, <1>6, <1>7, <1>8, <1>9, <1>10, <1>11 DEF Routine

\* Of the other threads only a killer begins one.
LEMMA OtherEnds ==
    ASSUME TypeInv,
           \/ \E c \in Calls : Publish(c)
           \/ DrainWoken \/ Deliver \/ TimerStep \/ ResumeProcess \/ Resume
    PROVE  NothingEnds
<1> USE ActorFacts, CallFacts
        DEF TypeInv, TypeOK, NothingEnds, Ending, Goto, Finish, deathVars
<1>1. CASE DrainWoken
  BY <1>1 DEF DrainWoken
<1>2. CASE Deliver
  BY <1>2 DEF Deliver
<1>3. CASE MarkCheck
  BY <1>3 DEF MarkCheck
<1>4. CASE WithdrawMark
  BY <1>4 DEF WithdrawMark
<1>5. CASE ResumeProcess
  BY <1>5 DEF ResumeProcess
<1>6. CASE InsertResume
  BY <1>6 DEF InsertResume
<1>7. CASE ResumeLive
  BY <1>7 DEF ResumeLive
<1>8. CASE WithdrawResume
  BY <1>8 DEF WithdrawResume
<1>9. ASSUME NEW t \in wheel, TimerExpires(t) PROVE NothingEnds
  BY <1>9 DEF TimerExpires
<1>10. ASSUME NEW c \in Calls, PublishCheck(c) PROVE NothingEnds
  BY <1>10 DEF PublishCheck
<1>11. ASSUME NEW c \in Calls, PublishInsert(c) PROVE NothingEnds
  BY <1>11 DEF PublishInsert
<1>12. ASSUME NEW c \in Calls, PublishLiveCheck(c) PROVE NothingEnds
  BY <1>12 DEF PublishLiveCheck
<1>13. ASSUME NEW c \in Calls, WithdrawResult(c) PROVE NothingEnds
  BY <1>13 DEF WithdrawResult
<1>14. ASSUME NEW c \in Calls, PublisherWakes(c) PROVE NothingEnds
  BY <1>14 DEF PublisherWakes
<1> HIDE DEF NothingEnds, TypeInv
<1>15. QED
  BY <1>1, <1>2, <1>3, <1>4, <1>5, <1>6, <1>7, <1>8, <1>9, <1>10, <1>11, <1>12, <1>13, <1>14
     DEF Publish, TimerStep, Resume

\* A worker that stored the process back was its only holder; a signal ends a
\* stored process, which nobody has checked out.
LEMMA EndsInductive ==
    ASSUME SignalsOnly
    PROVE  Spec => []EndsIdle
<1>1. Init => EndsIdle
  BY ActorFacts DEF Init, EndsIdle, Ending
<1>2. TypeInv /\ TypeInv' /\ ScheduledOnce /\ BodyInv /\ EndsIdle /\ [Next]_vars => EndsIdle'
  <2> SUFFICES ASSUME TypeInv, TypeInv', ScheduledOnce, BodyInv, EndsIdle, [Next]_vars
               PROVE  EndsIdle'
    OBVIOUS
  <2> USE ActorFacts
  <2>0. pc \in [Actors -> Labels]
    BY DEF TypeInv, TypeOK
  <2>1. GateShut => GateShut'
    <3>1. CASE UNCHANGED vars
      BY <3>1 DEF vars, GateShut, bodyVars
    <3>2. QED
      BY <3>1, RunProcessShut, RoutineShut, OtherShut DEF Next
  <2>2. Unscheduled \/ GateShut => Unscheduled' \/ GateShut'
    BY <2>1, UnscheduledStays
  <2>3. CASE NothingEnds
    BY <2>2, <2>3 DEF NothingEnds, EndsIdle
  <2>4. CASE UNCHANGED vars
    <3>1. NothingEnds
      BY <2>4 DEF vars, NothingEnds, deathVars
    <3>2. QED
      BY <2>3, <3>1
  <2>5. ASSUME NEW w \in Workers, AfterStore(w) PROVE EndsIdle'
    <3>1. CASE pc'[w] \in Ending
      <4>1. Entries = 0 /\ \A v \in Workers : Holds(v) => v = w
        BY <2>5 DEF AfterStore, ScheduledOnce, Holds
      <4>2. Unscheduled'
        BY <2>0, <2>5, <3>1, <4>1 DEF AfterStore, Goto, Unscheduled, Entries, Holds, waitVars,
           Ending
      <4>3. QED
        BY <4>2 DEF EndsIdle
    <3>2. CASE pc'[w] \notin Ending
      <4>1. NothingEnds
        BY <2>0, <2>5, <3>2 DEF AfterStore, Goto, NothingEnds, deathVars
      <4>2. QED
        BY <2>3, <4>1
    <3>3. QED
      BY <3>1, <3>2
  <2>6. ASSUME NEW k \in Killers, ExitSignal(k) \/ CascadeKill(k) PROVE EndsIdle'
    <3>1. CASE slot = "Present"
      <4>1. status' = "Exited"
        BY <2>6, <3>1 DEF ExitSignal, CascadeKill, TerminateBody
      <4>2. \A v \in Workers : pc'[v] \notin Slicing
        <5>1. \A v \in Workers : ~HoldsBody(v)
          BY <3>1 DEF BodyInv, SlotTellsWhoHolds
        <5>2. \E label \in {"tombstone", "finalize", "done"} : pc' = [pc EXCEPT ![k] = label]
          BY <2>6 DEF ExitSignal, CascadeKill, Goto
        <5>3. QED
          BY <2>0, <5>1, <5>2 DEF HoldsBody, Slicing
      <4>3. QED
        BY <4>1, <4>2 DEF EndsIdle, GateShut
    <3>2. CASE slot # "Present"
      <4>1. pc' = [pc EXCEPT ![k] = "done"] /\ inTable' = inTable
        BY <2>6, <3>2 DEF ExitSignal, CascadeKill, Goto
      <4>2. NothingEnds
        BY <2>0, <4>1 DEF NothingEnds, Ending
      <4>3. QED
        BY <2>3, <4>2
    <3>3. QED
      BY <3>1, <3>2
  <2>7. \A k \in Killers : ~TerminateProcess(k)
    BY DEF TerminateProcess, SignalsOnly
  <2>8. QED
    BY <2>3, <2>4, <2>5, <2>6, <2>7, RunProcessEnds, RoutineEnds, OtherEnds DEF Next, Kill
<1>3. QED
  BY <1>1, <1>2, TypesInductive, ScheduledAtOnePlace, BodyInductive, PTL DEF Spec

\* Where the finalizer is until it has swept the wait set, dropped the timer
\* marks, and purged the suspension state.
BeforeSweep == {"finalizeBody", "sweep"}
BeforeMarks == BeforeSweep \cup {"dropMarks"}
BeforePurge == BeforeMarks \cup {"purge"}

\* Whatever is left of a dead process, somebody is about to clear it: the
\* finalizer, or the thread that put it there and rechecks.
LeftoversLeave ==
    ~inTable =>
        /\ waiting # NoWorker => \/ \E a \in Actors : pc[a] \in BeforeSweep
                                 \/ \E w \in Workers : pc[w] \in {"deathRecheck", "withdraw"}
        /\ marks # {} => \E a \in Actors : pc[a] \in BeforeMarks
        /\ mirror # NoCall => \E a \in Actors : pc[a] \in BeforePurge
        /\ result # 0 => \/ \E a \in Actors : pc[a] \in BeforePurge
                         \/ \E c \in Calls : pc[c] \in {"liveCheck", "withdrawResult"}
        /\ resume # NoResume => \/ \E a \in Actors : pc[a] \in BeforePurge
                                \/ pc[Resumer] \in {"resumeLive", "withdrawResume"}

\* Nobody leaves these places.
Stay(places) == \A a \in Actors : pc[a] \in places => pc'[a] \in places

\* Most steps leave what is there to those who will clear it; a thread that adds
\* something goes on to recheck.
LeftoversKept ==
    /\ inTable' = inTable
    /\ ~inTable =>
        /\ \/ waiting' = NoWorker
           \/ \E w \in Workers : pc'[w] = "deathRecheck"
           \/ waiting' = waiting /\ Stay(BeforeSweep) /\ Stay({"deathRecheck", "withdraw"})
        /\ \/ marks' = {}
           \/ marks' = marks /\ Stay(BeforeMarks)
        /\ \/ mirror' = NoCall
           \/ mirror' = mirror /\ Stay(BeforePurge)
        /\ \/ result' = 0
           \/ \E c \in Calls : pc'[c] = "liveCheck"
           \/ result' = result /\ Stay(BeforePurge) /\ Stay({"liveCheck", "withdrawResult"})
        /\ \/ resume' = NoResume
           \/ pc'[Resumer] = "resumeLive"
           \/ resume' = resume /\ Stay(BeforePurge) /\ Stay({"resumeLive", "withdrawResume"})

\* Such a step keeps the invariant.
LEMMA LeftoversKeptKeeps ==
    ASSUME LeftoversLeave, LeftoversKept
    PROVE  LeftoversLeave'
<1> SUFFICES ASSUME ~inTable PROVE LeftoversLeave'
  BY DEF LeftoversKept, LeftoversLeave
<1> USE ActorFacts DEF Stay
<1>1. waiting' # NoWorker => \/ \E a \in Actors : pc'[a] \in BeforeSweep
                             \/ \E w \in Workers : pc'[w] \in {"deathRecheck", "withdraw"}
  BY DEF LeftoversKept, LeftoversLeave
<1>2. marks' # {} => \E a \in Actors : pc'[a] \in BeforeMarks
  BY DEF LeftoversKept, LeftoversLeave
<1>3. mirror' # NoCall => \E a \in Actors : pc'[a] \in BeforePurge
  BY DEF LeftoversKept, LeftoversLeave
<1>4. result' # 0 => \/ \E a \in Actors : pc'[a] \in BeforePurge
                     \/ \E c \in Calls : pc'[c] \in {"liveCheck", "withdrawResult"}
  BY DEF LeftoversKept, LeftoversLeave
<1>5. resume' # NoResume => \/ \E a \in Actors : pc'[a] \in BeforePurge
                            \/ pc'[Resumer] \in {"resumeLive", "withdrawResume"}
  BY DEF LeftoversKept, LeftoversLeave
<1>6. QED
  BY <1>1, <1>2, <1>3, <1>4, <1>5 DEF LeftoversLeave

\* A worker registers a dead process only to recheck; it makes no call, for
\* nobody runs a dead process.
LEMMA RunProcessLeftovers ==
    ASSUME TypeInv, HostInv, EndsIdle, NEW w \in Workers,
           RunProcess(w) \/ TakeMessages(w) \/ ForgetTimeout(w)
    PROVE  LeftoversKept
<1> USE ActorFacts, CallFacts
        DEF TypeInv, TypeOK, LeftoversKept, Stay, BeforeSweep, BeforeMarks, BeforePurge, Goto,
            bodyVars, suspVars, waitVars, timerVars, deathVars
<1>1. CASE PopPid(w)
  BY <1>1 DEF PopPid
<1>2. CASE TakeRunnable(w)
  BY <1>2 DEF TakeRunnable
<1>3. CASE GateExited(w)
  BY <1>3 DEF GateExited
<1>4. CASE GateFree(w)
  BY <1>4 DEF GateFree, ApplyTimer
<1>5. CASE GateResult(w)
  BY <1>5 DEF GateResult, EndCall
<1>6. CASE GateNoResult(w)
  BY <1>6 DEF GateNoResult
<1>7. CASE GateStale(w)
  BY <1>7 DEF GateStale
<1>8. CASE GateHostAwait(w)
  BY <1>8 DEF GateHostAwait, ApplyTimer, EndCall
<1>9. CASE GateSuspended(w)
  BY <1>9 DEF GateSuspended, HostInv, HostKinds
<1>10. CASE TakeMessages(w)
  BY <1>10 DEF TakeMessages
<1>11. CASE ForgetTimeout(w)
  BY <1>11 DEF ForgetTimeout
<1>12. CASE Yield(w)
  BY <1>12 DEF Yield, EndSlice
<1>13. CASE Exit(w)
  BY <1>13 DEF Exit, EndSlice
<1>14. CASE DirtyCall(w)
  <2>1. pc[w] = "running" /\ inTable' = inTable
    BY <1>14 DEF DirtyCall
  <2>2. inTable
    BY <2>1 DEF EndsIdle, Unscheduled, GateShut, Slicing, Holds
  <2>3. QED
    BY <2>1, <2>2
<1>15. CASE HookSuspends(w)
  <2>1. pc[w] = "running" /\ inTable' = inTable
    BY <1>15 DEF HookSuspends
  <2>2. inTable
    BY <2>1 DEF EndsIdle, Unscheduled, GateShut, Slicing, Holds
  <2>3. QED
    BY <2>1, <2>2
<1>16. CASE SliceEnded(w)
  BY <1>16 DEF SliceEnded
<1>17. CASE StoreRunnable(w)
  BY <1>17 DEF StoreRunnable
<1>18. CASE AfterStore(w)
  BY <1>18 DEF AfterStore, OutcomeKnown
<1>19. CASE RequeueArm(w)
  BY <1>19 DEF RequeueArm
<1>20. CASE RegisterArm(w)
  BY <1>20 DEF RegisterArm, HostInv
<1>21. CASE DeathRecheck(w)
  BY <1>21 DEF DeathRecheck
<1>22. CASE Withdraw(w)
  BY <1>22 DEF Withdraw
<1>23. CASE Recheck(w)
  BY <1>23 DEF Recheck, WakeWorthy, HasConsumable, Gated, HasQueuedMessages
<1>24. CASE SelfWake(w)
  BY <1>24 DEF SelfWake
<1>25. CASE EventCheck(w)
  BY <1>25 DEF EventCheck, HasConsumable
<1>26. CASE Fallback(w)
  BY <1>26 DEF Fallback, MoveToWoken, HasConsumable
<1>27. ASSUME NEW after \in BOOLEAN, ReceiveWaits(w, after) PROVE LeftoversKept
  BY <1>27 DEF ReceiveWaits, EndSlice
<1>28. ASSUME NEW after \in BOOLEAN, NEW kind \in {"await", "select"}, SuspendsOnHost(w, kind, after)
     PROVE  LeftoversKept
  <2>1. pc[w] = "running" /\ inTable' = inTable
    BY <1>28 DEF SuspendsOnHost
  <2>2. inTable
    BY <2>1 DEF EndsIdle, Unscheduled, GateShut, Slicing, Holds
  <2>3. QED
    BY <2>1, <2>2
<1>29. ASSUME NEW after \in BOOLEAN, NEW kind \in {"await", "select"}, GateDirtySuspend(w, kind, after)
     PROVE  LeftoversKept
  BY <1>29 DEF GateDirtySuspend, HostInv, HostKinds
<1> HIDE DEF LeftoversKept, TypeInv
<1>30. QED
  BY <1>1, <1>2, <1>3, <1>4, <1>5, <1>6, <1>7, <1>8, <1>9, <1>10, <1>11, <1>12, <1>13, <1>14,
     <1>15, <1>16, <1>17, <1>18, <1>19, <1>20, <1>21, <1>22, <1>23, <1>24, <1>25, <1>26, <1>27,
     <1>28, <1>29 DEF RunProcess, Gate, Slice

\* The finalizer clears one thing after the other.
LEMMA RoutineLeftovers ==
    ASSUME TypeInv, NEW a \in Actors, Routine(a), ~TakeTableToken(a)
    PROVE  LeftoversKept
<1> USE ActorFacts, CallFacts
        DEF TypeInv, TypeOK, LeftoversKept, Stay, BeforeSweep, BeforeMarks, BeforePurge, Goto,
            Finish, Refused, bodyVars, suspVars, waitVars, timerVars, deathVars
<1>1. CASE WakeCheck(a)
  BY <1>1 DEF WakeCheck, BlocksWake, Gated, HasConsumable
<1>2. CASE WakeMove(a)
  BY <1>2 DEF WakeMove, MoveToWoken
<1>3. CASE ResumeCheck(a)
  BY <1>3 DEF ResumeCheck, HasConsumable
<1>4. CASE ResumeFlip(a)
  BY <1>4 DEF ResumeFlip
<1>5. CASE ResumeMove(a)
  BY <1>5 DEF ResumeMove, MoveToWoken
<1>6. CASE Tombstone(a)
  BY <1>6 DEF Tombstone
<1>7. CASE TakeBody(a)
  BY <1>7 DEF TakeBody
<1>8. CASE SweepWaitSet(a)
  BY <1>8 DEF SweepWaitSet
<1>9. CASE DropMarks(a)
  BY <1>9 DEF DropMarks
<1>10. CASE Purge(a)
  BY <1>10 DEF Purge
<1> HIDE DEF LeftoversKept, TypeInv
<1>11. QED
  BY <1>1, <1>2, <1>3, <1>4, <1>5, <1>6, <1>7, <1>8, <1>9, <1>10 DEF Routine

\* A publisher and a resumer look at the table after their insert; the timer
\* thread marks only a live process.
LEMMA OtherLeftovers ==
    ASSUME TypeInv,
           \/ \E c \in Calls : Publish(c)
           \/ \E k \in Killers : Kill(k)
           \/ DrainWoken \/ Deliver \/ TimerStep \/ ResumeProcess \/ Resume
    PROVE  LeftoversKept
<1> USE ActorFacts, CallFacts
        DEF TypeInv, TypeOK, LeftoversKept, Stay, BeforeSweep, BeforeMarks, BeforePurge, Goto,
            Finish, bodyVars, suspVars, waitVars, timerVars, deathVars
<1>1. CASE DrainWoken
  BY <1>1 DEF DrainWoken
<1>2. CASE Deliver
  BY <1>2 DEF Deliver
<1>3. CASE MarkCheck
  BY <1>3 DEF MarkCheck
<1>4. CASE WithdrawMark
  BY <1>4 DEF WithdrawMark
<1>5. CASE ResumeProcess
  BY <1>5 DEF ResumeProcess
<1>6. CASE InsertResume
  BY <1>6 DEF InsertResume
<1>7. CASE ResumeLive
  BY <1>7 DEF ResumeLive
<1>8. CASE WithdrawResume
  BY <1>8 DEF WithdrawResume
<1>9. ASSUME NEW t \in wheel, TimerExpires(t) PROVE LeftoversKept
  BY <1>9 DEF TimerExpires
<1>10. ASSUME NEW c \in Calls, PublishCheck(c) PROVE LeftoversKept
  BY <1>10 DEF PublishCheck
<1>11. ASSUME NEW c \in Calls, PublishInsert(c) PROVE LeftoversKept
  BY <1>11 DEF PublishInsert
<1>12. ASSUME NEW c \in Calls, PublishLiveCheck(c) PROVE LeftoversKept
  BY <1>12 DEF PublishLiveCheck
<1>13. ASSUME NEW c \in Calls, WithdrawResult(c) PROVE LeftoversKept
  BY <1>13 DEF WithdrawResult
<1>14. ASSUME NEW c \in Calls, PublisherWakes(c) PROVE LeftoversKept
  BY <1>14 DEF PublisherWakes
<1>15. ASSUME NEW k \in Killers, ExitSignal(k) PROVE LeftoversKept
  BY <1>15 DEF ExitSignal, TerminateBody
<1>16. ASSUME NEW k \in Killers, CascadeKill(k) PROVE LeftoversKept
  BY <1>16 DEF CascadeKill, TerminateBody
<1>17. ASSUME NEW k \in Killers, TerminateProcess(k) PROVE LeftoversKept
  BY <1>17 DEF TerminateProcess
<1> HIDE DEF LeftoversKept, TypeInv
<1>18. QED
  BY <1>1, <1>2, <1>3, <1>4, <1>5, <1>6, <1>7, <1>8, <1>9, <1>10, <1>11, <1>12, <1>13, <1>14,
     <1>15, <1>16, <1>17 DEF Publish, Kill, TimerStep, Resume

\* A process that parks in receives and host calls and is killed by signals
\* leaves nothing in the shared maps once everybody has finished: the finalizer
\* sweeps and purges after the pid has left the table (cleanup_exited_process,
\* purge_suspension_state), and the Wait arm, publish_suspension_result and
\* resume_process each look at the table after what they put there.  A dirty
\* call's Suspended arm does not look, and terminate_process does not wait for
\* the worker that runs the process: for those the property fails.
THEOREM DeadPidsLeaveNothing ==
    ASSUME HostParksOnly, SignalsOnly
    PROVE  Spec => []DeadPidLeavesNothing
<1>1. Init => LeftoversLeave
  BY DEF Init, LeftoversLeave
<1>2. TypeInv /\ HostInv /\ EndsIdle /\ LeftoversLeave /\ [Next]_vars => LeftoversLeave'
  <2> SUFFICES ASSUME TypeInv, HostInv, EndsIdle, LeftoversLeave, [Next]_vars
               PROVE  LeftoversLeave'
    OBVIOUS
  <2>0. pc \in [Actors -> Labels]
    BY DEF TypeInv, TypeOK
  <2>1. CASE UNCHANGED vars
    <3>1. LeftoversKept
      BY <2>1 DEF vars, LeftoversKept, Stay, suspVars, waitVars, timerVars, deathVars
    <3>2. QED
      BY <3>1, LeftoversKeptKeeps
  <2>2. ASSUME NEW a \in Actors, TakeTableToken(a) PROVE LeftoversLeave'
    <3>1. CASE inTable
      <4>1. pc'[a] = "finalizeBody"
        BY <2>0, <2>2, <3>1 DEF TakeTableToken, Goto
      <4>2. pc'[a] \in BeforeSweep /\ pc'[a] \in BeforeMarks /\ pc'[a] \in BeforePurge
        BY <4>1 DEF BeforeSweep, BeforeMarks, BeforePurge
      <4>3. QED
        BY <4>2 DEF LeftoversLeave
    <3>2. CASE ~inTable
      <4>1. inTable' = inTable
        BY <2>2, <3>2 DEF TakeTableToken, TypeInv, TypeOK
      <4>2. LeftoversKept
        BY <2>0, <2>2, <3>2, <4>1
           DEF TakeTableToken, Finish, Goto, LeftoversKept, Stay, BeforeSweep, BeforeMarks,
               BeforePurge, suspVars, waitVars, timerVars
      <4>3. QED
        BY <4>2, LeftoversKeptKeeps
    <3>3. QED
      BY <3>1, <3>2
  <2>3. CASE LeftoversKept
    BY <2>3, LeftoversKeptKeeps
  <2>4. QED
    BY <2>1, <2>2, <2>3, RunProcessLeftovers, RoutineLeftovers, OtherLeftovers DEF Next
<1>3. LeftoversLeave => DeadPidLeavesNothing
  BY ActorFacts DEF LeftoversLeave, DeadPidLeavesNothing, Quiet, BeforeSweep, BeforeMarks,
     BeforePurge
<1>4. QED
  BY <1>1, <1>2, <1>3, TypesInductive, HostInductive, EndsInductive, PTL DEF Spec

=============================================================================

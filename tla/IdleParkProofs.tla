--------------------------- MODULE IdleParkProofs ----------------------------
(***************************************************************************)
(* Proofs about IdlePark, for any number of workers, processes and ticks:  *)
(* no worker sleeps beside work that no edge will tell it of, worker 0     *)
(* sleeps past no timer and through no completion, and every process is    *)
(* scheduled at one place.                                                 *)
(***************************************************************************)
EXTENDS IdlePark, FiniteSetTheorems, NaturalsInduction, WellFoundedInduction, SequenceTheorems, TLAPS

-----------------------------------------------------------------------------
(* Types *)

ThiefRecords ==
  [victim : Workers \cup {NoWorker}, left : Nat, len : Nat, batch : Nat, raced : BOOLEAN]

WorkerTypes ==
  /\ pc \in [Workers -> Labels]
  /\ ret \in [Workers -> {"pop", "popStolen", "endSlice"}]
  /\ cur \in [Workers -> Pids \cup {NoPid}]
  /\ lastVictim \in [Workers -> Workers] /\ fired \subseteq Pids
  /\ moved \in [Workers -> BOOLEAN]

QueueTypes ==
  /\ queue \in [Workers -> Seq(Pids)] /\ inject \in [Workers -> Seq(Pids)]
  /\ woken \in [Workers -> Seq(Pids)] /\ waiting \in [Pids -> Workers \cup {NoWorker}]
  /\ spawnCounter \in Workers

ClockTypes ==
  /\ timers \in [Pids -> SUBSET (0 .. MaxDelay)]
  /\ deadline \in 0 .. None /\ parkedUntil \in 0 .. NotParked
  /\ submitted \subseteq Pids /\ completions \subseteq Pids

TypeInv == WorkerTypes /\ QueueTypes /\ ClockTypes

(* A worker in a slice has a process in its hands. *)
CurInv ==
  \A w \in Workers :
    pc[w] \in {"leaveWork", "enterSlice", "busy", "busyEdge", "running", "register", "recheck", "selfWake"}
      => cur[w] \in Pids

(* What a thief knows of its victim: another worker, and as long as nobody  *)
(* took from the front since, a queue as long as the batch.                 *)
ThiefInv ==
  /\ thief \in [Workers -> ThiefRecords]
  /\ \A t \in Workers : pc[t] \in {"stealLen", "stealFlag", "take"} =>
       thief[t].victim \in Workers \ {t}
  /\ \A t \in Workers : pc[t] = "take" /\ ~thief[t].raced =>
       thief[t].batch >= 1 /\ thief[t].batch <= Len(queue[thief[t].victim])

(* Worker 0 alone ticks, polls the ring and publishes its park. *)
ZeroAlone ==
  \A w \in Workers : pc[w] \in {"tick", "tickWake", "io", "ioWake", "publish", "clear"} => w = 0

(* The workers. *)
LEMMA WorkerNumbers ==
  /\ NumWorkers \in Nat \ {0} /\ Workers \subseteq Nat /\ 0 \in Workers /\ NoWorker \notin Workers
  /\ None \in Nat /\ NotParked \in Nat /\ None = MaxDelay + 1 /\ NotParked = None + 1 /\ MaxDelay \in Nat
  /\ NoPid \notin Pids
BY NumWorkersAssumption, BoundsAssumption, PidsAssumption DEF Workers, NoWorker, None, NotParked

(* The remainder of a successor. *)
LEMMA NextRemainder ==
  ASSUME NEW v \in Workers
  PROVE  (v + 1) % NumWorkers = IF v + 1 = NumWorkers THEN 0 ELSE v + 1
<1>1. v \in Nat /\ v + 1 <= NumWorkers /\ NumWorkers \in Nat /\ NumWorkers > 0
  BY NumWorkersAssumption DEF Workers
<1>2. QED
  BY <1>1

(* After an edge the ticket of every worker is known to be stale or none. *)
LEMMA WakeEdgeEffect ==
  ASSUME WakeEdge
  PROVE  moved' \in [Workers -> BOOLEAN] /\ \A w \in Workers : HoldsTicket(w) => moved'[w]
<1>1. \A w \in Workers : HoldsTicket(w) \in BOOLEAN
  BY DEF HoldsTicket
<1>2. QED
  BY <1>1 DEF WakeEdge

(* A step keeps the types of what workers keep. *)
LEMMA NextWorkerTypes ==
  ASSUME TypeInv, CurInv, ThiefInv, [Next]_vars
  PROVE  WorkerTypes'
<1> USE WakeEdgeEffect DEF Labels, workerVars, wakeVars, queueVars, waitVars, timerVars, ioVars, stopVars, Goto
<1>1. ASSUME NEW w \in Workers, WorkerStep(w) \/ Receive(w) \/ WokenSpuriously(w)
      PROVE  WorkerTypes'
  <2>1. CASE Stop(w)
    BY <2>1 DEF Stop, WorkerTypes, TypeInv
  <2>2. CASE RaiseIdle(w)
    BY <2>2 DEF RaiseIdle, WorkerTypes, TypeInv
  <2>3. CASE ReadTicket(w)
    BY <2>3 DEF ReadTicket, WorkerTypes, TypeInv
  <2>4. CASE DrainInjected(w)
    BY <2>4 DEF DrainInjected, WorkerTypes, TypeInv
  <2>5. CASE TickTimers(w)
    BY <2>5 DEF TickTimers, WorkerTypes, TypeInv
  <2>6. CASE DrainFileIo(w)
    BY <2>6 DEF DrainFileIo, ClockTypes, WorkerTypes, TypeInv
  <2>7. CASE DrainWoken(w)
    BY <2>7 DEF DrainWoken, WorkerTypes, TypeInv
  <2>8. CASE SurplusRead(w)
    BY <2>8 DEF SurplusRead, Return, Proceed, WorkerTypes, TypeInv
  <2>9. CASE SurplusEdge(w)
    BY <2>9 DEF SurplusEdge, Return, WorkerTypes, TypeInv
  <2>10. CASE Pop(w)
    BY <2>10 DEF Pop, QueueTypes, WorkerTypes, TypeInv
  <2>11. CASE PopEmpty(w)
    BY <2>11 DEF PopEmpty, ParkLabel, WorkerTypes, TypeInv
  <2>12. CASE StealLen(w)
    BY <2>12 DEF StealLen, StealNothing, ParkLabel, ThiefInv, WorkerTypes, TypeInv
  <2>13. CASE StealFlag(w)
    BY <2>13 DEF StealFlag, StealNothing, ParkLabel, ThiefInv, WorkerTypes, TypeInv
  <2>14. CASE StealTake(w)
    BY <2>14 DEF StealTake, StealNothing, ParkLabel, ThiefInv, WorkerTypes, TypeInv
  <2>15. CASE LeaveWithWork(w)
    BY <2>15 DEF LeaveWithWork, WorkerTypes, TypeInv
  <2>16. CASE EnterSlice(w)
    BY <2>16 DEF EnterSlice, WorkerTypes, TypeInv
  <2>17. CASE BusyRead(w)
    BY <2>17 DEF BusyRead, StartSlice, WorkerTypes, TypeInv
  <2>18. CASE BusyEdge(w)
    BY <2>18 DEF BusyEdge, StartSlice, WorkerTypes, TypeInv
  <2>19. CASE Requeue(w)
    BY <2>19 DEF Requeue, WorkerTypes, TypeInv
  <2>20. CASE ExitSlice(w)
    BY <2>20 DEF ExitSlice, WorkerTypes, TypeInv
  <2>21. CASE WaitPlain(w)
    BY <2>21 DEF WaitPlain, WorkerTypes, TypeInv
  <2>22. CASE WaitFileIo(w)
    BY <2>22 DEF WaitFileIo, WorkerTypes, TypeInv
  <2>23. CASE Register(w)
    BY <2>23 DEF Register, WorkerTypes, TypeInv
  <2>24. CASE Recheck(w)
    BY <2>24 DEF Recheck, WorkerTypes, TypeInv
  <2>25. CASE SelfWake(w)
    BY <2>25 DEF SelfWake, WorkerTypes, TypeInv
  <2>26. CASE EndSlice(w)
    BY <2>26 DEF EndSlice, WorkerTypes, TypeInv
  <2>27. CASE PublishPark(w)
    BY <2>27 DEF PublishPark, WorkerTypes, TypeInv
  <2>28. CASE StartWait(w)
    BY <2>28 DEF StartWait, UnparkLabel, WorkerTypes, TypeInv
  <2>29. CASE WokenByEdge(w)
    BY <2>29 DEF WokenByEdge, UnparkLabel, WorkerTypes, TypeInv
  <2>30. CASE TimedOut(w)
    BY <2>30 DEF TimedOut, UnparkLabel, WorkerTypes, TypeInv
  <2>31. CASE ClearPark(w)
    BY <2>31 DEF ClearPark, WorkerTypes, TypeInv
  <2>32. CASE LeavePark(w)
    BY <2>32 DEF LeavePark, WorkerTypes, TypeInv
  <2>33. CASE Receive(w)
    BY <2>33 DEF Receive, WorkerTypes, TypeInv
  <2>34. CASE WokenSpuriously(w)
    BY <2>34 DEF WokenSpuriously, UnparkLabel, WorkerTypes, TypeInv
  <2>35. CASE \E p \in Pids : WakeFired(w, p)
    BY <2>35 DEF WakeFired, MoveToWoken, WorkerTypes, TypeInv
  <2>36. CASE \E d \in 1 .. MaxDelay : WaitTimeout(w, d)
    BY <2>36 DEF WaitTimeout, WorkerTypes, TypeInv
  <2>37. QED
    BY <1>1, <2>1, <2>2, <2>3, <2>4, <2>5, <2>6, <2>7, <2>8, <2>9, <2>10, <2>11, <2>12,
       <2>13, <2>14, <2>15, <2>16, <2>17, <2>18, <2>19, <2>20, <2>21, <2>22, <2>23,
       <2>24, <2>25, <2>26, <2>27, <2>28, <2>29, <2>30, <2>31, <2>32, <2>33, <2>34,
       <2>35, <2>36
    DEF WorkerStep, Checks, Edges, Finds, Slice, Parks
<1>2. ASSUME Environment
      PROVE  WorkerTypes'
  <2>1. CASE \E p \in Pids : Spawn(p)
    BY <2>1 DEF Spawn, WorkerTypes, TypeInv
  <2>2. CASE \E p \in Pids : SpawnTrapExit(p)
    BY <2>2 DEF SpawnTrapExit, WorkerTypes, TypeInv
  <2>3. CASE \E p \in Pids : Deliver(p)
    BY <2>3 DEF Deliver, WorkerTypes, TypeInv
  <2>4. CASE \E p \in Pids : WakeProcess(p)
    BY <2>4 DEF WakeProcess, MoveToWoken, WorkerTypes, TypeInv
  <2>5. CASE \E p \in Pids : CompleteFileIo(p)
    BY <2>5 DEF CompleteFileIo, WorkerTypes, TypeInv
  <2>6. CASE Shutdown
    BY <2>6 DEF Shutdown, WorkerTypes, TypeInv
  <2>7. CASE \E e \in edgeOwed : RunOwedEdge(e)
    BY <2>7 DEF RunOwedEdge, WorkerTypes, TypeInv
  <2>8. CASE ClockTick
    BY <2>8 DEF ClockTick, WorkerTypes, TypeInv
  <2>9. QED
    BY <1>2, <2>1, <2>2, <2>3, <2>4, <2>5, <2>6, <2>7, <2>8 DEF Environment
<1>3. ASSUME UNCHANGED vars
      PROVE  WorkerTypes'
  BY <1>3 DEF vars, WorkerTypes, TypeInv
<1>4. QED
  BY <1>1, <1>2, <1>3 DEF Next

(* The processes of a batch, and those that stay. *)
LEMMA BatchAndRest ==
  ASSUME NEW q \in Seq(Pids), NEW n \in Nat, n >= 1, n <= Len(q)
  PROVE  SubSeq(q, n + 1, Len(q)) \in Seq(Pids) /\ SubSeq(q, 2, n) \in Seq(Pids) /\ q[1] \in Pids
<1>1. q[1] \in Pids /\ Len(q) \in Nat /\ \A i \in 1 .. Len(q) : q[i] \in Pids
  OBVIOUS
<1>2. SubSeq(q, n + 1, Len(q)) \in Seq(Pids)
  BY <1>1, SubSeqProperties
<1>3. SubSeq(q, 2, n) \in Seq(Pids)
  BY <1>1, SubSeqProperties
<1>4. QED
  BY <1>1, <1>2, <1>3

(* A thief that takes moves a batch from the front of one queue to the back *)
(* of its own.                                                              *)
LEMMA StealEffect ==
  ASSUME TypeInv, ThiefInv, NEW w \in Workers, StealTake(w)
  PROVE  \/ UNCHANGED queue
         \/ \E v \in Workers \ {w}, n \in Nat :
              /\ n >= 1 /\ n <= Len(queue[v])
              /\ queue' \in [Workers -> Seq(Pids)]
              /\ queue'[v] = SubSeq(queue[v], n + 1, Len(queue[v]))
              /\ queue'[w] = queue[w] \o (SubSeq(queue[v], 2, n) \o <<queue[v][1]>>)
              /\ \A x \in Workers \ {v, w} : queue'[x] = queue[x]
              /\ \A t \in Workers : pc[t] = "take" /\ thief[t].victim = v /\ t # w => thief'[t].raced
<1> DEFINE v == thief[w].victim
           n == thief[w].batch
<1>1. CASE thief[w].raced
  BY <1>1 DEF StealTake
<1>2. CASE ~thief[w].raced
  <2>1. v \in Workers /\ v # w /\ n \in Nat /\ n >= 1 /\ n <= Len(queue[v])
    BY <1>2 DEF StealTake, ThiefInv, ThiefRecords
  <2> DEFINE rest == SubSeq(queue[v], n + 1, Len(queue[v]))
             tail == SubSeq(queue[v], 2, n)
             first == queue[v][1]
  <2>2. queue \in [Workers -> Seq(Pids)] /\ queue[v] \in Seq(Pids) /\ queue[w] \in Seq(Pids)
    BY <2>1 DEF TypeInv, QueueTypes
  <2>3. rest \in Seq(Pids) /\ tail \in Seq(Pids) /\ first \in Pids
    BY <2>1, <2>2, BatchAndRest
  <2>4. queue' = [queue EXCEPT ![v] = rest, ![w] = (@ \o tail) \o <<first>>]
    BY <1>2 DEF StealTake
  <2>5. \A t \in Workers : pc[t] = "take" /\ thief[t].victim = v /\ t # w => thief'[t].raced
    <3>1. thief' = [t \in Workers |->
                      IF t = w THEN NoThief
                      ELSE IF pc[t] = "take" /\ thief[t].victim = v
                           THEN [thief[t] EXCEPT !.raced = TRUE] ELSE thief[t]]
      BY <1>2 DEF StealTake
    <3>2. \A t \in Workers : [thief[t] EXCEPT !.raced = TRUE].raced
      BY DEF ThiefInv, ThiefRecords
    <3>3. QED
      BY <3>1, <3>2
  <2> HIDE DEF rest, tail, first
  <2>6. (queue[w] \o tail) \o <<first>> = queue[w] \o (tail \o <<first>>)
    BY <2>2, <2>3
  <2>7. (queue[w] \o tail) \o <<first>> \in Seq(Pids)
    BY <2>2, <2>3
  <2> DEFINE own == (queue[w] \o tail) \o <<first>>
  <2>8. queue' = [queue EXCEPT ![v] = rest, ![w] = own]
    BY <2>1, <2>2, <2>4
  <2>9. own = queue[w] \o (tail \o <<first>>) /\ own \in Seq(Pids)
    BY <2>6, <2>7
  <2> HIDE DEF own
  <2>10. /\ queue' \in [Workers -> Seq(Pids)] /\ queue'[v] = rest /\ queue'[w] = own
         /\ \A x \in Workers \ {v, w} : queue'[x] = queue[x]
    BY <2>1, <2>2, <2>3, <2>8, <2>9
  <2>11. /\ queue'[v] = SubSeq(queue[v], n + 1, Len(queue[v]))
         /\ queue'[w] = queue[w] \o (SubSeq(queue[v], 2, n) \o <<queue[v][1]>>)
    BY <2>9, <2>10 DEF rest, tail, first
  <2> HIDE DEF v, n
  <2>12. QED
    BY <2>1, <2>5, <2>10, <2>11
<1>3. QED
  BY <1>1, <1>2

(* A waiting process moves to the woken list of its worker. *)
LEMMA MoveToWokenEffect ==
  ASSUME TypeInv, NEW p \in Pids, MoveToWoken(p)
  PROVE  \/ waiting[p] = NoWorker /\ UNCHANGED <<waiting, woken, moved>>
         \/ /\ waiting[p] \in Workers /\ WakeEdge
            /\ woken' \in [Workers -> Seq(Pids)] /\ woken'[waiting[p]] = Append(woken[waiting[p]], p)
            /\ \A w \in Workers : w # waiting[p] => woken'[w] = woken[w]
            /\ waiting' \in [Pids -> Workers \cup {NoWorker}] /\ waiting'[p] = NoWorker
            /\ \A q \in Pids : q # p => waiting'[q] = waiting[q]
<1>1. CASE waiting[p] = NoWorker
  BY <1>1 DEF MoveToWoken
<1>2. CASE waiting[p] # NoWorker
  <2>1. /\ waiting[p] \in Workers /\ WakeEdge
        /\ woken' = [woken EXCEPT ![waiting[p]] = Append(@, p)]
        /\ waiting' = [waiting EXCEPT ![p] = NoWorker]
    BY <1>2 DEF MoveToWoken, TypeInv, QueueTypes
  <2>2. Append(woken[waiting[p]], p) \in Seq(Pids)
    BY <2>1 DEF TypeInv, QueueTypes
  <2>3. QED
    BY <2>1, <2>2 DEF TypeInv, QueueTypes
<1>3. QED
  BY <1>1, <1>2

(* The worker of the next spawn. *)
LEMMA NextIndexType ==
  ASSUME spawnCounter \in Workers
  PROVE  NextIndex \in Workers
<1>1. NextIndex = IF spawnCounter + 1 = NumWorkers THEN 0 ELSE spawnCounter + 1
  BY NextRemainder DEF NextIndex
<1>2. QED
  BY <1>1, NumWorkersAssumption DEF Workers

(* A step keeps the types of what is queued, woken and waiting. *)
LEMMA NextQueueTypes ==
  ASSUME TypeInv, CurInv, ThiefInv, [Next]_vars
  PROVE  QueueTypes'
<1> USE WorkerNumbers DEF workerVars, wakeVars, queueVars, waitVars, timerVars, ioVars, stopVars, Goto
<1>1. ASSUME NEW w \in Workers, WorkerStep(w) \/ Receive(w) \/ WokenSpuriously(w)
      PROVE  QueueTypes'
  <2>1. CASE Stop(w)
    BY <2>1 DEF Stop, QueueTypes, TypeInv
  <2>2. CASE RaiseIdle(w)
    BY <2>2 DEF RaiseIdle, QueueTypes, TypeInv
  <2>3. CASE ReadTicket(w)
    BY <2>3 DEF ReadTicket, QueueTypes, TypeInv
  <2>4. CASE DrainInjected(w)
    BY <2>4 DEF DrainInjected, QueueTypes, TypeInv
  <2>5. CASE TickTimers(w)
    BY <2>5 DEF TickTimers, QueueTypes, TypeInv
  <2>6. CASE DrainFileIo(w)
    BY <2>6 DEF DrainFileIo, QueueTypes, TypeInv
  <2>7. CASE DrainWoken(w)
    BY <2>7 DEF DrainWoken, QueueTypes, TypeInv
  <2>8. CASE SurplusRead(w)
    BY <2>8 DEF SurplusRead, QueueTypes, TypeInv
  <2>9. CASE SurplusEdge(w)
    BY <2>9 DEF SurplusEdge, QueueTypes, TypeInv
  <2>10. CASE Pop(w)
    BY <2>10 DEF Pop, QueueTypes, TypeInv
  <2>11. CASE PopEmpty(w)
    BY <2>11 DEF PopEmpty, QueueTypes, TypeInv
  <2>12. CASE StealLen(w)
    BY <2>12 DEF StealLen, StealNothing, QueueTypes, TypeInv
  <2>13. CASE StealFlag(w)
    BY <2>13 DEF StealFlag, StealNothing, QueueTypes, TypeInv
  <2>14. CASE StealTake(w)
    BY <2>14, StealEffect DEF StealTake, QueueTypes, TypeInv
  <2>15. CASE LeaveWithWork(w)
    BY <2>15 DEF LeaveWithWork, QueueTypes, TypeInv
  <2>16. CASE EnterSlice(w)
    BY <2>16 DEF EnterSlice, QueueTypes, TypeInv
  <2>17. CASE BusyRead(w)
    BY <2>17 DEF BusyRead, StartSlice, QueueTypes, TypeInv
  <2>18. CASE BusyEdge(w)
    BY <2>18 DEF BusyEdge, QueueTypes, TypeInv
  <2>19. CASE Requeue(w)
    BY <2>19 DEF Requeue, WorkerTypes, CurInv, QueueTypes, TypeInv
  <2>20. CASE ExitSlice(w)
    BY <2>20 DEF ExitSlice, QueueTypes, TypeInv
  <2>21. CASE WaitPlain(w)
    BY <2>21 DEF WaitPlain, QueueTypes, TypeInv
  <2>22. CASE WaitFileIo(w)
    BY <2>22 DEF WaitFileIo, QueueTypes, TypeInv
  <2>23. CASE Register(w)
    BY <2>23 DEF Register, WorkerTypes, CurInv, QueueTypes, TypeInv
  <2>24. CASE Recheck(w)
    BY <2>24 DEF Recheck, QueueTypes, TypeInv
  <2>25. CASE SelfWake(w)
    <3>1. cur[w] \in Pids /\ UNCHANGED <<inject, woken, spawnCounter>>
      BY <2>25 DEF SelfWake, CurInv
    <3>2. CASE waiting[cur[w]] = NoWorker
      BY <2>25, <3>1, <3>2 DEF SelfWake, QueueTypes, TypeInv
    <3>3. CASE waiting[cur[w]] # NoWorker
      <4>1. /\ waiting' = [waiting EXCEPT ![cur[w]] = NoWorker]
            /\ queue' = [queue EXCEPT ![w] = Append(@, cur[w])]
        BY <2>25, <3>3 DEF SelfWake
      <4>2. Append(queue[w], cur[w]) \in Seq(Pids)
        BY <3>1 DEF QueueTypes, TypeInv
      <4>3. QED
        BY <3>1, <4>1, <4>2 DEF QueueTypes, TypeInv
    <3>4. QED
      BY <3>2, <3>3
  <2>26. CASE EndSlice(w)
    BY <2>26 DEF EndSlice, QueueTypes, TypeInv
  <2>27. CASE PublishPark(w)
    BY <2>27 DEF PublishPark, QueueTypes, TypeInv
  <2>28. CASE StartWait(w)
    BY <2>28 DEF StartWait, QueueTypes, TypeInv
  <2>29. CASE WokenByEdge(w)
    BY <2>29 DEF WokenByEdge, QueueTypes, TypeInv
  <2>30. CASE TimedOut(w)
    BY <2>30 DEF TimedOut, QueueTypes, TypeInv
  <2>31. CASE ClearPark(w)
    BY <2>31 DEF ClearPark, QueueTypes, TypeInv
  <2>32. CASE LeavePark(w)
    BY <2>32 DEF LeavePark, QueueTypes, TypeInv
  <2>33. CASE Receive(w)
    BY <2>33 DEF Receive, QueueTypes, TypeInv
  <2>34. CASE WokenSpuriously(w)
    BY <2>34 DEF WokenSpuriously, QueueTypes, TypeInv
  <2>35. CASE \E p \in Pids : WakeFired(w, p)
    BY <2>35, MoveToWokenEffect DEF WakeFired, QueueTypes, TypeInv
  <2>36. CASE \E d \in 1 .. MaxDelay : WaitTimeout(w, d)
    BY <2>36 DEF WaitTimeout, QueueTypes, TypeInv
  <2>37. QED
    BY <1>1, <2>1, <2>2, <2>3, <2>4, <2>5, <2>6, <2>7, <2>8, <2>9, <2>10, <2>11, <2>12,
       <2>13, <2>14, <2>15, <2>16, <2>17, <2>18, <2>19, <2>20, <2>21, <2>22, <2>23,
       <2>24, <2>25, <2>26, <2>27, <2>28, <2>29, <2>30, <2>31, <2>32, <2>33, <2>34,
       <2>35, <2>36
    DEF WorkerStep, Checks, Edges, Finds, Slice, Parks
<1>2. ASSUME Environment
      PROVE  QueueTypes'
  <2>1. CASE \E p \in Pids : Spawn(p)
    <3>1. PICK p \in Pids : Spawn(p)
      BY <2>1
    <3>2. Append(inject[spawnCounter], p) \in Seq(Pids)
      BY DEF QueueTypes, TypeInv
    <3>3. QED
      BY <3>1, <3>2, NextIndexType DEF Spawn, QueueTypes, TypeInv
  <2>2. CASE \E p \in Pids : SpawnTrapExit(p)
    <3>1. PICK p \in Pids : SpawnTrapExit(p)
      BY <2>2
    <3>2. Append(woken[spawnCounter], p) \in Seq(Pids)
      BY DEF QueueTypes, TypeInv
    <3>3. QED
      BY <3>1, <3>2, NextIndexType DEF SpawnTrapExit, QueueTypes, TypeInv
  <2>3. CASE \E p \in Pids : Deliver(p)
    BY <2>3 DEF Deliver, QueueTypes, TypeInv
  <2>4. CASE \E p \in Pids : WakeProcess(p)
    BY <2>4, MoveToWokenEffect DEF WakeProcess, QueueTypes, TypeInv
  <2>5. CASE \E p \in Pids : CompleteFileIo(p)
    BY <2>5 DEF CompleteFileIo, QueueTypes, TypeInv
  <2>6. CASE Shutdown
    BY <2>6 DEF Shutdown, QueueTypes, TypeInv
  <2>7. CASE \E e \in edgeOwed : RunOwedEdge(e)
    BY <2>7 DEF RunOwedEdge, QueueTypes, TypeInv
  <2>8. CASE ClockTick
    BY <2>8 DEF ClockTick, QueueTypes, TypeInv
  <2>9. QED
    BY <1>2, <2>1, <2>2, <2>3, <2>4, <2>5, <2>6, <2>7, <2>8 DEF Environment
<1>3. ASSUME UNCHANGED vars
      PROVE  QueueTypes'
  BY <1>3 DEF vars, QueueTypes, TypeInv
<1>4. QED
  BY <1>1, <1>2, <1>3 DEF Next

(* Worker 0's alarm: the earliest deadline there is. *)
LEMMA EarliestIsLeast ==
  ASSUME TypeInv
  PROVE  Earliest \in Armed \cup {None} /\ Earliest \in 0 .. None /\ \A d \in Armed : Earliest <= d
<1>1. Armed \subseteq 0 .. MaxDelay
  BY DEF Armed, TypeInv, ClockTypes
<1> DEFINE S == Armed \cup {None}
<1>2. S \subseteq Nat /\ S # {} /\ None \in Nat /\ S \subseteq 0 .. None
  BY <1>1, WorkerNumbers
<1>3. IsWellFoundedOn(OpToRel(<, Nat), Nat)
  BY NatLessThanWellFounded
<1>4. PICK x \in S : \A y \in S : ~(<<y, x>> \in OpToRel(<, Nat))
  BY <1>2, <1>3, WFMin
<1>5. \A y \in S : ~(y < x)
  BY <1>2, <1>4 DEF OpToRel
<1>6. \A e \in Armed : x <= e
  BY <1>2, <1>5
<1>7. QED
  BY <1>2, <1>6 DEF Earliest

(* A step keeps the types of timers, deadlines and the ring. *)
LEMMA NextClockTypes ==
  ASSUME TypeInv, CurInv, ThiefInv, [Next]_vars
  PROVE  ClockTypes'
<1> USE WorkerNumbers, EarliestIsLeast DEF workerVars, wakeVars, queueVars, waitVars, timerVars, ioVars, stopVars, Goto
<1>1. ASSUME NEW w \in Workers, WorkerStep(w) \/ Receive(w) \/ WokenSpuriously(w)
      PROVE  ClockTypes'
  <2>1. CASE Stop(w)
    BY <2>1 DEF Stop, ClockTypes, TypeInv
  <2>2. CASE RaiseIdle(w)
    BY <2>2 DEF RaiseIdle, ClockTypes, TypeInv
  <2>3. CASE ReadTicket(w)
    BY <2>3 DEF ReadTicket, ClockTypes, TypeInv
  <2>4. CASE DrainInjected(w)
    BY <2>4 DEF DrainInjected, ClockTypes, TypeInv
  <2>5. CASE TickTimers(w)
    BY <2>5 DEF TickTimers, ClockTypes, TypeInv
  <2>6. CASE DrainFileIo(w)
    BY <2>6 DEF DrainFileIo, ClockTypes, TypeInv
  <2>7. CASE DrainWoken(w)
    BY <2>7 DEF DrainWoken, ClockTypes, TypeInv
  <2>8. CASE SurplusRead(w)
    BY <2>8 DEF SurplusRead, ClockTypes, TypeInv
  <2>9. CASE SurplusEdge(w)
    BY <2>9 DEF SurplusEdge, ClockTypes, TypeInv
  <2>10. CASE Pop(w)
    BY <2>10 DEF Pop, ClockTypes, TypeInv
  <2>11. CASE PopEmpty(w)
    BY <2>11 DEF PopEmpty, ClockTypes, TypeInv
  <2>12. CASE StealLen(w)
    BY <2>12 DEF StealLen, ClockTypes, TypeInv
  <2>13. CASE StealFlag(w)
    BY <2>13 DEF StealFlag, ClockTypes, TypeInv
  <2>14. CASE StealTake(w)
    BY <2>14 DEF StealTake, ClockTypes, TypeInv
  <2>15. CASE LeaveWithWork(w)
    BY <2>15 DEF LeaveWithWork, ClockTypes, TypeInv
  <2>16. CASE EnterSlice(w)
    BY <2>16 DEF EnterSlice, ClockTypes, TypeInv
  <2>17. CASE BusyRead(w)
    BY <2>17 DEF BusyRead, StartSlice, ClockTypes, TypeInv
  <2>18. CASE BusyEdge(w)
    BY <2>18 DEF BusyEdge, ClockTypes, TypeInv
  <2>19. CASE Requeue(w)
    BY <2>19 DEF Requeue, ClockTypes, TypeInv
  <2>20. CASE ExitSlice(w)
    BY <2>20 DEF ExitSlice, ClockTypes, TypeInv
  <2>21. CASE WaitPlain(w)
    BY <2>21 DEF WaitPlain, ClockTypes, TypeInv
  <2>22. CASE WaitFileIo(w)
    BY <2>22 DEF WaitFileIo, WorkerTypes, CurInv, ClockTypes, TypeInv
  <2>23. CASE Register(w)
    BY <2>23 DEF Register, ClockTypes, TypeInv
  <2>24. CASE Recheck(w)
    BY <2>24 DEF Recheck, ClockTypes, TypeInv
  <2>25. CASE SelfWake(w)
    BY <2>25 DEF SelfWake, ClockTypes, TypeInv
  <2>26. CASE EndSlice(w)
    BY <2>26 DEF EndSlice, ClockTypes, TypeInv
  <2>27. CASE PublishPark(w)
    BY <2>27 DEF PublishPark, ClockTypes, TypeInv
  <2>28. CASE StartWait(w)
    BY <2>28 DEF StartWait, ClockTypes, TypeInv
  <2>29. CASE WokenByEdge(w)
    BY <2>29 DEF WokenByEdge, ClockTypes, TypeInv
  <2>30. CASE TimedOut(w)
    BY <2>30 DEF TimedOut, ClockTypes, TypeInv
  <2>31. CASE ClearPark(w)
    BY <2>31 DEF ClearPark, ClockTypes, TypeInv
  <2>32. CASE LeavePark(w)
    BY <2>32 DEF LeavePark, ClockTypes, TypeInv
  <2>33. CASE Receive(w)
    BY <2>33 DEF Receive, ClockTypes, TypeInv
  <2>34. CASE WokenSpuriously(w)
    BY <2>34 DEF WokenSpuriously, ClockTypes, TypeInv
  <2>35. CASE \E p \in Pids : WakeFired(w, p)
    BY <2>35 DEF WakeFired, ClockTypes, TypeInv
  <2>36. CASE \E d \in 1 .. MaxDelay : WaitTimeout(w, d)
    BY <2>36 DEF WaitTimeout, WorkerTypes, CurInv, ClockTypes, TypeInv
  <2>37. QED
    BY <1>1, <2>1, <2>2, <2>3, <2>4, <2>5, <2>6, <2>7, <2>8, <2>9, <2>10, <2>11, <2>12,
       <2>13, <2>14, <2>15, <2>16, <2>17, <2>18, <2>19, <2>20, <2>21, <2>22, <2>23,
       <2>24, <2>25, <2>26, <2>27, <2>28, <2>29, <2>30, <2>31, <2>32, <2>33, <2>34,
       <2>35, <2>36
    DEF WorkerStep, Checks, Edges, Finds, Slice, Parks
<1>2. ASSUME Environment
      PROVE  ClockTypes'
  <2>1. CASE \E p \in Pids : Spawn(p)
    BY <2>1 DEF Spawn, ClockTypes, TypeInv
  <2>2. CASE \E p \in Pids : SpawnTrapExit(p)
    BY <2>2 DEF SpawnTrapExit, ClockTypes, TypeInv
  <2>3. CASE \E p \in Pids : Deliver(p)
    BY <2>3 DEF Deliver, ClockTypes, TypeInv
  <2>4. CASE \E p \in Pids : WakeProcess(p)
    BY <2>4 DEF WakeProcess, ClockTypes, TypeInv
  <2>5. CASE \E p \in Pids : CompleteFileIo(p)
    BY <2>5 DEF CompleteFileIo, ClockTypes, TypeInv
  <2>6. CASE Shutdown
    BY <2>6 DEF Shutdown, ClockTypes, TypeInv
  <2>7. CASE \E e \in edgeOwed : RunOwedEdge(e)
    BY <2>7 DEF RunOwedEdge, ClockTypes, TypeInv
  <2>8. CASE ClockTick
    BY <2>8 DEF ClockTick, Nearer, ClockTypes, TypeInv
  <2>9. QED
    BY <1>2, <2>1, <2>2, <2>3, <2>4, <2>5, <2>6, <2>7, <2>8 DEF Environment
<1>3. ASSUME UNCHANGED vars
      PROVE  ClockTypes'
  BY <1>3 DEF vars, ClockTypes, TypeInv
<1>4. QED
  BY <1>1, <1>2, <1>3 DEF Next

(* A step keeps who has what in his hands, and who ticks. *)
LEMMA NextCur ==
  ASSUME TypeInv, CurInv, ZeroAlone, ThiefInv, [Next]_vars
  PROVE  CurInv' /\ ZeroAlone'
<1> USE WorkerNumbers DEF workerVars, wakeVars, queueVars, waitVars, timerVars, ioVars, stopVars, Goto
<1>1. ASSUME NEW w \in Workers, WorkerStep(w) \/ Receive(w) \/ WokenSpuriously(w)
      PROVE  CurInv' /\ ZeroAlone'
  <2>1. CASE Stop(w)
    BY <2>1 DEF Stop, CurInv, ZeroAlone, TypeInv, WorkerTypes
  <2>2. CASE RaiseIdle(w)
    BY <2>2 DEF RaiseIdle, CurInv, ZeroAlone, TypeInv, WorkerTypes
  <2>3. CASE ReadTicket(w)
    BY <2>3 DEF ReadTicket, CurInv, ZeroAlone, TypeInv, WorkerTypes
  <2>4. CASE DrainInjected(w)
    BY <2>4 DEF DrainInjected, CurInv, ZeroAlone, TypeInv, WorkerTypes
  <2>5. CASE TickTimers(w)
    BY <2>5 DEF TickTimers, CurInv, ZeroAlone, TypeInv, WorkerTypes
  <2>6. CASE DrainFileIo(w)
    BY <2>6 DEF DrainFileIo, CurInv, ZeroAlone, TypeInv, WorkerTypes
  <2>7. CASE DrainWoken(w)
    BY <2>7 DEF DrainWoken, CurInv, ZeroAlone, TypeInv, WorkerTypes
  <2>8. CASE SurplusRead(w)
    BY <2>8 DEF SurplusRead, Return, Proceed, CurInv, ZeroAlone, TypeInv, WorkerTypes
  <2>9. CASE SurplusEdge(w)
    BY <2>9 DEF SurplusEdge, Return, CurInv, ZeroAlone, TypeInv, WorkerTypes
  <2>10. CASE Pop(w)
    BY <2>10 DEF Pop, QueueTypes, CurInv, ZeroAlone, TypeInv, WorkerTypes
  <2>11. CASE PopEmpty(w)
    BY <2>11 DEF PopEmpty, ParkLabel, CurInv, ZeroAlone, TypeInv, WorkerTypes
  <2>12. CASE StealLen(w)
    BY <2>12 DEF StealLen, StealNothing, ParkLabel, CurInv, ZeroAlone, TypeInv, WorkerTypes
  <2>13. CASE StealFlag(w)
    BY <2>13 DEF StealFlag, StealNothing, ParkLabel, CurInv, ZeroAlone, TypeInv, WorkerTypes
  <2>14. CASE StealTake(w)
    BY <2>14 DEF StealTake, StealNothing, ParkLabel, CurInv, ZeroAlone, TypeInv, WorkerTypes
  <2>15. CASE LeaveWithWork(w)
    BY <2>15 DEF LeaveWithWork, CurInv, ZeroAlone, TypeInv, WorkerTypes
  <2>16. CASE EnterSlice(w)
    BY <2>16 DEF EnterSlice, CurInv, ZeroAlone, TypeInv, WorkerTypes
  <2>17. CASE BusyRead(w)
    BY <2>17 DEF BusyRead, StartSlice, CurInv, ZeroAlone, TypeInv, WorkerTypes
  <2>18. CASE BusyEdge(w)
    BY <2>18 DEF BusyEdge, StartSlice, CurInv, ZeroAlone, TypeInv, WorkerTypes
  <2>19. CASE Requeue(w)
    BY <2>19 DEF Requeue, CurInv, ZeroAlone, TypeInv, WorkerTypes
  <2>20. CASE ExitSlice(w)
    BY <2>20 DEF ExitSlice, CurInv, ZeroAlone, TypeInv, WorkerTypes
  <2>21. CASE WaitPlain(w)
    BY <2>21 DEF WaitPlain, CurInv, ZeroAlone, TypeInv, WorkerTypes
  <2>22. CASE WaitFileIo(w)
    BY <2>22 DEF WaitFileIo, CurInv, ZeroAlone, TypeInv, WorkerTypes
  <2>23. CASE Register(w)
    BY <2>23 DEF Register, CurInv, ZeroAlone, TypeInv, WorkerTypes
  <2>24. CASE Recheck(w)
    BY <2>24 DEF Recheck, CurInv, ZeroAlone, TypeInv, WorkerTypes
  <2>25. CASE SelfWake(w)
    BY <2>25 DEF SelfWake, CurInv, ZeroAlone, TypeInv, WorkerTypes
  <2>26. CASE EndSlice(w)
    BY <2>26 DEF EndSlice, CurInv, ZeroAlone, TypeInv, WorkerTypes
  <2>27. CASE PublishPark(w)
    BY <2>27 DEF PublishPark, CurInv, ZeroAlone, TypeInv, WorkerTypes
  <2>28. CASE StartWait(w)
    BY <2>28 DEF StartWait, UnparkLabel, CurInv, ZeroAlone, TypeInv, WorkerTypes
  <2>29. CASE WokenByEdge(w)
    BY <2>29 DEF WokenByEdge, UnparkLabel, CurInv, ZeroAlone, TypeInv, WorkerTypes
  <2>30. CASE TimedOut(w)
    BY <2>30 DEF TimedOut, UnparkLabel, CurInv, ZeroAlone, TypeInv, WorkerTypes
  <2>31. CASE ClearPark(w)
    BY <2>31 DEF ClearPark, CurInv, ZeroAlone, TypeInv, WorkerTypes
  <2>32. CASE LeavePark(w)
    BY <2>32 DEF LeavePark, CurInv, ZeroAlone, TypeInv, WorkerTypes
  <2>33. CASE Receive(w)
    BY <2>33 DEF Receive, CurInv, ZeroAlone, TypeInv, WorkerTypes
  <2>34. CASE WokenSpuriously(w)
    BY <2>34 DEF WokenSpuriously, UnparkLabel, CurInv, ZeroAlone, TypeInv, WorkerTypes
  <2>35. CASE \E p \in Pids : WakeFired(w, p)
    BY <2>35 DEF WakeFired, CurInv, ZeroAlone, TypeInv, WorkerTypes
  <2>36. CASE \E d \in 1 .. MaxDelay : WaitTimeout(w, d)
    BY <2>36 DEF WaitTimeout, CurInv, ZeroAlone, TypeInv, WorkerTypes
  <2>37. QED
    BY <1>1, <2>1, <2>2, <2>3, <2>4, <2>5, <2>6, <2>7, <2>8, <2>9, <2>10, <2>11, <2>12,
       <2>13, <2>14, <2>15, <2>16, <2>17, <2>18, <2>19, <2>20, <2>21, <2>22, <2>23,
       <2>24, <2>25, <2>26, <2>27, <2>28, <2>29, <2>30, <2>31, <2>32, <2>33, <2>34,
       <2>35, <2>36
    DEF WorkerStep, Checks, Edges, Finds, Slice, Parks
<1>2. ASSUME Environment
      PROVE  CurInv' /\ ZeroAlone'
  <2>1. CASE \E p \in Pids : Spawn(p)
    BY <2>1 DEF Spawn, CurInv, ZeroAlone, TypeInv, WorkerTypes
  <2>2. CASE \E p \in Pids : SpawnTrapExit(p)
    BY <2>2 DEF SpawnTrapExit, CurInv, ZeroAlone, TypeInv, WorkerTypes
  <2>3. CASE \E p \in Pids : Deliver(p)
    BY <2>3 DEF Deliver, CurInv, ZeroAlone, TypeInv, WorkerTypes
  <2>4. CASE \E p \in Pids : WakeProcess(p)
    BY <2>4 DEF WakeProcess, CurInv, ZeroAlone, TypeInv, WorkerTypes
  <2>5. CASE \E p \in Pids : CompleteFileIo(p)
    BY <2>5 DEF CompleteFileIo, CurInv, ZeroAlone, TypeInv, WorkerTypes
  <2>6. CASE Shutdown
    BY <2>6 DEF Shutdown, CurInv, ZeroAlone, TypeInv, WorkerTypes
  <2>7. CASE \E e \in edgeOwed : RunOwedEdge(e)
    BY <2>7 DEF RunOwedEdge, CurInv, ZeroAlone, TypeInv, WorkerTypes
  <2>8. CASE ClockTick
    BY <2>8 DEF ClockTick, CurInv, ZeroAlone, TypeInv, WorkerTypes
  <2>9. QED
    BY <1>2, <2>1, <2>2, <2>3, <2>4, <2>5, <2>6, <2>7, <2>8 DEF Environment
<1>3. ASSUME UNCHANGED vars
      PROVE  CurInv' /\ ZeroAlone'
  BY <1>3 DEF vars, CurInv, ZeroAlone, TypeInv, WorkerTypes
<1>4. QED
  BY <1>1, <1>2, <1>3 DEF Next

StealSteps == {"stealLen", "stealFlag", "take"}

(* A victim is another worker. *)
LEMMA NextVictimType ==
  ASSUME NEW v \in Workers, NEW w \in Workers, NumWorkers > 1
  PROVE  NextVictim(v, w) \in Workers \ {w}
<1> DEFINE n == (v + 1) % NumWorkers
<1>1. n \in Workers
  BY NextRemainder, NumWorkersAssumption DEF Workers
<1>2. (n + 1) % NumWorkers \in Workers /\ (n + 1) % NumWorkers # n
  BY <1>1, NextRemainder, NumWorkersAssumption DEF Workers
<1>3. QED
  BY <1>1, <1>2 DEF NextVictim

(* Who is not stealing knows nothing. *)
LEMMA NewThief == NoThief \in ThiefRecords /\ ~NoThief.raced
BY DEF NoThief, ThiefRecords

(* A thief that has been raced. *)
LEMMA LateThief ==
  ASSUME ThiefInv, NEW t \in Workers
  PROVE  /\ [thief[t] EXCEPT !.raced = TRUE] \in ThiefRecords /\ [thief[t] EXCEPT !.raced = TRUE].raced
         /\ [thief[t] EXCEPT !.raced = TRUE].victim = thief[t].victim
<1>1. thief[t] \in ThiefRecords
  BY DEF ThiefInv
<1>2. QED
  BY <1>1 DEF ThiefRecords

(* Queues that grow at the back disturb no thief. *)
LEMMA ThiefStands ==
  ASSUME TypeInv, ThiefInv, UNCHANGED thief,
         \A t \in Workers : pc'[t] \in StealSteps => pc'[t] = pc[t],
         \A x \in Workers : Len(queue'[x]) >= Len(queue[x]), QueueTypes'
  PROVE  ThiefInv'
<1>1. \A x \in Workers : Len(queue[x]) \in Nat /\ Len(queue'[x]) \in Nat
  BY DEF TypeInv, QueueTypes
<1>2. \A t \in Workers : thief[t].batch \in Nat
  BY DEF ThiefInv, ThiefRecords
<1>3. QED
  BY <1>1, <1>2 DEF ThiefInv, StealSteps

(* One thief goes on. *)
LEMMA ThiefChanges ==
  ASSUME TypeInv, ThiefInv, NEW w \in Workers, UNCHANGED queue,
         \A t \in Workers : t # w => pc'[t] = pc[t],
         NEW h \in ThiefRecords, thief' = [thief EXCEPT ![w] = h],
         pc'[w] \in StealSteps => h.victim \in Workers \ {w},
         pc'[w] = "take" /\ ~h.raced => h.batch >= 1 /\ h.batch <= Len(queue[h.victim])
  PROVE  ThiefInv'
<1>1. thief' \in [Workers -> ThiefRecords] /\ thief'[w] = h /\ \A t \in Workers : t # w => thief'[t] = thief[t]
  BY DEF ThiefInv
<1>2. QED
  BY <1>1 DEF ThiefInv, StealSteps

(* A thief that gets nothing turns to the next victim, or gives up. *)
LEMMA StealNothingKeeps ==
  ASSUME TypeInv, ThiefInv, NEW w \in Workers, pc[w] \in StealSteps, StealNothing(w), UNCHANGED queue
  PROVE  ThiefInv'
<1> DEFINE v == thief[w].victim
<1>0. v \in Workers \ {w} /\ thief[w].left \in Nat
  BY DEF ThiefInv, ThiefRecords, StealSteps
<1>1. CASE thief[w].left > 1
  <2> DEFINE n == NextVictim(v, w)
             h == [NoThief EXCEPT !.victim = n, !.left = thief[w].left - 1]
  <2>1. thief' = [thief EXCEPT ![w] = h] /\ pc' = [pc EXCEPT ![w] = "stealLen"]
    BY <1>1 DEF StealNothing, Goto
  <2>2. pc'[w] = "stealLen" /\ \A t \in Workers : t # w => pc'[t] = pc[t]
    BY <2>1 DEF TypeInv, WorkerTypes
  <2>3. NumWorkers > 1
    BY <1>0, NumWorkersAssumption DEF Workers
  <2>4. n \in Workers \ {w} /\ thief[w].left - 1 \in Nat
    BY <1>0, <1>1, <2>3, NextVictimType
  <2>5. h \in ThiefRecords /\ h.victim = n
    BY <2>4, NewThief DEF ThiefRecords
  <2> HIDE DEF n, h
  <2>6. QED
    BY <2>1, <2>2, <2>4, <2>5, ThiefChanges
<1>2. CASE ~(thief[w].left > 1)
  <2>1. thief' = [thief EXCEPT ![w] = NoThief] /\ pc' = [pc EXCEPT ![w] = ParkLabel(w)]
    BY <1>2 DEF StealNothing, Goto
  <2>2. pc'[w] \notin StealSteps /\ \A t \in Workers : t # w => pc'[t] = pc[t]
    BY <2>1 DEF TypeInv, WorkerTypes, ParkLabel, StealSteps
  <2>3. QED
    BY <2>1, <2>2, NewThief, ThiefChanges DEF StealSteps
<1>3. QED
  BY <1>1, <1>2

(* Whoever takes from the front tells the thieves of that queue. *)
LEMMA FrontMovesKeeps ==
  ASSUME TypeInv, ThiefInv, NEW v \in Workers, FrontMoves(v),
         \A x \in Workers : x # v => queue'[x] = queue[x],
         \A t \in Workers : pc'[t] \in StealSteps => pc'[t] = pc[t]
  PROVE  ThiefInv'
<1> DEFINE late(t) == [thief[t] EXCEPT !.raced = TRUE]
<1>1. \A t \in Workers : thief'[t] = IF pc[t] = "take" /\ thief[t].victim = v THEN late(t) ELSE thief[t]
  BY DEF FrontMoves
<1>2. \A t \in Workers : late(t) \in ThiefRecords /\ late(t).raced /\ late(t).victim = thief[t].victim
  BY LateThief
<1> HIDE DEF late
<1>3. thief' \in [Workers -> ThiefRecords]
  <2>1. \A t \in Workers : thief'[t] \in ThiefRecords
    BY <1>1, <1>2 DEF ThiefInv
  <2>2. QED
    BY <2>1 DEF FrontMoves
<1>4. \A t \in Workers : thief'[t].victim = thief[t].victim
  BY <1>1, <1>2
<1>5. \A t \in Workers : pc'[t] = "take" /\ ~thief'[t].raced => thief'[t] = thief[t] /\ thief[t].victim # v
  BY <1>1, <1>2 DEF StealSteps
<1>6. QED
  BY <1>3, <1>4, <1>5 DEF ThiefInv, StealSteps

(* A thief that takes tells the others. *)
LEMMA StealTakeKeeps ==
  ASSUME TypeInv, ThiefInv, NEW w \in Workers, StealTake(w), ~thief[w].raced, QueueTypes'
  PROVE  ThiefInv'
<1> DEFINE v == thief[w].victim
           late(t) == [thief[t] EXCEPT !.raced = TRUE]
<1>1. /\ thief' = [t \in Workers |->
                      IF t = w THEN NoThief
                      ELSE IF pc[t] = "take" /\ thief[t].victim = v THEN late(t) ELSE thief[t]]
      /\ pc' = [pc EXCEPT ![w] = "surplus"]
  BY DEF StealTake, Goto
<1>2. \A t \in Workers : late(t) \in ThiefRecords /\ late(t).raced /\ late(t).victim = thief[t].victim
  BY LateThief
<1> HIDE DEF late
<1>3. pc'[w] = "surplus" /\ \A t \in Workers : t # w => pc'[t] = pc[t]
  BY <1>1 DEF TypeInv, WorkerTypes
<1>4. thief' \in [Workers -> ThiefRecords]
  BY <1>1, <1>2, NewThief DEF ThiefInv
<1>5. \A t \in Workers : t # w => thief'[t].victim = thief[t].victim
  BY <1>1, <1>2
<1>6. \A t \in Workers : t # w /\ pc'[t] = "take" /\ ~thief'[t].raced => thief'[t] = thief[t] /\ thief[t].victim # v
  BY <1>1, <1>2, <1>3
<1>7. v \in Workers \ {w}
  BY DEF StealTake, ThiefInv
<1>8. \A x \in Workers : x # v => Len(queue'[x]) \in Nat /\ Len(queue[x]) \in Nat /\ Len(queue'[x]) >= Len(queue[x])
  <2> DEFINE own == queue[w] \o SubSeq(queue[v], 2, thief[w].batch) \o <<queue[v][1]>>
  <2>1. queue' = [queue EXCEPT ![v] = SubSeq(@, thief[w].batch + 1, Len(@)),
                               ![w] = @ \o SubSeq(queue[v], 2, thief[w].batch) \o <<queue[v][1]>>]
    BY DEF StealTake
  <2>2. queue'[w] = own /\ \A x \in Workers : x \notin {v, w} => queue'[x] = queue[x]
    BY <1>7, <2>1 DEF TypeInv, QueueTypes
  <2>3. queue[w] \in Seq(Pids) /\ SubSeq(queue[v], 2, thief[w].batch) \in Seq(Pids) /\ queue[v][1] \in Pids
    <3>1. thief[w].batch \in Nat /\ thief[w].batch >= 1 /\ thief[w].batch <= Len(queue[v])
      BY DEF StealTake, ThiefInv, ThiefRecords
    <3>2. queue[v] \in Seq(Pids) /\ queue[w] \in Seq(Pids)
      BY <1>7 DEF TypeInv, QueueTypes
    <3>3. QED
      BY <3>1, <3>2, BatchAndRest
  <2>4. own \in Seq(Pids) /\ Len(own) >= Len(queue[w])
    BY <2>3
  <2> HIDE DEF own
  <2>5. \A x \in Workers : Len(queue[x]) \in Nat /\ Len(queue'[x]) \in Nat
    <3>1. \A x \in Workers : queue[x] \in Seq(Pids) /\ queue'[x] \in Seq(Pids)
      BY DEF TypeInv, QueueTypes
    <3>2. QED
      BY <3>1
  <2>6. QED
    BY <2>2, <2>4, <2>5
<1>9. \A t \in Workers : thief[t].batch \in Nat
  BY DEF ThiefInv, ThiefRecords
<1>10. \A t \in Workers : pc'[t] = "take" /\ ~thief'[t].raced =>
         thief'[t].batch >= 1 /\ thief'[t].batch <= Len(queue'[thief'[t].victim])
  <2> SUFFICES ASSUME NEW t \in Workers, pc'[t] = "take", ~thief'[t].raced
               PROVE  thief'[t].batch >= 1 /\ thief'[t].batch <= Len(queue'[thief'[t].victim])
    OBVIOUS
  <2>1. t # w /\ pc[t] = "take" /\ thief'[t] = thief[t] /\ thief[t].victim # v
    BY <1>3, <1>6
  <2>2. thief[t].victim \in Workers /\ thief[t].batch >= 1 /\ thief[t].batch <= Len(queue[thief[t].victim])
    BY <2>1 DEF ThiefInv
  <2>3. QED
    BY <1>8, <1>9, <2>1, <2>2
<1>11. \A t \in Workers : pc'[t] \in StealSteps => thief'[t].victim \in Workers \ {t}
  BY <1>3, <1>5 DEF ThiefInv, StealSteps
<1>12. QED
  BY <1>4, <1>10, <1>11 DEF ThiefInv, StealSteps

(* A step keeps what thieves know. *)
LEMMA NextThief ==
  ASSUME TypeInv, CurInv, ThiefInv, [Next]_vars
  PROVE  ThiefInv'
<1> USE NextQueueTypes DEF StealSteps, workerVars, wakeVars, queueVars, waitVars, timerVars, ioVars, stopVars, Goto
<1>1. ASSUME NEW w \in Workers, WorkerStep(w) \/ Receive(w) \/ WokenSpuriously(w)
      PROVE  ThiefInv'
  <2>1. CASE Stop(w)
    BY <2>1, ThiefStands DEF Stop, TypeInv, WorkerTypes
  <2>2. CASE RaiseIdle(w)
    BY <2>2, ThiefStands DEF RaiseIdle, TypeInv, WorkerTypes
  <2>3. CASE ReadTicket(w)
    BY <2>3, ThiefStands DEF ReadTicket, TypeInv, WorkerTypes
  <2>4. CASE DrainInjected(w)
    <3>1. queue[w] \o inject[w] \in Seq(Pids) /\ Len(queue[w] \o inject[w]) >= Len(queue[w])
      BY <2>4 DEF DrainInjected, CurInv, QueueTypes, TypeInv
    <3>2. QED
      BY <2>4, <3>1, ThiefStands DEF DrainInjected, WorkerTypes, QueueTypes, TypeInv
  <2>5. CASE TickTimers(w)
    BY <2>5, ThiefStands DEF TickTimers, TypeInv, WorkerTypes
  <2>6. CASE DrainFileIo(w)
    BY <2>6, ThiefStands DEF DrainFileIo, TypeInv, WorkerTypes
  <2>7. CASE DrainWoken(w)
    <3>1. queue[w] \o woken[w] \in Seq(Pids) /\ Len(queue[w] \o woken[w]) >= Len(queue[w])
      BY <2>7 DEF DrainWoken, CurInv, QueueTypes, TypeInv
    <3>2. QED
      BY <2>7, <3>1, ThiefStands DEF DrainWoken, WorkerTypes, QueueTypes, TypeInv
  <2>8. CASE SurplusRead(w)
    BY <2>8, ThiefStands DEF SurplusRead, Return, Proceed, TypeInv, WorkerTypes
  <2>9. CASE SurplusEdge(w)
    BY <2>9, ThiefStands DEF SurplusEdge, Return, TypeInv, WorkerTypes
  <2>10. CASE Pop(w)
    <3>1. PICK q \in Seq(Pids) : q = queue[w] /\ q # <<>>
      BY <2>10 DEF Pop, TypeInv, QueueTypes
    <3>2. queue' = [queue EXCEPT ![w] = Tail(q)]
      BY <2>10, <3>1 DEF Pop
    <3>3. \A x \in Workers : x # w => queue'[x] = queue[x]
      BY <3>2 DEF TypeInv, QueueTypes
    <3>4. \A t \in Workers : pc'[t] \in StealSteps => pc'[t] = pc[t]
      BY <2>10 DEF Pop, TypeInv, WorkerTypes
    <3>5. FrontMoves(w)
      BY <2>10 DEF Pop
    <3>6. QED
      BY <3>3, <3>4, <3>5, FrontMovesKeeps
  <2>11. CASE PopEmpty(w)
    <3>1. UNCHANGED queue /\ \A t \in Workers : t # w => pc'[t] = pc[t]
      BY <2>11 DEF PopEmpty, ParkLabel, TypeInv, WorkerTypes
    <3>2. CASE ~(pc[w] = "pop" /\ NumWorkers > 1)
      <4>1. pc'[w] \notin StealSteps /\ UNCHANGED thief
        BY <2>11, <3>2 DEF PopEmpty, ParkLabel, TypeInv, WorkerTypes
      <4>2. QED
        BY <3>1, <4>1, ThiefStands DEF TypeInv, QueueTypes
    <3>3. CASE pc[w] = "pop" /\ NumWorkers > 1
      <4> DEFINE n == NextVictim(lastVictim[w], w)
                 h == [NoThief EXCEPT !.victim = n, !.left = NumWorkers - 1]
      <4>1. thief' = [thief EXCEPT ![w] = h] /\ NumWorkers > 1 /\ pc'[w] = "stealLen"
        BY <2>11, <3>3 DEF PopEmpty, TypeInv, WorkerTypes
      <4>2. n \in Workers \ {w} /\ NumWorkers - 1 \in Nat
        <5>1. lastVictim[w] \in Workers
          BY DEF TypeInv, WorkerTypes
        <5>2. QED
          BY <4>1, <5>1, NextVictimType, NumWorkersAssumption
      <4>3. h \in ThiefRecords /\ h.victim = n
        BY <4>2, NewThief DEF ThiefRecords
      <4> HIDE DEF n, h
      <4>4. QED
        BY <3>1, <4>1, <4>2, <4>3, ThiefChanges
    <3>4. QED
      BY <3>2, <3>3
  <2>12. CASE StealLen(w)
    <3>1. UNCHANGED queue
      BY <2>12 DEF StealLen
    <3>2. CASE StealNothing(w)
      BY <2>12, <3>1, <3>2, StealNothingKeeps DEF StealLen
    <3>3. CASE ~StealNothing(w)
      <4> DEFINE len == Len(queue[thief[w].victim])
                 h == [thief[w] EXCEPT !.len = len]
      <4>1. thief' = [thief EXCEPT ![w].len = len] /\ pc' = [pc EXCEPT ![w] = "stealFlag"] /\ pc[w] = "stealLen"
        BY <2>12, <3>3 DEF StealLen
      <4>2. thief' = [thief EXCEPT ![w] = h] /\ pc'[w] = "stealFlag" /\ \A t \in Workers : t # w => pc'[t] = pc[t]
        BY <4>1 DEF ThiefInv, TypeInv, WorkerTypes
      <4>3. thief[w] \in ThiefRecords /\ thief[w].victim \in Workers \ {w} /\ len \in Nat
        BY <4>1 DEF ThiefInv, TypeInv, QueueTypes
      <4>4. h \in ThiefRecords /\ h.victim = thief[w].victim
        BY <4>3 DEF ThiefRecords
      <4> HIDE DEF h
      <4>5. QED
        BY <3>1, <4>2, <4>3, <4>4, ThiefChanges
    <3>4. QED
      BY <3>2, <3>3
  <2>13. CASE StealFlag(w)
    <3>1. UNCHANGED queue
      BY <2>13 DEF StealFlag
    <3>2. CASE StealNothing(w)
      BY <2>13, <3>1, <3>2, StealNothingKeeps DEF StealFlag
    <3>3. CASE ~StealNothing(w)
      <4> DEFINE q == queue[thief[w].victim]
                 limit == StealLimit(thief[w].len, inSlice[thief[w].victim])
                 batch == BatchSize(limit, Len(q))
                 h == [[thief[w] EXCEPT !.batch = batch] EXCEPT !.len = 0]
      <4>1. /\ thief' = [thief EXCEPT ![w].batch = batch, ![w].len = 0] /\ pc' = [pc EXCEPT ![w] = "take"]
            /\ pc[w] = "stealFlag" /\ batch # 0
        BY <2>13, <3>3 DEF StealFlag
      <4>2. thief[w] \in ThiefRecords /\ thief[w].victim \in Workers \ {w} /\ thief[w].len \in Nat /\ q \in Seq(Pids)
        BY <4>1 DEF ThiefInv, ThiefRecords, TypeInv, QueueTypes
      <4>3. batch \in Nat /\ batch >= 1 /\ batch <= Len(q)
        <5>1. limit \in Nat
          BY <4>2 DEF StealLimit
        <5>2. Len(q) \in Nat /\ (Len(q) + 1) \div 2 \in Nat /\ (Len(q) + 1) \div 2 <= Len(q)
          <6>1. \A n \in Nat : (n + 1) \div 2 \in Nat /\ (n + 1) \div 2 <= n
            OBVIOUS
          <6>2. Len(q) \in Nat
            BY <4>2
          <6>3. QED
            BY <6>1, <6>2
        <5> HIDE DEF limit, q
        <5>3. QED
          BY <4>1, <5>1, <5>2 DEF BatchSize
      <4> HIDE DEF batch
      <4>4. h \in ThiefRecords /\ h.victim = thief[w].victim /\ h.batch = batch
        BY <4>2, <4>3 DEF ThiefRecords
      <4>5. thief' = [thief EXCEPT ![w] = h] /\ pc'[w] = "take" /\ \A t \in Workers : t # w => pc'[t] = pc[t]
        BY <4>1 DEF ThiefInv, TypeInv, WorkerTypes
      <4> HIDE DEF h
      <4>6. QED
        BY <3>1, <4>2, <4>3, <4>4, <4>5, ThiefChanges
    <3>4. QED
      BY <3>2, <3>3
  <2>14. CASE StealTake(w)
    <3>1. CASE thief[w].raced
      BY <2>14, <3>1, StealNothingKeeps DEF StealTake
    <3>2. CASE ~thief[w].raced
      BY <2>14, <3>2, StealTakeKeeps
    <3>3. QED
      BY <3>1, <3>2
  <2>15. CASE LeaveWithWork(w)
    BY <2>15, ThiefStands DEF LeaveWithWork, TypeInv, WorkerTypes
  <2>16. CASE EnterSlice(w)
    BY <2>16, ThiefStands DEF EnterSlice, TypeInv, WorkerTypes
  <2>17. CASE BusyRead(w)
    BY <2>17, ThiefStands DEF BusyRead, StartSlice, TypeInv, WorkerTypes
  <2>18. CASE BusyEdge(w)
    BY <2>18, ThiefStands DEF BusyEdge, StartSlice, TypeInv, WorkerTypes
  <2>19. CASE Requeue(w)
    <3>1. Append(queue[w], cur[w]) \in Seq(Pids) /\ Len(Append(queue[w], cur[w])) >= Len(queue[w])
      BY <2>19 DEF Requeue, CurInv, QueueTypes, TypeInv
    <3>2. QED
      BY <2>19, <3>1, ThiefStands DEF Requeue, WorkerTypes, QueueTypes, TypeInv
  <2>20. CASE ExitSlice(w)
    BY <2>20, ThiefStands DEF ExitSlice, TypeInv, WorkerTypes
  <2>21. CASE WaitPlain(w)
    BY <2>21, ThiefStands DEF WaitPlain, TypeInv, WorkerTypes
  <2>22. CASE WaitFileIo(w)
    BY <2>22, ThiefStands DEF WaitFileIo, TypeInv, WorkerTypes
  <2>23. CASE Register(w)
    BY <2>23, ThiefStands DEF Register, TypeInv, WorkerTypes
  <2>24. CASE Recheck(w)
    BY <2>24, ThiefStands DEF Recheck, TypeInv, WorkerTypes
  <2>25. CASE SelfWake(w)
    <3>1. Append(queue[w], cur[w]) \in Seq(Pids) /\ Len(Append(queue[w], cur[w])) >= Len(queue[w])
      BY <2>25 DEF SelfWake, CurInv, QueueTypes, TypeInv
    <3>2. UNCHANGED queue \/ queue' = [queue EXCEPT ![w] = Append(@, cur[w])]
      BY <2>25 DEF SelfWake
    <3>3. UNCHANGED thief /\ \A t \in Workers : pc'[t] \in StealSteps => pc'[t] = pc[t]
      BY <2>25 DEF SelfWake, WorkerTypes, TypeInv
    <3>4. \A x \in Workers : Len(queue'[x]) >= Len(queue[x])
      <4>1. queue \in [Workers -> Seq(Pids)] /\ \A x \in Workers : Len(queue[x]) \in Nat
        BY DEF QueueTypes, TypeInv
      <4> DEFINE own == Append(queue[w], cur[w])
      <4>2. UNCHANGED queue \/ queue' = [queue EXCEPT ![w] = own]
        BY <3>2
      <4>3. Len(own) >= Len(queue[w])
        BY <3>1
      <4> HIDE DEF own
      <4>4. QED
        BY <4>1, <4>2, <4>3
    <3>5. QED
      BY <3>3, <3>4, ThiefStands
  <2>26. CASE EndSlice(w)
    BY <2>26, ThiefStands DEF EndSlice, TypeInv, WorkerTypes
  <2>27. CASE PublishPark(w)
    BY <2>27, ThiefStands DEF PublishPark, TypeInv, WorkerTypes
  <2>28. CASE StartWait(w)
    BY <2>28, ThiefStands DEF StartWait, UnparkLabel, TypeInv, WorkerTypes
  <2>29. CASE WokenByEdge(w)
    BY <2>29, ThiefStands DEF WokenByEdge, UnparkLabel, TypeInv, WorkerTypes
  <2>30. CASE TimedOut(w)
    BY <2>30, ThiefStands DEF TimedOut, UnparkLabel, TypeInv, WorkerTypes
  <2>31. CASE ClearPark(w)
    BY <2>31, ThiefStands DEF ClearPark, TypeInv, WorkerTypes
  <2>32. CASE LeavePark(w)
    BY <2>32, ThiefStands DEF LeavePark, TypeInv, WorkerTypes
  <2>33. CASE Receive(w)
    BY <2>33, ThiefStands DEF Receive, TypeInv, WorkerTypes
  <2>34. CASE WokenSpuriously(w)
    BY <2>34, ThiefStands DEF WokenSpuriously, UnparkLabel, TypeInv, WorkerTypes
  <2>35. CASE \E p \in Pids : WakeFired(w, p)
    BY <2>35, ThiefStands DEF WakeFired, TypeInv, WorkerTypes
  <2>36. CASE \E d \in 1 .. MaxDelay : WaitTimeout(w, d)
    BY <2>36, ThiefStands DEF WaitTimeout, TypeInv, WorkerTypes
  <2>37. QED
    BY <1>1, <2>1, <2>2, <2>3, <2>4, <2>5, <2>6, <2>7, <2>8, <2>9, <2>10, <2>11, <2>12,
       <2>13, <2>14, <2>15, <2>16, <2>17, <2>18, <2>19, <2>20, <2>21, <2>22, <2>23,
       <2>24, <2>25, <2>26, <2>27, <2>28, <2>29, <2>30, <2>31, <2>32, <2>33, <2>34,
       <2>35, <2>36
    DEF WorkerStep, Checks, Edges, Finds, Slice, Parks
<1>2. ASSUME Environment
      PROVE  ThiefInv'
  <2>1. CASE \E p \in Pids : Spawn(p)
    BY <2>1, ThiefStands DEF Spawn, TypeInv, WorkerTypes
  <2>2. CASE \E p \in Pids : SpawnTrapExit(p)
    BY <2>2, ThiefStands DEF SpawnTrapExit, TypeInv, WorkerTypes
  <2>3. CASE \E p \in Pids : Deliver(p)
    BY <2>3, ThiefStands DEF Deliver, TypeInv, WorkerTypes
  <2>4. CASE \E p \in Pids : WakeProcess(p)
    BY <2>4, ThiefStands DEF WakeProcess, TypeInv, WorkerTypes
  <2>5. CASE \E p \in Pids : CompleteFileIo(p)
    BY <2>5, ThiefStands DEF CompleteFileIo, TypeInv, WorkerTypes
  <2>6. CASE Shutdown
    BY <2>6, ThiefStands DEF Shutdown, TypeInv, WorkerTypes
  <2>7. CASE \E e \in edgeOwed : RunOwedEdge(e)
    BY <2>7, ThiefStands DEF RunOwedEdge, TypeInv, WorkerTypes
  <2>8. CASE ClockTick
    BY <2>8, ThiefStands DEF ClockTick, TypeInv, WorkerTypes
  <2>9. QED
    BY <1>2, <2>1, <2>2, <2>3, <2>4, <2>5, <2>6, <2>7, <2>8 DEF Environment
<1>3. ASSUME UNCHANGED vars
      PROVE  ThiefInv'
  BY <1>3, ThiefStands DEF vars, QueueTypes, TypeInv, WorkerTypes
<1>4. QED
  BY <1>1, <1>2, <1>3 DEF Next

-----------------------------------------------------------------------------
(* What a worker on its way to sleep has seen.  Each look holds until an    *)
(* edge moves the sequence past the worker's ticket.                        *)

(* The worker holds a ticket and has drained its spawn requests ... *)
PastInject(w) == HoldsTicket(w) /\ pc[w] # "inject"

(* ... has polled the ring (worker 0) ... *)
PastIo(w) == PastInject(w) /\ pc[w] \notin {"tick", "tickWake", "io"}

(* ... has drained its woken list ... *)
PastDrain(w) == PastIo(w) /\ pc[w] \notin {"ioWake", "drain"}

(* ... has found its own queue empty. *)
PastPop(w) == pc[w] \in {"stealLen", "stealFlag", "take", "publish", "wait", "parked"}

(* The inductive invariant of NoLostWake and WorkerZeroNeverOversleeps. *)
SearchedQueue == \A w \in Workers : PastPop(w) => queue[w] = <<>>

DrainedWoken == \A w \in Workers : PastDrain(w) /\ ~moved[w] => woken[w] = <<>>

DrainedInject ==
  \A w \in Workers : PastInject(w) /\ ~moved[w] => \A p \in ToSet(inject[w]) : <<"spawn", p>> \in edgeOwed

SawNoShutdown ==
  \A w \in Workers : Asleep(w) /\ shutdown => <<"shutdown", NoPid>> \in edgeOwed

PolledRing == PastIo(0) /\ ~moved[0] => \A p \in completions : <<"io", p>> \in edgeOwed

AlarmSet ==
  pc[0] \in {"wait", "parked"} =>
    /\ parkedUntil # NotParked /\ \A d \in Armed : parkedUntil <= d
    /\ ~moved[0] => deadline = parkedUntil

SleepInv ==
  SearchedQueue /\ DrainedWoken /\ DrainedInject /\ SawNoShutdown /\ PolledRing /\ AlarmSet

(* Only its owner puts anything on a queue. *)
LEMMA NextSearchedQueue ==
  ASSUME TypeInv, CurInv, ThiefInv, ZeroAlone, SearchedQueue, [Next]_vars
  PROVE  SearchedQueue'
<1> USE WakeEdgeEffect DEF workerVars, wakeVars, queueVars, waitVars, timerVars, ioVars, stopVars, Goto
<1>1. ASSUME NEW w \in Workers, WorkerStep(w) \/ Receive(w) \/ WokenSpuriously(w)
      PROVE  SearchedQueue'
  <2>1. CASE Stop(w)
    BY <2>1 DEF Stop, SearchedQueue, PastPop, TypeInv, WorkerTypes
  <2>2. CASE RaiseIdle(w)
    BY <2>2 DEF RaiseIdle, SearchedQueue, PastPop, TypeInv, WorkerTypes
  <2>3. CASE ReadTicket(w)
    BY <2>3 DEF ReadTicket, SearchedQueue, PastPop, TypeInv, WorkerTypes
  <2>4. CASE DrainInjected(w)
    BY <2>4 DEF DrainInjected, QueueTypes, SearchedQueue, PastPop, TypeInv, WorkerTypes
  <2>5. CASE TickTimers(w)
    BY <2>5 DEF TickTimers, SearchedQueue, PastPop, TypeInv, WorkerTypes
  <2>6. CASE DrainFileIo(w)
    BY <2>6 DEF DrainFileIo, SearchedQueue, PastPop, TypeInv, WorkerTypes
  <2>7. CASE DrainWoken(w)
    BY <2>7 DEF DrainWoken, QueueTypes, SearchedQueue, PastPop, TypeInv, WorkerTypes
  <2>8. CASE SurplusRead(w)
    BY <2>8 DEF SurplusRead, Return, Proceed, SearchedQueue, PastPop, TypeInv, WorkerTypes
  <2>9. CASE SurplusEdge(w)
    BY <2>9 DEF SurplusEdge, Return, SearchedQueue, PastPop, TypeInv, WorkerTypes
  <2>10. CASE Pop(w)
    BY <2>10 DEF Pop, QueueTypes, SearchedQueue, PastPop, TypeInv, WorkerTypes
  <2>11. CASE PopEmpty(w)
    BY <2>11 DEF PopEmpty, ParkLabel, QueueTypes, SearchedQueue, PastPop, TypeInv, WorkerTypes
  <2>12. CASE StealLen(w)
    BY <2>12 DEF StealLen, StealNothing, ParkLabel, SearchedQueue, PastPop, TypeInv, WorkerTypes
  <2>13. CASE StealFlag(w)
    BY <2>13 DEF StealFlag, StealNothing, ParkLabel, SearchedQueue, PastPop, TypeInv, WorkerTypes
  <2>14. CASE StealTake(w)
    <3>1. \A x \in Workers : pc'[x] = pc[x] \/ x = w
      BY <2>14 DEF StealTake, StealNothing, TypeInv, WorkerTypes
    <3>2. CASE UNCHANGED queue
      BY <2>14, <3>2 DEF StealTake, StealNothing, ParkLabel, SearchedQueue, PastPop, TypeInv, WorkerTypes
    <3>3. CASE ~UNCHANGED queue
      <4>1. pc'[w] = "surplus"
        BY <2>14, <3>3 DEF StealTake, TypeInv, WorkerTypes
      <4>2. \A x \in Workers : x # w /\ queue[x] = <<>> => queue'[x] = <<>>
        <5>1. PICK v \in Workers \ {w}, n \in Nat :
                /\ n >= 1 /\ n <= Len(queue[v]) /\ \A x \in Workers \ {v, w} : queue'[x] = queue[x]
          BY <2>14, <3>3, StealEffect
        <5>2. queue[v] # <<>>
          BY <5>1
        <5>3. QED
          BY <5>1, <5>2
      <4>3. QED
        BY <3>1, <4>1, <4>2 DEF SearchedQueue, PastPop
    <3>4. QED
      BY <3>2, <3>3
  <2>15. CASE LeaveWithWork(w)
    BY <2>15 DEF LeaveWithWork, SearchedQueue, PastPop, TypeInv, WorkerTypes
  <2>16. CASE EnterSlice(w)
    BY <2>16 DEF EnterSlice, SearchedQueue, PastPop, TypeInv, WorkerTypes
  <2>17. CASE BusyRead(w)
    BY <2>17 DEF BusyRead, StartSlice, SearchedQueue, PastPop, TypeInv, WorkerTypes
  <2>18. CASE BusyEdge(w)
    BY <2>18 DEF BusyEdge, StartSlice, SearchedQueue, PastPop, TypeInv, WorkerTypes
  <2>19. CASE Requeue(w)
    BY <2>19 DEF Requeue, QueueTypes, SearchedQueue, PastPop, TypeInv, WorkerTypes
  <2>20. CASE ExitSlice(w)
    BY <2>20 DEF ExitSlice, SearchedQueue, PastPop, TypeInv, WorkerTypes
  <2>21. CASE WaitPlain(w)
    BY <2>21 DEF WaitPlain, SearchedQueue, PastPop, TypeInv, WorkerTypes
  <2>22. CASE WaitFileIo(w)
    BY <2>22 DEF WaitFileIo, SearchedQueue, PastPop, TypeInv, WorkerTypes
  <2>23. CASE Register(w)
    BY <2>23 DEF Register, SearchedQueue, PastPop, TypeInv, WorkerTypes
  <2>24. CASE Recheck(w)
    BY <2>24 DEF Recheck, SearchedQueue, PastPop, TypeInv, WorkerTypes
  <2>25. CASE SelfWake(w)
    BY <2>25 DEF SelfWake, QueueTypes, SearchedQueue, PastPop, TypeInv, WorkerTypes
  <2>26. CASE EndSlice(w)
    BY <2>26 DEF EndSlice, SearchedQueue, PastPop, TypeInv, WorkerTypes
  <2>27. CASE PublishPark(w)
    BY <2>27 DEF PublishPark, SearchedQueue, PastPop, TypeInv, WorkerTypes
  <2>28. CASE StartWait(w)
    BY <2>28 DEF StartWait, UnparkLabel, SearchedQueue, PastPop, TypeInv, WorkerTypes
  <2>29. CASE WokenByEdge(w)
    BY <2>29 DEF WokenByEdge, UnparkLabel, SearchedQueue, PastPop, TypeInv, WorkerTypes
  <2>30. CASE TimedOut(w)
    BY <2>30 DEF TimedOut, UnparkLabel, SearchedQueue, PastPop, TypeInv, WorkerTypes
  <2>31. CASE ClearPark(w)
    BY <2>31 DEF ClearPark, SearchedQueue, PastPop, TypeInv, WorkerTypes
  <2>32. CASE LeavePark(w)
    BY <2>32 DEF LeavePark, SearchedQueue, PastPop, TypeInv, WorkerTypes
  <2>33. CASE Receive(w)
    BY <2>33 DEF Receive, SearchedQueue, PastPop, TypeInv, WorkerTypes
  <2>34. CASE WokenSpuriously(w)
    BY <2>34 DEF WokenSpuriously, UnparkLabel, SearchedQueue, PastPop, TypeInv, WorkerTypes
  <2>35. CASE \E p \in Pids : WakeFired(w, p)
    BY <2>35 DEF WakeFired, SearchedQueue, PastPop, TypeInv, WorkerTypes
  <2>36. CASE \E d \in 1 .. MaxDelay : WaitTimeout(w, d)
    BY <2>36 DEF WaitTimeout, SearchedQueue, PastPop, TypeInv, WorkerTypes
  <2>37. QED
    BY <1>1, <2>1, <2>2, <2>3, <2>4, <2>5, <2>6, <2>7, <2>8, <2>9, <2>10, <2>11, <2>12,
       <2>13, <2>14, <2>15, <2>16, <2>17, <2>18, <2>19, <2>20, <2>21, <2>22, <2>23,
       <2>24, <2>25, <2>26, <2>27, <2>28, <2>29, <2>30, <2>31, <2>32, <2>33, <2>34,
       <2>35, <2>36
    DEF WorkerStep, Checks, Edges, Finds, Slice, Parks
<1>2. ASSUME Environment
      PROVE  SearchedQueue'
  <2>1. CASE \E p \in Pids : Spawn(p)
    BY <2>1 DEF Spawn, SearchedQueue, PastPop, TypeInv, WorkerTypes
  <2>2. CASE \E p \in Pids : SpawnTrapExit(p)
    BY <2>2 DEF SpawnTrapExit, SearchedQueue, PastPop, TypeInv, WorkerTypes
  <2>3. CASE \E p \in Pids : Deliver(p)
    BY <2>3 DEF Deliver, SearchedQueue, PastPop, TypeInv, WorkerTypes
  <2>4. CASE \E p \in Pids : WakeProcess(p)
    BY <2>4 DEF WakeProcess, SearchedQueue, PastPop, TypeInv, WorkerTypes
  <2>5. CASE \E p \in Pids : CompleteFileIo(p)
    BY <2>5 DEF CompleteFileIo, SearchedQueue, PastPop, TypeInv, WorkerTypes
  <2>6. CASE Shutdown
    BY <2>6 DEF Shutdown, SearchedQueue, PastPop, TypeInv, WorkerTypes
  <2>7. CASE \E e \in edgeOwed : RunOwedEdge(e)
    BY <2>7 DEF RunOwedEdge, SearchedQueue, PastPop, TypeInv, WorkerTypes
  <2>8. CASE ClockTick
    BY <2>8 DEF ClockTick, SearchedQueue, PastPop, TypeInv, WorkerTypes
  <2>9. QED
    BY <1>2, <2>1, <2>2, <2>3, <2>4, <2>5, <2>6, <2>7, <2>8 DEF Environment
<1>3. ASSUME UNCHANGED vars
      PROVE  SearchedQueue'
  BY <1>3 DEF vars, SearchedQueue, PastPop, TypeInv, WorkerTypes
<1>4. QED
  BY <1>1, <1>2, <1>3 DEF Next

(* Whatever is filed as woken comes with an edge. *)
LEMMA NextDrainedWoken ==
  ASSUME TypeInv, CurInv, ThiefInv, ZeroAlone, DrainedWoken, [Next]_vars
  PROVE  DrainedWoken'
<1> USE WakeEdgeEffect DEF workerVars, wakeVars, queueVars, waitVars, timerVars, ioVars, stopVars, Goto
<1>1. ASSUME NEW w \in Workers, WorkerStep(w) \/ Receive(w) \/ WokenSpuriously(w)
      PROVE  DrainedWoken'
  <2>1. CASE Stop(w)
    BY <2>1 DEF Stop, DrainedWoken, PastDrain, PastIo, PastInject, HoldsTicket, TypeInv, WorkerTypes
  <2>2. CASE RaiseIdle(w)
    BY <2>2 DEF RaiseIdle, DrainedWoken, PastDrain, PastIo, PastInject, HoldsTicket, TypeInv, WorkerTypes
  <2>3. CASE ReadTicket(w)
    BY <2>3 DEF ReadTicket, DrainedWoken, PastDrain, PastIo, PastInject, HoldsTicket, TypeInv, WorkerTypes
  <2>4. CASE DrainInjected(w)
    BY <2>4 DEF DrainInjected, DrainedWoken, PastDrain, PastIo, PastInject, HoldsTicket, TypeInv, WorkerTypes
  <2>5. CASE TickTimers(w)
    BY <2>5 DEF TickTimers, DrainedWoken, PastDrain, PastIo, PastInject, HoldsTicket, TypeInv, WorkerTypes
  <2>6. CASE DrainFileIo(w)
    BY <2>6 DEF DrainFileIo, DrainedWoken, PastDrain, PastIo, PastInject, HoldsTicket, TypeInv, WorkerTypes
  <2>7. CASE DrainWoken(w)
    BY <2>7 DEF DrainWoken, QueueTypes, DrainedWoken, PastDrain, PastIo, PastInject, HoldsTicket, TypeInv, WorkerTypes
  <2>8. CASE SurplusRead(w)
    BY <2>8 DEF SurplusRead, Return, Proceed, DrainedWoken, PastDrain, PastIo, PastInject, HoldsTicket, TypeInv, WorkerTypes
  <2>9. CASE SurplusEdge(w)
    BY <2>9 DEF SurplusEdge, Return, DrainedWoken, PastDrain, PastIo, PastInject, HoldsTicket, TypeInv, WorkerTypes
  <2>10. CASE Pop(w)
    BY <2>10 DEF Pop, DrainedWoken, PastDrain, PastIo, PastInject, HoldsTicket, TypeInv, WorkerTypes
  <2>11. CASE PopEmpty(w)
    BY <2>11 DEF PopEmpty, ParkLabel, DrainedWoken, PastDrain, PastIo, PastInject, HoldsTicket, TypeInv, WorkerTypes
  <2>12. CASE StealLen(w)
    BY <2>12 DEF StealLen, StealNothing, ParkLabel, DrainedWoken, PastDrain, PastIo, PastInject, HoldsTicket, TypeInv, WorkerTypes
  <2>13. CASE StealFlag(w)
    BY <2>13 DEF StealFlag, StealNothing, ParkLabel, DrainedWoken, PastDrain, PastIo, PastInject, HoldsTicket, TypeInv, WorkerTypes
  <2>14. CASE StealTake(w)
    BY <2>14 DEF StealTake, StealNothing, ParkLabel, DrainedWoken, PastDrain, PastIo, PastInject, HoldsTicket, TypeInv, WorkerTypes
  <2>15. CASE LeaveWithWork(w)
    BY <2>15 DEF LeaveWithWork, DrainedWoken, PastDrain, PastIo, PastInject, HoldsTicket, TypeInv, WorkerTypes
  <2>16. CASE EnterSlice(w)
    BY <2>16 DEF EnterSlice, DrainedWoken, PastDrain, PastIo, PastInject, HoldsTicket, TypeInv, WorkerTypes
  <2>17. CASE BusyRead(w)
    BY <2>17 DEF BusyRead, StartSlice, DrainedWoken, PastDrain, PastIo, PastInject, HoldsTicket, TypeInv, WorkerTypes
  <2>18. CASE BusyEdge(w)
    BY <2>18 DEF BusyEdge, StartSlice, DrainedWoken, PastDrain, PastIo, PastInject, HoldsTicket, TypeInv, WorkerTypes
  <2>19. CASE Requeue(w)
    BY <2>19 DEF Requeue, DrainedWoken, PastDrain, PastIo, PastInject, HoldsTicket, TypeInv, WorkerTypes
  <2>20. CASE ExitSlice(w)
    BY <2>20 DEF ExitSlice, DrainedWoken, PastDrain, PastIo, PastInject, HoldsTicket, TypeInv, WorkerTypes
  <2>21. CASE WaitPlain(w)
    BY <2>21 DEF WaitPlain, DrainedWoken, PastDrain, PastIo, PastInject, HoldsTicket, TypeInv, WorkerTypes
  <2>22. CASE WaitFileIo(w)
    BY <2>22 DEF WaitFileIo, DrainedWoken, PastDrain, PastIo, PastInject, HoldsTicket, TypeInv, WorkerTypes
  <2>23. CASE Register(w)
    BY <2>23 DEF Register, DrainedWoken, PastDrain, PastIo, PastInject, HoldsTicket, TypeInv, WorkerTypes
  <2>24. CASE Recheck(w)
    BY <2>24 DEF Recheck, DrainedWoken, PastDrain, PastIo, PastInject, HoldsTicket, TypeInv, WorkerTypes
  <2>25. CASE SelfWake(w)
    BY <2>25 DEF SelfWake, DrainedWoken, PastDrain, PastIo, PastInject, HoldsTicket, TypeInv, WorkerTypes
  <2>26. CASE EndSlice(w)
    BY <2>26 DEF EndSlice, DrainedWoken, PastDrain, PastIo, PastInject, HoldsTicket, TypeInv, WorkerTypes
  <2>27. CASE PublishPark(w)
    BY <2>27 DEF PublishPark, DrainedWoken, PastDrain, PastIo, PastInject, HoldsTicket, TypeInv, WorkerTypes
  <2>28. CASE StartWait(w)
    BY <2>28 DEF StartWait, UnparkLabel, DrainedWoken, PastDrain, PastIo, PastInject, HoldsTicket, TypeInv, WorkerTypes
  <2>29. CASE WokenByEdge(w)
    BY <2>29 DEF WokenByEdge, UnparkLabel, DrainedWoken, PastDrain, PastIo, PastInject, HoldsTicket, TypeInv, WorkerTypes
  <2>30. CASE TimedOut(w)
    BY <2>30 DEF TimedOut, UnparkLabel, DrainedWoken, PastDrain, PastIo, PastInject, HoldsTicket, TypeInv, WorkerTypes
  <2>31. CASE ClearPark(w)
    BY <2>31 DEF ClearPark, DrainedWoken, PastDrain, PastIo, PastInject, HoldsTicket, TypeInv, WorkerTypes
  <2>32. CASE LeavePark(w)
    BY <2>32 DEF LeavePark, DrainedWoken, PastDrain, PastIo, PastInject, HoldsTicket, TypeInv, WorkerTypes
  <2>33. CASE Receive(w)
    BY <2>33 DEF Receive, DrainedWoken, PastDrain, PastIo, PastInject, HoldsTicket, TypeInv, WorkerTypes
  <2>34. CASE WokenSpuriously(w)
    BY <2>34 DEF WokenSpuriously, UnparkLabel, DrainedWoken, PastDrain, PastIo, PastInject, HoldsTicket, TypeInv, WorkerTypes
  <2>35. CASE \E p \in Pids : WakeFired(w, p)
    <3>1. PICK p \in Pids : WakeFired(w, p)
      BY <2>35
    <3>2. MoveToWoken(p) /\ UNCHANGED ret
      BY <3>1 DEF WakeFired
    <3>3. \A x \in Workers : pc'[x] = pc[x] \/ (x = w /\ pc'[x] \in {"io", "drain"})
      BY <3>1 DEF WakeFired, TypeInv, WorkerTypes
    <3>4. QED
      BY <3>2, <3>3, MoveToWokenEffect DEF DrainedWoken, PastDrain, PastIo, PastInject, HoldsTicket
  <2>36. CASE \E d \in 1 .. MaxDelay : WaitTimeout(w, d)
    BY <2>36 DEF WaitTimeout, DrainedWoken, PastDrain, PastIo, PastInject, HoldsTicket, TypeInv, WorkerTypes
  <2>37. QED
    BY <1>1, <2>1, <2>2, <2>3, <2>4, <2>5, <2>6, <2>7, <2>8, <2>9, <2>10, <2>11, <2>12,
       <2>13, <2>14, <2>15, <2>16, <2>17, <2>18, <2>19, <2>20, <2>21, <2>22, <2>23,
       <2>24, <2>25, <2>26, <2>27, <2>28, <2>29, <2>30, <2>31, <2>32, <2>33, <2>34,
       <2>35, <2>36
    DEF WorkerStep, Checks, Edges, Finds, Slice, Parks
<1>2. ASSUME Environment
      PROVE  DrainedWoken'
  <2>1. CASE \E p \in Pids : Spawn(p)
    BY <2>1 DEF Spawn, DrainedWoken, PastDrain, PastIo, PastInject, HoldsTicket, TypeInv, WorkerTypes
  <2>2. CASE \E p \in Pids : SpawnTrapExit(p)
    BY <2>2 DEF SpawnTrapExit, QueueTypes, DrainedWoken, PastDrain, PastIo, PastInject, HoldsTicket, TypeInv, WorkerTypes
  <2>3. CASE \E p \in Pids : Deliver(p)
    BY <2>3 DEF Deliver, DrainedWoken, PastDrain, PastIo, PastInject, HoldsTicket, TypeInv, WorkerTypes
  <2>4. CASE \E p \in Pids : WakeProcess(p)
    <3>1. PICK p \in Pids : MoveToWoken(p) /\ UNCHANGED <<pc, ret>>
      BY <2>4 DEF WakeProcess
    <3>2. QED
      BY <3>1, MoveToWokenEffect DEF DrainedWoken, PastDrain, PastIo, PastInject, HoldsTicket
  <2>5. CASE \E p \in Pids : CompleteFileIo(p)
    BY <2>5 DEF CompleteFileIo, DrainedWoken, PastDrain, PastIo, PastInject, HoldsTicket, TypeInv, WorkerTypes
  <2>6. CASE Shutdown
    BY <2>6 DEF Shutdown, DrainedWoken, PastDrain, PastIo, PastInject, HoldsTicket, TypeInv, WorkerTypes
  <2>7. CASE \E e \in edgeOwed : RunOwedEdge(e)
    BY <2>7 DEF RunOwedEdge, DrainedWoken, PastDrain, PastIo, PastInject, HoldsTicket, TypeInv, WorkerTypes
  <2>8. CASE ClockTick
    BY <2>8 DEF ClockTick, DrainedWoken, PastDrain, PastIo, PastInject, HoldsTicket, TypeInv, WorkerTypes
  <2>9. QED
    BY <1>2, <2>1, <2>2, <2>3, <2>4, <2>5, <2>6, <2>7, <2>8 DEF Environment
<1>3. ASSUME UNCHANGED vars
      PROVE  DrainedWoken'
  BY <1>3 DEF vars, DrainedWoken, PastDrain, PastIo, PastInject, HoldsTicket, TypeInv, WorkerTypes
<1>4. QED
  BY <1>1, <1>2, <1>3 DEF Next

(* The processes of a queue of requests. *)
LEMMA RequestSets ==
  ASSUME NEW s \in Seq(Pids), NEW p \in Pids
  PROVE  ToSet(<<>>) = {} /\ ToSet(Append(s, p)) = ToSet(s) \cup {p}
<1>1. ToSet(<<>>) = {}
  BY DEF ToSet
<1>2. Append(s, p) \in Seq(Pids) /\ Len(Append(s, p)) = Len(s) + 1 /\ Append(s, p)[Len(s) + 1] = p
      /\ Len(s) \in Nat /\ \A i \in 1 .. Len(s) : Append(s, p)[i] = s[i]
  OBVIOUS
<1>3. DOMAIN s = 1 .. Len(s) /\ DOMAIN Append(s, p) = 1 .. Len(s) + 1
  BY <1>2
<1>4. QED
  BY <1>1, <1>2, <1>3 DEF ToSet

(* Whoever files a spawn request owes an edge. *)
LEMMA NextDrainedInject ==
  ASSUME TypeInv, CurInv, ThiefInv, ZeroAlone, DrainedInject, [Next]_vars
  PROVE  DrainedInject'
<1> USE WakeEdgeEffect DEF workerVars, wakeVars, queueVars, waitVars, timerVars, ioVars, stopVars, Goto
<1>1. ASSUME NEW w \in Workers, WorkerStep(w) \/ Receive(w) \/ WokenSpuriously(w)
      PROVE  DrainedInject'
  <2>1. CASE Stop(w)
    BY <2>1 DEF Stop, DrainedInject, PastInject, HoldsTicket, TypeInv, WorkerTypes
  <2>2. CASE RaiseIdle(w)
    BY <2>2 DEF RaiseIdle, DrainedInject, PastInject, HoldsTicket, TypeInv, WorkerTypes
  <2>3. CASE ReadTicket(w)
    BY <2>3 DEF ReadTicket, DrainedInject, PastInject, HoldsTicket, TypeInv, WorkerTypes
  <2>4. CASE DrainInjected(w)
    <3>1. inject'[w] = <<>> /\ UNCHANGED <<moved, edgeOwed, ret>>
      BY <2>4 DEF DrainInjected, TypeInv, QueueTypes
    <3>0. ToSet(<<>>) = {}
      BY DEF ToSet
    <3>2. \A x \in Workers : x # w => inject'[x] = inject[x] /\ pc'[x] = pc[x]
      BY <2>4 DEF DrainInjected, TypeInv, QueueTypes, WorkerTypes
    <3>3. QED
      BY <3>0, <3>1, <3>2 DEF DrainedInject, PastInject, HoldsTicket
  <2>5. CASE TickTimers(w)
    BY <2>5 DEF TickTimers, DrainedInject, PastInject, HoldsTicket, TypeInv, WorkerTypes
  <2>6. CASE DrainFileIo(w)
    BY <2>6 DEF DrainFileIo, DrainedInject, PastInject, HoldsTicket, TypeInv, WorkerTypes
  <2>7. CASE DrainWoken(w)
    BY <2>7 DEF DrainWoken, DrainedInject, PastInject, HoldsTicket, TypeInv, WorkerTypes
  <2>8. CASE SurplusRead(w)
    BY <2>8 DEF SurplusRead, Return, Proceed, DrainedInject, PastInject, HoldsTicket, TypeInv, WorkerTypes
  <2>9. CASE SurplusEdge(w)
    BY <2>9 DEF SurplusEdge, Return, DrainedInject, PastInject, HoldsTicket, TypeInv, WorkerTypes
  <2>10. CASE Pop(w)
    BY <2>10 DEF Pop, DrainedInject, PastInject, HoldsTicket, TypeInv, WorkerTypes
  <2>11. CASE PopEmpty(w)
    BY <2>11 DEF PopEmpty, ParkLabel, DrainedInject, PastInject, HoldsTicket, TypeInv, WorkerTypes
  <2>12. CASE StealLen(w)
    BY <2>12 DEF StealLen, StealNothing, ParkLabel, DrainedInject, PastInject, HoldsTicket, TypeInv, WorkerTypes
  <2>13. CASE StealFlag(w)
    BY <2>13 DEF StealFlag, StealNothing, ParkLabel, DrainedInject, PastInject, HoldsTicket, TypeInv, WorkerTypes
  <2>14. CASE StealTake(w)
    BY <2>14 DEF StealTake, StealNothing, ParkLabel, DrainedInject, PastInject, HoldsTicket, TypeInv, WorkerTypes
  <2>15. CASE LeaveWithWork(w)
    BY <2>15 DEF LeaveWithWork, DrainedInject, PastInject, HoldsTicket, TypeInv, WorkerTypes
  <2>16. CASE EnterSlice(w)
    BY <2>16 DEF EnterSlice, DrainedInject, PastInject, HoldsTicket, TypeInv, WorkerTypes
  <2>17. CASE BusyRead(w)
    BY <2>17 DEF BusyRead, StartSlice, DrainedInject, PastInject, HoldsTicket, TypeInv, WorkerTypes
  <2>18. CASE BusyEdge(w)
    BY <2>18 DEF BusyEdge, StartSlice, DrainedInject, PastInject, HoldsTicket, TypeInv, WorkerTypes
  <2>19. CASE Requeue(w)
    BY <2>19 DEF Requeue, DrainedInject, PastInject, HoldsTicket, TypeInv, WorkerTypes
  <2>20. CASE ExitSlice(w)
    BY <2>20 DEF ExitSlice, DrainedInject, PastInject, HoldsTicket, TypeInv, WorkerTypes
  <2>21. CASE WaitPlain(w)
    BY <2>21 DEF WaitPlain, DrainedInject, PastInject, HoldsTicket, TypeInv, WorkerTypes
  <2>22. CASE WaitFileIo(w)
    BY <2>22 DEF WaitFileIo, DrainedInject, PastInject, HoldsTicket, TypeInv, WorkerTypes
  <2>23. CASE Register(w)
    BY <2>23 DEF Register, DrainedInject, PastInject, HoldsTicket, TypeInv, WorkerTypes
  <2>24. CASE Recheck(w)
    BY <2>24 DEF Recheck, DrainedInject, PastInject, HoldsTicket, TypeInv, WorkerTypes
  <2>25. CASE SelfWake(w)
    BY <2>25 DEF SelfWake, DrainedInject, PastInject, HoldsTicket, TypeInv, WorkerTypes
  <2>26. CASE EndSlice(w)
    BY <2>26 DEF EndSlice, DrainedInject, PastInject, HoldsTicket, TypeInv, WorkerTypes
  <2>27. CASE PublishPark(w)
    BY <2>27 DEF PublishPark, DrainedInject, PastInject, HoldsTicket, TypeInv, WorkerTypes
  <2>28. CASE StartWait(w)
    BY <2>28 DEF StartWait, UnparkLabel, DrainedInject, PastInject, HoldsTicket, TypeInv, WorkerTypes
  <2>29. CASE WokenByEdge(w)
    BY <2>29 DEF WokenByEdge, UnparkLabel, DrainedInject, PastInject, HoldsTicket, TypeInv, WorkerTypes
  <2>30. CASE TimedOut(w)
    BY <2>30 DEF TimedOut, UnparkLabel, DrainedInject, PastInject, HoldsTicket, TypeInv, WorkerTypes
  <2>31. CASE ClearPark(w)
    BY <2>31 DEF ClearPark, DrainedInject, PastInject, HoldsTicket, TypeInv, WorkerTypes
  <2>32. CASE LeavePark(w)
    BY <2>32 DEF LeavePark, DrainedInject, PastInject, HoldsTicket, TypeInv, WorkerTypes
  <2>33. CASE Receive(w)
    BY <2>33 DEF Receive, DrainedInject, PastInject, HoldsTicket, TypeInv, WorkerTypes
  <2>34. CASE WokenSpuriously(w)
    BY <2>34 DEF WokenSpuriously, UnparkLabel, DrainedInject, PastInject, HoldsTicket, TypeInv, WorkerTypes
  <2>35. CASE \E p \in Pids : WakeFired(w, p)
    BY <2>35 DEF WakeFired, MoveToWoken, DrainedInject, PastInject, HoldsTicket, TypeInv, WorkerTypes
  <2>36. CASE \E d \in 1 .. MaxDelay : WaitTimeout(w, d)
    BY <2>36 DEF WaitTimeout, DrainedInject, PastInject, HoldsTicket, TypeInv, WorkerTypes
  <2>37. QED
    BY <1>1, <2>1, <2>2, <2>3, <2>4, <2>5, <2>6, <2>7, <2>8, <2>9, <2>10, <2>11, <2>12,
       <2>13, <2>14, <2>15, <2>16, <2>17, <2>18, <2>19, <2>20, <2>21, <2>22, <2>23,
       <2>24, <2>25, <2>26, <2>27, <2>28, <2>29, <2>30, <2>31, <2>32, <2>33, <2>34,
       <2>35, <2>36
    DEF WorkerStep, Checks, Edges, Finds, Slice, Parks
<1>2. ASSUME Environment
      PROVE  DrainedInject'
  <2>1. CASE \E p \in Pids : Spawn(p)
    <3>1. PICK p \in Pids : Spawn(p)
      BY <2>1
    <3>2. UNCHANGED <<moved, pc, ret>> /\ edgeOwed' = edgeOwed \cup {<<"spawn", p>>}
      BY <3>1 DEF Spawn
    <3> DEFINE filed == Append(inject[spawnCounter], p)
    <3>3. inject' = [inject EXCEPT ![spawnCounter] = filed]
      BY <3>1 DEF Spawn
    <3>4. ToSet(filed) = ToSet(inject[spawnCounter]) \cup {p}
      BY RequestSets DEF TypeInv, QueueTypes
    <3> HIDE DEF filed
    <3>5. \A x \in Workers : ToSet(inject'[x]) \subseteq ToSet(inject[x]) \cup {p}
      BY <3>3, <3>4 DEF TypeInv, QueueTypes
    <3>6. QED
      BY <3>2, <3>5 DEF DrainedInject, PastInject, HoldsTicket
  <2>2. CASE \E p \in Pids : SpawnTrapExit(p)
    BY <2>2 DEF SpawnTrapExit, DrainedInject, PastInject, HoldsTicket, TypeInv, WorkerTypes
  <2>3. CASE \E p \in Pids : Deliver(p)
    BY <2>3 DEF Deliver, DrainedInject, PastInject, HoldsTicket, TypeInv, WorkerTypes
  <2>4. CASE \E p \in Pids : WakeProcess(p)
    BY <2>4 DEF WakeProcess, MoveToWoken, DrainedInject, PastInject, HoldsTicket, TypeInv, WorkerTypes
  <2>5. CASE \E p \in Pids : CompleteFileIo(p)
    BY <2>5 DEF CompleteFileIo, DrainedInject, PastInject, HoldsTicket, TypeInv, WorkerTypes
  <2>6. CASE Shutdown
    BY <2>6 DEF Shutdown, DrainedInject, PastInject, HoldsTicket, TypeInv, WorkerTypes
  <2>7. CASE \E e \in edgeOwed : RunOwedEdge(e)
    BY <2>7 DEF RunOwedEdge, DrainedInject, PastInject, HoldsTicket, TypeInv, WorkerTypes
  <2>8. CASE ClockTick
    BY <2>8 DEF ClockTick, DrainedInject, PastInject, HoldsTicket, TypeInv, WorkerTypes
  <2>9. QED
    BY <1>2, <2>1, <2>2, <2>3, <2>4, <2>5, <2>6, <2>7, <2>8 DEF Environment
<1>3. ASSUME UNCHANGED vars
      PROVE  DrainedInject'
  BY <1>3 DEF vars, DrainedInject, PastInject, HoldsTicket, TypeInv, WorkerTypes
<1>4. QED
  BY <1>1, <1>2, <1>3 DEF Next

(* Nobody falls asleep after the shutdown. *)
LEMMA NextSawNoShutdown ==
  ASSUME TypeInv, CurInv, ThiefInv, ZeroAlone, SawNoShutdown, [Next]_vars
  PROVE  SawNoShutdown'
<1> USE WakeEdgeEffect DEF workerVars, wakeVars, queueVars, waitVars, timerVars, ioVars, stopVars, Goto
<1>1. ASSUME NEW w \in Workers, WorkerStep(w) \/ Receive(w) \/ WokenSpuriously(w)
      PROVE  SawNoShutdown'
  <2>1. CASE Stop(w)
    BY <2>1 DEF Stop, SawNoShutdown, Asleep, HoldsTicket, TypeInv, WorkerTypes
  <2>2. CASE RaiseIdle(w)
    BY <2>2 DEF RaiseIdle, SawNoShutdown, Asleep, HoldsTicket, TypeInv, WorkerTypes
  <2>3. CASE ReadTicket(w)
    BY <2>3 DEF ReadTicket, SawNoShutdown, Asleep, HoldsTicket, TypeInv, WorkerTypes
  <2>4. CASE DrainInjected(w)
    BY <2>4 DEF DrainInjected, SawNoShutdown, Asleep, HoldsTicket, TypeInv, WorkerTypes
  <2>5. CASE TickTimers(w)
    BY <2>5 DEF TickTimers, SawNoShutdown, Asleep, HoldsTicket, TypeInv, WorkerTypes
  <2>6. CASE DrainFileIo(w)
    BY <2>6 DEF DrainFileIo, SawNoShutdown, Asleep, HoldsTicket, TypeInv, WorkerTypes
  <2>7. CASE DrainWoken(w)
    BY <2>7 DEF DrainWoken, SawNoShutdown, Asleep, HoldsTicket, TypeInv, WorkerTypes
  <2>8. CASE SurplusRead(w)
    BY <2>8 DEF SurplusRead, Return, Proceed, SawNoShutdown, Asleep, HoldsTicket, TypeInv, WorkerTypes
  <2>9. CASE SurplusEdge(w)
    BY <2>9 DEF SurplusEdge, Return, SawNoShutdown, Asleep, HoldsTicket, TypeInv, WorkerTypes
  <2>10. CASE Pop(w)
    BY <2>10 DEF Pop, SawNoShutdown, Asleep, HoldsTicket, TypeInv, WorkerTypes
  <2>11. CASE PopEmpty(w)
    BY <2>11 DEF PopEmpty, ParkLabel, SawNoShutdown, Asleep, HoldsTicket, TypeInv, WorkerTypes
  <2>12. CASE StealLen(w)
    BY <2>12 DEF StealLen, StealNothing, ParkLabel, SawNoShutdown, Asleep, HoldsTicket, TypeInv, WorkerTypes
  <2>13. CASE StealFlag(w)
    BY <2>13 DEF StealFlag, StealNothing, ParkLabel, SawNoShutdown, Asleep, HoldsTicket, TypeInv, WorkerTypes
  <2>14. CASE StealTake(w)
    BY <2>14 DEF StealTake, StealNothing, ParkLabel, SawNoShutdown, Asleep, HoldsTicket, TypeInv, WorkerTypes
  <2>15. CASE LeaveWithWork(w)
    BY <2>15 DEF LeaveWithWork, SawNoShutdown, Asleep, HoldsTicket, TypeInv, WorkerTypes
  <2>16. CASE EnterSlice(w)
    BY <2>16 DEF EnterSlice, SawNoShutdown, Asleep, HoldsTicket, TypeInv, WorkerTypes
  <2>17. CASE BusyRead(w)
    BY <2>17 DEF BusyRead, StartSlice, SawNoShutdown, Asleep, HoldsTicket, TypeInv, WorkerTypes
  <2>18. CASE BusyEdge(w)
    BY <2>18 DEF BusyEdge, StartSlice, SawNoShutdown, Asleep, HoldsTicket, TypeInv, WorkerTypes
  <2>19. CASE Requeue(w)
    BY <2>19 DEF Requeue, SawNoShutdown, Asleep, HoldsTicket, TypeInv, WorkerTypes
  <2>20. CASE ExitSlice(w)
    BY <2>20 DEF ExitSlice, SawNoShutdown, Asleep, HoldsTicket, TypeInv, WorkerTypes
  <2>21. CASE WaitPlain(w)
    BY <2>21 DEF WaitPlain, SawNoShutdown, Asleep, HoldsTicket, TypeInv, WorkerTypes
  <2>22. CASE WaitFileIo(w)
    BY <2>22 DEF WaitFileIo, SawNoShutdown, Asleep, HoldsTicket, TypeInv, WorkerTypes
  <2>23. CASE Register(w)
    BY <2>23 DEF Register, SawNoShutdown, Asleep, HoldsTicket, TypeInv, WorkerTypes
  <2>24. CASE Recheck(w)
    BY <2>24 DEF Recheck, SawNoShutdown, Asleep, HoldsTicket, TypeInv, WorkerTypes
  <2>25. CASE SelfWake(w)
    BY <2>25 DEF SelfWake, SawNoShutdown, Asleep, HoldsTicket, TypeInv, WorkerTypes
  <2>26. CASE EndSlice(w)
    BY <2>26 DEF EndSlice, SawNoShutdown, Asleep, HoldsTicket, TypeInv, WorkerTypes
  <2>27. CASE PublishPark(w)
    BY <2>27 DEF PublishPark, SawNoShutdown, Asleep, HoldsTicket, TypeInv, WorkerTypes
  <2>28. CASE StartWait(w)
    BY <2>28 DEF StartWait, UnparkLabel, SawNoShutdown, Asleep, HoldsTicket, TypeInv, WorkerTypes
  <2>29. CASE WokenByEdge(w)
    BY <2>29 DEF WokenByEdge, UnparkLabel, SawNoShutdown, Asleep, HoldsTicket, TypeInv, WorkerTypes
  <2>30. CASE TimedOut(w)
    BY <2>30 DEF TimedOut, UnparkLabel, SawNoShutdown, Asleep, HoldsTicket, TypeInv, WorkerTypes
  <2>31. CASE ClearPark(w)
    BY <2>31 DEF ClearPark, SawNoShutdown, Asleep, HoldsTicket, TypeInv, WorkerTypes
  <2>32. CASE LeavePark(w)
    BY <2>32 DEF LeavePark, SawNoShutdown, Asleep, HoldsTicket, TypeInv, WorkerTypes
  <2>33. CASE Receive(w)
    BY <2>33 DEF Receive, SawNoShutdown, Asleep, HoldsTicket, TypeInv, WorkerTypes
  <2>34. CASE WokenSpuriously(w)
    BY <2>34 DEF WokenSpuriously, UnparkLabel, SawNoShutdown, Asleep, HoldsTicket, TypeInv, WorkerTypes
  <2>35. CASE \E p \in Pids : WakeFired(w, p)
    BY <2>35 DEF WakeFired, MoveToWoken, SawNoShutdown, Asleep, HoldsTicket, TypeInv, WorkerTypes
  <2>36. CASE \E d \in 1 .. MaxDelay : WaitTimeout(w, d)
    BY <2>36 DEF WaitTimeout, SawNoShutdown, Asleep, HoldsTicket, TypeInv, WorkerTypes
  <2>37. QED
    BY <1>1, <2>1, <2>2, <2>3, <2>4, <2>5, <2>6, <2>7, <2>8, <2>9, <2>10, <2>11, <2>12,
       <2>13, <2>14, <2>15, <2>16, <2>17, <2>18, <2>19, <2>20, <2>21, <2>22, <2>23,
       <2>24, <2>25, <2>26, <2>27, <2>28, <2>29, <2>30, <2>31, <2>32, <2>33, <2>34,
       <2>35, <2>36
    DEF WorkerStep, Checks, Edges, Finds, Slice, Parks
<1>2. ASSUME Environment
      PROVE  SawNoShutdown'
  <2>1. CASE \E p \in Pids : Spawn(p)
    BY <2>1 DEF Spawn, SawNoShutdown, Asleep, HoldsTicket, TypeInv, WorkerTypes
  <2>2. CASE \E p \in Pids : SpawnTrapExit(p)
    BY <2>2 DEF SpawnTrapExit, SawNoShutdown, Asleep, HoldsTicket, TypeInv, WorkerTypes
  <2>3. CASE \E p \in Pids : Deliver(p)
    BY <2>3 DEF Deliver, SawNoShutdown, Asleep, HoldsTicket, TypeInv, WorkerTypes
  <2>4. CASE \E p \in Pids : WakeProcess(p)
    BY <2>4 DEF WakeProcess, MoveToWoken, SawNoShutdown, Asleep, HoldsTicket, TypeInv, WorkerTypes
  <2>5. CASE \E p \in Pids : CompleteFileIo(p)
    BY <2>5 DEF CompleteFileIo, SawNoShutdown, Asleep, HoldsTicket, TypeInv, WorkerTypes
  <2>6. CASE Shutdown
    BY <2>6 DEF Shutdown, SawNoShutdown, Asleep, HoldsTicket, TypeInv, WorkerTypes
  <2>7. CASE \E e \in edgeOwed : RunOwedEdge(e)
    BY <2>7 DEF RunOwedEdge, SawNoShutdown, Asleep, HoldsTicket, TypeInv, WorkerTypes
  <2>8. CASE ClockTick
    BY <2>8 DEF ClockTick, SawNoShutdown, Asleep, HoldsTicket, TypeInv, WorkerTypes
  <2>9. QED
    BY <1>2, <2>1, <2>2, <2>3, <2>4, <2>5, <2>6, <2>7, <2>8 DEF Environment
<1>3. ASSUME UNCHANGED vars
      PROVE  SawNoShutdown'
  BY <1>3 DEF vars, SawNoShutdown, Asleep, HoldsTicket, TypeInv, WorkerTypes
<1>4. QED
  BY <1>1, <1>2, <1>3 DEF Next

(* The ring owes an edge for every completion. *)
LEMMA NextPolledRing ==
  ASSUME TypeInv, CurInv, ThiefInv, ZeroAlone, PolledRing, [Next]_vars
  PROVE  PolledRing'
<1> USE WakeEdgeEffect, WorkerNumbers DEF workerVars, wakeVars, queueVars, waitVars, timerVars, ioVars, stopVars, Goto
<1>1. ASSUME NEW w \in Workers, WorkerStep(w) \/ Receive(w) \/ WokenSpuriously(w)
      PROVE  PolledRing'
  <2>1. CASE Stop(w)
    BY <2>1 DEF Stop, PolledRing, PastIo, PastInject, HoldsTicket, TypeInv, WorkerTypes
  <2>2. CASE RaiseIdle(w)
    BY <2>2 DEF RaiseIdle, PolledRing, PastIo, PastInject, HoldsTicket, TypeInv, WorkerTypes
  <2>3. CASE ReadTicket(w)
    BY <2>3 DEF ReadTicket, PolledRing, PastIo, PastInject, HoldsTicket, TypeInv, WorkerTypes
  <2>4. CASE DrainInjected(w)
    BY <2>4 DEF DrainInjected, PolledRing, PastIo, PastInject, HoldsTicket, TypeInv, WorkerTypes
  <2>5. CASE TickTimers(w)
    BY <2>5 DEF TickTimers, PolledRing, PastIo, PastInject, HoldsTicket, TypeInv, WorkerTypes
  <2>6. CASE DrainFileIo(w)
    BY <2>6 DEF DrainFileIo, PolledRing, PastIo, PastInject, HoldsTicket, TypeInv, WorkerTypes
  <2>7. CASE DrainWoken(w)
    BY <2>7 DEF DrainWoken, PolledRing, PastIo, PastInject, HoldsTicket, TypeInv, WorkerTypes
  <2>8. CASE SurplusRead(w)
    <3>1. UNCHANGED <<moved, completions, edgeOwed>>
      BY <2>8 DEF SurplusRead
    <3>2. PastIo(0)' => PastIo(0)
      BY <2>8, WorkerNumbers DEF SurplusRead, Return, Proceed, PastIo, PastInject, HoldsTicket, TypeInv, WorkerTypes
    <3>3. QED
      BY <3>1, <3>2 DEF PolledRing
  <2>9. CASE SurplusEdge(w)
    BY <2>9 DEF SurplusEdge, Return, PolledRing, PastIo, PastInject, HoldsTicket, TypeInv, WorkerTypes
  <2>10. CASE Pop(w)
    BY <2>10 DEF Pop, PolledRing, PastIo, PastInject, HoldsTicket, TypeInv, WorkerTypes
  <2>11. CASE PopEmpty(w)
    BY <2>11 DEF PopEmpty, ParkLabel, PolledRing, PastIo, PastInject, HoldsTicket, TypeInv, WorkerTypes
  <2>12. CASE StealLen(w)
    BY <2>12 DEF StealLen, StealNothing, ParkLabel, PolledRing, PastIo, PastInject, HoldsTicket, TypeInv, WorkerTypes
  <2>13. CASE StealFlag(w)
    BY <2>13 DEF StealFlag, StealNothing, ParkLabel, PolledRing, PastIo, PastInject, HoldsTicket, TypeInv, WorkerTypes
  <2>14. CASE StealTake(w)
    BY <2>14 DEF StealTake, StealNothing, ParkLabel, PolledRing, PastIo, PastInject, HoldsTicket, TypeInv, WorkerTypes
  <2>15. CASE LeaveWithWork(w)
    BY <2>15 DEF LeaveWithWork, PolledRing, PastIo, PastInject, HoldsTicket, TypeInv, WorkerTypes
  <2>16. CASE EnterSlice(w)
    BY <2>16 DEF EnterSlice, PolledRing, PastIo, PastInject, HoldsTicket, TypeInv, WorkerTypes
  <2>17. CASE BusyRead(w)
    BY <2>17 DEF BusyRead, StartSlice, PolledRing, PastIo, PastInject, HoldsTicket, TypeInv, WorkerTypes
  <2>18. CASE BusyEdge(w)
    BY <2>18 DEF BusyEdge, StartSlice, PolledRing, PastIo, PastInject, HoldsTicket, TypeInv, WorkerTypes
  <2>19. CASE Requeue(w)
    BY <2>19 DEF Requeue, PolledRing, PastIo, PastInject, HoldsTicket, TypeInv, WorkerTypes
  <2>20. CASE ExitSlice(w)
    BY <2>20 DEF ExitSlice, PolledRing, PastIo, PastInject, HoldsTicket, TypeInv, WorkerTypes
  <2>21. CASE WaitPlain(w)
    BY <2>21 DEF WaitPlain, PolledRing, PastIo, PastInject, HoldsTicket, TypeInv, WorkerTypes
  <2>22. CASE WaitFileIo(w)
    BY <2>22 DEF WaitFileIo, PolledRing, PastIo, PastInject, HoldsTicket, TypeInv, WorkerTypes
  <2>23. CASE Register(w)
    BY <2>23 DEF Register, PolledRing, PastIo, PastInject, HoldsTicket, TypeInv, WorkerTypes
  <2>24. CASE Recheck(w)
    BY <2>24 DEF Recheck, PolledRing, PastIo, PastInject, HoldsTicket, TypeInv, WorkerTypes
  <2>25. CASE SelfWake(w)
    BY <2>25 DEF SelfWake, PolledRing, PastIo, PastInject, HoldsTicket, TypeInv, WorkerTypes
  <2>26. CASE EndSlice(w)
    BY <2>26 DEF EndSlice, PolledRing, PastIo, PastInject, HoldsTicket, TypeInv, WorkerTypes
  <2>27. CASE PublishPark(w)
    BY <2>27 DEF PublishPark, PolledRing, PastIo, PastInject, HoldsTicket, TypeInv, WorkerTypes
  <2>28. CASE StartWait(w)
    BY <2>28 DEF StartWait, UnparkLabel, PolledRing, PastIo, PastInject, HoldsTicket, TypeInv, WorkerTypes
  <2>29. CASE WokenByEdge(w)
    BY <2>29 DEF WokenByEdge, UnparkLabel, PolledRing, PastIo, PastInject, HoldsTicket, TypeInv, WorkerTypes
  <2>30. CASE TimedOut(w)
    BY <2>30 DEF TimedOut, UnparkLabel, PolledRing, PastIo, PastInject, HoldsTicket, TypeInv, WorkerTypes
  <2>31. CASE ClearPark(w)
    BY <2>31 DEF ClearPark, PolledRing, PastIo, PastInject, HoldsTicket, TypeInv, WorkerTypes
  <2>32. CASE LeavePark(w)
    BY <2>32 DEF LeavePark, PolledRing, PastIo, PastInject, HoldsTicket, TypeInv, WorkerTypes
  <2>33. CASE Receive(w)
    BY <2>33 DEF Receive, PolledRing, PastIo, PastInject, HoldsTicket, TypeInv, WorkerTypes
  <2>34. CASE WokenSpuriously(w)
    BY <2>34 DEF WokenSpuriously, UnparkLabel, PolledRing, PastIo, PastInject, HoldsTicket, TypeInv, WorkerTypes
  <2>35. CASE \E p \in Pids : WakeFired(w, p)
    BY <2>35 DEF WakeFired, MoveToWoken, PolledRing, PastIo, PastInject, HoldsTicket, TypeInv, WorkerTypes
  <2>36. CASE \E d \in 1 .. MaxDelay : WaitTimeout(w, d)
    BY <2>36 DEF WaitTimeout, PolledRing, PastIo, PastInject, HoldsTicket, TypeInv, WorkerTypes
  <2>37. QED
    BY <1>1, <2>1, <2>2, <2>3, <2>4, <2>5, <2>6, <2>7, <2>8, <2>9, <2>10, <2>11, <2>12,
       <2>13, <2>14, <2>15, <2>16, <2>17, <2>18, <2>19, <2>20, <2>21, <2>22, <2>23,
       <2>24, <2>25, <2>26, <2>27, <2>28, <2>29, <2>30, <2>31, <2>32, <2>33, <2>34,
       <2>35, <2>36
    DEF WorkerStep, Checks, Edges, Finds, Slice, Parks
<1>2. ASSUME Environment
      PROVE  PolledRing'
  <2>1. CASE \E p \in Pids : Spawn(p)
    BY <2>1 DEF Spawn, PolledRing, PastIo, PastInject, HoldsTicket, TypeInv, WorkerTypes
  <2>2. CASE \E p \in Pids : SpawnTrapExit(p)
    BY <2>2 DEF SpawnTrapExit, PolledRing, PastIo, PastInject, HoldsTicket, TypeInv, WorkerTypes
  <2>3. CASE \E p \in Pids : Deliver(p)
    BY <2>3 DEF Deliver, PolledRing, PastIo, PastInject, HoldsTicket, TypeInv, WorkerTypes
  <2>4. CASE \E p \in Pids : WakeProcess(p)
    BY <2>4 DEF WakeProcess, MoveToWoken, PolledRing, PastIo, PastInject, HoldsTicket, TypeInv, WorkerTypes
  <2>5. CASE \E p \in Pids : CompleteFileIo(p)
    BY <2>5 DEF CompleteFileIo, PolledRing, PastIo, PastInject, HoldsTicket, TypeInv, WorkerTypes
  <2>6. CASE Shutdown
    BY <2>6 DEF Shutdown, PolledRing, PastIo, PastInject, HoldsTicket, TypeInv, WorkerTypes
  <2>7. CASE \E e \in edgeOwed : RunOwedEdge(e)
    BY <2>7 DEF RunOwedEdge, PolledRing, PastIo, PastInject, HoldsTicket, TypeInv, WorkerTypes
  <2>8. CASE ClockTick
    BY <2>8 DEF ClockTick, PolledRing, PastIo, PastInject, HoldsTicket, TypeInv, WorkerTypes
  <2>9. QED
    BY <1>2, <2>1, <2>2, <2>3, <2>4, <2>5, <2>6, <2>7, <2>8 DEF Environment
<1>3. ASSUME UNCHANGED vars
      PROVE  PolledRing'
  BY <1>3 DEF vars, PolledRing, PastIo, PastInject, HoldsTicket, TypeInv, WorkerTypes
<1>4. QED
  BY <1>1, <1>2, <1>3 DEF Next

(* A step that arms nothing and publishes nothing leaves the alarm. *)
LEMMA AlarmStands ==
  ASSUME AlarmSet, UNCHANGED <<parkedUntil, deadline>>, \A p \in Pids : timers'[p] \subseteq timers[p],
         pc'[0] \in {"wait", "parked"} => pc[0] \in {"wait", "parked"} /\ (~moved'[0] => ~moved[0])
  PROVE  AlarmSet'
<1>1. Armed' \subseteq Armed
  BY DEF Armed
<1>2. QED
  BY <1>1 DEF AlarmSet

(* Whoever arms an earlier timer runs the edge. *)
LEMMA NextAlarmSet ==
  ASSUME TypeInv, CurInv, ThiefInv, ZeroAlone, AlarmSet, [Next]_vars
  PROVE  AlarmSet'
<1> USE DEF workerVars, wakeVars, queueVars, waitVars, timerVars, ioVars, stopVars, Goto
<1>1. ASSUME NEW w \in Workers, WorkerStep(w) \/ Receive(w) \/ WokenSpuriously(w)
      PROVE  AlarmSet'
  <2>1. CASE Stop(w)
    BY <2>1, AlarmStands, WakeEdgeEffect, WorkerNumbers DEF Stop, HoldsTicket, ClockTypes, TypeInv, WorkerTypes
  <2>2. CASE RaiseIdle(w)
    BY <2>2, AlarmStands, WakeEdgeEffect, WorkerNumbers DEF RaiseIdle, HoldsTicket, ClockTypes, TypeInv, WorkerTypes
  <2>3. CASE ReadTicket(w)
    BY <2>3, AlarmStands, WakeEdgeEffect, WorkerNumbers DEF ReadTicket, HoldsTicket, ClockTypes, TypeInv, WorkerTypes
  <2>4. CASE DrainInjected(w)
    BY <2>4, AlarmStands, WakeEdgeEffect, WorkerNumbers DEF DrainInjected, HoldsTicket, ClockTypes, TypeInv, WorkerTypes
  <2>5. CASE TickTimers(w)
    BY <2>5, AlarmStands, WakeEdgeEffect, WorkerNumbers DEF TickTimers, HoldsTicket, ClockTypes, TypeInv, WorkerTypes
  <2>6. CASE DrainFileIo(w)
    BY <2>6, AlarmStands, WakeEdgeEffect, WorkerNumbers DEF DrainFileIo, HoldsTicket, ClockTypes, TypeInv, WorkerTypes
  <2>7. CASE DrainWoken(w)
    BY <2>7, AlarmStands, WakeEdgeEffect, WorkerNumbers DEF DrainWoken, HoldsTicket, ClockTypes, TypeInv, WorkerTypes
  <2>8. CASE SurplusRead(w)
    BY <2>8, AlarmStands, WakeEdgeEffect, WorkerNumbers DEF SurplusRead, Return, Proceed, HoldsTicket, ClockTypes, TypeInv, WorkerTypes
  <2>9. CASE SurplusEdge(w)
    BY <2>9, AlarmStands, WakeEdgeEffect, WorkerNumbers DEF SurplusEdge, Return, HoldsTicket, ClockTypes, TypeInv, WorkerTypes
  <2>10. CASE Pop(w)
    BY <2>10, AlarmStands, WakeEdgeEffect, WorkerNumbers DEF Pop, HoldsTicket, ClockTypes, TypeInv, WorkerTypes
  <2>11. CASE PopEmpty(w)
    BY <2>11, AlarmStands, WakeEdgeEffect, WorkerNumbers DEF PopEmpty, ParkLabel, HoldsTicket, ClockTypes, TypeInv, WorkerTypes
  <2>12. CASE StealLen(w)
    BY <2>12, AlarmStands, WakeEdgeEffect, WorkerNumbers DEF StealLen, StealNothing, ParkLabel, HoldsTicket, ClockTypes, TypeInv, WorkerTypes
  <2>13. CASE StealFlag(w)
    BY <2>13, AlarmStands, WakeEdgeEffect, WorkerNumbers DEF StealFlag, StealNothing, ParkLabel, HoldsTicket, ClockTypes, TypeInv, WorkerTypes
  <2>14. CASE StealTake(w)
    BY <2>14, AlarmStands, WakeEdgeEffect, WorkerNumbers DEF StealTake, StealNothing, ParkLabel, HoldsTicket, ClockTypes, TypeInv, WorkerTypes
  <2>15. CASE LeaveWithWork(w)
    BY <2>15, AlarmStands, WakeEdgeEffect, WorkerNumbers DEF LeaveWithWork, HoldsTicket, ClockTypes, TypeInv, WorkerTypes
  <2>16. CASE EnterSlice(w)
    BY <2>16, AlarmStands, WakeEdgeEffect, WorkerNumbers DEF EnterSlice, HoldsTicket, ClockTypes, TypeInv, WorkerTypes
  <2>17. CASE BusyRead(w)
    BY <2>17, AlarmStands, WakeEdgeEffect, WorkerNumbers DEF BusyRead, StartSlice, HoldsTicket, ClockTypes, TypeInv, WorkerTypes
  <2>18. CASE BusyEdge(w)
    BY <2>18, AlarmStands, WakeEdgeEffect, WorkerNumbers DEF BusyEdge, StartSlice, HoldsTicket, ClockTypes, TypeInv, WorkerTypes
  <2>19. CASE Requeue(w)
    BY <2>19, AlarmStands, WakeEdgeEffect, WorkerNumbers DEF Requeue, HoldsTicket, ClockTypes, TypeInv, WorkerTypes
  <2>20. CASE ExitSlice(w)
    BY <2>20, AlarmStands, WakeEdgeEffect, WorkerNumbers DEF ExitSlice, HoldsTicket, ClockTypes, TypeInv, WorkerTypes
  <2>21. CASE WaitPlain(w)
    BY <2>21, AlarmStands, WakeEdgeEffect, WorkerNumbers DEF WaitPlain, HoldsTicket, ClockTypes, TypeInv, WorkerTypes
  <2>22. CASE WaitFileIo(w)
    BY <2>22, AlarmStands, WakeEdgeEffect, WorkerNumbers DEF WaitFileIo, HoldsTicket, ClockTypes, TypeInv, WorkerTypes
  <2>23. CASE Register(w)
    BY <2>23, AlarmStands, WakeEdgeEffect, WorkerNumbers DEF Register, HoldsTicket, ClockTypes, TypeInv, WorkerTypes
  <2>24. CASE Recheck(w)
    BY <2>24, AlarmStands, WakeEdgeEffect, WorkerNumbers DEF Recheck, HoldsTicket, ClockTypes, TypeInv, WorkerTypes
  <2>25. CASE SelfWake(w)
    BY <2>25, AlarmStands, WakeEdgeEffect, WorkerNumbers DEF SelfWake, HoldsTicket, ClockTypes, TypeInv, WorkerTypes
  <2>26. CASE EndSlice(w)
    BY <2>26, AlarmStands, WakeEdgeEffect, WorkerNumbers DEF EndSlice, HoldsTicket, ClockTypes, TypeInv, WorkerTypes
  <2>27. CASE PublishPark(w)
    <3>1. w = 0 /\ deadline' = Earliest /\ parkedUntil' = Earliest /\ UNCHANGED timers
      BY <2>27 DEF PublishPark, ZeroAlone
    <3>2. Armed' = Armed
      BY <3>1 DEF Armed
    <3>3. QED
      BY <3>1, <3>2, EarliestIsLeast, WorkerNumbers DEF AlarmSet
  <2>28. CASE StartWait(w)
    BY <2>28, AlarmStands, WakeEdgeEffect, WorkerNumbers DEF StartWait, UnparkLabel, HoldsTicket, ClockTypes, TypeInv, WorkerTypes
  <2>29. CASE WokenByEdge(w)
    BY <2>29, AlarmStands, WakeEdgeEffect, WorkerNumbers DEF WokenByEdge, UnparkLabel, HoldsTicket, ClockTypes, TypeInv, WorkerTypes
  <2>30. CASE TimedOut(w)
    BY <2>30, AlarmStands, WakeEdgeEffect, WorkerNumbers DEF TimedOut, UnparkLabel, HoldsTicket, ClockTypes, TypeInv, WorkerTypes
  <2>31. CASE ClearPark(w)
    BY <2>31 DEF ClearPark, ZeroAlone, AlarmSet, TypeInv, WorkerTypes
  <2>32. CASE LeavePark(w)
    BY <2>32, AlarmStands, WakeEdgeEffect, WorkerNumbers DEF LeavePark, HoldsTicket, ClockTypes, TypeInv, WorkerTypes
  <2>33. CASE Receive(w)
    BY <2>33, AlarmStands, WakeEdgeEffect, WorkerNumbers DEF Receive, HoldsTicket, ClockTypes, TypeInv, WorkerTypes
  <2>34. CASE WokenSpuriously(w)
    BY <2>34, AlarmStands, WakeEdgeEffect, WorkerNumbers DEF WokenSpuriously, UnparkLabel, HoldsTicket, ClockTypes, TypeInv, WorkerTypes
  <2>35. CASE \E p \in Pids : WakeFired(w, p)
    BY <2>35, AlarmStands, WakeEdgeEffect, WorkerNumbers DEF WakeFired, MoveToWoken, HoldsTicket, ClockTypes, TypeInv, WorkerTypes
  <2>36. CASE \E d \in 1 .. MaxDelay : WaitTimeout(w, d)
    <3>1. PICK d \in 1 .. MaxDelay : WaitTimeout(w, d)
      BY <2>36
    <3>2. UNCHANGED deadline /\ pc[w] = "running" /\ cur[w] \in Pids /\ (pc'[0] \in {"wait", "parked"} => pc'[0] = pc[0])
      BY <3>1 DEF WaitTimeout, CurInv, TypeInv, WorkerTypes
    <3>3. CASE UNCHANGED <<timers, parkedUntil, moved>>
      BY <3>2, <3>3, AlarmStands
    <3>4. CASE timers' = [timers EXCEPT ![cur[w]] = @ \cup {d}] /\ ~UNCHANGED <<timers, parkedUntil, moved>>
      <4>1. Armed' \subseteq Armed \cup {d} /\ Armed \subseteq 0 .. MaxDelay
        BY <3>2, <3>4 DEF Armed, TypeInv, ClockTypes
      <4>2. CASE IsLaterThan(parkedUntil, d)
        <5>1. WakeEdge /\ parkedUntil' = d /\ d < parkedUntil /\ parkedUntil \in Nat
          BY <3>1, <3>4, <4>2, WorkerNumbers DEF WaitTimeout, IsLaterThan, TypeInv, ClockTypes
        <5>2. pc'[0] \in {"wait", "parked"} => moved'[0]
          BY <3>2, <5>1, WakeEdgeEffect, WorkerNumbers DEF HoldsTicket
        <5>3. d # NotParked
          BY WorkerNumbers
        <5>4. pc'[0] \in {"wait", "parked"} => \A x \in Armed' : parkedUntil' <= x
          BY <3>2, <4>1, <5>1, WorkerNumbers DEF AlarmSet
        <5>5. QED
          BY <5>1, <5>2, <5>3, <5>4 DEF AlarmSet
      <4>3. CASE ~IsLaterThan(parkedUntil, d)
        <5>1. UNCHANGED <<moved, parkedUntil>> /\ (parkedUntil # NotParked => parkedUntil <= d) /\ parkedUntil \in Nat
          BY <3>1, <3>4, <4>3, WorkerNumbers DEF WaitTimeout, IsLaterThan, TypeInv, ClockTypes
        <5>2. QED
          BY <3>2, <4>1, <5>1 DEF AlarmSet
      <4>4. QED
        BY <4>2, <4>3
    <3>5. QED
      BY <3>1, <3>3, <3>4 DEF WaitTimeout
  <2>37. QED
    BY <1>1, <2>1, <2>2, <2>3, <2>4, <2>5, <2>6, <2>7, <2>8, <2>9, <2>10, <2>11, <2>12,
       <2>13, <2>14, <2>15, <2>16, <2>17, <2>18, <2>19, <2>20, <2>21, <2>22, <2>23,
       <2>24, <2>25, <2>26, <2>27, <2>28, <2>29, <2>30, <2>31, <2>32, <2>33, <2>34,
       <2>35, <2>36
    DEF WorkerStep, Checks, Edges, Finds, Slice, Parks
<1>2. ASSUME Environment
      PROVE  AlarmSet'
  <2>1. CASE \E p \in Pids : Spawn(p)
    BY <2>1, AlarmStands, WakeEdgeEffect, WorkerNumbers DEF Spawn, HoldsTicket, ClockTypes, TypeInv, WorkerTypes
  <2>2. CASE \E p \in Pids : SpawnTrapExit(p)
    BY <2>2, AlarmStands, WakeEdgeEffect, WorkerNumbers DEF SpawnTrapExit, HoldsTicket, ClockTypes, TypeInv, WorkerTypes
  <2>3. CASE \E p \in Pids : Deliver(p)
    BY <2>3, AlarmStands, WakeEdgeEffect, WorkerNumbers DEF Deliver, HoldsTicket, ClockTypes, TypeInv, WorkerTypes
  <2>4. CASE \E p \in Pids : WakeProcess(p)
    BY <2>4, AlarmStands, WakeEdgeEffect, WorkerNumbers DEF WakeProcess, MoveToWoken, HoldsTicket, ClockTypes, TypeInv, WorkerTypes
  <2>5. CASE \E p \in Pids : CompleteFileIo(p)
    BY <2>5, AlarmStands, WakeEdgeEffect, WorkerNumbers DEF CompleteFileIo, HoldsTicket, ClockTypes, TypeInv, WorkerTypes
  <2>6. CASE Shutdown
    BY <2>6, AlarmStands, WakeEdgeEffect, WorkerNumbers DEF Shutdown, HoldsTicket, ClockTypes, TypeInv, WorkerTypes
  <2>7. CASE \E e \in edgeOwed : RunOwedEdge(e)
    BY <2>7, AlarmStands, WakeEdgeEffect, WorkerNumbers DEF RunOwedEdge, HoldsTicket, ClockTypes, TypeInv, WorkerTypes
  <2>8. CASE ClockTick
    <3>1. /\ timers' = [p \in Pids |-> {Nearer(d) : d \in timers[p]}] /\ deadline' = Nearer(deadline)
          /\ parkedUntil' = Nearer(parkedUntil) /\ UNCHANGED <<pc, moved>>
      BY <2>8 DEF ClockTick
    <3>2. \A x \in Armed' : \E d \in Armed : x = Nearer(d)
      BY <3>1 DEF Armed
    <3>3. Armed \subseteq 0 .. MaxDelay /\ parkedUntil \in 0 .. NotParked
      BY DEF Armed, TypeInv, ClockTypes
    <3>4. \A d \in Armed : parkedUntil <= d => Nearer(parkedUntil) <= Nearer(d)
      BY <3>3, WorkerNumbers DEF Nearer
    <3>5. parkedUntil # NotParked => Nearer(parkedUntil) # NotParked
      BY <3>3, WorkerNumbers DEF Nearer
    <3>6. QED
      BY <3>1, <3>2, <3>4, <3>5 DEF AlarmSet
  <2>9. QED
    BY <1>2, <2>1, <2>2, <2>3, <2>4, <2>5, <2>6, <2>7, <2>8 DEF Environment
<1>3. ASSUME UNCHANGED vars
      PROVE  AlarmSet'
  BY <1>3, AlarmStands DEF vars, HoldsTicket, ClockTypes, TypeInv, WorkerTypes
<1>4. QED
  BY <1>1, <1>2, <1>3 DEF Next

(* The inductive invariant. *)
ParkInv == TypeInv /\ CurInv /\ ThiefInv /\ ZeroAlone /\ SleepInv

(* The scheduler starts with nobody asleep. *)
LEMMA InitPark == Init => ParkInv
<1> SUFFICES ASSUME Init PROVE ParkInv
  OBVIOUS
<1> USE WorkerNumbers DEF Init
<1>1. /\ \A w \in Workers : pc[w] = "top" /\ <<>> \in Seq(Pids)
  OBVIOUS
<1>2. TypeInv
  BY <1>1 DEF TypeInv, WorkerTypes, QueueTypes, ClockTypes, Labels
<1>3. CurInv /\ ZeroAlone
  BY <1>1 DEF CurInv, ZeroAlone
<1>4. ThiefInv
  BY <1>1, NewThief DEF ThiefInv
<1>5. \A w \in Workers : ~HoldsTicket(w) /\ ~PastPop(w) /\ ~Asleep(w)
  BY <1>1 DEF HoldsTicket, PastPop, Asleep
<1>6. SleepInv
  BY <1>1, <1>5
  DEF SleepInv, SearchedQueue, DrainedWoken, DrainedInject, SawNoShutdown, PolledRing, AlarmSet,
      PastDrain, PastIo, PastInject
<1>7. QED
  BY <1>2, <1>3, <1>4, <1>6 DEF ParkInv

(* Every step keeps the invariant. *)
LEMMA NextPark == ParkInv /\ [Next]_vars => ParkInv'
<1> SUFFICES ASSUME ParkInv, [Next]_vars PROVE ParkInv'
  OBVIOUS
<1>1. TypeInv /\ CurInv /\ ThiefInv /\ ZeroAlone
  BY DEF ParkInv
<1>2. TypeInv'
  BY <1>1, NextWorkerTypes, NextQueueTypes, NextClockTypes DEF TypeInv
<1>3. CurInv' /\ ZeroAlone' /\ ThiefInv'
  BY <1>1, NextCur, NextThief
<1>4. SleepInv'
  BY <1>1, NextSearchedQueue, NextDrainedWoken, NextDrainedInject, NextSawNoShutdown, NextPolledRing,
     NextAlarmSet DEF ParkInv, SleepInv
<1>5. QED
  BY <1>2, <1>3, <1>4 DEF ParkInv

(* The invariant always holds. *)
LEMMA ParkInvariant == Spec => []ParkInv
BY InitPark, NextPark, PTL DEF Spec

(* NoLostWake (edge E, B-181 R2): for any number of workers and processes,  *)
(* a worker that sleeps on the condition variable (wait_for_edge) while no  *)
(* edge has reached it has nothing queued, nothing filed as woken, and every *)
(* spawn request and the shutdown flag still owe it an edge.                *)
THEOREM NoWakeIsLost == Spec => []NoLostWake
<1>1. ParkInv => NoLostWake
  <2> SUFFICES ASSUME ParkInv, NEW w \in Workers, Asleep(w)
               PROVE  /\ queue[w] = <<>> /\ woken[w] = <<>>
                      /\ \A p \in ToSet(inject[w]) : <<"spawn", p>> \in edgeOwed
                      /\ shutdown => <<"shutdown", NoPid>> \in edgeOwed
    BY DEF NoLostWake
  <2>1. PastPop(w) /\ PastDrain(w) /\ PastInject(w) /\ ~moved[w]
    BY DEF Asleep, PastPop, PastDrain, PastIo, PastInject, HoldsTicket
  <2>2. QED
    BY <2>1 DEF ParkInv, SleepInv, SearchedQueue, DrainedWoken, DrainedInject, SawNoShutdown
<1>2. QED
  BY <1>1, ParkInvariant, PTL

(* WorkerZeroNeverOversleeps (park_deadline and register_receive_timer, the *)
(* completion notifier of the ring): worker 0 asleep has its alarm set no   *)
(* later than any armed timer, and a completion it has not drained owes it  *)
(* an edge.                                                                 *)
THEOREM WorkerZeroWakesInTime == Spec => []WorkerZeroNeverOversleeps
<1>1. ParkInv => WorkerZeroNeverOversleeps
  <2> SUFFICES ASSUME ParkInv, Asleep(0)
               PROVE  (\A d \in Armed : deadline <= d) /\ \A p \in completions : <<"io", p>> \in edgeOwed
    BY DEF WorkerZeroNeverOversleeps
  <2>1. PastIo(0) /\ ~moved[0] /\ pc[0] \in {"wait", "parked"}
    BY DEF Asleep, PastIo, PastInject, HoldsTicket
  <2>2. QED
    BY <2>1 DEF ParkInv, SleepInv, PolledRing, AlarmSet
<1>2. QED
  BY <1>1, ParkInvariant, PTL

-----------------------------------------------------------------------------
(* Exactly one place.  A place is a queue, the requests or the woken list   *)
(* of a worker, its hands, or the wait set under its name.                  *)

Kinds == {"queue", "inject", "woken", "waiting", "hand"}

(* The process a worker will run or file: after the registration the wait   *)
(* set has it.                                                              *)
Hand(w) == IF pc[w] \in {"recheck", "selfWake"} THEN NoPid ELSE cur[w]

Sits(k, w, p) ==
  \/ k = "queue" /\ p \in ToSet(queue[w])
  \/ k = "inject" /\ p \in ToSet(inject[w])
  \/ k = "woken" /\ p \in ToSet(woken[w])
  \/ k = "waiting" /\ waiting[p] = w
  \/ k = "hand" /\ Hand(w) = p

Distinct(s) == \A i, j \in 1 .. Len(s) : s[i] = s[j] => i = j

(* The inductive invariant of ScheduledExactlyOnce. *)
OnePlace ==
  \A p \in Pids, k, l \in Kinds, v, w \in Workers : Sits(k, v, p) /\ Sits(l, w, p) => k = l /\ v = w

OnlyTheLiving ==
  \A p \in Pids : p \in born \ exited <=> \E k \in Kinds, w \in Workers : Sits(k, w, p)

NoDoubles ==
  \A w \in Workers : Distinct(queue[w]) /\ Distinct(inject[w]) /\ Distinct(woken[w])

(* Between slices a worker has no process in its hands. *)
EmptyHands ==
  \A w \in Workers :
    pc[w] \notin {"leaveWork", "enterSlice", "busy", "busyEdge", "running", "register", "recheck", "selfWake"}
      => cur[w] = NoPid

OnceInv == exited \subseteq born /\ OnePlace /\ OnlyTheLiving /\ NoDoubles /\ EmptyHands

(* The processes of a sequence. *)
LEMMA InSeq ==
  ASSUME NEW s \in Seq(Pids)
  PROVE  \A p : p \in ToSet(s) <=> \E i \in 1 .. Len(s) : s[i] = p
<1>1. DOMAIN s = 1 .. Len(s)
  OBVIOUS
<1>2. QED
  BY <1>1 DEF ToSet

(* A concatenation holds both parts. *)
LEMMA ConcatSets ==
  ASSUME NEW s \in Seq(Pids), NEW t \in Seq(Pids)
  PROVE  /\ ToSet(s \o t) = ToSet(s) \cup ToSet(t)
         /\ Distinct(s) /\ Distinct(t) /\ ToSet(s) \cap ToSet(t) = {} => Distinct(s \o t)
<1> DEFINE c == s \o t
<1>1. c \in Seq(Pids) /\ Len(c) = Len(s) + Len(t) /\ Len(s) \in Nat /\ Len(t) \in Nat
  OBVIOUS
<1>2. /\ \A i \in 1 .. Len(s) : c[i] = s[i] /\ i \in 1 .. Len(c)
      /\ \A i \in 1 .. Len(t) : c[Len(s) + i] = t[i] /\ Len(s) + i \in 1 .. Len(c)
  BY <1>1
<1>3. \A i \in 1 .. Len(c) : i \in 1 .. Len(s) \/ (i - Len(s) \in 1 .. Len(t) /\ i = Len(s) + (i - Len(s)))
  BY <1>1
<1> HIDE DEF c
<1>4. \A i \in 1 .. Len(c) : \/ i \in 1 .. Len(s) /\ c[i] = s[i]
                             \/ i - Len(s) \in 1 .. Len(t) /\ c[i] = t[i - Len(s)]
  BY <1>2, <1>3
<1>5. ToSet(c) = ToSet(s) \cup ToSet(t)
  <2>1. /\ \A p : p \in ToSet(s) <=> \E i \in 1 .. Len(s) : s[i] = p
        /\ \A p : p \in ToSet(t) <=> \E i \in 1 .. Len(t) : t[i] = p
        /\ \A p : p \in ToSet(c) <=> \E i \in 1 .. Len(c) : c[i] = p
    BY <1>1, InSeq
  <2>2. ASSUME NEW p, p \in ToSet(c) PROVE p \in ToSet(s) \cup ToSet(t)
    BY <1>4, <2>1, <2>2
  <2>3. ASSUME NEW p, p \in ToSet(s) \cup ToSet(t) PROVE p \in ToSet(c)
    <3>1. CASE p \in ToSet(s)
      BY <1>2, <2>1, <3>1
    <3>2. CASE p \in ToSet(t)
      <4>1. PICK i \in 1 .. Len(t) : t[i] = p
        BY <2>1, <3>2
      <4>2. c[Len(s) + i] = p /\ Len(s) + i \in 1 .. Len(c)
        BY <1>2, <4>1
      <4>3. QED
        BY <2>1, <4>2
    <3>3. QED
      BY <2>3, <3>1, <3>2
  <2>4. QED
    BY <2>2, <2>3
<1>6. ASSUME Distinct(s), Distinct(t), ToSet(s) \cap ToSet(t) = {}
      PROVE  Distinct(c)
  <2>1. \A i \in 1 .. Len(s), j \in 1 .. Len(t) : s[i] # t[j]
    BY <1>6, InSeq
  <2>2. SUFFICES ASSUME NEW i \in 1 .. Len(c), NEW j \in 1 .. Len(c), c[i] = c[j] PROVE i = j
    BY DEF Distinct
  <2>3. CASE i \in 1 .. Len(s) /\ c[i] = s[i]
    <3>1. j \in 1 .. Len(s) /\ c[j] = s[j]
      BY <1>4, <2>1, <2>2, <2>3
    <3>2. QED
      BY <1>6, <2>2, <2>3, <3>1 DEF Distinct
  <2>4. CASE i - Len(s) \in 1 .. Len(t) /\ c[i] = t[i - Len(s)]
    <3>1. j - Len(s) \in 1 .. Len(t) /\ c[j] = t[j - Len(s)]
      BY <1>4, <2>1, <2>2, <2>4
    <3>2. i - Len(s) = j - Len(s)
      BY <1>6, <2>2, <2>4, <3>1 DEF Distinct
    <3>3. QED
      BY <1>1, <3>2
  <2>5. QED
    BY <1>4, <2>3, <2>4
<1>7. QED
  BY <1>5, <1>6 DEF c

(* A sequence of one process. *)
LEMMA SingleSet ==
  ASSUME NEW p \in Pids
  PROVE  <<p>> \in Seq(Pids) /\ ToSet(<<p>>) = {p} /\ Distinct(<<p>>)
<1>1. <<p>> \in Seq(Pids) /\ Len(<<p>>) = 1 /\ <<p>>[1] = p
  OBVIOUS
<1>2. \A i \in 1 .. Len(<<p>>) : i = 1
  BY <1>1
<1>3. Distinct(<<p>>)
  BY <1>2 DEF Distinct
<1>4. \A x : x \in ToSet(<<p>>) <=> \E i \in 1 .. Len(<<p>>) : <<p>>[i] = x
  BY <1>1, InSeq
<1>5. QED
  BY <1>1, <1>3, <1>4

(* The same of one more process. *)
LEMMA AppendSets ==
  ASSUME NEW s \in Seq(Pids), NEW p \in Pids
  PROVE  /\ Append(s, p) \in Seq(Pids) /\ ToSet(Append(s, p)) = ToSet(s) \cup {p}
         /\ Distinct(s) /\ p \notin ToSet(s) => Distinct(Append(s, p))
<1>1. Append(s, p) = s \o <<p>>
  OBVIOUS
<1>2. Append(s, p) \in Seq(Pids)
  OBVIOUS
<1> DEFINE o == <<p>>
<1>3. o \in Seq(Pids) /\ ToSet(o) = {p} /\ Distinct(o)
  BY SingleSet
<1>4. Append(s, p) = s \o o
  BY <1>1
<1> HIDE DEF o
<1>5. /\ ToSet(s \o o) = ToSet(s) \cup ToSet(o)
      /\ Distinct(s) /\ Distinct(o) /\ ToSet(s) \cap ToSet(o) = {} => Distinct(s \o o)
  BY <1>3, ConcatSets
<1>6. QED
  BY <1>2, <1>3, <1>4, <1>5

(* A part of a sequence. *)
LEMMA SubSeqSets ==
  ASSUME NEW q \in Seq(Pids), NEW a \in Nat, NEW b \in Nat, 1 <= a, b <= Len(q)
  PROVE  /\ SubSeq(q, a, b) \in Seq(Pids)
         /\ \A p : p \in ToSet(SubSeq(q, a, b)) <=> \E i \in a .. b : q[i] = p
         /\ Distinct(q) => Distinct(SubSeq(q, a, b))
<1> DEFINE s == SubSeq(q, a, b)
<1>0. Len(q) \in Nat /\ \A i \in a .. b : q[i] \in Pids /\ i \in 1 .. Len(q)
  OBVIOUS
<1>1. s \in Seq(Pids) /\ Len(s) = (IF a <= b THEN b - a + 1 ELSE 0) /\ \A i \in 1 .. b - a + 1 : s[i] = q[a + i - 1]
  BY <1>0, SubSeqProperties
<1> HIDE DEF s
<1>2. \A i \in 1 .. Len(s) : s[i] = q[a + i - 1] /\ a + i - 1 \in a .. b
  BY <1>1
<1>3. \A i \in a .. b : i - a + 1 \in 1 .. Len(s) /\ a + (i - a + 1) - 1 = i
  BY <1>1
<1>4. \A p : p \in ToSet(s) <=> \E i \in 1 .. Len(s) : s[i] = p
  BY <1>1, InSeq
<1>5. ASSUME NEW p PROVE p \in ToSet(s) <=> \E i \in a .. b : q[i] = p
  <2>1. ASSUME NEW i \in 1 .. Len(s), s[i] = p PROVE \E j \in a .. b : q[j] = p
    BY <1>2, <2>1
  <2>2. ASSUME NEW i \in a .. b, q[i] = p PROVE \E j \in 1 .. Len(s) : s[j] = p
    <3>1. i - a + 1 \in 1 .. Len(s) /\ s[i - a + 1] = q[a + (i - a + 1) - 1]
      BY <1>2, <1>3
    <3>2. QED
      BY <1>3, <2>2, <3>1
  <2>3. QED
    BY <1>4, <2>1, <2>2
<1>6. ASSUME Distinct(q) PROVE Distinct(s)
  <2> SUFFICES ASSUME NEW i \in 1 .. Len(s), NEW j \in 1 .. Len(s), s[i] = s[j] PROVE i = j
    BY DEF Distinct
  <2>1. a + i - 1 \in 1 .. Len(q) /\ a + j - 1 \in 1 .. Len(q) /\ q[a + i - 1] = q[a + j - 1]
    BY <1>0, <1>2
  <2>2. a + i - 1 = a + j - 1
    BY <1>6, <2>1 DEF Distinct
  <2>3. QED
    BY <2>2
<1>7. QED
  BY <1>1, <1>5, <1>6 DEF s

(* The first process and the others. *)
LEMMA HeadTailSets ==
  ASSUME NEW q \in Seq(Pids), q # <<>>, Distinct(q)
  PROVE  /\ Head(q) \in ToSet(q) /\ Head(q) \in Pids /\ Tail(q) \in Seq(Pids)
         /\ ToSet(Tail(q)) = ToSet(q) \ {Head(q)} /\ Distinct(Tail(q))
<1>1. Len(q) \in Nat /\ Len(q) >= 1 /\ Head(q) = q[1] /\ Tail(q) = SubSeq(q, 2, Len(q)) /\ q[1] \in Pids
  OBVIOUS
<1>2. /\ SubSeq(q, 2, Len(q)) \in Seq(Pids) /\ Distinct(SubSeq(q, 2, Len(q)))
      /\ \A p : p \in ToSet(SubSeq(q, 2, Len(q))) <=> \E i \in 2 .. Len(q) : q[i] = p
  BY <1>1, SubSeqSets
<1>3. \A p : p \in ToSet(q) <=> \E i \in 1 .. Len(q) : q[i] = p
  BY InSeq
<1>4. 1 \in 1 .. Len(q) /\ \A i \in 2 .. Len(q) : i \in 1 .. Len(q) /\ i # 1
  BY <1>1
<1>5. \A i \in 2 .. Len(q) : q[i] # q[1]
  BY <1>4 DEF Distinct
<1>6. \A i \in 1 .. Len(q) : i = 1 \/ i \in 2 .. Len(q)
  BY <1>1
<1>7. \A p : p \in ToSet(Tail(q)) <=> p \in ToSet(q) \ {q[1]}
  BY <1>1, <1>2, <1>3, <1>4, <1>5, <1>6
<1>8. QED
  BY <1>1, <1>2, <1>3, <1>4, <1>7

(* What a thief takes and what it leaves. *)
LEMMA StolenSets ==
  ASSUME NEW q \in Seq(Pids), NEW n \in Nat, n >= 1, n <= Len(q), Distinct(q)
  PROVE  LET rest == SubSeq(q, n + 1, Len(q))
             batch == SubSeq(q, 2, n) \o <<q[1]>>
         IN  /\ batch \in Seq(Pids) /\ Distinct(rest) /\ Distinct(batch)
             /\ ToSet(batch) \subseteq ToSet(q) /\ ToSet(rest) = ToSet(q) \ ToSet(batch)
<1> DEFINE rest == SubSeq(q, n + 1, Len(q))
           tail == SubSeq(q, 2, n)
           first == <<q[1]>>
<1>1. Len(q) \in Nat /\ q[1] \in Pids
  OBVIOUS
<1>2. /\ rest \in Seq(Pids) /\ Distinct(rest)
      /\ \A p : p \in ToSet(rest) <=> \E i \in n + 1 .. Len(q) : q[i] = p
  BY <1>1, SubSeqSets
<1>3. /\ tail \in Seq(Pids) /\ Distinct(tail)
      /\ \A p : p \in ToSet(tail) <=> \E i \in 2 .. n : q[i] = p
  BY <1>1, SubSeqSets
<1>4. first \in Seq(Pids) /\ Distinct(first) /\ ToSet(first) = {q[1]}
  BY <1>1, SingleSet
<1> HIDE DEF rest, tail, first
<1>5. \A p : p \in ToSet(q) <=> \E i \in 1 .. Len(q) : q[i] = p
  BY InSeq
<1>6. /\ 1 \in 1 .. Len(q) /\ \A i \in 2 .. n : i \in 1 .. Len(q) /\ i # 1
      /\ \A i \in n + 1 .. Len(q) : i \in 1 .. Len(q) /\ i # 1 /\ \A j \in 2 .. n : i # j
      /\ \A i \in 1 .. Len(q) : i = 1 \/ i \in 2 .. n \/ i \in n + 1 .. Len(q)
  BY <1>1
<1>7. ToSet(tail) \cap ToSet(first) = {}
  <2>1. \A i \in 2 .. n : q[i] # q[1]
    BY <1>6 DEF Distinct
  <2>2. QED
    BY <1>3, <1>4, <2>1
<1>8. /\ ToSet(tail \o first) = ToSet(tail) \cup ToSet(first) /\ Distinct(tail \o first)
      /\ tail \o first \in Seq(Pids)
  BY <1>3, <1>4, <1>7, ConcatSets
<1>9. ToSet(tail) \cup ToSet(first) \subseteq ToSet(q)
  BY <1>3, <1>4, <1>5, <1>6
<1>10. \A p : p \in ToSet(rest) <=> p \in ToSet(q) /\ p \notin ToSet(tail) \cup ToSet(first)
  <2>1. \A i \in n + 1 .. Len(q) : q[i] # q[1] /\ \A j \in 2 .. n : q[i] # q[j]
    BY <1>6 DEF Distinct
  <2>2. QED
    BY <1>2, <1>3, <1>4, <1>5, <1>6, <2>1
<1>11. QED
  BY <1>2, <1>8, <1>9, <1>10 DEF rest, tail, first

(* The processes of M go from one place to another; nobody else moves. *)
Handed(M, a, v, b, w) ==
  /\ \A p \in Pids : p \in M => Sits(a, v, p)
  /\ \A p \in Pids : Sits(a, v, p)' <=> Sits(a, v, p) /\ p \notin M
  /\ \A p \in Pids : Sits(b, w, p)' <=> Sits(b, w, p) \/ p \in M
  /\ \A p \in Pids, k \in Kinds, x \in Workers :
       (k # a \/ x # v) /\ (k # b \/ x # w) => (Sits(k, x, p)' <=> Sits(k, x, p))

(* Whoever is handed on still has exactly one place. *)
LEMMA HandedOn ==
  ASSUME OnePlace, OnlyTheLiving, UNCHANGED <<born, exited>>, NEW M,
         NEW a \in Kinds, NEW b \in Kinds, NEW v \in Workers, NEW w \in Workers, a # b \/ v # w,
         Handed(M, a, v, b, w)
  PROVE  OnePlace' /\ OnlyTheLiving'
<1>1. \A p \in Pids : p \in M => \A k \in Kinds, x \in Workers : Sits(k, x, p) => k = a /\ x = v
  BY DEF OnePlace, Handed
<1>2. \A p \in Pids : p \in M => \A k \in Kinds, x \in Workers : Sits(k, x, p)' <=> k = b /\ x = w
  BY <1>1 DEF Handed
<1>3. \A p \in Pids : p \notin M => \A k \in Kinds, x \in Workers : Sits(k, x, p)' <=> Sits(k, x, p)
  BY DEF Handed
<1>4. OnePlace'
  <2> SUFFICES ASSUME NEW p \in Pids, NEW k \in Kinds, NEW l \in Kinds, NEW x \in Workers, NEW y \in Workers,
                      Sits(k, x, p)', Sits(l, y, p)'
               PROVE  k = l /\ x = y
    BY DEF OnePlace
  <2>1. CASE p \in M
    BY <1>2, <2>1
  <2>2. CASE p \notin M
    BY <1>3, <2>2 DEF OnePlace
  <2>3. QED
    BY <2>1, <2>2
<1>5. OnlyTheLiving'
  <2> SUFFICES ASSUME NEW p \in Pids
               PROVE  p \in born \ exited <=> \E k \in Kinds, x \in Workers : Sits(k, x, p)'
    BY DEF OnlyTheLiving
  <2>1. CASE p \in M
    BY <1>2, <2>1 DEF OnlyTheLiving, Handed
  <2>2. CASE p \notin M
    BY <1>3, <2>2 DEF OnlyTheLiving
  <2>3. QED
    BY <2>1, <2>2
<1>6. QED
  BY <1>4, <1>5

(* Most steps hand nobody on. *)
LEMMA Standing ==
  ASSUME OnePlace, OnlyTheLiving, NoDoubles, UNCHANGED <<queue, inject, woken, waiting, born, exited>>,
         \A x \in Workers : Hand(x)' = Hand(x)
  PROVE  OnePlace' /\ OnlyTheLiving' /\ NoDoubles'
<1>1. \A p \in Pids, k \in Kinds, x \in Workers : Sits(k, x, p)' <=> Sits(k, x, p)
  BY DEF Sits
<1>2. OnePlace' /\ OnlyTheLiving'
  BY <1>1 DEF OnePlace, OnlyTheLiving
<1>3. QED
  BY <1>2 DEF NoDoubles

(* What is drained goes to the back of the worker's queue. *)
LEMMA Drained ==
  ASSUME TypeInv, OnePlace, NoDoubles, NEW w \in Workers, NEW s \in Seq(Pids), Distinct(s),
         NEW k \in {"inject", "woken"}, \A p \in Pids : p \in ToSet(s) => Sits(k, w, p)
  PROVE  /\ queue[w] \o s \in Seq(Pids) /\ Distinct(queue[w] \o s)
         /\ ToSet(queue[w] \o s) = ToSet(queue[w]) \cup ToSet(s)
<1>1. queue[w] \in Seq(Pids) /\ Distinct(queue[w])
  BY DEF TypeInv, QueueTypes, NoDoubles
<1>2. ToSet(queue[w]) \subseteq Pids /\ ToSet(s) \subseteq Pids
  BY <1>1, InSeq
<1>3. \A p \in Pids : p \in ToSet(queue[w]) => Sits("queue", w, p)
  BY DEF Sits
<1>4. \A p \in Pids : ~(Sits("queue", w, p) /\ Sits(k, w, p))
  BY DEF OnePlace, Kinds
<1>5. ToSet(queue[w]) \cap ToSet(s) = {}
  BY <1>2, <1>3, <1>4
<1>6. QED
  BY <1>1, <1>5, ConcatSets

(* drain_injected. *)
LEMMA DrainInjectedHands ==
  ASSUME TypeInv, OnePlace, OnlyTheLiving, NoDoubles, NEW w \in Workers, DrainInjected(w)
  PROVE  OnePlace' /\ OnlyTheLiving' /\ NoDoubles'
<1> DEFINE s == inject[w]
<1>1. s \in Seq(Pids) /\ Distinct(s) /\ \A p \in Pids : p \in ToSet(s) => Sits("inject", w, p)
  BY DEF TypeInv, QueueTypes, NoDoubles, Sits
<1> DEFINE own == queue[w] \o s
<1>2. own \in Seq(Pids) /\ Distinct(own) /\ ToSet(own) = ToSet(queue[w]) \cup ToSet(s)
  BY <1>1, Drained
<1>3. /\ queue' = [queue EXCEPT ![w] = own] /\ inject' = [inject EXCEPT ![w] = <<>>]
      /\ UNCHANGED <<woken, waiting, born, exited, cur>> /\ pc[w] = "inject"
      /\ pc' = [pc EXCEPT ![w] = IF w = 0 THEN "tick" ELSE "drain"]
  BY DEF DrainInjected, Goto, waitVars
<1> HIDE DEF s, own
<1>4. /\ queue'[w] = own /\ inject'[w] = <<>>
      /\ \A x \in Workers : x # w => queue'[x] = queue[x] /\ inject'[x] = inject[x]
  BY <1>3 DEF TypeInv, QueueTypes
<1>5. \A x \in Workers : Hand(x)' = Hand(x)
  BY <1>3 DEF Hand, TypeInv, WorkerTypes
<1>6. ToSet(<<>>) = {} /\ Distinct(<<>>)
  BY DEF ToSet, Distinct
<1>7. Handed(ToSet(s), "inject", w, "queue", w)
  BY <1>1, <1>2, <1>3, <1>4, <1>5, <1>6 DEF Handed, Sits, s
<1>8. NoDoubles'
  BY <1>2, <1>3, <1>4, <1>6 DEF NoDoubles
<1>9. QED
  BY <1>3, <1>7, <1>8, HandedOn DEF Kinds

(* drain_woken. *)
LEMMA DrainWokenHands ==
  ASSUME TypeInv, OnePlace, OnlyTheLiving, NoDoubles, NEW w \in Workers, DrainWoken(w)
  PROVE  OnePlace' /\ OnlyTheLiving' /\ NoDoubles'
<1> DEFINE s == woken[w]
<1>1. s \in Seq(Pids) /\ Distinct(s) /\ \A p \in Pids : p \in ToSet(s) => Sits("woken", w, p)
  BY DEF TypeInv, QueueTypes, NoDoubles, Sits
<1> DEFINE own == queue[w] \o s
<1>2. own \in Seq(Pids) /\ Distinct(own) /\ ToSet(own) = ToSet(queue[w]) \cup ToSet(s)
  BY <1>1, Drained
<1>3. /\ queue' = [queue EXCEPT ![w] = own] /\ woken' = [woken EXCEPT ![w] = <<>>]
      /\ UNCHANGED <<inject, waiting, born, exited, cur>> /\ pc[w] = "drain"
      /\ pc' = [pc EXCEPT ![w] = "surplus"] \/ pc' = [pc EXCEPT ![w] = "pop"]
  BY DEF DrainWoken, Goto
<1> HIDE DEF s, own
<1>4. /\ queue'[w] = own /\ woken'[w] = <<>>
      /\ \A x \in Workers : x # w => queue'[x] = queue[x] /\ woken'[x] = woken[x]
  BY <1>3 DEF TypeInv, QueueTypes
<1>5. \A x \in Workers : Hand(x)' = Hand(x)
  BY <1>3 DEF Hand, TypeInv, WorkerTypes
<1>6. ToSet(<<>>) = {} /\ Distinct(<<>>)
  BY DEF ToSet, Distinct
<1>7. Handed(ToSet(s), "woken", w, "queue", w)
  BY <1>1, <1>2, <1>3, <1>4, <1>5, <1>6 DEF Handed, Sits, s
<1>8. NoDoubles'
  BY <1>2, <1>3, <1>4, <1>6 DEF NoDoubles
<1>9. QED
  BY <1>3, <1>7, <1>8, HandedOn DEF Kinds

(* RunQueue::pop. *)
LEMMA PopHands ==
  ASSUME TypeInv, OnePlace, OnlyTheLiving, NoDoubles, EmptyHands, NEW w \in Workers, Pop(w)
  PROVE  OnePlace' /\ OnlyTheLiving' /\ NoDoubles'
<1> DEFINE q == queue[w]
<1>1. /\ Head(q) \in ToSet(q) /\ Head(q) \in Pids /\ Tail(q) \in Seq(Pids)
      /\ ToSet(Tail(q)) = ToSet(q) \ {Head(q)} /\ Distinct(Tail(q))
  <2>1. q \in Seq(Pids) /\ q # <<>> /\ Distinct(q)
    BY DEF TypeInv, QueueTypes, NoDoubles, Pop
  <2>2. QED
    BY <2>1, HeadTailSets
<1> DEFINE p0 == Head(q)
           own == Tail(q)
<1>2. /\ queue' = [queue EXCEPT ![w] = own] /\ cur' = [cur EXCEPT ![w] = p0]
      /\ UNCHANGED <<woken, inject, waiting, born, exited>> /\ pc[w] \in {"pop", "popStolen"}
      /\ pc' = [pc EXCEPT ![w] = "leaveWork"]
  BY DEF Pop, Goto, waitVars
<1>3. p0 \in ToSet(q) /\ p0 \in Pids /\ ToSet(own) = ToSet(q) \ {p0} /\ Distinct(own)
  BY <1>1
<1> HIDE DEF p0, own
<1>4. queue'[w] = own /\ \A x \in Workers : x # w => queue'[x] = queue[x]
  BY <1>2 DEF TypeInv, QueueTypes
<1>5. Hand(w) = NoPid /\ Hand(w)' = p0 /\ \A x \in Workers : x # w => Hand(x)' = Hand(x)
  BY <1>2 DEF Hand, TypeInv, WorkerTypes, EmptyHands
<1>6. Handed({p0}, "queue", w, "hand", w)
  BY <1>2, <1>3, <1>4, <1>5, WorkerNumbers DEF Handed, Sits
<1>7. NoDoubles'
  BY <1>2, <1>3, <1>4 DEF NoDoubles
<1>8. QED
  BY <1>2, <1>6, <1>7, HandedOn DEF Kinds

(* steal_half_from. *)
LEMMA StealHands ==
  ASSUME TypeInv, ThiefInv, OnePlace, OnlyTheLiving, NoDoubles, NEW w \in Workers, StealTake(w)
  PROVE  OnePlace' /\ OnlyTheLiving' /\ NoDoubles'
<1>1. /\ UNCHANGED <<woken, inject, waiting, born, exited, cur>> /\ pc[w] = "take"
      /\ \A x \in Workers : x # w => pc'[x] = pc[x]
      /\ pc'[w] \in {"stealLen", "publish", "wait", "surplus"}
  BY DEF StealTake, StealNothing, ParkLabel, Goto, TypeInv, WorkerTypes, waitVars
<1>2. \A x \in Workers : Hand(x)' = Hand(x)
  BY <1>1 DEF Hand
<1>3. CASE UNCHANGED queue
  BY <1>1, <1>2, <1>3, Standing
<1>4. CASE ~UNCHANGED queue
  <2>1. PICK v \in Workers \ {w}, n \in Nat :
          /\ n >= 1 /\ n <= Len(queue[v])
          /\ queue'[v] = SubSeq(queue[v], n + 1, Len(queue[v]))
          /\ queue'[w] = queue[w] \o (SubSeq(queue[v], 2, n) \o <<queue[v][1]>>)
          /\ \A x \in Workers \ {v, w} : queue'[x] = queue[x]
    BY <1>4, StealEffect
  <2> DEFINE rest == SubSeq(queue[v], n + 1, Len(queue[v]))
             batch == SubSeq(queue[v], 2, n) \o <<queue[v][1]>>
             M == ToSet(batch)
  <2>2. /\ queue[v] \in Seq(Pids) /\ queue[w] \in Seq(Pids) /\ Distinct(queue[v]) /\ Distinct(queue[w])
    BY DEF TypeInv, QueueTypes, NoDoubles
  <2>3. /\ batch \in Seq(Pids) /\ Distinct(rest) /\ Distinct(batch)
        /\ M \subseteq ToSet(queue[v]) /\ ToSet(rest) = ToSet(queue[v]) \ M
    BY <2>1, <2>2, StolenSets
  <2>4. queue'[v] = rest /\ queue'[w] = queue[w] \o batch
    BY <2>1
  <2> HIDE DEF rest, batch
  <2>5. ToSet(queue[v]) \cap ToSet(queue[w]) = {}
    <3>1. ToSet(queue[v]) \subseteq Pids
      BY <2>2, InSeq
    <3>2. \A p \in Pids : ~(Sits("queue", v, p) /\ Sits("queue", w, p))
      BY <2>1 DEF OnePlace, Kinds
    <3>3. QED
      BY <3>1, <3>2 DEF Sits
  <2>6. Distinct(queue[w] \o batch) /\ ToSet(queue[w] \o batch) = ToSet(queue[w]) \cup M
    <3>1. ToSet(queue[w]) \cap ToSet(batch) = {}
      BY <2>3, <2>5
    <3>2. QED
      BY <2>2, <2>3, <3>1, ConcatSets
  <2> HIDE DEF M
  <2>7. Handed(M, "queue", v, "queue", w)
    <3>1. \A p \in Pids, x \in Workers :
            /\ Sits("inject", x, p)' <=> Sits("inject", x, p)
            /\ Sits("woken", x, p)' <=> Sits("woken", x, p)
            /\ Sits("waiting", x, p)' <=> Sits("waiting", x, p)
            /\ Sits("hand", x, p)' <=> Sits("hand", x, p)
      BY <1>1, <1>2 DEF Sits
    <3>2. \A p \in Pids, x \in Workers : x # v /\ x # w => (Sits("queue", x, p)' <=> Sits("queue", x, p))
      BY <2>1 DEF Sits
    <3>3. \A p \in Pids : Sits("queue", v, p)' <=> Sits("queue", v, p) /\ p \notin M
      BY <2>3, <2>4 DEF Sits
    <3>4. \A p \in Pids : Sits("queue", w, p)' <=> Sits("queue", w, p) \/ p \in M
      BY <2>4, <2>6 DEF Sits
    <3>5. \A p \in Pids : p \in M => Sits("queue", v, p)
      BY <2>3 DEF Sits
    <3>6. QED
      BY <3>1, <3>2, <3>3, <3>4, <3>5 DEF Handed, Kinds
  <2>8. NoDoubles'
    BY <1>1, <2>1, <2>3, <2>4, <2>6 DEF NoDoubles
  <2>9. QED
    BY <1>1, <2>1, <2>7, <2>8, HandedOn DEF Kinds
<1>5. QED
  BY <1>3, <1>4

(* One process is put at the back of the worker's queue. *)
LEMMA PushHands ==
  ASSUME TypeInv, OnePlace, OnlyTheLiving, NoDoubles, NEW w \in Workers, NEW p0 \in Pids,
         NEW k \in {"waiting", "hand"}, NEW v \in Workers, Sits(k, v, p0),
         queue' = [queue EXCEPT ![w] = Append(@, p0)], UNCHANGED <<woken, inject, born, exited>>,
         \A p \in Pids, l \in {"waiting", "hand"}, x \in Workers :
            Sits(l, x, p)' <=> Sits(l, x, p) /\ p # p0
  PROVE  OnePlace' /\ OnlyTheLiving' /\ NoDoubles'
<1>1. queue[w] \in Seq(Pids) /\ Distinct(queue[w])
  BY DEF TypeInv, QueueTypes, NoDoubles
<1>2. p0 \notin ToSet(queue[w])
  <2>1. ~Sits("queue", w, p0)
    BY DEF OnePlace, Kinds
  <2>2. QED
    BY <2>1 DEF Sits
<1> DEFINE own == Append(queue[w], p0)
<1>3. ToSet(own) = ToSet(queue[w]) \cup {p0} /\ Distinct(own)
  BY <1>1, <1>2, AppendSets
<1>4. queue'[w] = own /\ \A x \in Workers : x # w => queue'[x] = queue[x]
  BY DEF TypeInv, QueueTypes
<1> HIDE DEF own
<1>5. \A l \in {"waiting", "hand"}, x \in Workers : (l # k \/ x # v) => ~Sits(l, x, p0)
  BY DEF OnePlace, Kinds
<1>6. \A p \in Pids, x \in Workers :
        /\ Sits("inject", x, p)' <=> Sits("inject", x, p)
        /\ Sits("woken", x, p)' <=> Sits("woken", x, p)
        /\ Sits("queue", x, p)' <=> Sits("queue", x, p) \/ (x = w /\ p = p0)
  <2> SUFFICES ASSUME NEW p \in Pids, NEW x \in Workers
               PROVE  /\ Sits("inject", x, p)' <=> Sits("inject", x, p)
                      /\ Sits("woken", x, p)' <=> Sits("woken", x, p)
                      /\ Sits("queue", x, p)' <=> Sits("queue", x, p) \/ (x = w /\ p = p0)
    OBVIOUS
  <2>1. Sits("inject", x, p)' <=> Sits("inject", x, p)
    BY DEF Sits
  <2>2. Sits("woken", x, p)' <=> Sits("woken", x, p)
    BY DEF Sits
  <2>3. p \in ToSet(queue'[x]) <=> p \in ToSet(queue[x]) \/ (x = w /\ p = p0)
    BY <1>3, <1>4
  <2>4. Sits("queue", x, p)' <=> Sits("queue", x, p) \/ (x = w /\ p = p0)
    BY <2>3 DEF Sits
  <2>5. QED
    BY <2>1, <2>2, <2>4
<1>7. Handed({p0}, k, v, "queue", w)
  BY <1>5, <1>6 DEF Handed, Kinds
<1>8. NoDoubles'
  BY <1>3, <1>4 DEF NoDoubles
<1>9. QED
  BY <1>7, <1>8, HandedOn DEF Kinds

(* SliceOutcome::Requeue. *)
LEMMA RequeueHands ==
  ASSUME TypeInv, CurInv, OnePlace, OnlyTheLiving, NoDoubles, NEW w \in Workers, Requeue(w)
  PROVE  OnePlace' /\ OnlyTheLiving' /\ NoDoubles'
<1> DEFINE p0 == cur[w]
<1>1. /\ queue' = [queue EXCEPT ![w] = Append(@, p0)] /\ UNCHANGED <<woken, inject, born, exited, waiting>>
      /\ cur' = [cur EXCEPT ![w] = NoPid] /\ pc[w] = "running" /\ pc' = [pc EXCEPT ![w] = "surplus"]
  BY DEF Requeue, Goto, waitVars
<1>2. p0 \in Pids /\ Hand(w) = p0 /\ Hand(w)' = NoPid /\ \A x \in Workers : x # w => Hand(x)' = Hand(x)
  BY <1>1 DEF CurInv, Hand, TypeInv, WorkerTypes
<1> HIDE DEF p0
<1>3. Sits("hand", w, p0)
  BY <1>2 DEF Sits
<1>4. \A l \in Kinds, x \in Workers : Sits(l, x, p0) => l = "hand" /\ x = w
  BY <1>2, <1>3 DEF OnePlace, Kinds
<1>5. \A p \in Pids, x \in Workers : Sits("waiting", x, p)' <=> Sits("waiting", x, p) /\ p # p0
  <2>1. \A p \in Pids, x \in Workers : Sits("waiting", x, p)' <=> Sits("waiting", x, p)
    BY <1>1 DEF Sits
  <2>2. \A x \in Workers : ~Sits("waiting", x, p0)
    BY <1>4 DEF Kinds
  <2>3. QED
    BY <2>1, <2>2
<1>6. \A p \in Pids, x \in Workers : Sits("hand", x, p)' <=> Sits("hand", x, p) /\ p # p0
  <2>1. \A p \in Pids, x \in Workers : x # w => (Sits("hand", x, p)' <=> Sits("hand", x, p))
    BY <1>2 DEF Sits
  <2>2. \A p \in Pids : ~Sits("hand", w, p)'
    BY <1>2, WorkerNumbers DEF Sits
  <2>3. \A p \in Pids : Sits("hand", w, p) => p = p0
    BY <1>2 DEF Sits
  <2>4. \A x \in Workers : x # w => ~Sits("hand", x, p0)
    BY <1>4 DEF Kinds
  <2>5. QED
    BY <2>1, <2>2, <2>3, <2>4
<1>7. \A p \in Pids, l \in {"waiting", "hand"}, x \in Workers : Sits(l, x, p)' <=> Sits(l, x, p) /\ p # p0
  BY <1>5, <1>6
<1>8. QED
  BY <1>1, <1>2, <1>3, <1>7, PushHands

(* The self-wake takes the registration back, or finds it taken. *)
LEMMA SelfWakeHands ==
  ASSUME TypeInv, CurInv, OnePlace, OnlyTheLiving, NoDoubles, NEW w \in Workers, SelfWake(w)
  PROVE  OnePlace' /\ OnlyTheLiving' /\ NoDoubles'
<1> DEFINE p0 == cur[w]
<1>1. /\ UNCHANGED <<woken, inject, born, exited>> /\ cur' = [cur EXCEPT ![w] = NoPid] /\ pc[w] = "selfWake"
      /\ pc' = [pc EXCEPT ![w] = "surplus"] \/ pc' = [pc EXCEPT ![w] = "endSlice"]
  BY DEF SelfWake, Goto
<1>2. p0 \in Pids /\ \A x \in Workers : Hand(x)' = Hand(x)
  BY <1>1 DEF CurInv, Hand, TypeInv, WorkerTypes
<1>3. CASE waiting[p0] = NoWorker
  <2>1. UNCHANGED <<queue, waiting>>
    BY <1>3 DEF SelfWake
  <2>2. QED
    BY <1>1, <1>2, <2>1, Standing
<1>4. CASE waiting[p0] # NoWorker
  <2>1. queue' = [queue EXCEPT ![w] = Append(@, p0)] /\ waiting' = [waiting EXCEPT ![p0] = NoWorker]
    BY <1>4 DEF SelfWake
  <2>2. waiting[p0] \in Workers /\ waiting'[p0] = NoWorker /\ \A p \in Pids : p # p0 => waiting'[p] = waiting[p]
    BY <1>2, <1>4, <2>1 DEF TypeInv, QueueTypes
  <2> DEFINE v == waiting[p0]
  <2>3. Sits("waiting", v, p0)
    BY DEF Sits
  <2> HIDE DEF p0, v
  <2>4. v \in Workers
    BY <2>2 DEF v
  <2>5. \A l \in Kinds, x \in Workers : Sits(l, x, p0) => l = "waiting" /\ x = v
    BY <1>2, <2>3, <2>4 DEF OnePlace, Kinds
  <2>6. \A p \in Pids, x \in Workers : Sits("hand", x, p)' <=> Sits("hand", x, p) /\ p # p0
    <3>1. \A p \in Pids, x \in Workers : Sits("hand", x, p)' <=> Sits("hand", x, p)
      BY <1>2 DEF Sits
    <3>2. \A x \in Workers : ~Sits("hand", x, p0)
      BY <2>5 DEF Kinds
    <3>3. QED
      BY <3>1, <3>2
  <2>7. \A p \in Pids, x \in Workers : Sits("waiting", x, p)' <=> Sits("waiting", x, p) /\ p # p0
    BY <2>2, WorkerNumbers DEF Sits
  <2>8. \A p \in Pids, l \in {"waiting", "hand"}, x \in Workers : Sits(l, x, p)' <=> Sits(l, x, p) /\ p # p0
    BY <2>6, <2>7
  <2>9. QED
    BY <1>1, <1>2, <2>1, <2>3, <2>4, <2>8, PushHands
<1>5. QED
  BY <1>3, <1>4

(* The registration: from the worker's hands to the wait set. *)
LEMMA RegisterHands ==
  ASSUME TypeInv, CurInv, OnePlace, OnlyTheLiving, NoDoubles, NEW w \in Workers, Register(w)
  PROVE  OnePlace' /\ OnlyTheLiving' /\ NoDoubles'
<1> DEFINE p0 == cur[w]
<1>1. /\ UNCHANGED <<queue, woken, inject, born, exited, cur>> /\ waiting' = [waiting EXCEPT ![p0] = w]
      /\ pc[w] = "register" /\ pc' = [pc EXCEPT ![w] = "recheck"]
  BY DEF Register, Goto, queueVars
<1>2. /\ p0 \in Pids /\ Hand(w) = p0 /\ Hand(w)' = NoPid /\ \A x \in Workers : x # w => Hand(x)' = Hand(x)
      /\ waiting'[p0] = w /\ \A p \in Pids : p # p0 => waiting'[p] = waiting[p]
  BY <1>1 DEF CurInv, Hand, TypeInv, WorkerTypes, QueueTypes
<1> HIDE DEF p0
<1>3. Sits("hand", w, p0)
  BY <1>2 DEF Sits
<1>4. \A l \in Kinds, x \in Workers : Sits(l, x, p0) => l = "hand" /\ x = w
  BY <1>2, <1>3 DEF OnePlace, Kinds
<1>5. \A p \in Pids, x \in Workers :
        /\ Sits("queue", x, p)' <=> Sits("queue", x, p)
        /\ Sits("inject", x, p)' <=> Sits("inject", x, p)
        /\ Sits("woken", x, p)' <=> Sits("woken", x, p)
  BY <1>1 DEF Sits
<1>6. \A p \in Pids, x \in Workers : x # w => (Sits("hand", x, p)' <=> Sits("hand", x, p))
  BY <1>2 DEF Sits
<1>7. \A p \in Pids : ~Sits("hand", w, p)' /\ (Sits("hand", w, p) => p = p0)
  BY <1>2, WorkerNumbers DEF Sits
<1>8. \A p \in Pids, x \in Workers : p # p0 => (Sits("waiting", x, p)' <=> Sits("waiting", x, p))
  BY <1>2 DEF Sits
<1>9. \A p \in Pids, x \in Workers : p = p0 => (Sits("waiting", x, p)' <=> x = w) /\ ~Sits("waiting", x, p)
  <2>1. \A p \in Pids, x \in Workers : p = p0 => (Sits("waiting", x, p)' <=> x = w)
    BY <1>2 DEF Sits
  <2>2. \A x \in Workers : ~Sits("waiting", x, p0)
    BY <1>4 DEF Kinds
  <2>3. QED
    BY <2>1, <2>2
<1>10. Handed({p0}, "hand", w, "waiting", w)
  BY <1>2, <1>3, <1>5, <1>6, <1>7, <1>8, <1>9 DEF Handed, Kinds
<1>11. NoDoubles'
  BY <1>1 DEF NoDoubles
<1>12. QED
  BY <1>1, <1>10, <1>11, HandedOn DEF Kinds

(* The critical section of a wake: from the wait set to the woken list. *)
LEMMA MoveToWokenHands ==
  ASSUME TypeInv, OnePlace, OnlyTheLiving, NoDoubles, NEW p0 \in Pids, MoveToWoken(p0),
         UNCHANGED <<queue, inject, born, exited>>, \A x \in Workers : Hand(x)' = Hand(x)
  PROVE  OnePlace' /\ OnlyTheLiving' /\ NoDoubles'
<1>1. CASE UNCHANGED <<waiting, woken>>
  BY <1>1, Standing
<1>2. CASE ~UNCHANGED <<waiting, woken>>
  <2>0. PICK v \in Workers : v = waiting[p0]
    BY <1>2, MoveToWokenEffect
  <2> DEFINE own == Append(woken[v], p0)
  <2>1. /\ v \in Workers /\ woken'[v] = own /\ waiting'[p0] = NoWorker
        /\ \A x \in Workers : x # v => woken'[x] = woken[x]
        /\ \A q \in Pids : q # p0 => waiting'[q] = waiting[q]
    BY <1>2, <2>0, MoveToWokenEffect
  <2>2. Sits("waiting", v, p0) /\ \A x \in Workers : Sits("waiting", x, p0) => x = v
    BY <2>0 DEF Sits
  <2>3. p0 \notin ToSet(woken[v])
    <3>1. ~Sits("woken", v, p0)
      BY <2>1, <2>2 DEF OnePlace, Kinds
    <3>2. QED
      BY <3>1 DEF Sits
  <2>4. ToSet(own) = ToSet(woken[v]) \cup {p0} /\ Distinct(own)
    <3>1. woken[v] \in Seq(Pids) /\ Distinct(woken[v])
      BY <2>1 DEF TypeInv, QueueTypes, NoDoubles
    <3>2. QED
      BY <2>3, <3>1, AppendSets
  <2> HIDE DEF own
  <2>5. \A p \in Pids, x \in Workers :
          /\ Sits("queue", x, p)' <=> Sits("queue", x, p)
          /\ Sits("inject", x, p)' <=> Sits("inject", x, p)
          /\ Sits("hand", x, p)' <=> Sits("hand", x, p)
    BY DEF Sits
  <2>6. \A p \in Pids, x \in Workers : Sits("waiting", x, p)' <=> Sits("waiting", x, p) /\ p # p0
    BY <2>1, WorkerNumbers DEF Sits
  <2>7. \A p \in Pids, x \in Workers : Sits("woken", x, p)' <=> Sits("woken", x, p) \/ (x = v /\ p = p0)
    <3>1. \A p \in Pids, x \in Workers : p \in ToSet(woken'[x]) <=> p \in ToSet(woken[x]) \/ (x = v /\ p = p0)
      BY <2>1, <2>4
    <3>2. QED
      BY <3>1 DEF Sits
  <2>8. Handed({p0}, "waiting", v, "woken", v)
    BY <2>2, <2>5, <2>6, <2>7 DEF Handed, Kinds
  <2>9. NoDoubles'
    BY <2>1, <2>4 DEF NoDoubles
  <2>10. QED
    BY <2>1, <2>8, <2>9, HandedOn DEF Kinds
<1>3. QED
  BY <1>1, <1>2

(* A process that was nowhere comes to one place. *)
LEMMA Arrived ==
  ASSUME OnePlace, OnlyTheLiving, NEW p0 \in Pids, p0 \notin born, born' = born \cup {p0}, UNCHANGED exited,
         p0 \notin exited, NEW b \in Kinds, NEW w \in Workers,
         \A p \in Pids, k \in Kinds, x \in Workers :
            Sits(k, x, p)' <=> Sits(k, x, p) \/ (p = p0 /\ k = b /\ x = w)
  PROVE  OnePlace' /\ OnlyTheLiving'
<1>1. \A k \in Kinds, x \in Workers : ~Sits(k, x, p0)
  BY DEF OnlyTheLiving
<1>2. \A p \in Pids : p # p0 => \A k \in Kinds, x \in Workers : Sits(k, x, p)' <=> Sits(k, x, p)
  OBVIOUS
<1>3. \A p \in Pids : p = p0 => \A k \in Kinds, x \in Workers : Sits(k, x, p)' <=> k = b /\ x = w
  BY <1>1
<1>4. OnePlace'
  <2> SUFFICES ASSUME NEW p \in Pids, NEW k \in Kinds, NEW l \in Kinds, NEW x \in Workers, NEW y \in Workers,
                      Sits(k, x, p)', Sits(l, y, p)'
               PROVE  k = l /\ x = y
    BY DEF OnePlace
  <2>1. CASE p = p0
    BY <1>3, <2>1
  <2>2. CASE p # p0
    BY <1>2, <2>2 DEF OnePlace
  <2>3. QED
    BY <2>1, <2>2
<1>5. OnlyTheLiving'
  <2> SUFFICES ASSUME NEW p \in Pids
               PROVE  p \in born' \ exited' <=> \E k \in Kinds, x \in Workers : Sits(k, x, p)'
    BY DEF OnlyTheLiving
  <2>1. CASE p = p0
    BY <1>3, <2>1
  <2>2. CASE p # p0
    BY <1>2, <2>2 DEF OnlyTheLiving
  <2>3. QED
    BY <2>1, <2>2
<1>6. QED
  BY <1>4, <1>5

(* enqueue_spawn_with_trap_exit, both ways. *)
LEMMA SpawnHands ==
  ASSUME TypeInv, OnePlace, OnlyTheLiving, NoDoubles, exited \subseteq born,
         NEW p0 \in Pids, Spawn(p0) \/ SpawnTrapExit(p0)
  PROVE  OnePlace' /\ OnlyTheLiving' /\ NoDoubles'
<1> DEFINE w == spawnCounter
<1>1. /\ p0 \notin born /\ p0 \notin exited /\ born' = born \cup {p0}
      /\ UNCHANGED <<queue, waiting, exited, pc, cur>> /\ w \in Workers
  BY DEF Spawn, SpawnTrapExit, workerVars, waitVars, TypeInv, QueueTypes
<1>2. \A k \in Kinds, x \in Workers : ~Sits(k, x, p0)
  BY <1>1 DEF OnlyTheLiving
<1>3. \A x \in Workers : Hand(x)' = Hand(x)
  BY <1>1 DEF Hand
<1>4. CASE Spawn(p0)
  <2> DEFINE own == Append(inject[w], p0)
  <2>1. UNCHANGED woken /\ inject'[w] = own /\ \A x \in Workers : x # w => inject'[x] = inject[x]
    BY <1>1, <1>4 DEF Spawn, waitVars, TypeInv, QueueTypes
  <2>2. ToSet(own) = ToSet(inject[w]) \cup {p0} /\ Distinct(own)
    <3>1. inject[w] \in Seq(Pids) /\ Distinct(inject[w]) /\ p0 \notin ToSet(inject[w])
      BY <1>1, <1>2 DEF TypeInv, QueueTypes, NoDoubles, Sits, Kinds
    <3>2. QED
      BY <3>1, AppendSets
  <2> HIDE DEF own, w
  <2>3. \A p \in Pids, x \in Workers :
          /\ Sits("queue", x, p)' <=> Sits("queue", x, p)
          /\ Sits("woken", x, p)' <=> Sits("woken", x, p)
          /\ Sits("waiting", x, p)' <=> Sits("waiting", x, p)
          /\ Sits("hand", x, p)' <=> Sits("hand", x, p)
    BY <1>1, <1>3, <2>1 DEF Sits
  <2>4. \A p \in Pids, x \in Workers : p \in ToSet(inject'[x]) <=> p \in ToSet(inject[x]) \/ (x = w /\ p = p0)
    BY <2>1, <2>2
  <2>5. \A p \in Pids, x \in Workers : Sits("inject", x, p)' <=> Sits("inject", x, p) \/ (x = w /\ p = p0)
    BY <2>4 DEF Sits
  <2>6. \A p \in Pids, k \in Kinds, x \in Workers :
          Sits(k, x, p)' <=> Sits(k, x, p) \/ (p = p0 /\ k = "inject" /\ x = w)
    BY <2>3, <2>5 DEF Kinds
  <2>7. NoDoubles'
    BY <1>1, <2>1, <2>2 DEF NoDoubles
  <2>8. QED
    BY <1>1, <2>6, <2>7, Arrived DEF Kinds
<1>5. CASE SpawnTrapExit(p0)
  <2> DEFINE own == Append(woken[w], p0)
  <2>1. UNCHANGED inject /\ woken'[w] = own /\ \A x \in Workers : x # w => woken'[x] = woken[x]
    BY <1>1, <1>5 DEF SpawnTrapExit, TypeInv, QueueTypes
  <2>2. ToSet(own) = ToSet(woken[w]) \cup {p0} /\ Distinct(own)
    <3>1. woken[w] \in Seq(Pids) /\ Distinct(woken[w]) /\ p0 \notin ToSet(woken[w])
      BY <1>1, <1>2 DEF TypeInv, QueueTypes, NoDoubles, Sits, Kinds
    <3>2. QED
      BY <3>1, AppendSets
  <2> HIDE DEF own, w
  <2>3. \A p \in Pids, x \in Workers :
          /\ Sits("queue", x, p)' <=> Sits("queue", x, p)
          /\ Sits("inject", x, p)' <=> Sits("inject", x, p)
          /\ Sits("waiting", x, p)' <=> Sits("waiting", x, p)
          /\ Sits("hand", x, p)' <=> Sits("hand", x, p)
    BY <1>1, <1>3, <2>1 DEF Sits
  <2>4. \A p \in Pids, x \in Workers : p \in ToSet(woken'[x]) <=> p \in ToSet(woken[x]) \/ (x = w /\ p = p0)
    BY <2>1, <2>2
  <2>5. \A p \in Pids, x \in Workers : Sits("woken", x, p)' <=> Sits("woken", x, p) \/ (x = w /\ p = p0)
    BY <2>4 DEF Sits
  <2>6. \A p \in Pids, k \in Kinds, x \in Workers :
          Sits(k, x, p)' <=> Sits(k, x, p) \/ (p = p0 /\ k = "woken" /\ x = w)
    BY <2>3, <2>5 DEF Kinds
  <2>7. NoDoubles'
    BY <1>1, <2>1, <2>2 DEF NoDoubles
  <2>8. QED
    BY <1>1, <2>6, <2>7, Arrived DEF Kinds
<1>6. QED
  BY <1>4, <1>5

(* SliceOutcome::Exited: out of the worker's hands, and nowhere else. *)
LEMMA ExitHands ==
  ASSUME TypeInv, CurInv, OnePlace, OnlyTheLiving, NoDoubles, NEW w \in Workers, ExitSlice(w)
  PROVE  OnePlace' /\ OnlyTheLiving' /\ NoDoubles'
<1> DEFINE p0 == cur[w]
<1>1. /\ UNCHANGED <<queue, woken, inject, waiting, born>> /\ cur' = [cur EXCEPT ![w] = NoPid]
      /\ exited' = exited \cup {p0} /\ pc[w] = "running" /\ pc' = [pc EXCEPT ![w] = "endSlice"]
  BY DEF ExitSlice, Goto
<1>2. p0 \in Pids /\ Hand(w) = p0 /\ Hand(w)' = NoPid /\ \A x \in Workers : x # w => Hand(x)' = Hand(x)
  BY <1>1 DEF CurInv, Hand, TypeInv, WorkerTypes
<1> HIDE DEF p0
<1>3. Sits("hand", w, p0)
  BY <1>2 DEF Sits
<1>4. \A l \in Kinds, x \in Workers : Sits(l, x, p0) => l = "hand" /\ x = w
  BY <1>2, <1>3 DEF OnePlace, Kinds
<1>5. \A p \in Pids, x \in Workers :
        /\ Sits("queue", x, p)' <=> Sits("queue", x, p)
        /\ Sits("inject", x, p)' <=> Sits("inject", x, p)
        /\ Sits("woken", x, p)' <=> Sits("woken", x, p)
        /\ Sits("waiting", x, p)' <=> Sits("waiting", x, p)
  BY <1>1 DEF Sits
<1>6. \A p \in Pids, x \in Workers : x # w => (Sits("hand", x, p)' <=> Sits("hand", x, p))
  BY <1>2 DEF Sits
<1>7. \A p \in Pids : ~Sits("hand", w, p)' /\ (Sits("hand", w, p) => p = p0)
  BY <1>2, WorkerNumbers DEF Sits
<1>8. \A p \in Pids, k \in Kinds, x \in Workers : Sits(k, x, p)' <=> Sits(k, x, p) /\ p # p0
  BY <1>2, <1>4, <1>5, <1>6, <1>7 DEF Kinds
<1>9. OnePlace'
  BY <1>8 DEF OnePlace
<1>10. OnlyTheLiving'
  BY <1>1, <1>2, <1>8 DEF OnlyTheLiving
<1>11. NoDoubles'
  BY <1>1 DEF NoDoubles
<1>12. QED
  BY <1>9, <1>10, <1>11

(* Between slices a worker has no process in its hands. *)
LEMMA NextEmptyHands ==
  ASSUME TypeInv, EmptyHands, [Next]_vars
  PROVE  EmptyHands'
<1> USE DEF workerVars, wakeVars, queueVars, waitVars, timerVars, ioVars, stopVars, Goto
<1>1. ASSUME NEW w \in Workers, WorkerStep(w) \/ Receive(w) \/ WokenSpuriously(w)
      PROVE  EmptyHands'
  <2>1. CASE Stop(w)
    BY <2>1 DEF Stop, EmptyHands, TypeInv, WorkerTypes
  <2>2. CASE RaiseIdle(w)
    BY <2>2 DEF RaiseIdle, EmptyHands, TypeInv, WorkerTypes
  <2>3. CASE ReadTicket(w)
    BY <2>3 DEF ReadTicket, EmptyHands, TypeInv, WorkerTypes
  <2>4. CASE DrainInjected(w)
    BY <2>4 DEF DrainInjected, EmptyHands, TypeInv, WorkerTypes
  <2>5. CASE TickTimers(w)
    BY <2>5 DEF TickTimers, EmptyHands, TypeInv, WorkerTypes
  <2>6. CASE DrainFileIo(w)
    BY <2>6 DEF DrainFileIo, EmptyHands, TypeInv, WorkerTypes
  <2>7. CASE DrainWoken(w)
    BY <2>7 DEF DrainWoken, EmptyHands, TypeInv, WorkerTypes
  <2>8. CASE SurplusRead(w)
    BY <2>8 DEF SurplusRead, Return, Proceed, EmptyHands, TypeInv, WorkerTypes
  <2>9. CASE SurplusEdge(w)
    BY <2>9 DEF SurplusEdge, Return, EmptyHands, TypeInv, WorkerTypes
  <2>10. CASE Pop(w)
    BY <2>10 DEF Pop, EmptyHands, TypeInv, WorkerTypes
  <2>11. CASE PopEmpty(w)
    BY <2>11 DEF PopEmpty, ParkLabel, EmptyHands, TypeInv, WorkerTypes
  <2>12. CASE StealLen(w)
    BY <2>12 DEF StealLen, StealNothing, ParkLabel, EmptyHands, TypeInv, WorkerTypes
  <2>13. CASE StealFlag(w)
    BY <2>13 DEF StealFlag, StealNothing, ParkLabel, EmptyHands, TypeInv, WorkerTypes
  <2>14. CASE StealTake(w)
    BY <2>14 DEF StealTake, StealNothing, ParkLabel, EmptyHands, TypeInv, WorkerTypes
  <2>15. CASE LeaveWithWork(w)
    BY <2>15 DEF LeaveWithWork, EmptyHands, TypeInv, WorkerTypes
  <2>16. CASE EnterSlice(w)
    BY <2>16 DEF EnterSlice, EmptyHands, TypeInv, WorkerTypes
  <2>17. CASE BusyRead(w)
    BY <2>17 DEF BusyRead, StartSlice, EmptyHands, TypeInv, WorkerTypes
  <2>18. CASE BusyEdge(w)
    BY <2>18 DEF BusyEdge, StartSlice, EmptyHands, TypeInv, WorkerTypes
  <2>19. CASE Requeue(w)
    BY <2>19 DEF Requeue, EmptyHands, TypeInv, WorkerTypes
  <2>20. CASE ExitSlice(w)
    BY <2>20 DEF ExitSlice, EmptyHands, TypeInv, WorkerTypes
  <2>21. CASE WaitPlain(w)
    BY <2>21 DEF WaitPlain, EmptyHands, TypeInv, WorkerTypes
  <2>22. CASE WaitFileIo(w)
    BY <2>22 DEF WaitFileIo, EmptyHands, TypeInv, WorkerTypes
  <2>23. CASE Register(w)
    BY <2>23 DEF Register, EmptyHands, TypeInv, WorkerTypes
  <2>24. CASE Recheck(w)
    BY <2>24 DEF Recheck, EmptyHands, TypeInv, WorkerTypes
  <2>25. CASE SelfWake(w)
    BY <2>25 DEF SelfWake, EmptyHands, TypeInv, WorkerTypes
  <2>26. CASE EndSlice(w)
    BY <2>26 DEF EndSlice, EmptyHands, TypeInv, WorkerTypes
  <2>27. CASE PublishPark(w)
    BY <2>27 DEF PublishPark, EmptyHands, TypeInv, WorkerTypes
  <2>28. CASE StartWait(w)
    BY <2>28 DEF StartWait, UnparkLabel, EmptyHands, TypeInv, WorkerTypes
  <2>29. CASE WokenByEdge(w)
    BY <2>29 DEF WokenByEdge, UnparkLabel, EmptyHands, TypeInv, WorkerTypes
  <2>30. CASE TimedOut(w)
    BY <2>30 DEF TimedOut, UnparkLabel, EmptyHands, TypeInv, WorkerTypes
  <2>31. CASE ClearPark(w)
    BY <2>31 DEF ClearPark, EmptyHands, TypeInv, WorkerTypes
  <2>32. CASE LeavePark(w)
    BY <2>32 DEF LeavePark, EmptyHands, TypeInv, WorkerTypes
  <2>33. CASE Receive(w)
    BY <2>33 DEF Receive, EmptyHands, TypeInv, WorkerTypes
  <2>34. CASE WokenSpuriously(w)
    BY <2>34 DEF WokenSpuriously, UnparkLabel, EmptyHands, TypeInv, WorkerTypes
  <2>35. CASE \E p \in Pids : WakeFired(w, p)
    BY <2>35 DEF WakeFired, EmptyHands, TypeInv, WorkerTypes
  <2>36. CASE \E d \in 1 .. MaxDelay : WaitTimeout(w, d)
    BY <2>36 DEF WaitTimeout, EmptyHands, TypeInv, WorkerTypes
  <2>37. QED
    BY <1>1, <2>1, <2>2, <2>3, <2>4, <2>5, <2>6, <2>7, <2>8, <2>9, <2>10, <2>11, <2>12,
       <2>13, <2>14, <2>15, <2>16, <2>17, <2>18, <2>19, <2>20, <2>21, <2>22, <2>23,
       <2>24, <2>25, <2>26, <2>27, <2>28, <2>29, <2>30, <2>31, <2>32, <2>33, <2>34,
       <2>35, <2>36
    DEF WorkerStep, Checks, Edges, Finds, Slice, Parks
<1>2. ASSUME Environment
      PROVE  EmptyHands'
  <2>1. CASE \E p \in Pids : Spawn(p)
    BY <2>1 DEF Spawn, EmptyHands, TypeInv, WorkerTypes
  <2>2. CASE \E p \in Pids : SpawnTrapExit(p)
    BY <2>2 DEF SpawnTrapExit, EmptyHands, TypeInv, WorkerTypes
  <2>3. CASE \E p \in Pids : Deliver(p)
    BY <2>3 DEF Deliver, EmptyHands, TypeInv, WorkerTypes
  <2>4. CASE \E p \in Pids : WakeProcess(p)
    BY <2>4 DEF WakeProcess, EmptyHands, TypeInv, WorkerTypes
  <2>5. CASE \E p \in Pids : CompleteFileIo(p)
    BY <2>5 DEF CompleteFileIo, EmptyHands, TypeInv, WorkerTypes
  <2>6. CASE Shutdown
    BY <2>6 DEF Shutdown, EmptyHands, TypeInv, WorkerTypes
  <2>7. CASE \E e \in edgeOwed : RunOwedEdge(e)
    BY <2>7 DEF RunOwedEdge, EmptyHands, TypeInv, WorkerTypes
  <2>8. CASE ClockTick
    BY <2>8 DEF ClockTick, EmptyHands, TypeInv, WorkerTypes
  <2>9. QED
    BY <1>2, <2>1, <2>2, <2>3, <2>4, <2>5, <2>6, <2>7, <2>8 DEF Environment
<1>3. ASSUME UNCHANGED vars
      PROVE  EmptyHands'
  BY <1>3 DEF vars, EmptyHands, TypeInv, WorkerTypes
<1>4. QED
  BY <1>1, <1>2, <1>3 DEF Next

(* Only a spawned process exits. *)
LEMMA NextBorn ==
  ASSUME TypeInv, CurInv, OnlyTheLiving, exited \subseteq born, [Next]_vars
  PROVE  exited' \subseteq born'
<1> USE DEF workerVars, wakeVars, queueVars, waitVars, timerVars, ioVars, stopVars, Goto
<1>1. ASSUME NEW w \in Workers, WorkerStep(w) \/ Receive(w) \/ WokenSpuriously(w)
      PROVE  exited' \subseteq born'
  <2>1. CASE Stop(w)
    BY <2>1 DEF Stop, queueVars
  <2>2. CASE RaiseIdle(w)
    BY <2>2 DEF RaiseIdle, queueVars
  <2>3. CASE ReadTicket(w)
    BY <2>3 DEF ReadTicket, queueVars
  <2>4. CASE DrainInjected(w)
    BY <2>4 DEF DrainInjected, queueVars
  <2>5. CASE TickTimers(w)
    BY <2>5 DEF TickTimers, queueVars
  <2>6. CASE DrainFileIo(w)
    BY <2>6 DEF DrainFileIo, queueVars
  <2>7. CASE DrainWoken(w)
    BY <2>7 DEF DrainWoken, queueVars
  <2>8. CASE SurplusRead(w)
    BY <2>8 DEF SurplusRead, queueVars
  <2>9. CASE SurplusEdge(w)
    BY <2>9 DEF SurplusEdge, queueVars
  <2>10. CASE Pop(w)
    BY <2>10 DEF Pop, queueVars
  <2>11. CASE PopEmpty(w)
    BY <2>11 DEF PopEmpty, queueVars
  <2>12. CASE StealLen(w)
    BY <2>12 DEF StealLen, queueVars
  <2>13. CASE StealFlag(w)
    BY <2>13 DEF StealFlag, queueVars
  <2>14. CASE StealTake(w)
    BY <2>14 DEF StealTake, queueVars
  <2>15. CASE LeaveWithWork(w)
    BY <2>15 DEF LeaveWithWork, queueVars
  <2>16. CASE EnterSlice(w)
    BY <2>16 DEF EnterSlice, queueVars
  <2>17. CASE BusyRead(w)
    BY <2>17 DEF BusyRead, queueVars
  <2>18. CASE BusyEdge(w)
    BY <2>18 DEF BusyEdge, queueVars
  <2>19. CASE Requeue(w)
    BY <2>19 DEF Requeue, queueVars
  <2>20. CASE ExitSlice(w)
    <3>1. cur[w] \in Pids /\ Hand(w) = cur[w]
      BY <2>20 DEF ExitSlice, CurInv, Hand
    <3>2. Sits("hand", w, cur[w])
      BY <3>1 DEF Sits
    <3>3. cur[w] \in born
      BY <3>1, <3>2 DEF OnlyTheLiving, Kinds
    <3>4. QED
      BY <2>20, <3>3 DEF ExitSlice
  <2>21. CASE WaitPlain(w)
    BY <2>21 DEF WaitPlain, queueVars
  <2>22. CASE WaitFileIo(w)
    BY <2>22 DEF WaitFileIo, queueVars
  <2>23. CASE Register(w)
    BY <2>23 DEF Register, queueVars
  <2>24. CASE Recheck(w)
    BY <2>24 DEF Recheck, queueVars
  <2>25. CASE SelfWake(w)
    BY <2>25 DEF SelfWake, queueVars
  <2>26. CASE EndSlice(w)
    BY <2>26 DEF EndSlice, queueVars
  <2>27. CASE PublishPark(w)
    BY <2>27 DEF PublishPark, queueVars
  <2>28. CASE StartWait(w)
    BY <2>28 DEF StartWait, queueVars
  <2>29. CASE WokenByEdge(w)
    BY <2>29 DEF WokenByEdge, queueVars
  <2>30. CASE TimedOut(w)
    BY <2>30 DEF TimedOut, queueVars
  <2>31. CASE ClearPark(w)
    BY <2>31 DEF ClearPark, queueVars
  <2>32. CASE LeavePark(w)
    BY <2>32 DEF LeavePark, queueVars
  <2>33. CASE Receive(w)
    BY <2>33 DEF Receive, queueVars
  <2>34. CASE WokenSpuriously(w)
    BY <2>34 DEF WokenSpuriously, queueVars
  <2>35. CASE \E p \in Pids : WakeFired(w, p)
    BY <2>35 DEF WakeFired, queueVars
  <2>36. CASE \E d \in 1 .. MaxDelay : WaitTimeout(w, d)
    BY <2>36 DEF WaitTimeout, queueVars
  <2>37. QED
    BY <1>1, <2>1, <2>2, <2>3, <2>4, <2>5, <2>6, <2>7, <2>8, <2>9, <2>10, <2>11, <2>12,
       <2>13, <2>14, <2>15, <2>16, <2>17, <2>18, <2>19, <2>20, <2>21, <2>22, <2>23,
       <2>24, <2>25, <2>26, <2>27, <2>28, <2>29, <2>30, <2>31, <2>32, <2>33, <2>34,
       <2>35, <2>36
    DEF WorkerStep, Checks, Edges, Finds, Slice, Parks
<1>2. ASSUME Environment
      PROVE  exited' \subseteq born'
  <2>1. CASE \E p \in Pids : Spawn(p)
    BY <2>1 DEF Spawn, queueVars
  <2>2. CASE \E p \in Pids : SpawnTrapExit(p)
    BY <2>2 DEF SpawnTrapExit, queueVars
  <2>3. CASE \E p \in Pids : Deliver(p)
    BY <2>3 DEF Deliver, queueVars
  <2>4. CASE \E p \in Pids : WakeProcess(p)
    BY <2>4 DEF WakeProcess, queueVars
  <2>5. CASE \E p \in Pids : CompleteFileIo(p)
    BY <2>5 DEF CompleteFileIo, queueVars
  <2>6. CASE Shutdown
    BY <2>6 DEF Shutdown, queueVars
  <2>7. CASE \E e \in edgeOwed : RunOwedEdge(e)
    BY <2>7 DEF RunOwedEdge, queueVars
  <2>8. CASE ClockTick
    BY <2>8 DEF ClockTick, queueVars
  <2>9. QED
    BY <1>2, <2>1, <2>2, <2>3, <2>4, <2>5, <2>6, <2>7, <2>8 DEF Environment
<1>3. ASSUME UNCHANGED vars
      PROVE  exited' \subseteq born'
  BY <1>3 DEF vars, queueVars
<1>4. QED
  BY <1>1, <1>2, <1>3 DEF Next

(* Every step hands each process on as a whole. *)
LEMMA NextHands ==
  ASSUME TypeInv, CurInv, ThiefInv, OnceInv, [Next]_vars
  PROVE  OnePlace' /\ OnlyTheLiving' /\ NoDoubles'
<1> USE DEF OnceInv, workerVars, wakeVars, queueVars, waitVars, timerVars, ioVars, stopVars, Goto
<1>1. ASSUME NEW w \in Workers, WorkerStep(w) \/ Receive(w) \/ WokenSpuriously(w)
      PROVE  OnePlace' /\ OnlyTheLiving' /\ NoDoubles'
  <2>1. CASE Stop(w)
    <3>1. UNCHANGED <<queue, inject, woken, waiting, born, exited>> /\ \A x \in Workers : Hand(x)' = Hand(x)
      BY <2>1 DEF Stop, Hand, TypeInv, WorkerTypes
    <3>2. QED
      BY <3>1, Standing
  <2>2. CASE RaiseIdle(w)
    <3>1. UNCHANGED <<queue, inject, woken, waiting, born, exited>> /\ \A x \in Workers : Hand(x)' = Hand(x)
      BY <2>2 DEF RaiseIdle, Hand, TypeInv, WorkerTypes
    <3>2. QED
      BY <3>1, Standing
  <2>3. CASE ReadTicket(w)
    <3>1. UNCHANGED <<queue, inject, woken, waiting, born, exited>> /\ \A x \in Workers : Hand(x)' = Hand(x)
      BY <2>3 DEF ReadTicket, Hand, TypeInv, WorkerTypes
    <3>2. QED
      BY <3>1, Standing
  <2>4. CASE DrainInjected(w)
    BY <2>4, DrainInjectedHands
  <2>5. CASE TickTimers(w)
    <3>1. UNCHANGED <<queue, inject, woken, waiting, born, exited>> /\ \A x \in Workers : Hand(x)' = Hand(x)
      BY <2>5 DEF TickTimers, Hand, TypeInv, WorkerTypes
    <3>2. QED
      BY <3>1, Standing
  <2>6. CASE DrainFileIo(w)
    <3>1. UNCHANGED <<queue, inject, woken, waiting, born, exited>> /\ \A x \in Workers : Hand(x)' = Hand(x)
      BY <2>6 DEF DrainFileIo, Hand, TypeInv, WorkerTypes
    <3>2. QED
      BY <3>1, Standing
  <2>7. CASE DrainWoken(w)
    BY <2>7, DrainWokenHands
  <2>8. CASE SurplusRead(w)
    <3>1. UNCHANGED <<queue, inject, woken, waiting, born, exited>> /\ \A x \in Workers : Hand(x)' = Hand(x)
      BY <2>8 DEF SurplusRead, Return, Proceed, Hand, TypeInv, WorkerTypes
    <3>2. QED
      BY <3>1, Standing
  <2>9. CASE SurplusEdge(w)
    <3>1. UNCHANGED <<queue, inject, woken, waiting, born, exited>> /\ \A x \in Workers : Hand(x)' = Hand(x)
      BY <2>9 DEF SurplusEdge, Return, Hand, TypeInv, WorkerTypes
    <3>2. QED
      BY <3>1, Standing
  <2>10. CASE Pop(w)
    BY <2>10, PopHands
  <2>11. CASE PopEmpty(w)
    <3>1. UNCHANGED <<queue, inject, woken, waiting, born, exited>> /\ \A x \in Workers : Hand(x)' = Hand(x)
      BY <2>11 DEF PopEmpty, ParkLabel, Hand, TypeInv, WorkerTypes
    <3>2. QED
      BY <3>1, Standing
  <2>12. CASE StealLen(w)
    <3>1. UNCHANGED <<queue, inject, woken, waiting, born, exited>> /\ \A x \in Workers : Hand(x)' = Hand(x)
      BY <2>12 DEF StealLen, StealNothing, ParkLabel, Hand, TypeInv, WorkerTypes
    <3>2. QED
      BY <3>1, Standing
  <2>13. CASE StealFlag(w)
    <3>1. UNCHANGED <<queue, inject, woken, waiting, born, exited>> /\ \A x \in Workers : Hand(x)' = Hand(x)
      BY <2>13 DEF StealFlag, StealNothing, ParkLabel, Hand, TypeInv, WorkerTypes
    <3>2. QED
      BY <3>1, Standing
  <2>14. CASE StealTake(w)
    BY <2>14, StealHands
  <2>15. CASE LeaveWithWork(w)
    <3>1. UNCHANGED <<queue, inject, woken, waiting, born, exited>> /\ \A x \in Workers : Hand(x)' = Hand(x)
      BY <2>15 DEF LeaveWithWork, Hand, TypeInv, WorkerTypes
    <3>2. QED
      BY <3>1, Standing
  <2>16. CASE EnterSlice(w)
    <3>1. UNCHANGED <<queue, inject, woken, waiting, born, exited>> /\ \A x \in Workers : Hand(x)' = Hand(x)
      BY <2>16 DEF EnterSlice, Hand, TypeInv, WorkerTypes
    <3>2. QED
      BY <3>1, Standing
  <2>17. CASE BusyRead(w)
    <3>1. UNCHANGED <<queue, inject, woken, waiting, born, exited>> /\ \A x \in Workers : Hand(x)' = Hand(x)
      BY <2>17 DEF BusyRead, StartSlice, Hand, TypeInv, WorkerTypes
    <3>2. QED
      BY <3>1, Standing
  <2>18. CASE BusyEdge(w)
    <3>1. UNCHANGED <<queue, inject, woken, waiting, born, exited>> /\ \A x \in Workers : Hand(x)' = Hand(x)
      BY <2>18 DEF BusyEdge, StartSlice, Hand, TypeInv, WorkerTypes
    <3>2. QED
      BY <3>1, Standing
  <2>19. CASE Requeue(w)
    BY <2>19, RequeueHands
  <2>20. CASE ExitSlice(w)
    BY <2>20, ExitHands
  <2>21. CASE WaitPlain(w)
    <3>1. UNCHANGED <<queue, inject, woken, waiting, born, exited>> /\ \A x \in Workers : Hand(x)' = Hand(x)
      BY <2>21 DEF WaitPlain, Hand, TypeInv, WorkerTypes
    <3>2. QED
      BY <3>1, Standing
  <2>22. CASE WaitFileIo(w)
    <3>1. UNCHANGED <<queue, inject, woken, waiting, born, exited>> /\ \A x \in Workers : Hand(x)' = Hand(x)
      BY <2>22 DEF WaitFileIo, Hand, TypeInv, WorkerTypes
    <3>2. QED
      BY <3>1, Standing
  <2>23. CASE Register(w)
    BY <2>23, RegisterHands
  <2>24. CASE Recheck(w)
    <3>1. UNCHANGED <<queue, inject, woken, waiting, born, exited>> /\ \A x \in Workers : Hand(x)' = Hand(x)
      BY <2>24 DEF Recheck, Hand, TypeInv, WorkerTypes
    <3>2. QED
      BY <3>1, Standing
  <2>25. CASE SelfWake(w)
    BY <2>25, SelfWakeHands
  <2>26. CASE EndSlice(w)
    <3>1. UNCHANGED <<queue, inject, woken, waiting, born, exited>> /\ \A x \in Workers : Hand(x)' = Hand(x)
      BY <2>26 DEF EndSlice, Hand, TypeInv, WorkerTypes
    <3>2. QED
      BY <3>1, Standing
  <2>27. CASE PublishPark(w)
    <3>1. UNCHANGED <<queue, inject, woken, waiting, born, exited>> /\ \A x \in Workers : Hand(x)' = Hand(x)
      BY <2>27 DEF PublishPark, Hand, TypeInv, WorkerTypes
    <3>2. QED
      BY <3>1, Standing
  <2>28. CASE StartWait(w)
    <3>1. UNCHANGED <<queue, inject, woken, waiting, born, exited>> /\ \A x \in Workers : Hand(x)' = Hand(x)
      BY <2>28 DEF StartWait, UnparkLabel, Hand, TypeInv, WorkerTypes
    <3>2. QED
      BY <3>1, Standing
  <2>29. CASE WokenByEdge(w)
    <3>1. UNCHANGED <<queue, inject, woken, waiting, born, exited>> /\ \A x \in Workers : Hand(x)' = Hand(x)
      BY <2>29 DEF WokenByEdge, UnparkLabel, Hand, TypeInv, WorkerTypes
    <3>2. QED
      BY <3>1, Standing
  <2>30. CASE TimedOut(w)
    <3>1. UNCHANGED <<queue, inject, woken, waiting, born, exited>> /\ \A x \in Workers : Hand(x)' = Hand(x)
      BY <2>30 DEF TimedOut, UnparkLabel, Hand, TypeInv, WorkerTypes
    <3>2. QED
      BY <3>1, Standing
  <2>31. CASE ClearPark(w)
    <3>1. UNCHANGED <<queue, inject, woken, waiting, born, exited>> /\ \A x \in Workers : Hand(x)' = Hand(x)
      BY <2>31 DEF ClearPark, Hand, TypeInv, WorkerTypes
    <3>2. QED
      BY <3>1, Standing
  <2>32. CASE LeavePark(w)
    <3>1. UNCHANGED <<queue, inject, woken, waiting, born, exited>> /\ \A x \in Workers : Hand(x)' = Hand(x)
      BY <2>32 DEF LeavePark, Hand, TypeInv, WorkerTypes
    <3>2. QED
      BY <3>1, Standing
  <2>33. CASE Receive(w)
    <3>1. UNCHANGED <<queue, inject, woken, waiting, born, exited>> /\ \A x \in Workers : Hand(x)' = Hand(x)
      BY <2>33 DEF Receive, Hand, TypeInv, WorkerTypes
    <3>2. QED
      BY <3>1, Standing
  <2>34. CASE WokenSpuriously(w)
    <3>1. UNCHANGED <<queue, inject, woken, waiting, born, exited>> /\ \A x \in Workers : Hand(x)' = Hand(x)
      BY <2>34 DEF WokenSpuriously, UnparkLabel, Hand, TypeInv, WorkerTypes
    <3>2. QED
      BY <3>1, Standing
  <2>35. CASE \E p \in Pids : WakeFired(w, p)
    <3>1. PICK p \in Pids : WakeFired(w, p)
      BY <2>35
    <3>2. MoveToWoken(p) /\ UNCHANGED <<queue, inject, born, exited>> /\ \A x \in Workers : Hand(x)' = Hand(x)
      BY <3>1 DEF WakeFired, Hand, TypeInv, WorkerTypes
    <3>3. QED
      BY <3>2, MoveToWokenHands
  <2>36. CASE \E d \in 1 .. MaxDelay : WaitTimeout(w, d)
    <3>1. UNCHANGED <<queue, inject, woken, waiting, born, exited>> /\ \A x \in Workers : Hand(x)' = Hand(x)
      BY <2>36 DEF WaitTimeout, Hand, TypeInv, WorkerTypes
    <3>2. QED
      BY <3>1, Standing
  <2>37. QED
    BY <1>1, <2>1, <2>2, <2>3, <2>4, <2>5, <2>6, <2>7, <2>8, <2>9, <2>10, <2>11, <2>12,
       <2>13, <2>14, <2>15, <2>16, <2>17, <2>18, <2>19, <2>20, <2>21, <2>22, <2>23,
       <2>24, <2>25, <2>26, <2>27, <2>28, <2>29, <2>30, <2>31, <2>32, <2>33, <2>34,
       <2>35, <2>36
    DEF WorkerStep, Checks, Edges, Finds, Slice, Parks
<1>2. ASSUME Environment
      PROVE  OnePlace' /\ OnlyTheLiving' /\ NoDoubles'
  <2>1. CASE \E p \in Pids : Spawn(p)
    BY <2>1, SpawnHands
  <2>2. CASE \E p \in Pids : SpawnTrapExit(p)
    BY <2>2, SpawnHands
  <2>3. CASE \E p \in Pids : Deliver(p)
    <3>1. UNCHANGED <<queue, inject, woken, waiting, born, exited>> /\ \A x \in Workers : Hand(x)' = Hand(x)
      BY <2>3 DEF Deliver, Hand, TypeInv, WorkerTypes
    <3>2. QED
      BY <3>1, Standing
  <2>4. CASE \E p \in Pids : WakeProcess(p)
    <3>1. PICK p \in Pids : WakeProcess(p)
      BY <2>4
    <3>2. MoveToWoken(p) /\ UNCHANGED <<queue, inject, born, exited>> /\ \A x \in Workers : Hand(x)' = Hand(x)
      BY <3>1 DEF WakeProcess, Hand, TypeInv, WorkerTypes
    <3>3. QED
      BY <3>2, MoveToWokenHands
  <2>5. CASE \E p \in Pids : CompleteFileIo(p)
    <3>1. UNCHANGED <<queue, inject, woken, waiting, born, exited>> /\ \A x \in Workers : Hand(x)' = Hand(x)
      BY <2>5 DEF CompleteFileIo, Hand, TypeInv, WorkerTypes
    <3>2. QED
      BY <3>1, Standing
  <2>6. CASE Shutdown
    <3>1. UNCHANGED <<queue, inject, woken, waiting, born, exited>> /\ \A x \in Workers : Hand(x)' = Hand(x)
      BY <2>6 DEF Shutdown, Hand, TypeInv, WorkerTypes
    <3>2. QED
      BY <3>1, Standing
  <2>7. CASE \E e \in edgeOwed : RunOwedEdge(e)
    <3>1. UNCHANGED <<queue, inject, woken, waiting, born, exited>> /\ \A x \in Workers : Hand(x)' = Hand(x)
      BY <2>7 DEF RunOwedEdge, Hand, TypeInv, WorkerTypes
    <3>2. QED
      BY <3>1, Standing
  <2>8. CASE ClockTick
    <3>1. UNCHANGED <<queue, inject, woken, waiting, born, exited>> /\ \A x \in Workers : Hand(x)' = Hand(x)
      BY <2>8 DEF ClockTick, Hand, TypeInv, WorkerTypes
    <3>2. QED
      BY <3>1, Standing
  <2>9. QED
    BY <1>2, <2>1, <2>2, <2>3, <2>4, <2>5, <2>6, <2>7, <2>8 DEF Environment
<1>3. ASSUME UNCHANGED vars
      PROVE  OnePlace' /\ OnlyTheLiving' /\ NoDoubles'
  <2>1. UNCHANGED <<queue, inject, woken, waiting, born, exited>> /\ \A x \in Workers : Hand(x)' = Hand(x)
    BY <1>3 DEF vars, Hand
  <2>2. QED
    BY <2>1, Standing
<1>4. QED
  BY <1>1, <1>2, <1>3 DEF Next

(* At first there is nobody anywhere. *)
LEMMA InitOnce == Init => OnceInv
<1> SUFFICES ASSUME Init PROVE OnceInv
  OBVIOUS
<1>1. ToSet(<<>>) = {} /\ Distinct(<<>>)
  BY DEF ToSet, Distinct
<1>2. \A w \in Workers : /\ queue[w] = <<>> /\ inject[w] = <<>> /\ woken[w] = <<>>
                         /\ cur[w] = NoPid /\ Hand(w) = NoPid
  BY DEF Init, Hand
<1>3. \A p \in Pids : waiting[p] \notin Workers /\ p # NoPid
  BY WorkerNumbers DEF Init
<1>4. \A p \in Pids, k \in Kinds, w \in Workers : ~Sits(k, w, p)
  BY <1>1, <1>2, <1>3 DEF Sits
<1>5. OnePlace
  BY <1>4 DEF OnePlace
<1>6. OnlyTheLiving
  BY <1>4 DEF OnlyTheLiving, Init
<1>7. NoDoubles /\ EmptyHands
  BY <1>1, <1>2 DEF NoDoubles, EmptyHands
<1>8. QED
  BY <1>5, <1>6, <1>7 DEF OnceInv, Init

(* What Places lists are the places a process sits at. *)
LEMMA WhichPlace ==
  ASSUME TypeInv, NEW p \in Pids
  PROVE  \A e : e \in Places(p) <=>
           \/ \E w \in Workers : \E i \in 1 .. Len(queue[w]) : queue[w][i] = p /\ e = <<"queue", w, i>>
           \/ \E w \in Workers : \E i \in 1 .. Len(inject[w]) : inject[w][i] = p /\ e = <<"inject", w, i>>
           \/ \E w \in Workers : \E i \in 1 .. Len(woken[w]) : woken[w][i] = p /\ e = <<"woken", w, i>>
           \/ waiting[p] # NoWorker /\ e = <<"waiting", waiting[p], 0>>
           \/ \E w \in Workers : Hand(w) = p /\ e = <<"cur", w, 0>>
<1>1. \A name, w, list, e : e \in PlacesIn(name, w, list, p) <=>
        \E i \in 1 .. Len(list) : list[i] = p /\ e = <<name, w, i>>
  BY Zenon DEF PlacesIn
<1>2. \A e : e \in UNION {PlacesAt(w, p) : w \in Workers} <=>
        \E w \in Workers : \/ e \in PlacesIn("queue", w, queue[w], p)
                           \/ e \in PlacesIn("inject", w, inject[w], p)
                           \/ e \in PlacesIn("woken", w, woken[w], p)
  BY DEF PlacesAt
<1>3. \A e : e \in {<<"waiting", w, 0>> : w \in {waiting[p]} \ {NoWorker}} <=>
        waiting[p] # NoWorker /\ e = <<"waiting", waiting[p], 0>>
  OBVIOUS
<1>4. \A w : w \in HeldBy(p) <=> w \in Workers /\ Hand(w) = p
  BY WorkerNumbers DEF HeldBy, Hand
<1>5. \A e : e \in {<<"cur", w, 0>> : w \in HeldBy(p)} <=> \E w \in Workers : Hand(w) = p /\ e = <<"cur", w, 0>>
  BY <1>4
<1> DEFINE listed == UNION {PlacesAt(w, p) : w \in Workers}
           registered == {<<"waiting", w, 0>> : w \in {waiting[p]} \ {NoWorker}}
           held == {<<"cur", w, 0>> : w \in HeldBy(p)}
<1>6. Places(p) = listed \cup registered \cup held
  BY DEF Places
<1> HIDE DEF listed, registered, held
<1>7. QED
  BY <1>1, <1>2, <1>3, <1>5, <1>6 DEF listed, registered, held

(* The place of an entry. *)
LEMMA EntrySits ==
  ASSUME TypeInv, NEW p \in Pids, NEW w \in Workers
  PROVE  /\ (\E i \in 1 .. Len(queue[w]) : queue[w][i] = p) <=> Sits("queue", w, p)
         /\ (\E i \in 1 .. Len(inject[w]) : inject[w][i] = p) <=> Sits("inject", w, p)
         /\ (\E i \in 1 .. Len(woken[w]) : woken[w][i] = p) <=> Sits("woken", w, p)
         /\ (waiting[p] = w) <=> Sits("waiting", w, p)
         /\ (Hand(w) = p) <=> Sits("hand", w, p)
<1>1. queue[w] \in Seq(Pids) /\ inject[w] \in Seq(Pids) /\ woken[w] \in Seq(Pids)
  BY DEF TypeInv, QueueTypes
<1>2. QED
  BY <1>1, InSeq DEF Sits

(* The places counted are none for a process that is nowhere, and one for   *)
(* every other.                                                             *)
LEMMA OnceCounts == TypeInv /\ OnceInv => ScheduledExactlyOnce
<1> SUFFICES ASSUME TypeInv, OnceInv, NEW p \in Pids
             PROVE  Cardinality(Places(p)) = IF p \in born \ exited THEN 1 ELSE 0
  BY DEF ScheduledExactlyOnce
<1>1. \A e : e \in Places(p) => \E k \in Kinds, w \in Workers, i \in Nat :
        /\ Sits(k, w, p)
        /\ \/ k = "queue" /\ i \in 1 .. Len(queue[w]) /\ queue[w][i] = p /\ e = <<"queue", w, i>>
           \/ k = "inject" /\ i \in 1 .. Len(inject[w]) /\ inject[w][i] = p /\ e = <<"inject", w, i>>
           \/ k = "woken" /\ i \in 1 .. Len(woken[w]) /\ woken[w][i] = p /\ e = <<"woken", w, i>>
           \/ k = "waiting" /\ i = 0 /\ e = <<"waiting", w, 0>>
           \/ k = "hand" /\ i = 0 /\ e = <<"cur", w, 0>>
  <2> SUFFICES ASSUME NEW e, e \in Places(p)
               PROVE  \E k \in Kinds, w \in Workers, i \in Nat :
                        /\ Sits(k, w, p)
                        /\ \/ k = "queue" /\ i \in 1 .. Len(queue[w]) /\ queue[w][i] = p /\ e = <<"queue", w, i>>
                           \/ k = "inject" /\ i \in 1 .. Len(inject[w]) /\ inject[w][i] = p /\ e = <<"inject", w, i>>
                           \/ k = "woken" /\ i \in 1 .. Len(woken[w]) /\ woken[w][i] = p /\ e = <<"woken", w, i>>
                           \/ k = "waiting" /\ i = 0 /\ e = <<"waiting", w, 0>>
                           \/ k = "hand" /\ i = 0 /\ e = <<"cur", w, 0>>
    OBVIOUS
  <2>0. /\ "queue" \in Kinds /\ "inject" \in Kinds /\ "woken" \in Kinds /\ "waiting" \in Kinds /\ "hand" \in Kinds
        /\ 0 \in Nat /\ waiting[p] \in Workers \cup {NoWorker}
    BY DEF Kinds, TypeInv, QueueTypes
  <2>1. CASE \E w \in Workers : \E i \in 1 .. Len(queue[w]) : queue[w][i] = p /\ e = <<"queue", w, i>>
    <3>1. PICK w \in Workers : \E i \in 1 .. Len(queue[w]) : queue[w][i] = p /\ e = <<"queue", w, i>>
      BY <2>1
    <3>2. PICK i \in 1 .. Len(queue[w]) : queue[w][i] = p /\ e = <<"queue", w, i>>
      BY <3>1
    <3>3. i \in Nat /\ Sits("queue", w, p)
      BY <3>2, EntrySits
    <3>4. QED
      BY <2>0, <3>2, <3>3
  <2>2. CASE \E w \in Workers : \E i \in 1 .. Len(inject[w]) : inject[w][i] = p /\ e = <<"inject", w, i>>
    <3>1. PICK w \in Workers : \E i \in 1 .. Len(inject[w]) : inject[w][i] = p /\ e = <<"inject", w, i>>
      BY <2>2
    <3>2. PICK i \in 1 .. Len(inject[w]) : inject[w][i] = p /\ e = <<"inject", w, i>>
      BY <3>1
    <3>3. i \in Nat /\ Sits("inject", w, p)
      BY <3>2, EntrySits
    <3>4. QED
      BY <2>0, <3>2, <3>3
  <2>3. CASE \E w \in Workers : \E i \in 1 .. Len(woken[w]) : woken[w][i] = p /\ e = <<"woken", w, i>>
    <3>1. PICK w \in Workers : \E i \in 1 .. Len(woken[w]) : woken[w][i] = p /\ e = <<"woken", w, i>>
      BY <2>3
    <3>2. PICK i \in 1 .. Len(woken[w]) : woken[w][i] = p /\ e = <<"woken", w, i>>
      BY <3>1
    <3>3. i \in Nat /\ Sits("woken", w, p)
      BY <3>2, EntrySits
    <3>4. QED
      BY <2>0, <3>2, <3>3
  <2>4. CASE waiting[p] # NoWorker /\ e = <<"waiting", waiting[p], 0>>
    <3>1. PICK w \in Workers : w = waiting[p]
      BY <2>0, <2>4
    <3>2. Sits("waiting", w, p)
      BY <3>1, EntrySits
    <3>3. QED
      BY <2>0, <2>4, <3>1, <3>2
  <2>5. CASE \E w \in Workers : Hand(w) = p /\ e = <<"cur", w, 0>>
    <3>1. PICK w \in Workers : Hand(w) = p /\ e = <<"cur", w, 0>>
      BY <2>5
    <3>2. Sits("hand", w, p)
      BY <3>1, EntrySits
    <3>3. QED
      BY <2>0, <3>1, <3>2
  <2>6. QED
    BY <2>1, <2>2, <2>3, <2>4, <2>5, WhichPlace
<1>2. CASE p \notin born \ exited
  <2>1. \A k \in Kinds, w \in Workers : ~Sits(k, w, p)
    BY <1>2 DEF OnceInv, OnlyTheLiving
  <2>2. Places(p) = {}
    BY <1>1, <2>1
  <2>3. QED
    BY <1>2, <2>2, FS_EmptySet
<1>3. CASE p \in born \ exited
  <2>1. \A e, f : e \in Places(p) /\ f \in Places(p) => e = f
    <3> SUFFICES ASSUME NEW e, NEW f, e \in Places(p), f \in Places(p) PROVE e = f
      OBVIOUS
    <3>1. PICK k \in Kinds, w \in Workers, i \in Nat :
            /\ Sits(k, w, p)
            /\ \/ k = "queue" /\ i \in 1 .. Len(queue[w]) /\ queue[w][i] = p /\ e = <<"queue", w, i>>
               \/ k = "inject" /\ i \in 1 .. Len(inject[w]) /\ inject[w][i] = p /\ e = <<"inject", w, i>>
               \/ k = "woken" /\ i \in 1 .. Len(woken[w]) /\ woken[w][i] = p /\ e = <<"woken", w, i>>
               \/ k = "waiting" /\ i = 0 /\ e = <<"waiting", w, 0>>
               \/ k = "hand" /\ i = 0 /\ e = <<"cur", w, 0>>
      BY <1>1
    <3>2. PICK l \in Kinds, v \in Workers, j \in Nat :
            /\ Sits(l, v, p)
            /\ \/ l = "queue" /\ j \in 1 .. Len(queue[v]) /\ queue[v][j] = p /\ f = <<"queue", v, j>>
               \/ l = "inject" /\ j \in 1 .. Len(inject[v]) /\ inject[v][j] = p /\ f = <<"inject", v, j>>
               \/ l = "woken" /\ j \in 1 .. Len(woken[v]) /\ woken[v][j] = p /\ f = <<"woken", v, j>>
               \/ l = "waiting" /\ j = 0 /\ f = <<"waiting", v, 0>>
               \/ l = "hand" /\ j = 0 /\ f = <<"cur", v, 0>>
      BY <1>1
    <3>3. k = l /\ v = w
      BY <3>1, <3>2 DEF OnceInv, OnePlace
    <3>4. i = j
      BY <3>1, <3>2, <3>3 DEF OnceInv, NoDoubles, Distinct
    <3>5. QED
      BY <3>1, <3>2, <3>3, <3>4
  <2>2. PICK k \in Kinds, w \in Workers : Sits(k, w, p)
    BY <1>3 DEF OnceInv, OnlyTheLiving
  <2>3. \E e : e \in Places(p)
    <3>1. CASE k = "queue"
      <4>1. PICK i \in 1 .. Len(queue[w]) : queue[w][i] = p
        BY <2>2, <3>1, EntrySits
      <4>2. <<"queue", w, i>> \in Places(p)
        BY <4>1, WhichPlace
      <4>3. QED
        BY <4>2
    <3>2. CASE k = "inject"
      <4>1. PICK i \in 1 .. Len(inject[w]) : inject[w][i] = p
        BY <2>2, <3>2, EntrySits
      <4>2. <<"inject", w, i>> \in Places(p)
        BY <4>1, WhichPlace
      <4>3. QED
        BY <4>2
    <3>3. CASE k = "woken"
      <4>1. PICK i \in 1 .. Len(woken[w]) : woken[w][i] = p
        BY <2>2, <3>3, EntrySits
      <4>2. <<"woken", w, i>> \in Places(p)
        BY <4>1, WhichPlace
      <4>3. QED
        BY <4>2
    <3>4. CASE k = "waiting"
      <4>1. waiting[p] = w /\ waiting[p] # NoWorker
        BY <2>2, <3>4, EntrySits, WorkerNumbers
      <4>2. <<"waiting", waiting[p], 0>> \in Places(p)
        BY <4>1, WhichPlace
      <4>3. QED
        BY <4>2
    <3>5. CASE k = "hand"
      <4>1. Hand(w) = p
        BY <2>2, <3>5, EntrySits
      <4>2. <<"cur", w, 0>> \in Places(p)
        BY <4>1, WhichPlace
      <4>3. QED
        BY <4>2
    <3>6. QED
      BY <3>1, <3>2, <3>3, <3>4, <3>5 DEF Kinds
  <2>4. PICK e : e \in Places(p)
    BY <2>3
  <2>5. Places(p) = {e}
    BY <2>1, <2>4
  <2>6. Cardinality(Places(p)) = 1
    BY <2>5, FS_Singleton
  <2>7. QED
    BY <1>3, <2>6
<1>4. QED
  BY <1>2, <1>3

(* A spawned process that has not exited is in one place, and in no other:  *)
(* whatever is drained, stolen, requeued, parked, woken or taken back       *)
(* between two steps of any number of workers, no process is run twice and  *)
(* none is forgotten (scheduler_loop, run_process, wake_process,            *)
(* steal_half_from).                                                        *)
THEOREM EveryProcessScheduledOnce == Spec => []ScheduledExactlyOnce
<1>1. Init => ParkInv /\ OnceInv
  BY InitPark, InitOnce
<1>2. ParkInv /\ OnceInv /\ [Next]_vars => (ParkInv /\ OnceInv)'
  <2> SUFFICES ASSUME ParkInv, OnceInv, [Next]_vars PROVE ParkInv' /\ OnceInv'
    OBVIOUS
  <2>1. ParkInv'
    BY NextPark
  <2>2. TypeInv /\ CurInv /\ ThiefInv /\ exited \subseteq born /\ OnlyTheLiving /\ EmptyHands
    BY DEF ParkInv, OnceInv
  <2>3. OnePlace' /\ OnlyTheLiving' /\ NoDoubles'
    BY <2>2, NextHands
  <2>4. EmptyHands'
    BY <2>2, NextEmptyHands
  <2>5. exited' \subseteq born'
    BY <2>2, NextBorn
  <2>6. QED
    BY <2>1, <2>3, <2>4, <2>5 DEF OnceInv
<1>3. ParkInv /\ OnceInv => ScheduledExactlyOnce
  BY OnceCounts DEF ParkInv
<1>4. QED
  BY <1>1, <1>2, <1>3, PTL DEF Spec

=============================================================================

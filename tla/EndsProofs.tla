----------------------------- MODULE EndsProofs ------------------------------
(***************************************************************************)
(* Proofs about what ends: the connections of two nodes, and a scheduler.  *)
(***************************************************************************)
EXTENDS Connections, Teardown, FiniteSetTheorems, SequenceTheorems, TLAPS

-----------------------------------------------------------------------------
(* Teardown: the failure callback, and the bridges of dirty calls *)

AnyPid == Everyone \cup Crew \cup {NoOne}

Backs == {"loop", "sliceDone", "restart", "leave", "done", "join", "settle", "running", "parked", "scheduling"}

Steps ==
  Backs \cup {"off", "tomb", "token", "body", "admitted", "entered", "enqueued", "call", "building", "slice",
            "submit", "exiting", "store", "died", "latch", "tell", "stop", "unwound", "gone", "hangUp",
            "waitAdmitted", "joinBridges", "await", "returned"}

HandRecords == [at : Steps, pid : AnyPid, todo : SUBSET AnyPid, back : Backs]

TdTypes ==
  /\ thread \in [Hands -> HandRecords]
  /\ injects \in [Crew -> SUBSET Everyone] /\ roll \subseteq Everyone
  /\ bridge \in [Everyone -> {"none", "waiting", "delivering", "done"}]
  /\ retained \subseteq AnyPid /\ told \in Nat /\ callback \in {"empty", "waiting", "spent"}

(* The threads are distinct. *)
LEMMA HandFacts ==
  /\ Crew \subseteq Hands /\ Newcomers \subseteq Hands /\ {"shutdown", "host", "registrar"} \subseteq Hands
  /\ "shutdown" # "host" /\ "host" # "registrar" /\ "shutdown" # "registrar"
  /\ "shutdown" \notin Crew \cup Newcomers /\ "host" \notin Crew \cup Newcomers
  /\ "registrar" \notin Crew \cup Newcomers /\ Crew \cap Newcomers = {} /\ Newcomers \subseteq Everyone
BY TeardownAssumption DEF Hands, Everyone

(* One thread moves, and the others are where they were. *)
Alone(t) == thread' \in [Hands -> HandRecords] /\ \A x \in Hands : x # t => thread'[x] = thread[x]

(* A thread moves. *)
LEMMA MoveEffect ==
  ASSUME TdTypes, NEW t \in Hands, NEW l \in Steps, Move(t, l)
  PROVE  /\ Alone(t) /\ thread'[t].at = l /\ thread'[t].pid = thread[t].pid
         /\ thread'[t].todo = thread[t].todo /\ thread'[t].back = thread[t].back
BY DEF TdTypes, Move, Alone, HandRecords

(* A thread calls cleanup_exited_process. *)
LEMMA CallsEffect ==
  ASSUME TdTypes, NEW t \in Hands, NEW p \in AnyPid, NEW l \in Backs, Calls(t, p, l)
  PROVE  /\ Alone(t) /\ thread'[t].at = "tomb" /\ thread'[t].back = l
         /\ thread'[t].pid = p /\ thread'[t].todo = thread[t].todo
<1>1. "tomb" \in Steps
  BY DEF Steps
<1> DEFINE f == [thread EXCEPT ![t].at = "tomb", ![t].pid = p]
<1>2. /\ f \in [Hands -> HandRecords] /\ f[t].at = "tomb" /\ f[t].pid = p /\ f[t].todo = thread[t].todo
      /\ \A x \in Hands : x # t => f[x] = thread[x]
  BY <1>1 DEF TdTypes, HandRecords
<1>3. thread' = [f EXCEPT ![t].back = l]
  BY DEF Calls
<1> HIDE DEF f
<1>4. QED
  BY <1>2, <1>3 DEF Alone, HandRecords

(* It comes back from there. *)
LEMMA ReturnsEffect ==
  ASSUME TdTypes, NEW t \in Hands, Returns(t)
  PROVE  Alone(t) /\ thread'[t].at = thread[t].back /\ thread'[t].todo = thread[t].todo
<1>1. "loop" \in Backs /\ NoOne \in AnyPid
  BY DEF Backs, AnyPid
<1>2. thread[t].pid \in AnyPid /\ thread[t].back \in Backs /\ thread[t].back \in Steps
  BY DEF TdTypes, HandRecords, Steps
<1> DEFINE q == IF thread[t].back = "sliceDone" THEN thread[t].pid ELSE NoOne
           g == [thread EXCEPT ![t].at = thread[t].back]
           f == [g EXCEPT ![t].back = "loop"]
<1>3. q \in AnyPid
  BY <1>1, <1>2
<1>4. thread' = [f EXCEPT ![t].pid = q]
  BY DEF Returns
<1>5. /\ g \in [Hands -> HandRecords] /\ g[t].at = thread[t].back /\ g[t].todo = thread[t].todo
      /\ \A x \in Hands : x # t => g[x] = thread[x]
  BY <1>2 DEF TdTypes, HandRecords
<1> HIDE DEF g, q
<1>6. /\ f \in [Hands -> HandRecords] /\ f[t].at = thread[t].back /\ f[t].todo = thread[t].todo
      /\ \A x \in Hands : x # t => f[x] = thread[x]
  BY <1>1, <1>5 DEF HandRecords
<1> HIDE DEF f
<1>7. QED
  BY <1>3, <1>4, <1>6 DEF Alone, HandRecords

(* A thread moves, to another process. *)
LEMMA PidEffect ==
  ASSUME TdTypes, NEW t \in Hands, NEW l \in Steps, NEW p \in AnyPid,
         thread' = [thread EXCEPT ![t].at = l, ![t].pid = p]
  PROVE  /\ Alone(t) /\ thread'[t].at = l /\ thread'[t].pid = p
         /\ thread'[t].back = thread[t].back /\ thread'[t].todo = thread[t].todo
BY DEF TdTypes, Alone, HandRecords

(* A thread moves, to another way back. *)
LEMMA BackEffect ==
  ASSUME TdTypes, NEW t \in Hands, NEW l \in Steps, NEW b \in Backs,
         thread' = [thread EXCEPT ![t].at = l, ![t].back = b]
  PROVE  /\ Alone(t) /\ thread'[t].at = l /\ thread'[t].back = b
         /\ thread'[t].pid = thread[t].pid /\ thread'[t].todo = thread[t].todo
BY DEF TdTypes, Alone, HandRecords

(* A thread moves, with a list of processes to see to. *)
LEMMA TodoEffect ==
  ASSUME TdTypes, NEW t \in Hands, NEW l \in Steps, NEW s \in SUBSET AnyPid,
         thread' = [thread EXCEPT ![t].at = l, ![t].todo = s]
  PROVE  Alone(t) /\ thread'[t].at = l /\ thread'[t].todo = s
BY DEF TdTypes, Alone, HandRecords

(* Who has yet to tell of a failure: the callback that waits when a failure *)
(* is latched has a worker on its way to it, and the callback that is spent *)
(* has run, or the registrar is about to run it.                            *)
ToldInv ==
  /\ callback = "empty" => told = 0
  /\ callback = "waiting" => told = 0 /\ (latched => \E w \in Crew : HandAt(w, "tell"))
  /\ callback = "spent" => latched /\ told = IF HandAt("registrar", "call") THEN 0 ELSE 1
  /\ HandAt("registrar", "call") => callback = "spent"
  /\ \A w \in Crew : HandAt(w, "tell") => latched
  /\ thread["registrar"].at \in {"off", "call", "done"}

(* shutdown has waited out the reservations. *)
Past == {"joinBridges", "join", "await", "settle", "returned", "tomb", "token", "body"}

(* A call that may still publish a bridge holds an admission, and a bridge  *)
(* that has not ended has a handle: in the registry, or with shutdown.      *)
BridgeInv ==
  /\ thread["shutdown"].at \in {"off", "done", "hangUp", "waitAdmitted"} \cup Past
  /\ thread["shutdown"].at \in {"tomb", "token", "body"} => thread["shutdown"].back \in {"join", "settle"}
  /\ thread["shutdown"].at \in {"hangUp", "waitAdmitted"} \cup Past => shut
  /\ thread["shutdown"].at \in Past => admitted = {} /\ retained = {}
  /\ \A w \in Crew : HandAt(w, "submit") => w \in admitted
  /\ \A p \in Everyone : bridge[p] \in {"waiting", "delivering"} =>
       p \in retained \/ (HandAt("shutdown", "joinBridges") /\ p \in thread["shutdown"].todo)

TdInv == TdTypes /\ ToldInv /\ BridgeInv

(* Most steps move one thread and touch neither the callback nor a bridge. *)
LEMMA OrdinaryStep ==
  ASSUME TdInv, NEW t \in Hands \ {"shutdown", "registrar"}, Alone(t), thread[t].at # "tell",
         t \in Crew => thread'[t].at \notin {"submit", "tell"},
         admitted' \subseteq admitted, \A w \in Crew : w # t /\ w \in admitted => w \in admitted',
         injects' \in [Crew -> SUBSET Everyone], roll' \subseteq Everyone,
         UNCHANGED <<shut, bridge, retained, latched, callback, told>>
  PROVE  TdInv'
<1>1. "shutdown" \in Hands /\ "registrar" \in Hands /\ Crew \subseteq Hands
  BY HandFacts
<1>2. TdTypes'
  BY DEF TdInv, TdTypes, Alone
<1>3. thread'["shutdown"] = thread["shutdown"] /\ thread'["registrar"] = thread["registrar"]
  BY <1>1 DEF Alone
<1>4. \A w \in Crew : HandAt(w, "tell") => HandAt(w, "tell")'
  BY <1>1 DEF Alone, HandAt
<1>4a. \A w \in Crew : HandAt(w, "tell")' => HandAt(w, "tell")
  BY <1>1 DEF Alone, HandAt
<1>5. ToldInv'
  BY <1>3, <1>4, <1>4a DEF TdInv, ToldInv, HandAt
<1>6. \A w \in Crew : HandAt(w, "submit")' => w \in admitted'
  <2> SUFFICES ASSUME NEW w \in Crew, HandAt(w, "submit")' PROVE w \in admitted'
    OBVIOUS
  <2>1. w # t
    BY DEF HandAt
  <2>2. thread'[w] = thread[w] /\ w \in Hands
    BY <1>1, <2>1 DEF Alone
  <2>3. HandAt(w, "submit")
    BY <2>2 DEF HandAt
  <2>4. QED
    BY <2>1, <2>3 DEF TdInv, BridgeInv
<1>7. BridgeInv'
  BY <1>3, <1>6 DEF TdInv, BridgeInv, HandAt
<1>8. QED
  BY <1>2, <1>5, <1>7 DEF TdInv

(* The embedder's spawns and kills. *)
LEMMA EmbedderKeeps ==
  ASSUME TdInv, \/ \E p \in Newcomers : Admit(p) \/ EnterTable(p) \/ EnterQueue(p) \/ ReleaseAdmission(p)
                \/ TerminateProcess \/ SignalExecuting
  PROVE  TdInv'
<1> USE HandFacts DEF books, admission, latchVars, tdGhosts
<1>0. TdTypes
  BY DEF TdInv
<1>1. ASSUME NEW p \in Newcomers, Admit(p)
      PROVE  TdInv'
  <2>1. Alone(p) /\ thread[p].at = "off"
    BY <1>0, <1>1, MoveEffect DEF Admit, HandAt, Steps, Backs
  <2>2. CASE MayReserve
    <3>1. admitted' = admitted \cup {p}
      BY <1>1, <2>2 DEF Admit
    <3>2. thread["shutdown"].at \notin Past
      BY <2>2 DEF MayReserve, TdInv, BridgeInv
    <3>3. thread'["shutdown"] = thread["shutdown"] /\ thread'["registrar"] = thread["registrar"]
      BY <2>1 DEF Alone
    <3>4. \A w \in Crew : thread'[w] = thread[w]
      BY <2>1 DEF Alone
    <3>5. UNCHANGED <<injects, roll, shut, bridge, retained, latched, callback, told>>
      BY <1>1 DEF Admit
    <3>6. TdTypes'
      BY <1>0, <2>1, <3>5 DEF TdTypes, Alone
    <3>7. ToldInv'
      BY <3>3, <3>4, <3>5 DEF TdInv, ToldInv, HandAt
    <3>8. BridgeInv'
      BY <3>1, <3>2, <3>3, <3>4, <3>5 DEF TdInv, BridgeInv, HandAt
    <3>9. QED
      BY <3>6, <3>7, <3>8 DEF TdInv
  <2>3. CASE ~MayReserve
    <3>1. UNCHANGED <<admitted, injects, roll, shut, bridge, retained, latched, callback, told>>
      BY <1>1, <2>3 DEF Admit
    <3>2. QED
      BY <1>0, <2>1, <3>1, OrdinaryStep DEF TdTypes
  <2>4. QED
    BY <2>2, <2>3
<1>2. ASSUME NEW p \in Newcomers, EnterTable(p) \/ EnterQueue(p) \/ ReleaseAdmission(p)
      PROVE  TdInv'
  <2>1. Alone(p) /\ thread[p].at \in {"admitted", "entered", "enqueued"}
    BY <1>0, <1>2, MoveEffect DEF EnterTable, EnterQueue, ReleaseAdmission, HandAt, Steps, Backs
  <2>2. /\ UNCHANGED <<shut, bridge, retained, latched, callback, told>>
        /\ admitted' \subseteq admitted /\ \A w \in Crew : w \in admitted => w \in admitted'
    BY <1>2 DEF EnterTable, EnterQueue, ReleaseAdmission
  <2>3. injects' \in [Crew -> SUBSET Everyone] /\ roll' \subseteq Everyone
    BY <1>0, <1>2 DEF EnterTable, EnterQueue, ReleaseAdmission, TdTypes
  <2>4. QED
    BY <2>1, <2>2, <2>3, OrdinaryStep
<1>3. CASE TerminateProcess
  <2>1. /\ UNCHANGED <<admitted, injects, roll, shut, bridge, retained, latched, callback, told>>
        /\ thread["host"].at = "off"
    BY <1>3 DEF TerminateProcess, HandAt
  <2>2. PICK p \in roll \ graves : Calls("host", p, "done")
    BY <1>3 DEF TerminateProcess
  <2>3. p \in AnyPid /\ "done" \in Backs
    BY <1>0 DEF TdTypes, AnyPid, Backs
  <2>4. Alone("host")
    BY <1>0, <2>2, <2>3, CallsEffect
  <2>5. QED
    BY <1>0, <2>1, <2>4, OrdinaryStep DEF TdTypes
<1>4. CASE SignalExecuting
  <2>1. /\ UNCHANGED <<admitted, injects, roll, shut, bridge, retained, latched, callback, told>>
        /\ thread["host"].at = "off" /\ Move("host", "done")
    BY <1>4 DEF SignalExecuting, HandAt
  <2>2. Alone("host")
    BY <1>0, <2>1, MoveEffect DEF Steps, Backs
  <2>3. QED
    BY <1>0, <2>1, <2>2, OrdinaryStep DEF TdTypes
<1>5. QED
  BY <1>1, <1>2, <1>3, <1>4

(* A thread takes the next process of its list, or is through with it. *)
LEMMA SettleEffect ==
  ASSUME TdTypes, NEW t \in Hands, NEW l \in Steps, Settle(t, l)
  PROVE  /\ Alone(t)
         /\ \/ thread'[t].at = l /\ thread[t].todo = {} /\ thread'[t].todo = {}
            \/ /\ thread'[t].at = "tomb" /\ thread'[t].back = "settle" /\ thread'[t].pid \in thread[t].todo
               /\ thread'[t].todo = thread[t].todo \ {thread'[t].pid}
<1>1. CASE thread[t].todo = {}
  BY <1>1, MoveEffect DEF Settle
<1>2. CASE thread[t].todo # {}
  <2>1. PICK p \in thread[t].todo :
          thread' = [thread EXCEPT ![t].at = "tomb", ![t].pid = p, ![t].back = "settle", ![t].todo = @ \ {p}]
    BY <1>2 DEF Settle
  <2>2. "tomb" \in Steps /\ p \in AnyPid /\ "settle" \in Backs
    BY DEF Steps, Backs, TdTypes, HandRecords
  <2> DEFINE f == [thread EXCEPT ![t].at = "tomb", ![t].pid = p]
             h == [f EXCEPT ![t].back = "settle"]
  <2>3. /\ f \in [Hands -> HandRecords] /\ f[t].at = "tomb" /\ f[t].pid = p
        /\ f[t].todo = thread[t].todo /\ \A x \in Hands : x # t => f[x] = thread[x]
    BY <2>2 DEF TdTypes, HandRecords
  <2>4. thread' = [h EXCEPT ![t].todo = @ \ {p}]
    BY <2>1
  <2> HIDE DEF f
  <2>5. /\ h \in [Hands -> HandRecords] /\ h[t].at = "tomb" /\ h[t].back = "settle" /\ h[t].pid = p /\ h[t].todo = thread[t].todo
        /\ \A x \in Hands : x # t => h[x] = thread[x]
    BY <2>2, <2>3 DEF HandRecords
  <2> HIDE DEF h
  <2>6. h[t].todo \ {p} \in SUBSET AnyPid
    BY <2>5 DEF TdTypes, HandRecords
  <2>7. QED
    BY <2>4, <2>5, <2>6 DEF Alone, HandRecords
<1>3. QED
  BY <1>1, <1>2

(* on_failure. *)
LEMMA RegistrarKeeps ==
  ASSUME TdInv, RegisterCallback \/ RegisteredCall
  PROVE  TdInv'
<1> USE HandFacts DEF books, admission, latchVars, tdGhosts
<1>0. TdTypes
  BY DEF TdInv
<1>1. /\ UNCHANGED <<injects, roll, admitted, shut, bridge, retained, latched>>
      /\ \E l \in {"call", "done"} : Move("registrar", l)
  BY DEF RegisterCallback, RegisteredCall
<1>2. Alone("registrar") /\ thread'["registrar"].at \in {"call", "done"}
  BY <1>0, <1>1, MoveEffect DEF Steps, Backs
<1>3. thread'["shutdown"] = thread["shutdown"] /\ \A w \in Crew : thread'[w] = thread[w]
  BY <1>2 DEF Alone
<1>4. BridgeInv'
  BY <1>1, <1>3 DEF TdInv, BridgeInv, HandAt
<1>5. CASE RegisterCallback
  <2>1. callback = "empty" /\ told = 0 /\ told' = 0
    BY <1>5 DEF RegisterCallback, TdInv, ToldInv
  <2>2. CASE latched
    <3>1. callback' = "spent" /\ thread'["registrar"].at = "call"
      BY <1>0, <1>5, <2>2, MoveEffect DEF RegisterCallback, Steps
    <3>2. ToldInv'
      BY <1>1, <2>1, <2>2, <3>1 DEF ToldInv, HandAt
    <3>3. TdTypes'
      BY <1>0, <1>1, <1>2, <2>1, <3>1 DEF TdTypes, Alone
    <3>4. QED
      BY <1>4, <3>2, <3>3 DEF TdInv
  <2>3. CASE ~latched
    <3>1. callback' = "waiting" /\ thread'["registrar"].at = "done"
      BY <1>0, <1>5, <2>3, MoveEffect DEF RegisterCallback, Steps, Backs
    <3>2. ToldInv'
      BY <1>1, <1>3, <2>1, <2>3, <3>1 DEF TdInv, ToldInv, HandAt
    <3>3. TdTypes'
      BY <1>0, <1>1, <1>2, <2>1, <3>1 DEF TdTypes, Alone
    <3>4. QED
      BY <1>4, <3>2, <3>3 DEF TdInv
  <2>4. QED
    BY <2>2, <2>3
<1>6. CASE RegisteredCall
  <2>1. HandAt("registrar", "call") /\ UNCHANGED callback /\ told' = told + 1
    BY <1>6 DEF RegisteredCall
  <2>2. callback = "spent" /\ latched /\ told = 0
    BY <2>1 DEF TdInv, ToldInv
  <2>3. thread'["registrar"].at = "done"
    BY <1>0, <1>6, MoveEffect DEF RegisteredCall, Steps, Backs
  <2>4. ToldInv'
    BY <1>1, <2>1, <2>2, <2>3 DEF ToldInv, HandAt
  <2>5. TdTypes'
    BY <1>0, <1>1, <1>2, <2>1, <2>2 DEF TdTypes, Alone
  <2>6. QED
    BY <1>4, <2>4, <2>5 DEF TdInv
<1>7. QED
  BY <1>5, <1>6

(* A step of shutdown leaves the callback to the others. *)
LEMMA ShutdownTells ==
  ASSUME TdInv, Alone("shutdown"), injects' \in [Crew -> SUBSET Everyone], roll' \subseteq Everyone,
         retained' \subseteq AnyPid, UNCHANGED <<bridge, latched, callback, told>>
  PROVE  TdTypes' /\ ToldInv' /\ \A w \in Crew : thread'[w] = thread[w]
<1>1. thread'["registrar"] = thread["registrar"] /\ \A w \in Crew : thread'[w] = thread[w]
  BY HandFacts DEF Alone
<1>2. TdTypes'
  BY DEF TdInv, TdTypes, Alone
<1>3. ToldInv'
  BY <1>1 DEF TdInv, ToldInv, HandAt
<1>4. QED
  BY <1>1, <1>2, <1>3

(* shutdown, up to the bridges it joins. *)
LEMMA ClosingKeeps ==
  ASSUME TdInv, CloseAdmission \/ HangUp \/ TakeBridges \/ JoinBridges
  PROVE  TdInv'
<1> USE HandFacts DEF books, admission, latchVars, tdGhosts
<1>0. TdTypes
  BY DEF TdInv
<1>1. CASE CloseAdmission
  <2>1. /\ UNCHANGED <<injects, roll, admitted, bridge, retained, latched, callback, told>> /\ shut'
        /\ Move("shutdown", "hangUp") /\ HandAt("shutdown", "off")
    BY <1>1 DEF CloseAdmission
  <2>2. Alone("shutdown") /\ thread'["shutdown"].at = "hangUp"
    BY <1>0, <2>1, MoveEffect DEF Steps
  <2>3. TdTypes' /\ ToldInv' /\ \A w \in Crew : thread'[w] = thread[w]
    BY <1>0, <2>1, <2>2, ShutdownTells DEF TdTypes
  <2>4. BridgeInv'
    BY <2>1, <2>2, <2>3 DEF TdInv, BridgeInv, HandAt, Past
  <2>5. QED
    BY <2>3, <2>4 DEF TdInv
<1>2. CASE HangUp
  <2>1. /\ UNCHANGED <<injects, roll, admitted, shut, bridge, retained, latched, callback, told>>
        /\ Move("shutdown", "waitAdmitted") /\ HandAt("shutdown", "hangUp")
    BY <1>2 DEF HangUp
  <2>2. Alone("shutdown") /\ thread'["shutdown"].at = "waitAdmitted"
    BY <1>0, <2>1, MoveEffect DEF Steps
  <2>3. TdTypes' /\ ToldInv' /\ \A w \in Crew : thread'[w] = thread[w]
    BY <1>0, <2>1, <2>2, ShutdownTells DEF TdTypes
  <2>4. BridgeInv'
    BY <2>1, <2>2, <2>3 DEF TdInv, BridgeInv, HandAt, Past
  <2>5. QED
    BY <2>3, <2>4 DEF TdInv
<1>3. CASE TakeBridges
  <2>1. /\ UNCHANGED <<injects, roll, admitted, shut, bridge, latched, callback, told>>
        /\ HandAt("shutdown", "waitAdmitted") /\ admitted = {} /\ retained' = {}
        /\ thread' = [thread EXCEPT !["shutdown"].at = "joinBridges", !["shutdown"].todo = retained]
    BY <1>3 DEF TakeBridges
  <2>2. Alone("shutdown") /\ thread'["shutdown"].at = "joinBridges" /\ thread'["shutdown"].todo = retained
    <3>1. "joinBridges" \in Steps /\ retained \in SUBSET AnyPid
      BY <1>0 DEF Steps, TdTypes
    <3>2. QED
      BY <1>0, <2>1, <3>1, TodoEffect
  <2>3. TdTypes' /\ ToldInv' /\ \A w \in Crew : thread'[w] = thread[w]
    BY <1>0, <2>1, <2>2, ShutdownTells DEF TdTypes
  <2>4. BridgeInv'
    BY <2>1, <2>2, <2>3 DEF TdInv, BridgeInv, HandAt, Past
  <2>5. QED
    BY <2>3, <2>4 DEF TdInv
<1>4. CASE JoinBridges
  <2>1. /\ UNCHANGED <<injects, roll, admitted, shut, bridge, retained, latched, callback, told>>
        /\ HandAt("shutdown", "joinBridges") /\ \A p \in thread["shutdown"].todo : bridge[p] = "done"
        /\ thread' = [thread EXCEPT !["shutdown"].at = "join", !["shutdown"].todo = {}]
    BY <1>4 DEF JoinBridges
  <2>2. Alone("shutdown") /\ thread'["shutdown"].at = "join"
    <3>1. "join" \in Steps /\ {} \in SUBSET AnyPid
      BY DEF Steps, Backs
    <3>2. QED
      BY <1>0, <2>1, <3>1, TodoEffect
  <2>3. TdTypes' /\ ToldInv' /\ \A w \in Crew : thread'[w] = thread[w]
    BY <1>0, <2>1, <2>2, ShutdownTells DEF TdTypes
  <2>4. \A p \in Everyone : bridge[p] \notin {"waiting", "delivering"}
    <3>1. retained = {}
      BY <2>1 DEF TdInv, BridgeInv, HandAt, Past
    <3>2. QED
      BY <2>1, <3>1 DEF TdInv, BridgeInv
  <2>5. BridgeInv'
    BY <2>1, <2>2, <2>3, <2>4 DEF TdInv, BridgeInv, HandAt, Past
  <2>6. QED
    BY <2>3, <2>5 DEF TdInv
<1>5. QED
  BY <1>1, <1>2, <1>3, <1>4

(* A step of shutdown past the bridges. *)
LEMMA FinishingStep ==
  ASSUME TdInv, Alone("shutdown"), thread["shutdown"].at \in Past \ {"joinBridges"},
         thread'["shutdown"].at \in Past \ {"joinBridges"},
         thread'["shutdown"].at \in {"tomb", "token", "body"} => thread'["shutdown"].back \in {"join", "settle"},
         injects' \in [Crew -> SUBSET Everyone], roll' \subseteq Everyone,
         UNCHANGED <<shut, admitted, bridge, retained, latched, callback, told>>
  PROVE  TdInv'
<1>1. retained \subseteq AnyPid
  BY DEF TdInv, TdTypes
<1>2. TdTypes' /\ ToldInv' /\ \A w \in Crew : thread'[w] = thread[w]
  BY <1>1, ShutdownTells
<1>3. BridgeInv'
  BY <1>2 DEF TdInv, BridgeInv, HandAt
<1>4. QED
  BY <1>2, <1>3 DEF TdInv

(* shutdown, from the bridges on. *)
LEMMA JoiningKeeps ==
  ASSUME TdInv, NextWorker \/ JoinWorker \/ DrainRequests \/ Settle("shutdown", "returned")
  PROVE  TdInv'
<1> USE HandFacts DEF books, admission, latchVars, tdGhosts
<1>0. TdTypes
  BY DEF TdInv
<1>1. UNCHANGED <<roll, admitted, shut, bridge, retained, latched, callback, told>>
  BY DEF NextWorker, JoinWorker, DrainRequests, Settle
<1>2. CASE NextWorker
  <2>1. UNCHANGED injects /\ HandAt("shutdown", "join")
    BY <1>2 DEF NextWorker
  <2>2. PICK w \in Crew : \/ UNCHANGED thread
                          \/ thread' = [thread EXCEPT !["shutdown"].at = "await", !["shutdown"].pid = w]
    BY <1>2 DEF NextWorker
  <2>3. "await" \in Steps /\ w \in AnyPid
    BY DEF Steps, AnyPid
  <2>4. Alone("shutdown") /\ thread'["shutdown"].at \in {"join", "await"}
    <3>1. CASE UNCHANGED thread
      BY <1>0, <2>1, <3>1 DEF Alone, TdTypes, HandAt
    <3>2. CASE thread' = [thread EXCEPT !["shutdown"].at = "await", !["shutdown"].pid = w]
      BY <1>0, <2>3, <3>2, PidEffect
    <3>3. QED
      BY <2>2, <3>1, <3>2
  <2>5. QED
    BY <1>0, <1>1, <2>1, <2>4, FinishingStep DEF Past, HandAt, TdTypes
<1>3. CASE JoinWorker
  <2>1. /\ UNCHANGED injects /\ HandAt("shutdown", "await")
        /\ thread' = [thread EXCEPT !["shutdown"].at = "join", !["shutdown"].pid = NoOne]
    BY <1>3 DEF JoinWorker
  <2>2. "join" \in Steps /\ NoOne \in AnyPid
    BY DEF Steps, Backs, AnyPid
  <2>3. Alone("shutdown") /\ thread'["shutdown"].at = "join"
    BY <1>0, <2>1, <2>2, PidEffect
  <2>4. QED
    BY <1>0, <1>1, <2>1, <2>3, FinishingStep DEF Past, HandAt, TdTypes
<1>4. CASE DrainRequests
  <2>1. HandAt("shutdown", "join")
    BY <1>4 DEF DrainRequests
  <2>2. CASE \E w \in Crew : injects[w] # {}
    <3>1. PICK w \in Crew, p \in Everyone :
            injects' = [injects EXCEPT ![w] = @ \ {p}] /\ Calls("shutdown", p, "join")
      BY <1>0, <1>4, <2>2 DEF DrainRequests, TdTypes
    <3>2. p \in AnyPid /\ "join" \in Backs
      BY DEF AnyPid, Backs
    <3>3. Alone("shutdown") /\ thread'["shutdown"].at = "tomb" /\ thread'["shutdown"].back = "join"
      BY <1>0, <3>1, <3>2, CallsEffect
    <3>4. injects' \in [Crew -> SUBSET Everyone]
      BY <1>0, <3>1 DEF TdTypes
    <3>5. QED
      BY <1>0, <1>1, <2>1, <3>3, <3>4, FinishingStep DEF Past, HandAt, TdTypes
  <2>3. CASE ~\E w \in Crew : injects[w] # {}
    <3> DEFINE left == {p \in Everyone : seat[p] = "present" \/ (seat[p] = "executing" /\ ~latched)}
    <3>1. UNCHANGED injects /\ thread' = [thread EXCEPT !["shutdown"].at = "settle", !["shutdown"].todo = left]
      BY <1>4, <2>3 DEF DrainRequests
    <3>2. "settle" \in Steps /\ left \in SUBSET AnyPid
      BY DEF Steps, Backs, AnyPid
    <3> HIDE DEF left
    <3>3. Alone("shutdown") /\ thread'["shutdown"].at = "settle"
      BY <1>0, <3>1, <3>2, TodoEffect
    <3>4. QED
      BY <1>0, <1>1, <2>1, <3>1, <3>3, FinishingStep DEF Past, HandAt, TdTypes
  <2>4. QED
    BY <2>2, <2>3
<1>5. CASE Settle("shutdown", "returned")
  <2>1. UNCHANGED injects /\ HandAt("shutdown", "settle")
    BY <1>5 DEF Settle
  <2>2. Alone("shutdown") /\ \/ thread'["shutdown"].at = "returned"
                             \/ thread'["shutdown"].at = "tomb" /\ thread'["shutdown"].back = "settle"
    BY <1>0, <1>5, SettleEffect DEF Steps
  <2>3. QED
    BY <1>0, <1>1, <2>1, <2>2, FinishingStep DEF Past, HandAt, TdTypes
<1>6. QED
  BY <1>2, <1>3, <1>4, <1>5

(* A thread moves, to another process and another way back. *)
LEMMA PidBackEffect ==
  ASSUME TdTypes, NEW t \in Hands, NEW l \in Steps, NEW p \in AnyPid, NEW b \in Backs,
         thread' = [thread EXCEPT ![t].at = l, ![t].pid = p, ![t].back = b]
  PROVE  /\ Alone(t) /\ thread'[t].at = l /\ thread'[t].pid = p /\ thread'[t].back = b
         /\ thread'[t].todo = thread[t].todo
<1> DEFINE g == [thread EXCEPT ![t].at = l]
           f == [g EXCEPT ![t].pid = p]
<1>0. /\ g \in [Hands -> HandRecords] /\ g[t].at = l /\ g[t].todo = thread[t].todo
      /\ \A x \in Hands : x # t => g[x] = thread[x]
  BY DEF TdTypes, HandRecords
<1>2. thread' = [f EXCEPT ![t].back = b]
  OBVIOUS
<1> HIDE DEF g
<1>1. /\ f \in [Hands -> HandRecords] /\ f[t].at = l /\ f[t].pid = p /\ f[t].todo = thread[t].todo
      /\ \A x \in Hands : x # t => f[x] = thread[x]
  BY <1>0 DEF HandRecords
<1> HIDE DEF f
<1>3. thread' \in [Hands -> HandRecords]
  <2>1. [f[t] EXCEPT !.back = b] \in HandRecords
    BY <1>1 DEF HandRecords
  <2>2. thread' = [f EXCEPT ![t] = [f[t] EXCEPT !.back = b]]
    BY <1>2
  <2>3. QED
    BY <1>1, <2>1, <2>2
<1>3a. \A x \in Hands : x # t => thread'[x] = thread[x]
  BY <1>1, <1>2
<1>4. /\ thread'[t].at = l /\ thread'[t].pid = p /\ thread'[t].back = b
      /\ thread'[t].todo = thread[t].todo
  BY <1>1, <1>2 DEF HandRecords
<1>5. QED
  BY <1>3, <1>3a, <1>4 DEF Alone

(* The same, as a panic unwinds. *)
LEMMA BackPidEffect ==
  ASSUME TdTypes, NEW t \in Hands, NEW l \in Steps, NEW b \in Backs, NEW p \in AnyPid,
         thread' = [thread EXCEPT ![t].at = l, ![t].back = b, ![t].pid = p]
  PROVE  /\ Alone(t) /\ thread'[t].at = l /\ thread'[t].pid = p /\ thread'[t].back = b
         /\ thread'[t].todo = thread[t].todo
<1> DEFINE g == [thread EXCEPT ![t].at = l]
           f == [g EXCEPT ![t].back = b]
<1>0. /\ g \in [Hands -> HandRecords] /\ g[t].at = l /\ g[t].todo = thread[t].todo
      /\ \A x \in Hands : x # t => g[x] = thread[x]
  BY DEF TdTypes, HandRecords
<1>2. thread' = [f EXCEPT ![t].pid = p]
  OBVIOUS
<1> HIDE DEF g
<1>1. /\ f \in [Hands -> HandRecords] /\ f[t].at = l /\ f[t].back = b /\ f[t].todo = thread[t].todo
      /\ \A x \in Hands : x # t => f[x] = thread[x]
  BY <1>0 DEF HandRecords
<1> HIDE DEF f
<1>3. thread' \in [Hands -> HandRecords]
  <2>1. [f[t] EXCEPT !.pid = p] \in HandRecords
    BY <1>1 DEF HandRecords
  <2>2. thread' = [f EXCEPT ![t] = [f[t] EXCEPT !.pid = p]]
    BY <1>2
  <2>3. QED
    BY <1>1, <2>1, <2>2
<1>3a. \A x \in Hands : x # t => thread'[x] = thread[x]
  BY <1>1, <1>2
<1>4. /\ thread'[t].at = l /\ thread'[t].pid = p /\ thread'[t].back = b
      /\ thread'[t].todo = thread[t].todo
  BY <1>1, <1>2 DEF HandRecords
<1>5. QED
  BY <1>3, <1>3a, <1>4 DEF Alone

(* A worker's step that touches neither the callback nor a bridge. *)
LEMMA CrewStepStands ==
  ASSUME TdInv, NEW w \in Crew, Alone(w), thread[w].at # "tell", thread'[w].at \notin {"submit", "tell"},
         admitted' \subseteq admitted, admitted \ {w} \subseteq admitted',
         injects' \in [Crew -> SUBSET Everyone], UNCHANGED <<roll, shut, bridge, retained, latched, callback, told>>
  PROVE  TdInv'
<1>1. w \in Hands \ {"shutdown", "registrar"} /\ roll' \subseteq Everyone
  BY HandFacts DEF TdInv, TdTypes
<1>2. \A x \in Crew : x # w /\ x \in admitted => x \in admitted'
  OBVIOUS
<1>3. QED
  BY <1>1, <1>2, OrdinaryStep

(* A worker's loop and slices, but for dirty calls. *)
LEMMA LoopKeeps ==
  ASSUME TdInv, NEW w \in Crew,
         \/ LeaveLoop(w) \/ PopRequest(w) \/ Materialize(w) \/ CheckOut(w) \/ StoreExited(w)
         \/ StoreRunnableBack(w) \/ SliceReturns(w)
  PROVE  TdInv'
<1> USE HandFacts DEF books, admission, latchVars, tdGhosts
<1>0. TdTypes /\ w \in Hands /\ thread[w].pid \in AnyPid
  BY DEF TdInv, TdTypes, HandRecords
<1>1. UNCHANGED <<admitted, roll, shut, bridge, retained, latched, callback,
                  told>> /\ thread[w].at # "tell"
  BY DEF LeaveLoop, PopRequest, Materialize, CheckOut, StoreExited, StoreRunnableBack,
     SliceReturns, HandAt
<1>2. injects' \in [Crew -> SUBSET Everyone]
  BY <1>0 DEF LeaveLoop, PopRequest, Materialize, CheckOut, StoreExited, StoreRunnableBack,
     SliceReturns, TdTypes
<1>3. /\ {"leave", "building", "loop", "slice", "sliceDone"} \subseteq Steps /\ "sliceDone" \in Backs
      /\ NoOne \in AnyPid /\ Everyone \subseteq AnyPid
  BY DEF Steps, Backs, AnyPid
<1>4. Alone(w) /\ thread'[w].at \notin {"submit", "tell"}
  <2>1. CASE LeaveLoop(w)
    BY <1>0, <1>3, <2>1, MoveEffect DEF LeaveLoop
  <2>2. CASE PopRequest(w)
    <3>1. PICK p \in Everyone : thread' = [thread EXCEPT ![w].at = "building", ![w].pid = p]
      BY <1>0, <2>2 DEF PopRequest, TdTypes
    <3>2. p \in AnyPid /\ "building" \in Steps
      BY <1>3
    <3>3. Alone(w) /\ thread'[w].at = "building"
      BY <1>0, <3>1, <3>2, PidEffect
    <3>4. QED
      BY <3>3
  <2>3. CASE Materialize(w) \/ SliceReturns(w)
    <3>1. thread' = [thread EXCEPT ![w].at = "loop", ![w].pid = NoOne]
      BY <2>3 DEF Materialize, SliceReturns
    <3>2. NoOne \in AnyPid /\ "loop" \in Steps
      BY <1>3
    <3>3. Alone(w) /\ thread'[w].at = "loop"
      BY <1>0, <3>1, <3>2, PidEffect
    <3>4. QED
      BY <3>3
  <2>4. CASE CheckOut(w)
    <3>1. PICK p \in Everyone : thread' = [thread EXCEPT ![w].at = "slice", ![w].pid = p]
      BY <2>4 DEF CheckOut
    <3>2. p \in AnyPid /\ "slice" \in Steps
      BY <1>3
    <3>3. Alone(w) /\ thread'[w].at = "slice"
      BY <1>0, <3>1, <3>2, PidEffect
    <3>4. QED
      BY <3>3
  <2>5. CASE StoreExited(w) \/ StoreRunnableBack(w)
    <3>1. Calls(w, thread[w].pid, "sliceDone") \/ Move(w, "sliceDone")
      BY <2>5 DEF StoreExited, StoreRunnableBack
    <3>2. QED
      BY <1>0, <1>3, <3>1, MoveEffect, CallsEffect
  <2>6. QED
    BY <2>1, <2>2, <2>3, <2>4, <2>5
<1>5. QED
  BY <1>1, <1>2, <1>4, CrewStepStands

(* A dirty call: its reservation and its bridge. *)
LEMMA DirtyKeeps ==
  ASSUME TdInv, NEW w \in Crew, ReserveDirty(w) \/ SubmitDirty(w)
  PROVE  TdInv'
<1> USE HandFacts DEF books, admission, latchVars, tdGhosts
<1>0. TdTypes /\ w \in Hands /\ thread[w].pid \in AnyPid
  BY DEF TdInv, TdTypes, HandRecords
<1>1. UNCHANGED <<injects, roll, shut, latched, callback, told>> /\ thread[w].at \in {"slice",
                  "submit"}
  BY DEF ReserveDirty, SubmitDirty, HandAt
<1>2. PICK l \in {"submit", "exiting", "store"} : Move(w, l)
  BY DEF ReserveDirty, SubmitDirty
<1>3. Alone(w) /\ thread'[w].at = l
  BY <1>0, <1>2, MoveEffect DEF Steps
<1>4. /\ thread'["shutdown"] = thread["shutdown"] /\ thread'["registrar"] = thread["registrar"]
      /\ \A x \in Crew : x # w => thread'[x] = thread[x]
  BY <1>3 DEF Alone
<1>5. ToldInv'
  BY <1>1, <1>3, <1>4 DEF TdInv, ToldInv, HandAt
<1>6. CASE ReserveDirty(w)
  <2>1. UNCHANGED <<bridge, retained>>
    BY <1>6 DEF ReserveDirty
  <2>2. TdTypes'
    BY <1>0, <1>1, <1>3, <2>1 DEF TdTypes, Alone
  <2>3. \/ MayReserve /\ admitted' = admitted \cup {w}
        \/ thread'[w].at = "exiting" /\ UNCHANGED admitted
    <3>1. CASE MayReserve
      BY <1>6, <3>1 DEF ReserveDirty
    <3>2. CASE ~MayReserve
      <4>1. Move(w, "exiting") /\ UNCHANGED admitted
        BY <1>6, <3>2 DEF ReserveDirty
      <4>2. QED
        BY <1>0, <4>1, MoveEffect DEF Steps
    <3>3. QED
      BY <3>1, <3>2
  <2>4. CASE MayReserve /\ admitted' = admitted \cup {w}
    <3>1. thread["shutdown"].at \notin Past
      BY <2>4 DEF MayReserve, TdInv, BridgeInv
    <3>2. BridgeInv'
      BY <1>1, <1>4, <2>1, <2>4, <3>1 DEF TdInv, BridgeInv, HandAt
    <3>3. QED
      BY <1>5, <2>2, <3>2 DEF TdInv
  <2>5. CASE thread'[w].at = "exiting" /\ UNCHANGED admitted
    <3>1. BridgeInv'
      BY <1>1, <1>4, <2>1, <2>5 DEF TdInv, BridgeInv, HandAt
    <3>2. QED
      BY <1>5, <2>2, <3>1 DEF TdInv
  <2>6. QED
    BY <2>3, <2>4, <2>5
<1>7. CASE SubmitDirty(w)
  <2>1. HandAt(w, "submit") /\ admitted' = admitted \ {w}
    BY <1>7 DEF SubmitDirty
  <2>2. thread["shutdown"].at \notin Past
    BY <2>1 DEF TdInv, BridgeInv
  <2>3. thread'[w].at # "submit"
    <3>1. Move(w, "store") \/ Move(w, "exiting")
      BY <1>7 DEF SubmitDirty
    <3>2. QED
      BY <1>0, <3>1, MoveEffect DEF Steps
  <2>4. \A x \in Crew : HandAt(x, "submit")' => x \in admitted'
    BY <1>4, <2>1, <2>3 DEF TdInv, BridgeInv, HandAt
  <2>5. /\ retained' \subseteq AnyPid /\ bridge' \in [Everyone -> {"none", "waiting", "delivering", "done"}]
        /\ \A p \in Everyone : bridge'[p] \in {"waiting", "delivering"} => p \in retained'
    <3>0. \A p \in Everyone : bridge[p] \in {"waiting", "delivering"} => p \in retained
      BY <2>2 DEF TdInv, BridgeInv, HandAt, Past
    <3>1. CASE UNCHANGED <<bridge, retained>>
      BY <1>0, <3>0, <3>1 DEF TdTypes
    <3>2. CASE PublishBridge(w)
      <4>1. /\ bridge' = [bridge EXCEPT ![thread[w].pid] = "waiting"]
            /\ retained' = {p \in retained : bridge[p] # "done"} \cup {thread[w].pid}
        BY <3>2 DEF PublishBridge
      <4>2. QED
        BY <1>0, <3>0, <4>1 DEF TdTypes
    <3>3. QED
      BY <1>7, <3>1, <3>2 DEF SubmitDirty
  <2>6. TdTypes'
    BY <1>0, <1>1, <1>3, <2>5 DEF TdTypes, Alone
  <2>7. BridgeInv'
    BY <1>1, <1>4, <2>2, <2>4, <2>5 DEF TdInv, BridgeInv
  <2>8. QED
    BY <1>5, <2>6, <2>7 DEF TdInv
<1>8. QED
  BY <1>6, <1>7

(* A worker dies: its admission is dropped with its stack. *)
LEMMA DeathKeeps ==
  ASSUME TdInv, NEW w \in Crew, WorkerDies(w)
  PROVE  TdInv'
<1> USE HandFacts DEF books, admission, latchVars, tdGhosts
<1>0. TdTypes /\ w \in Hands /\ thread[w].pid \in AnyPid
  BY DEF TdInv, TdTypes, HandRecords
<1>1. /\ UNCHANGED <<injects, roll, shut, bridge, retained, latched, callback, told>>
      /\ admitted' = admitted \ {w}
  BY DEF WorkerDies
<1> DEFINE running == thread[w].at \in RunningAt /\ (thread[w].at \in {"tomb", "token"} => thread[w].back = "sliceDone")
<1>2. PICK site \in IF running THEN {"running"}
                    ELSE CASE thread[w].at = "loop" -> {"parked", "scheduling"}
                           [] thread[w].at = "building" -> {"scheduling"}
                           [] OTHER -> {} :
        thread' = [thread EXCEPT ![w].at = "died", ![w].back = site, ![w].pid = IF running THEN @ ELSE NoOne]
  BY DEF WorkerDies
<1>3. thread[w].at # "tell"
  BY <1>2 DEF RunningAt
<1>4. site \in Backs /\ "died" \in Steps /\ NoOne \in AnyPid
  BY <1>2 DEF Backs, Steps, AnyPid
<1>5. PICK p \in AnyPid : thread' = [thread EXCEPT ![w].at = "died", ![w].back = site, ![w].pid = p]
  BY <1>0, <1>2, <1>4
<1>6. Alone(w) /\ thread'[w].at = "died"
  BY <1>0, <1>4, <1>5, BackPidEffect
<1>7. injects' \in [Crew -> SUBSET Everyone]
  BY <1>0, <1>1 DEF TdTypes
<1>8. QED
  BY <1>1, <1>3, <1>6, <1>7, CrewStepStands

(* The recovery of a worker and its way out, but for the callback. *)
LEMMA RecoveryKeeps ==
  ASSUME TdInv, NEW w \in Crew,
         \/ Recover(w) \/ RestartWorker(w) \/ StopAll(w) \/ FinalizeUnwound(w) \/ LeaveWorker(w)
         \/ Settle(w, "gone")
  PROVE  TdInv'
<1> USE HandFacts DEF books, admission, latchVars, tdGhosts
<1>0. TdTypes /\ w \in Hands /\ thread[w].pid \in AnyPid
  BY DEF TdInv, TdTypes, HandRecords
<1>1. UNCHANGED <<admitted, roll, shut, bridge, retained, latched, callback,
                  told>> /\ thread[w].at # "tell"
  BY DEF Recover, RestartWorker, StopAll, FinalizeUnwound, LeaveWorker, Settle, HandAt
<1>2. /\ {"restart", "latch", "loop", "unwound", "leave", "gone", "settle"} \subseteq Steps
      /\ {"restart", "leave", "loop", "settle"} \subseteq Backs
      /\ NoOne \in AnyPid /\ Everyone \subseteq AnyPid
  BY DEF Steps, Backs, AnyPid
<1>3. injects' \in [Crew -> SUBSET Everyone]
  BY <1>0 DEF Recover, RestartWorker, StopAll, FinalizeUnwound, LeaveWorker, Settle, TdTypes
<1>4. Alone(w) /\ thread'[w].at \notin {"submit", "tell"}
  <2>1. CASE Recover(w)
    <3>1. Tiers(w) \subseteq {"latch", "restart", "kill"}
      BY DEF Tiers
    <3>2. \/ Calls(w, thread[w].pid, "restart") \/ Move(w, "restart") \/ Move(w, "latch")
      BY <2>1, <3>1 DEF Recover
    <3>3. QED
      BY <1>0, <1>2, <3>2, MoveEffect, CallsEffect
  <2>2. CASE RestartWorker(w)
    <3>1. thread' = [thread EXCEPT ![w].at = "loop", ![w].pid = NoOne, ![w].back = "loop"]
      BY <2>2 DEF RestartWorker
    <3>2. "loop" \in Steps /\ "loop" \in Backs /\ NoOne \in AnyPid
      BY <1>2
    <3>3. Alone(w) /\ thread'[w].at = "loop"
      BY <1>0, <3>1, <3>2, PidBackEffect
    <3>4. QED
      BY <3>3
  <2>3. CASE StopAll(w)
    BY <1>0, <1>2, <2>3, MoveEffect DEF StopAll
  <2>4. CASE FinalizeUnwound(w)
    <3>1. Calls(w, thread[w].pid, "leave") \/ Move(w, "leave")
      BY <2>4 DEF FinalizeUnwound
    <3>2. QED
      BY <1>0, <1>2, <3>1, MoveEffect, CallsEffect
  <2>5. CASE LeaveWorker(w)
    <3> DEFINE left == {p \in Everyone : seat[p] = "present"}
    <3>1. \/ Move(w, "gone") \/ \E p \in injects[w] : Calls(w, p, "leave")
          \/ thread' = [thread EXCEPT ![w].at = "settle", ![w].todo = left]
      BY <2>5 DEF LeaveWorker
    <3>2. left \in SUBSET AnyPid /\ \A p \in injects[w] : p \in AnyPid
      BY <1>0, <1>2 DEF TdTypes
    <3> HIDE DEF left
    <3>3. CASE Move(w, "gone")
      BY <1>0, <1>2, <3>3, MoveEffect
    <3>4. CASE \E p \in injects[w] : Calls(w, p, "leave")
      BY <1>0, <1>2, <3>2, <3>4, CallsEffect
    <3>5. CASE thread' = [thread EXCEPT ![w].at = "settle", ![w].todo = left]
      <4>1. "settle" \in Steps
        BY <1>2
      <4>2. Alone(w) /\ thread'[w].at = "settle"
        BY <1>0, <3>2, <3>5, <4>1, TodoEffect
      <4>3. QED
        BY <4>2
    <3>6. QED
      BY <3>1, <3>3, <3>4, <3>5
  <2>6. CASE Settle(w, "gone")
    BY <1>0, <1>2, <2>6, SettleEffect
  <2>7. QED
    BY <2>1, <2>2, <2>3, <2>4, <2>5, <2>6
<1>5. QED
  BY <1>1, <1>3, <1>4, CrewStepStands

(* The first death tells of the failure. *)
LEMMA LatchKeeps ==
  ASSUME TdInv, NEW w \in Crew, LatchFailure(w) \/ TellCallback(w)
  PROVE  TdInv'
<1> USE HandFacts DEF books, admission, latchVars, tdGhosts
<1>0. TdTypes /\ w \in Hands
  BY DEF TdInv
<1>1. UNCHANGED <<injects, roll, shut, admitted, bridge, retained>>
  BY DEF LatchFailure, TellCallback
<1>2. /\ {"unwound", "tell", "stop"} \subseteq Steps /\ "loop" \in Backs
  BY DEF Steps, Backs
<1>3. /\ Alone(w)
      /\ LatchFailure(w) => thread'[w].at = IF latched THEN "unwound" ELSE "tell"
      /\ TellCallback(w) => thread'[w].at = "stop"
  <2>1. CASE LatchFailure(w)
    <3>0. ~TellCallback(w)
      BY <2>1 DEF LatchFailure, TellCallback, HandAt
    <3>1. PICK l \in {"unwound", "tell"} : /\ l = IF latched THEN "unwound" ELSE "tell"
                                           /\ thread' = [thread EXCEPT ![w].at = l, ![w].back = "loop"]
      BY <2>1 DEF LatchFailure
    <3>2. l \in Steps /\ "loop" \in Backs /\ thread' = [thread EXCEPT ![w].at = l, ![w].back = "loop"]
      BY <1>2, <3>1
    <3>3. Alone(w) /\ thread'[w].at = l
      BY <1>0, <3>2, BackEffect
    <3>4. QED
      BY <3>0, <3>1, <3>3
  <2>2. CASE TellCallback(w)
    <3>0. ~LatchFailure(w)
      BY <2>2 DEF LatchFailure, TellCallback, HandAt
    <3>1. QED
      BY <1>0, <1>2, <2>2, <3>0, MoveEffect DEF TellCallback
  <2>3. QED
    BY <2>1, <2>2
<1>4. /\ thread'["shutdown"] = thread["shutdown"] /\ thread'["registrar"] = thread["registrar"]
      /\ \A x \in Crew : x # w => thread'[x] = thread[x]
  BY <1>3 DEF Alone
<1>5. thread'[w].at # "submit"
  BY <1>3
<1>6. BridgeInv'
  BY <1>1, <1>4, <1>5 DEF TdInv, BridgeInv, HandAt
<1>7. CASE LatchFailure(w)
  <2>1. latched' /\ UNCHANGED <<callback, told>> /\ thread[w].at = "latch"
    BY <1>7 DEF LatchFailure, HandAt
  <2>2. callback = "waiting" => \E x \in Crew : HandAt(x, "tell")'
    <3>1. CASE latched
      BY <1>4, <2>1, <3>1 DEF TdInv, ToldInv, HandAt
    <3>2. CASE ~latched
      BY <1>3, <1>7, <3>2 DEF HandAt
    <3>3. QED
      BY <3>1, <3>2
  <2>3. ToldInv'
    BY <1>4, <2>1, <2>2 DEF TdInv, ToldInv, HandAt
  <2>4. TdTypes'
    BY <1>0, <1>1, <1>3, <2>1 DEF TdTypes, Alone
  <2>5. QED
    BY <1>6, <2>3, <2>4 DEF TdInv
<1>8. CASE TellCallback(w)
  <2>1. UNCHANGED latched /\ HandAt(w, "tell")
    BY <1>8 DEF TellCallback
  <2>2. latched
    BY <2>1 DEF TdInv, ToldInv
  <2>3. thread'[w].at = "stop"
    BY <1>3, <1>8
  <2>4. CASE callback = "waiting"
    <3>1. callback' = "spent" /\ told' = told + 1 /\ told = 0
      BY <1>8, <2>4 DEF TellCallback, TdInv, ToldInv
    <3>2. ~HandAt("registrar", "call")
      BY <2>4 DEF TdInv, ToldInv
    <3>3. ToldInv'
      BY <1>4, <2>1, <2>2, <3>1, <3>2 DEF TdInv, ToldInv, HandAt
    <3>4. TdTypes'
      BY <1>0, <1>1, <1>3, <3>1 DEF TdTypes, Alone
    <3>5. QED
      BY <1>6, <3>3, <3>4 DEF TdInv
  <2>5. CASE callback # "waiting"
    <3>1. UNCHANGED <<callback, told>>
      BY <1>8, <2>5 DEF TellCallback
    <3>2. ToldInv'
      BY <1>4, <2>1, <2>2, <2>5, <3>1 DEF TdInv, ToldInv, HandAt
    <3>3. TdTypes'
      BY <1>0, <1>1, <1>3, <3>1 DEF TdTypes, Alone
    <3>4. QED
      BY <1>6, <3>2, <3>3 DEF TdInv
  <2>6. QED
    BY <2>4, <2>5
<1>9. QED
  BY <1>7, <1>8

(* cleanup_exited_process, on whatever thread it runs. *)
LEMMA CleanupKeeps ==
  ASSUME TdInv, NEW t \in Hands, Tombstone(t) \/ TableToken(t) \/ RemoveBody(t)
  PROVE  TdInv'
<1> USE HandFacts DEF books, admission, latchVars, tdGhosts
<1>0. TdTypes /\ thread[t].back \in Backs
  BY DEF TdInv, TdTypes, HandRecords
<1>1. /\ UNCHANGED <<injects, admitted, shut, bridge, retained, latched, callback, told>>
      /\ thread[t].at \in {"tomb", "token", "body"} /\ roll' \subseteq roll
  BY DEF Tombstone, TableToken, RemoveBody, HandAt
<1>2. /\ Alone(t)
      /\ \/ thread'[t].at \in {"token", "body"} /\ thread'[t].back = thread[t].back
         \/ thread'[t].at = thread[t].back
  <2>1. Move(t, "token") \/ Move(t, "body") \/ Returns(t)
    BY DEF Tombstone, TableToken, RemoveBody
  <2>2. CASE Move(t, "token") \/ Move(t, "body")
    BY <1>0, <2>2, MoveEffect DEF Steps
  <2>3. CASE Returns(t)
    BY <1>0, <2>3, ReturnsEffect
  <2>4. QED
    BY <2>1, <2>2, <2>3
<1>3. injects' \in [Crew -> SUBSET Everyone] /\ roll' \subseteq Everyone
  BY <1>0, <1>1 DEF TdTypes
<1>4. t # "registrar"
  BY <1>1 DEF TdInv, ToldInv
<1>5. CASE t = "shutdown"
  <2>1. thread["shutdown"].back \in {"join", "settle"}
    BY <1>1, <1>5 DEF TdInv, BridgeInv
  <2>2. QED
    BY <1>1, <1>2, <1>3, <1>5, <2>1, FinishingStep DEF Past
<1>6. CASE t # "shutdown"
  <2>1. thread'[t].at \notin {"submit", "tell"} /\ thread[t].at # "tell"
    BY <1>0, <1>1, <1>2 DEF Backs
  <2>2. QED
    BY <1>1, <1>2, <1>3, <1>4, <1>6, <2>1, OrdinaryStep
<1>7. QED
  BY <1>5, <1>6

(* A completion bridge hears its result, or the hang-up, and ends. *)
LEMMA BridgeKeeps ==
  ASSUME TdInv, NEW p \in Everyone, BridgeHears(p) \/ BridgeDelivers(p)
  PROVE  TdInv'
<1>1. UNCHANGED <<thread, injects, roll, admitted, shut, retained, latched, callback, told>>
  BY DEF BridgeHears, BridgeDelivers, books, latchVars
<1>2. PICK b \in {"delivering", "done"} : bridge' = [bridge EXCEPT ![p] = b]
  BY DEF BridgeHears, BridgeDelivers
<1>3. bridge[p] \in {"waiting", "delivering"}
  BY DEF BridgeHears, BridgeDelivers
<1>4. /\ bridge' \in [Everyone -> {"none", "waiting", "delivering", "done"}]
      /\ \A q \in Everyone : bridge'[q] \in {"waiting", "delivering"} => bridge[q] \in {"waiting", "delivering"}
  BY <1>2, <1>3 DEF TdInv, TdTypes
<1>5. TdTypes'
  BY <1>1, <1>4 DEF TdInv, TdTypes
<1>6. ToldInv'
  BY <1>1 DEF TdInv, ToldInv, HandAt
<1>7. BridgeInv'
  BY <1>1, <1>4 DEF TdInv, BridgeInv, HandAt
<1>8. QED
  BY <1>5, <1>6, <1>7 DEF TdInv

(* The invariant of the teardown. *)
LEMMA TeardownInvariant == TdSpec => []TdInv
<1>1. TdInit => TdInv
  <2> SUFFICES ASSUME TdInit PROVE TdInv
    OBVIOUS
  <2>1. PICK script \in Scripts :
          /\ thread = [t \in Hands |->
               [at |-> CASE t \in Crew -> "loop" [] t \in script.cast -> "off" [] OTHER -> "done",
                pid |-> NoOne, todo |-> {}, back |-> "loop"]]
          /\ bridge = [p \in Everyone |-> IF p \in Residents \cap script.cast THEN "none" ELSE "done"]
    BY DEF TdInit
  <2>2. NoOne \in AnyPid /\ {} \in SUBSET AnyPid /\ "loop" \in Backs /\ {"loop", "off", "done"} \subseteq Steps
    BY DEF AnyPid, Backs, Steps
  <2>3. \A t \in Hands : /\ thread[t] \in HandRecords /\ thread[t].at \in {"loop", "off", "done"}
                         /\ t \notin Crew => thread[t].at \in {"off", "done"}
    BY <2>1, <2>2 DEF HandRecords
  <2>4. thread \in [Hands -> HandRecords]
    BY <2>1, <2>3
  <2>5. /\ bridge \in [Everyone -> {"none", "waiting", "delivering", "done"}]
        /\ \A p \in Everyone : bridge[p] \notin {"waiting", "delivering"}
    BY <2>1
  <2>6. TdTypes
    BY <2>4, <2>5 DEF TdInit, TdTypes, Everyone
  <2>7. thread["shutdown"].at \in {"off", "done"} /\ thread["registrar"].at \in {"off", "done"}
    BY <2>3, HandFacts
  <2>8. ToldInv
    BY <2>3, <2>7, HandFacts DEF TdInit, ToldInv, HandAt
  <2>9. BridgeInv
    BY <2>3, <2>5, <2>7, HandFacts DEF TdInit, BridgeInv, HandAt, Past
  <2>10. QED
    BY <2>6, <2>8, <2>9 DEF TdInv
<1>2. TdInv /\ [TdNext]_tdVars => TdInv'
  <2> SUFFICES ASSUME TdInv, [TdNext]_tdVars PROVE TdInv'
    OBVIOUS
  <2>1. CASE UNCHANGED tdVars
    <3>1. UNCHANGED <<thread, injects, roll, admitted, shut, bridge, retained, latched, callback,
                      told>>
      BY <2>1 DEF tdVars, books, admission, latchVars
    <3>2. TdTypes' /\ ToldInv'
      BY <3>1 DEF TdInv, TdTypes, ToldInv, HandAt
    <3>3. BridgeInv'
      BY <3>1 DEF TdInv, BridgeInv, HandAt
    <3>4. QED
      BY <3>2, <3>3 DEF TdInv
  <2>2. CASE Embedder
    BY <2>2, EmbedderKeeps, RegistrarKeeps, ClosingKeeps, JoiningKeeps DEF Embedder
  <2>3. ASSUME NEW w \in Crew, CrewStep(w)
        PROVE  TdInv'
    BY <2>3, LoopKeeps, DirtyKeeps, DeathKeeps, RecoveryKeeps, LatchKeeps DEF CrewStep
  <2>4. QED
    BY <2>1, <2>2, <2>3, CleanupKeeps, BridgeKeeps DEF TdNext
<1>3. QED
  BY <1>1, <1>2, PTL DEF TdSpec

(* on_failure against the latch: with any number of workers dying in any    *)
(* order, and the registration before, between or after, the callback runs  *)
(* once if there was a failure to tell of and a callback to tell, and never *)
(* otherwise (latch_failure, on_failure).                                   *)
THEOREM FailureIsToldOnce == TdSpec => []FailureToldOnce
<1>1. TdInv => FailureToldOnce
  BY DEF TdInv, TdTypes, ToldInv, FailureToldOnce, HandAt
<1>2. QED
  BY <1>1, TeardownInvariant, PTL

(* The shutdown leaves no bridge behind: once it has joined the bridges it  *)
(* took, none waits or delivers and nobody holds an admission with which to *)
(* start one, for any number of workers, spawns and dirty calls             *)
(* (drain_dirty_completions, try_reserve_teardown_admission).               *)
THEOREM BridgesEndWithShutdown == TdSpec => []NoBridgeOutlivesShutdown
<1>1. TdInv => NoBridgeOutlivesShutdown
  BY DEF TdInv, TdTypes, BridgeInv, NoBridgeOutlivesShutdown, HandAt, Past
<1>2. QED
  BY <1>1, TeardownInvariant, PTL

-----------------------------------------------------------------------------
(* Teardown: nobody is left *)

(* Who has a process in hand: a thread between the token and the body of it, *)
(* a worker that builds it, a thread that will come to its token whatever    *)
(* happens, a worker that runs it or died of it.                             *)
AtBody(t, p) == HandAt(t, "body") /\ thread[t].pid = p

Building(t, p) == HandAt(t, "building") /\ thread[t].pid = p

Ending(t, p) == thread[t].at \in {"tomb", "token"} /\ thread[t].back # "sliceDone" /\ thread[t].pid = p

Holding(t, p) ==
  /\ thread[t].pid = p
  /\ \/ thread[t].at \in {"slice", "submit", "exiting", "store", "latch", "tell", "stop", "unwound"}
     \/ thread[t].at = "died" /\ thread[t].back = "running"
     \/ thread[t].at \in {"tomb", "token"} /\ thread[t].back \in {"restart", "leave"}

(* A process that is still to be spawned is nowhere, and the spawn that is  *)
(* under way holds an admission.                                            *)
Unborn(p) ==
  /\ p \notin roll /\ seat[p] = "none"
  /\ \A w \in Crew : p \notin injects[w] /\ ~Building(w, p)
  /\ \A t \in Hands : ~AtBody(t, p)

NewInv ==
  \A p \in Newcomers :
    /\ thread[p].at \in {"off", "admitted", "entered", "enqueued", "done"}
    /\ thread[p].at \in {"admitted", "entered", "enqueued"} => p \in admitted
    /\ thread[p].at \in {"off", "admitted"} => Unborn(p)

(* A worker shutdown is through with runs nothing any more. *)
Doomed(w) ==
  \/ thread[w].at \in {"tell", "stop", "unwound", "leave", "settle", "gone"}
  \/ thread[w].at \in {"tomb", "token", "body"} /\ thread[w].back \in {"leave", "settle"}

DeadInv ==
  \A w \in Crew :
    /\ w \in deadMark => Doomed(w)
    /\ w \in joined => w \in deadMark \/ HandAt(w, "gone")

(* Each process that is not lost, by the table and its body: out of the     *)
(* table with a body it is at its finalizer's, in it without a body it is a *)
(* request or about to be finalized, executing it has a worker.             *)
Pending(p) ==
  \/ p \in Newcomers /\ HandAt(p, "entered")
  \/ \E w \in Crew : p \in injects[w] \/ Building(w, p)
  \/ \E t \in Hands : Ending(t, p)

CareOf(p) ==
  /\ p \notin roll /\ seat[p] # "none" => \E t \in Hands : AtBody(t, p)
  /\ p \in roll /\ seat[p] = "none" => Pending(p)
  /\ p \in roll /\ seat[p] = "executing" => \E w \in Crew : Holding(w, p)

BodyInv ==
  /\ \A t \in Hands : HandAt(t, "body") => thread[t].pid \in Everyone \ roll
  /\ \A p \in Everyone \ lost : CareOf(p)

(* What shutdown finds when it finalizes the bodies is all there will be. *)
Settling ==
  \/ thread["shutdown"].at \in {"settle", "returned"}
  \/ thread["shutdown"].at \in {"tomb", "token", "body"} /\ thread["shutdown"].back = "settle"

OnList(p) ==
  \/ p \in thread["shutdown"].todo
  \/ thread["shutdown"].at \in {"tomb", "token"} /\ thread["shutdown"].pid = p

SettleInv ==
  /\ Settling => /\ joined = Crew /\ \A w \in Crew : injects[w] = {}
                 /\ \A p \in roll \ lost : seat[p] = "present" => OnList(p)
  /\ HandAt("shutdown", "returned") => thread["shutdown"].todo = {}

SeatTypes == seat \in [Everyone -> {"none", "present", "executing"}]

CareInv == SeatTypes /\ NewInv /\ DeadInv /\ BodyInv /\ SettleInv

(* What one thread's step leaves of the care for a process. *)
Keeps(t, p) ==
  /\ (p \in roll' <=> p \in roll) /\ seat'[p] = seat[p]
  /\ AtBody(t, p) => AtBody(t, p)'
  /\ \A w \in Crew : p \in injects[w] => p \in injects'[w] \/ Ending(t, p)' \/ (t \in Crew /\ Building(t, p)')
  /\ Building(t, p) => Building(t, p)' \/ p \in lost'
  /\ Ending(t, p) => Ending(t, p)' \/ p \notin roll
  /\ Holding(t, p) => Holding(t, p)' \/ p \in lost' \/ p \notin roll \/ seat[p] # "executing"
  /\ t = p /\ HandAt(p, "entered") => HandAt(p, "entered")' \/ \E w \in Crew : p \in injects'[w]

(* The threads that do not move have in hand what they had. *)
LEMMA OthersSame ==
  ASSUME NEW t \in Hands, Alone(t), NEW x \in Hands, x # t, NEW p
  PROVE  /\ AtBody(x, p)' <=> AtBody(x, p)
         /\ Building(x, p)' <=> Building(x, p)
         /\ Ending(x, p)' <=> Ending(x, p)
         /\ Holding(x, p)' <=> Holding(x, p)
         /\ HandAt(x, "entered")' <=> HandAt(x, "entered")
         /\ HandAt(x, "gone")' <=> HandAt(x, "gone")
         /\ Doomed(x)' <=> Doomed(x)
<1>1. thread'[x] = thread[x]
  BY DEF Alone
<1>2. QED
  BY <1>1 DEF AtBody, Building, Ending, Holding, HandAt, Doomed

(* A process whose care a step keeps is still cared for. *)
LEMMA KeepsCare ==
  ASSUME NEW t \in Hands, Alone(t), NEW p \in Everyone, CareOf(p), Keeps(t, p)
  PROVE  p \in lost' \/ CareOf(p)'
<1> SUFFICES ASSUME p \notin lost' PROVE CareOf(p)'
  OBVIOUS
<1>1. ASSUME p \notin roll', seat'[p] # "none" PROVE \E x \in Hands : AtBody(x, p)'
  <2>1. PICK x \in Hands : AtBody(x, p)
    BY <1>1 DEF Keeps, CareOf
  <2>2. AtBody(x, p)'
    BY <2>1, OthersSame DEF Keeps
  <2>3. QED
    BY <2>2
<1>2. ASSUME p \in roll', seat'[p] = "none" PROVE Pending(p)'
  <2>0. Pending(p) /\ p \in roll
    BY <1>2 DEF Keeps, CareOf
  <2>1. CASE p \in Newcomers /\ HandAt(p, "entered")
    <3>1. HandAt(p, "entered")' \/ \E w \in Crew : p \in injects'[w]
      BY <2>1, OthersSame, HandFacts DEF Keeps
    <3>2. QED
      BY <2>1, <3>1 DEF Pending
  <2>2. CASE \E w \in Crew : p \in injects[w]
    BY <2>2 DEF Keeps, Pending
  <2>3. CASE \E w \in Crew : Building(w, p)
    <3>1. PICK w \in Crew : Building(w, p)
      BY <2>3
    <3>2. Building(w, p)'
      BY <3>1, OthersSame, HandFacts DEF Keeps
    <3>3. QED
      BY <3>2 DEF Pending
  <2>4. CASE \E x \in Hands : Ending(x, p)
    <3>1. PICK x \in Hands : Ending(x, p)
      BY <2>4
    <3>2. Ending(x, p)'
      BY <2>0, <3>1, OthersSame DEF Keeps
    <3>3. QED
      BY <3>2 DEF Pending
  <2>5. QED
    BY <2>0, <2>1, <2>2, <2>3, <2>4 DEF Pending
<1>3. ASSUME p \in roll', seat'[p] = "executing" PROVE \E w \in Crew : Holding(w, p)'
  <2>1. PICK w \in Crew : Holding(w, p)
    BY <1>3 DEF Keeps, CareOf
  <2>2. Holding(w, p)'
    BY <1>3, <2>1, OthersSame, HandFacts DEF Keeps
  <2>3. QED
    BY <2>2
<1>4. QED
  BY <1>1, <1>2, <1>3 DEF CareOf

(* A step of another leaves a process that is still to be spawned alone. *)
Foreign(t, p) ==
  /\ p \in roll' => p \in roll
  /\ p \notin roll /\ seat[p] = "none" => seat'[p] = "none" \/ (t \in Crew /\ Building(t, p))
  /\ \A w \in Crew : p \in injects'[w] => p \in injects[w]
  /\ t \in Crew /\ Building(t, p)' => \E w \in Crew : p \in injects[w]
  /\ AtBody(t, p)' => AtBody(t, p) \/ p \in roll
  /\ p \in admitted => p \in admitted'

LEMMA NewcomerStays ==
  ASSUME NewInv, NEW t \in Hands, Alone(t), NEW p \in Newcomers, p # t, Foreign(t, p)
  PROVE  /\ thread'[p].at \in {"off", "admitted", "entered", "enqueued", "done"}
         /\ thread'[p].at \in {"admitted", "entered", "enqueued"} => p \in admitted'
         /\ thread'[p].at \in {"off", "admitted"} => Unborn(p)'
<1>1. thread'[p] = thread[p]
  BY HandFacts DEF Alone
<1>2. ASSUME thread[p].at \in {"off", "admitted"} PROVE Unborn(p)'
  <2>1. Unborn(p)
    BY <1>2 DEF NewInv
  <2>2. p \notin roll' /\ seat'[p] = "none" /\ \A w \in Crew : p \notin injects'[w]
    BY <2>1 DEF Unborn, Foreign
  <2>3. \A w \in Crew : ~Building(w, p)'
    BY <2>1, OthersSame, HandFacts DEF Unborn, Foreign
  <2>4. \A x \in Hands : ~AtBody(x, p)'
    BY <2>1, OthersSame DEF Unborn, Foreign
  <2>5. QED
    BY <2>2, <2>3, <2>4 DEF Unborn
<1>3. QED
  BY <1>1, <1>2 DEF NewInv, Foreign

(* The workers shutdown is through with stay so. *)
LEMMA DeadStays ==
  ASSUME DeadInv, NEW t \in Hands, Alone(t), deadMark \subseteq deadMark', deadMark' \subseteq deadMark \cup {t},
         joined' = joined, t \in Crew => ~HandAt(t, "gone"), t \in Crew /\ t \in deadMark' => Doomed(t)'
  PROVE  DeadInv'
<1> SUFFICES ASSUME NEW w \in Crew
             PROVE  (w \in deadMark' => Doomed(w)') /\ (w \in joined' => w \in deadMark' \/ HandAt(w, "gone")')
  BY DEF DeadInv
<1>1. CASE w = t
  BY <1>1 DEF DeadInv
<1>2. CASE w # t
  BY <1>2, OthersSame, HandFacts DEF DeadInv
<1>3. QED
  BY <1>1, <1>2

(* What shutdown finalizes does not grow by the steps of others. *)
LEMMA SettlingStays ==
  ASSUME SettleInv, NEW t \in Hands, t # "shutdown", Alone(t), joined' = joined, lost \subseteq lost',
         Settling => /\ \A w \in Crew : injects'[w] \subseteq injects[w]
                     /\ \A p \in roll' : seat'[p] = "present" => p \in roll /\ seat[p] = "present"
  PROVE  SettleInv'
<1>1. thread'["shutdown"] = thread["shutdown"]
  BY HandFacts DEF Alone
<1>2. Settling' <=> Settling
  BY <1>1 DEF Settling
<1>3. \A p : OnList(p)' <=> OnList(p)
  BY <1>1 DEF OnList
<1>4. HandAt("shutdown", "returned")' => thread'["shutdown"].todo = {}
  BY <1>1 DEF HandAt, SettleInv
<1>5. ASSUME Settling
      PROVE  /\ joined' = Crew /\ \A w \in Crew : injects'[w] = {}
             /\ \A p \in roll' \ lost' : seat'[p] = "present" => OnList(p)'
  BY <1>3, <1>5 DEF SettleInv
<1>6. QED
  BY <1>2, <1>4, <1>5 DEF SettleInv

(* While shutdown finalizes, a worker that may still run a process is not. *)
LEMMA BusyWorker ==
  ASSUME CareInv, NEW w \in Crew, ~Doomed(w)
  PROVE  ~Settling /\ w \notin deadMark /\ w \notin joined
<1>1. ~HandAt(w, "gone")
  BY DEF Doomed, HandAt
<1>2. QED
  BY <1>1 DEF CareInv, DeadInv, SettleInv

(* A thread goes on, with no process entering or leaving the table and no   *)
(* body made, taken or removed.                                             *)
LEMMA QuietParts ==
  ASSUME CareInv, NEW t \in Hands, t \notin Newcomers, Alone(t), UNCHANGED <<roll, seat>>, lost \subseteq lost',
         \A p \in Newcomers : p \in admitted => p \in admitted',
         \A w \in Crew : injects'[w] \subseteq injects[w],
         thread[t].at # "body", thread'[t].at # "body",
         \A p \in Everyone : Building(t, p)' => \E w \in Crew : p \in injects[w],
         \A p \in Everyone : Keeps(t, p)
  PROVE  SeatTypes' /\ NewInv' /\ BodyInv'
<1>1. SeatTypes'
  BY DEF CareInv, SeatTypes
<1>2. \A p : ~AtBody(t, p)'
  BY DEF AtBody, HandAt
<1>3. NewInv'
  <2> SUFFICES ASSUME NEW p \in Newcomers
               PROVE  /\ thread'[p].at \in {"off", "admitted", "entered", "enqueued", "done"}
                      /\ thread'[p].at \in {"admitted", "entered", "enqueued"} => p \in admitted'
                      /\ thread'[p].at \in {"off", "admitted"} => Unborn(p)'
    BY DEF NewInv
  <2>1. Foreign(t, p) /\ p # t
    BY <1>2, HandFacts DEF Foreign
  <2>2. QED
    BY <2>1, NewcomerStays DEF CareInv
<1>4. \A x \in Hands : HandAt(x, "body")' => thread'[x].pid \in Everyone \ roll'
  <2> SUFFICES ASSUME NEW x \in Hands, HandAt(x, "body")' PROVE thread'[x].pid \in Everyone \ roll'
    OBVIOUS
  <2>1. thread'[x] = thread[x]
    BY DEF Alone, HandAt
  <2>2. QED
    BY <2>1 DEF CareInv, BodyInv, HandAt
<1>5. \A p \in Everyone \ lost' : CareOf(p)'
  BY KeepsCare DEF CareInv, BodyInv
<1>6. QED
  BY <1>1, <1>3, <1>4, <1>5 DEF BodyInv

(* The same, of a thread other than shutdown. *)
LEMMA QuietStep ==
  ASSUME CareInv, NEW t \in Hands, t \notin Newcomers, t # "shutdown", Alone(t), UNCHANGED <<roll, seat, joined>>,
         lost \subseteq lost', \A p \in Newcomers : p \in admitted => p \in admitted',
         \A w \in Crew : injects'[w] \subseteq injects[w],
         thread[t].at # "body", thread'[t].at # "body",
         deadMark \subseteq deadMark', deadMark' \subseteq deadMark \cup {t},
         t \in Crew => ~HandAt(t, "gone"), t \in Crew /\ t \in deadMark' => Doomed(t)',
         \A p \in Everyone : Building(t, p)' => \E w \in Crew : p \in injects[w],
         \A p \in Everyone : Keeps(t, p)
  PROVE  CareInv'
<1>1. SeatTypes' /\ NewInv' /\ BodyInv'
  BY QuietParts
<1>2. DeadInv'
  BY DeadStays DEF CareInv
<1>3. SettleInv'
  <2>1. \A p \in roll' : seat'[p] = "present" => p \in roll /\ seat[p] = "present"
    OBVIOUS
  <2>2. SettleInv
    BY DEF CareInv
  <2>3. QED
    BY <2>1, <2>2, SettlingStays
<1>4. QED
  BY <1>1, <1>2, <1>3 DEF CareInv

(* A worker that may still run a process, likewise. *)
LEMMA QuietWorker ==
  ASSUME CareInv, NEW w \in Crew, ~Doomed(w), Alone(w), UNCHANGED <<roll, seat, joined, deadMark>>,
         lost \subseteq lost', \A p \in Newcomers : p \in admitted => p \in admitted',
         \A v \in Crew : injects'[v] \subseteq injects[v],
         thread[w].at # "body", thread'[w].at # "body",
         \A p \in Everyone : Building(w, p)' => \E v \in Crew : p \in injects[v],
         \A p \in Everyone : Keeps(w, p)
  PROVE  CareInv'
<1>1. w \in Hands /\ w \notin Newcomers /\ w # "shutdown"
  BY HandFacts
<1>2. w \notin deadMark' /\ ~HandAt(w, "gone")
  BY BusyWorker DEF Doomed, HandAt
<1>3. deadMark \subseteq deadMark' /\ deadMark' \subseteq deadMark \cup {w}
  OBVIOUS
<1>4. QED
  BY <1>1, <1>2, <1>3, QuietStep

(* A worker's loop and dirty calls, but for the steps that touch a body. *)
LEMMA LoopCares ==
  ASSUME TdTypes, CareInv, NEW w \in Crew,
         LeaveLoop(w) \/ PopRequest(w) \/ ReserveDirty(w) \/ SubmitDirty(w) \/ SliceReturns(w)
  PROVE  CareInv'
<1> USE HandFacts DEF books, admission, latchVars, tdGhosts
<1>0. w \in Hands /\ w \notin Newcomers /\ thread[w].pid \in AnyPid
  BY DEF TdTypes, HandRecords
<1>1. /\ UNCHANGED <<roll, seat, joined, deadMark, lost>> /\ thread[w].at \in {"loop", "slice", "submit", "sliceDone"}
      /\ \A p \in Newcomers : p \in admitted => p \in admitted'
  BY <1>0 DEF LeaveLoop, PopRequest, ReserveDirty, SubmitDirty, SliceReturns, HandAt
<1>2. ~Doomed(w)
  BY <1>1 DEF Doomed
<1>3. /\ {"leave", "building", "loop", "submit", "exiting", "store"} \subseteq Steps
      /\ NoOne \in AnyPid /\ Everyone \subseteq AnyPid
  BY DEF Steps, Backs, AnyPid
<1>4. CASE LeaveLoop(w) \/ SliceReturns(w)
  <2>1. UNCHANGED injects /\ thread[w].at \in {"loop", "sliceDone"}
    BY <1>4 DEF LeaveLoop, SliceReturns, HandAt
  <2>2. Alone(w) /\ thread'[w].at \in {"leave", "loop"}
    <3>1. CASE LeaveLoop(w)
      BY <1>0, <1>3, <3>1, MoveEffect DEF LeaveLoop
    <3>2. CASE SliceReturns(w)
      <4>1. thread' = [thread EXCEPT ![w].at = "loop", ![w].pid = NoOne] /\ "loop" \in Steps
        BY <1>3, <3>2 DEF SliceReturns
      <4>2. Alone(w) /\ thread'[w].at = "loop"
        BY <1>0, <1>3, <4>1, PidEffect
      <4>3. QED
        BY <4>2
    <3>3. QED
      BY <1>4, <3>1, <3>2
  <2>3. \A p \in Everyone : ~Building(w, p)' /\ Keeps(w, p)
    BY <1>0, <1>1, <2>1, <2>2 DEF Keeps, AtBody, Building, Ending, Holding, HandAt
  <2>4. QED
    BY <1>1, <1>2, <2>1, <2>2, <2>3, QuietWorker
<1>5. CASE PopRequest(w)
  <2>1. PICK p \in injects[w] : /\ injects' = [injects EXCEPT ![w] = @ \ {p}]
                                /\ thread' = [thread EXCEPT ![w].at = "building", ![w].pid = p]
    BY <1>5 DEF PopRequest
  <2>2. p \in AnyPid /\ "building" \in Steps /\ thread[w].at = "loop"
    BY <1>3, <1>5 DEF TdTypes, PopRequest, HandAt
  <2>2a. thread' = [thread EXCEPT ![w].at = "building", ![w].pid = p]
    BY <2>1
  <2>3. Alone(w) /\ thread'[w].at = "building" /\ thread'[w].pid = p
    <3> HIDE HandFacts DEF books, admission, latchVars, tdGhosts
    <3>1. w \in Hands /\ p \in AnyPid /\ "building" \in Steps
      BY <1>0, <2>2
    <3>2. QED
      BY <2>2a, <3>1, PidEffect
  <2>4. /\ \A v \in Crew : injects'[v] \subseteq injects[v]
        /\ \A v \in Crew, q \in Everyone : q \in injects[v] => q \in injects'[v] \/ q = p
    BY <2>1 DEF TdTypes
  <2>5. \A q \in Everyone : Building(w, q)' => q = p
    BY <2>3 DEF Building
  <2>6. Building(w, p)'
    BY <2>3 DEF Building, HandAt
  <2>7. \A q \in Everyone : Keeps(w, q)
    BY <1>0, <1>1, <2>2, <2>4, <2>6 DEF Keeps, AtBody, Building, Ending, Holding, HandAt
  <2>8. QED
    BY <1>1, <1>2, <2>1, <2>2, <2>3, <2>4, <2>5, <2>7, QuietWorker
<1>6. CASE ReserveDirty(w) \/ SubmitDirty(w)
  <2>1. UNCHANGED injects /\ thread[w].at \in {"slice", "submit"}
    BY <1>6 DEF ReserveDirty, SubmitDirty, HandAt
  <2>2. PICK l \in {"submit", "exiting", "store"} : Move(w, l)
    BY <1>6 DEF ReserveDirty, SubmitDirty
  <2>3. Alone(w) /\ thread'[w].at = l /\ thread'[w].pid = thread[w].pid
    BY <1>0, <1>3, <2>2, MoveEffect
  <2>4. \A p \in Everyone : ~Building(w, p)' /\ Keeps(w, p)
    BY <1>0, <1>1, <2>1, <2>3 DEF Keeps, AtBody, Building, Ending, Holding, HandAt
  <2>5. QED
    BY <1>1, <1>2, <2>1, <2>3, <2>4, QuietWorker
<1>7. QED
  BY <1>4, <1>5, <1>6

(* A worker dies and is recovered. What it was building is lost, and so is  *)
(* what it ran if that had a tombstone.                                     *)
LEMMA DeathCares ==
  ASSUME TdTypes, CareInv, NEW w \in Crew, WorkerDies(w) \/ Recover(w) \/ RestartWorker(w)
  PROVE  CareInv'
<1> USE HandFacts DEF books, admission, latchVars, tdGhosts
<1>0. w \in Hands /\ w \notin Newcomers /\ thread[w].pid \in AnyPid /\ thread[w].back \in Backs
  BY DEF TdTypes, HandRecords
<1>1. /\ UNCHANGED <<roll, seat, joined, deadMark, injects>> /\ lost \subseteq lost'
      /\ \A p \in Newcomers : p \in admitted => p \in admitted'
  BY <1>0 DEF WorkerDies, Recover, RestartWorker
<1>2. /\ {"died", "restart", "latch", "loop"} \subseteq Steps /\ NoOne \in AnyPid
      /\ {"restart", "loop", "running", "parked", "scheduling"} \subseteq Backs
  BY DEF Steps, Backs, AnyPid
<1>3. CASE WorkerDies(w)
  <2> DEFINE running == thread[w].at \in RunningAt /\ (thread[w].at \in {"tomb", "token"} => thread[w].back = "sliceDone")
  <2>1. PICK site \in IF running THEN {"running"}
                      ELSE CASE thread[w].at = "loop" -> {"parked", "scheduling"}
                             [] thread[w].at = "building" -> {"scheduling"}
                             [] OTHER -> {} :
          /\ thread' = [thread EXCEPT ![w].at = "died", ![w].back = site, ![w].pid = IF running THEN @ ELSE NoOne]
          /\ lost' = IF thread[w].at = "building" THEN lost \cup {thread[w].pid} ELSE lost
    BY <1>3 DEF WorkerDies
  <2>2. thread[w].at \in RunningAt \cup {"loop", "building"} /\ (running => site = "running")
    BY <2>1
  <2>3. thread[w].at \in {"tomb", "token"} => thread[w].back = "sliceDone"
    BY <2>1
  <2>4. PICK p \in AnyPid : /\ thread' = [thread EXCEPT ![w].at = "died", ![w].back = site, ![w].pid = p]
                            /\ running => p = thread[w].pid
    BY <1>0, <1>2, <2>1
  <2>5. site \in Backs /\ "died" \in Steps /\ p \in AnyPid
    BY <1>2, <2>1, <2>4
  <2>5a. thread' = [thread EXCEPT ![w].at = "died", ![w].back = site, ![w].pid = p]
    BY <2>4
  <2>6. Alone(w) /\ thread'[w].at = "died" /\ thread'[w].pid = p /\ thread'[w].back = site
    <3> HIDE HandFacts DEF books, admission, latchVars, tdGhosts, running
    <3>1. w \in Hands
      BY <1>0
    <3>2. Alone(w) /\ thread'[w].at = "died"
      BY <2>5, <2>5a, <3>1, BackPidEffect
    <3>3. thread'[w].pid = p
      BY <2>5a, <3>1 DEF TdTypes, HandRecords
    <3>4. thread'[w].back = site
      BY <2>5a, <3>1 DEF TdTypes, HandRecords
    <3>5. QED
      BY <3>2, <3>3, <3>4
  <2>7. ~Doomed(w)
    BY <2>2, <2>3 DEF Doomed, RunningAt
  <2>8. \A q \in Everyone : Holding(w, q) => Holding(w, q)'
    <3> SUFFICES ASSUME NEW q \in Everyone, Holding(w, q) PROVE Holding(w, q)'
      OBVIOUS
    <3>1. running
      BY <2>2, <2>3 DEF Holding, RunningAt
    <3>2. QED
      BY <2>2, <2>4, <2>6, <3>1 DEF Holding
  <2>9. \A q \in Everyone : ~Building(w, q)' /\ ~AtBody(w, q) /\ ~Ending(w, q) /\ (Building(w, q) => q \in lost')
    BY <2>1, <2>2, <2>3, <2>6 DEF Building, AtBody, Ending, HandAt, RunningAt
  <2>10. \A q \in Everyone : Keeps(w, q)
    BY <1>0, <1>1, <2>2, <2>8, <2>9 DEF Keeps, HandAt, RunningAt
  <2>11. thread[w].at # "body"
    BY <2>2 DEF RunningAt
  <2>12. QED
    BY <1>1, <2>6, <2>7, <2>9, <2>10, <2>11, QuietWorker
<1>4. CASE Recover(w)
  <2>1. PICK tier \in Tiers(w) :
          /\ IF tier = "kill" /\ thread[w].pid \notin graves
             THEN Calls(w, thread[w].pid, "restart")
             ELSE Move(w, IF tier = "kill" THEN "restart" ELSE tier)
          /\ lost' = IF tier = "kill" /\ thread[w].pid \in graves /\ seat[thread[w].pid] = "executing"
                     THEN lost \cup {thread[w].pid} ELSE lost
    BY <1>4 DEF Recover
  <2>2. tier \in {"latch", "restart", "kill"} /\ (tier = "restart" => thread[w].back = "parked")
    BY DEF Tiers
  <2>3. thread[w].at = "died"
    BY <1>4 DEF Recover, HandAt
  <2>4. /\ Alone(w) /\ thread'[w].pid = thread[w].pid
        /\ \/ thread'[w].at = "tomb" /\ thread'[w].back = "restart"
           \/ thread'[w].at = "latch"
           \/ thread'[w].at = "restart" /\ tier = "restart"
           \/ thread'[w].at = "restart" /\ tier = "kill" /\ thread[w].pid \in graves
    <3>1. CASE tier = "kill" /\ thread[w].pid \notin graves
      BY <1>0, <1>2, <2>1, <3>1, CallsEffect
    <3>2. CASE tier = "kill" /\ thread[w].pid \in graves
      <4>1. Move(w, "restart")
        BY <2>1, <3>2
      <4>2. QED
        BY <1>0, <1>2, <3>2, <4>1, MoveEffect
    <3>3. CASE tier \in {"latch", "restart"}
      <4>1. Move(w, tier) /\ tier \in Steps
        BY <1>2, <2>1, <3>3
      <4>2. QED
        BY <1>0, <3>3, <4>1, MoveEffect
    <3>4. QED
      BY <2>2, <3>1, <3>2, <3>3
  <2>5. \A q \in Everyone : Holding(w, q) => Holding(w, q)' \/ q \in lost' \/ seat[q] # "executing"
    <3> SUFFICES ASSUME NEW q \in Everyone, Holding(w, q), seat[q] = "executing" PROVE Holding(w, q)' \/ q \in lost'
      OBVIOUS
    <3>1. thread[w].pid = q /\ thread[w].back = "running"
      BY <2>3 DEF Holding
    <3>2. tier # "restart"
      BY <2>2, <3>1
    <3>3. CASE thread'[w].at \in {"tomb", "latch"}
      BY <2>4, <3>1, <3>3 DEF Holding
    <3>4. CASE tier = "kill" /\ thread[w].pid \in graves
      BY <2>1, <3>1, <3>4
    <3>5. QED
      BY <2>4, <3>2, <3>3, <3>4
  <2>6. \A q \in Everyone : ~Building(w, q)' /\ ~AtBody(w, q) /\ ~Ending(w, q) /\ ~Building(w, q)
    BY <2>3, <2>4 DEF Building, AtBody, Ending, HandAt
  <2>7. \A q \in Everyone : Keeps(w, q)
    BY <1>0, <1>1, <2>3, <2>5, <2>6 DEF Keeps, HandAt
  <2>8. ~Doomed(w) /\ thread'[w].at # "body"
    BY <2>3, <2>4 DEF Doomed
  <2>9. QED
    BY <1>1, <2>3, <2>4, <2>6, <2>7, <2>8, QuietWorker
<1>5. CASE RestartWorker(w)
  <2>1. thread' = [thread EXCEPT ![w].at = "loop", ![w].pid = NoOne, ![w].back = "loop"] /\ thread[w].at = "restart"
    BY <1>5 DEF RestartWorker, HandAt
  <2>2. Alone(w) /\ thread'[w].at = "loop"
    <3>1. "loop" \in Steps /\ "loop" \in Backs /\ NoOne \in AnyPid
      BY <1>2
    <3>2. QED
      BY <1>0, <2>1, <3>1, PidBackEffect
  <2>3. \A p \in Everyone : ~Building(w, p)' /\ Keeps(w, p)
    BY <1>0, <1>1, <2>1, <2>2 DEF Keeps, AtBody, Building, Ending, Holding, HandAt
  <2>4. ~Doomed(w)
    BY <2>1 DEF Doomed
  <2>5. QED
    BY <1>1, <2>1, <2>2, <2>3, <2>4, QuietWorker
<1>6. QED
  BY <1>3, <1>4, <1>5

(* A worker's way out after a latched failure, or after its loop. *)
LEMMA LeavingCares ==
  ASSUME TdTypes, CareInv, NEW w \in Crew,
         \/ LatchFailure(w) \/ TellCallback(w) \/ StopAll(w) \/ FinalizeUnwound(w) \/ LeaveWorker(w)
         \/ Settle(w, "gone")
  PROVE  CareInv'
<1> USE HandFacts DEF books, admission, latchVars, tdGhosts
<1>0. w \in Hands /\ w \notin Newcomers /\ w # "shutdown" /\ thread[w].pid \in AnyPid
  BY DEF TdTypes, HandRecords
<1>1. /\ UNCHANGED <<roll, seat, joined, lost, admitted>>
      /\ thread[w].at \in {"latch", "tell", "stop", "unwound", "leave", "settle"}
      /\ deadMark \subseteq deadMark' /\ deadMark' \subseteq deadMark \cup {w}
  BY DEF LatchFailure, TellCallback, StopAll, FinalizeUnwound, LeaveWorker, Settle, HandAt
<1>2. /\ {"unwound", "tell", "stop", "leave", "gone", "settle"} \subseteq Steps
      /\ {"leave", "loop", "settle"} \subseteq Backs
  BY DEF Steps, Backs
<1>3. ~HandAt(w, "gone") /\ thread[w].at # "body"
  BY <1>1 DEF HandAt
<1>4. \A p \in Everyone : ~Building(w, p) /\ ~AtBody(w, p) /\ ~Ending(w, p) /\ ~(w = p /\ HandAt(p, "entered"))
  BY <1>1 DEF Building, AtBody, Ending, HandAt
<1>5. ASSUME Alone(w), UNCHANGED injects, Doomed(w)', thread'[w].at \notin {"body", "building"},
             \A p \in Everyone : Holding(w, p) => Holding(w, p)'
      PROVE  CareInv'
  <2>1. \A p \in Everyone : ~Building(w, p)' /\ Keeps(w, p)
    BY <1>0, <1>1, <1>4, <1>5 DEF Keeps, Building, HandAt
  <2>2. \A v \in Crew : injects'[v] \subseteq injects[v]
    BY <1>5
  <2>3. QED
    BY <1>0, <1>1, <1>3, <1>5, <2>1, <2>2, QuietStep
<1>6. CASE LatchFailure(w)
  <2>1. PICK l \in {"unwound", "tell"} : thread' = [thread EXCEPT ![w].at = l, ![w].back = "loop"]
    BY <1>6 DEF LatchFailure
  <2>2. Alone(w) /\ thread'[w].at = l /\ thread'[w].pid = thread[w].pid
    <3> HIDE HandFacts DEF books, admission, latchVars, tdGhosts
    <3>1. w \in Hands /\ l \in Steps /\ "loop" \in Backs
      BY <1>0, <1>2
    <3>2. QED
      BY <2>1, <3>1, BackEffect
  <2>3. UNCHANGED injects
    BY <1>6 DEF LatchFailure
  <2>4. QED
    BY <1>5, <2>2, <2>3 DEF Doomed, Holding
<1>7. CASE TellCallback(w) \/ StopAll(w)
  <2>1. PICK l \in {"stop", "unwound"} : Move(w, l)
    BY <1>7 DEF TellCallback, StopAll
  <2>2. Alone(w) /\ thread'[w].at = l /\ thread'[w].pid = thread[w].pid
    BY <1>0, <1>2, <2>1, MoveEffect
  <2>3. UNCHANGED injects
    BY <1>7 DEF TellCallback, StopAll
  <2>4. QED
    BY <1>5, <2>2, <2>3 DEF Doomed, Holding
<1>8. CASE FinalizeUnwound(w)
  <2>1. UNCHANGED injects
    BY <1>8 DEF FinalizeUnwound
  <2>2. CASE thread[w].pid \in Everyone
    <3>1. Calls(w, thread[w].pid, "leave")
      BY <1>8, <2>2 DEF FinalizeUnwound
    <3>2. Alone(w) /\ thread'[w].at = "tomb" /\ thread'[w].back = "leave" /\ thread'[w].pid = thread[w].pid
      BY <1>0, <1>2, <3>1, CallsEffect
    <3>3. QED
      BY <1>5, <2>1, <3>2 DEF Doomed, Holding
  <2>3. CASE thread[w].pid \notin Everyone
    <3>1. Move(w, "leave")
      BY <1>8, <2>3 DEF FinalizeUnwound
    <3>2. Alone(w) /\ thread'[w].at = "leave"
      BY <1>0, <1>2, <3>1, MoveEffect
    <3>3. QED
      BY <1>5, <2>1, <2>3, <3>2 DEF Doomed, Holding
  <2>4. QED
    BY <2>2, <2>3
<1>9. CASE LeaveWorker(w)
  <2> DEFINE left == {p \in Everyone : seat[p] = "present"}
  <2>0. \A p \in Everyone : ~Holding(w, p)
    BY <1>9 DEF LeaveWorker, Holding, HandAt
  <2>1. \/ UNCHANGED injects /\ Move(w, "gone")
        \/ UNCHANGED injects /\ thread' = [thread EXCEPT ![w].at = "settle", ![w].todo = left]
        \/ \E p \in injects[w] : injects' = [injects EXCEPT ![w] = @ \ {p}] /\ Calls(w, p, "leave")
    BY <1>9 DEF LeaveWorker
  <2>2. left \in SUBSET AnyPid
    BY DEF AnyPid
  <2> HIDE DEF left
  <2>3. CASE UNCHANGED injects /\ Move(w, "gone")
    <3>1. Alone(w) /\ thread'[w].at = "gone"
      BY <1>0, <1>2, <2>3, MoveEffect
    <3>2. QED
      BY <1>5, <2>0, <2>3, <3>1 DEF Doomed
  <2>4. CASE UNCHANGED injects /\ thread' = [thread EXCEPT ![w].at = "settle", ![w].todo = left]
    <3>1. Alone(w) /\ thread'[w].at = "settle"
      <4>1. "settle" \in Steps /\ thread' = [thread EXCEPT ![w].at = "settle", ![w].todo = left]
        BY <1>2, <2>4
      <4>2. QED
        BY <1>0, <2>2, <4>1, TodoEffect
    <3>2. QED
      BY <1>5, <2>0, <2>4, <3>1 DEF Doomed
  <2>5. CASE \E p \in injects[w] : injects' = [injects EXCEPT ![w] = @ \ {p}] /\ Calls(w, p, "leave")
    <3>1. PICK p \in injects[w] : injects' = [injects EXCEPT ![w] = @ \ {p}] /\ Calls(w, p, "leave")
      BY <2>5
    <3>2. p \in AnyPid
      BY DEF TdTypes, AnyPid
    <3>3. Alone(w) /\ thread'[w].at = "tomb" /\ thread'[w].back = "leave" /\ thread'[w].pid = p
      BY <1>0, <1>2, <3>1, <3>2, CallsEffect
    <3>4. /\ \A v \in Crew : injects'[v] \subseteq injects[v]
          /\ \A v \in Crew, q \in Everyone : q \in injects[v] => q \in injects'[v] \/ q = p
      BY <3>1 DEF TdTypes
    <3>5. Ending(w, p)' /\ Doomed(w)' /\ \A q : ~Building(w, q)'
      BY <3>3 DEF Ending, Doomed, Building, HandAt
    <3>6. \A q \in Everyone : Keeps(w, q)
      BY <1>0, <1>1, <1>4, <2>0, <3>4, <3>5 DEF Keeps
    <3>7. QED
      BY <1>0, <1>1, <1>3, <3>3, <3>4, <3>5, <3>6, QuietStep
  <2>6. QED
    BY <2>1, <2>3, <2>4, <2>5
<1>10. CASE Settle(w, "gone")
  <2>1. UNCHANGED injects /\ HandAt(w, "settle")
    BY <1>10 DEF Settle
  <2>2. Alone(w) /\ (thread'[w].at = "gone" \/ (thread'[w].at = "tomb" /\ thread'[w].back = "settle"))
    BY <1>0, <1>2, <1>10, SettleEffect
  <2>3. \A p \in Everyone : ~Holding(w, p)
    BY <2>1 DEF Holding, HandAt
  <2>4. QED
    BY <1>5, <2>1, <2>2, <2>3 DEF Doomed
<1>11. QED
  BY <1>6, <1>7, <1>8, <1>9, <1>10

(* The host's kills and the registration of the callback. *)
LEMMA HostCares ==
  ASSUME TdTypes, CareInv, TerminateProcess \/ SignalExecuting \/ RegisterCallback \/ RegisteredCall
  PROVE  CareInv'
<1> USE HandFacts DEF books, admission, latchVars, tdGhosts
<1>1. UNCHANGED <<roll, seat, injects, joined, lost, admitted, deadMark>>
  BY DEF TerminateProcess, SignalExecuting, RegisterCallback, RegisteredCall
<1>2. PICK t \in {"host", "registrar"} :
        /\ thread[t].at \in {"off", "call"}
        /\ (\E p \in roll : Calls(t, p, "done")) \/ (\E l \in {"done", "call"} : Move(t, l))
  BY DEF TerminateProcess, SignalExecuting, RegisterCallback, RegisteredCall, HandAt
<1>3. Alone(t) /\ thread'[t].at \in {"tomb", "done", "call"}
  <2>1. CASE \E p \in roll : Calls(t, p, "done")
    <3>1. PICK p \in roll : Calls(t, p, "done")
      BY <2>1
    <3>2. p \in AnyPid /\ "done" \in Backs
      BY DEF TdTypes, AnyPid, Backs
    <3>3. QED
      BY <3>1, <3>2, CallsEffect
  <2>2. CASE \E l \in {"done", "call"} : Move(t, l)
    BY <2>2, MoveEffect DEF Steps, Backs
  <2>3. QED
    BY <1>2, <2>1, <2>2
<1>4. t \in Hands /\ t \notin Newcomers /\ t \notin Crew /\ t # "shutdown" /\ t \notin Everyone
  BY TeardownAssumption
<1>5. \A p \in Everyone : ~Building(t, p)' /\ Keeps(t, p)
  BY <1>1, <1>2, <1>3, <1>4 DEF Keeps, AtBody, Building, Ending, Holding, HandAt
<1>6. /\ \A v \in Crew : injects'[v] \subseteq injects[v]
      /\ thread[t].at # "body" /\ thread'[t].at # "body"
      /\ deadMark \subseteq deadMark' /\ deadMark' \subseteq deadMark \cup {t} /\ lost \subseteq lost'
  BY <1>1, <1>2, <1>3
<1>7. QED
  BY <1>1, <1>3, <1>4, <1>5, <1>6, QuietStep

(* A worker makes a body, takes one or puts one back. *)
LEMMA SeatStep ==
  ASSUME CareInv, NEW w \in Crew, ~Doomed(w), Alone(w), UNCHANGED <<roll, joined, deadMark, injects, admitted>>,
         lost \subseteq lost', SeatTypes', thread[w].at # "body", thread'[w].at \notin {"body", "building"},
         NEW p, \A q \in Everyone : q # p => Keeps(w, q),
         p \in Everyone => p \in lost' \/ CareOf(p)',
         p \in Everyone /\ p \notin roll /\ seat[p] = "none" => seat'[p] = "none" \/ Building(w, p)
  PROVE  CareInv'
<1>0. w \in Hands /\ w \notin Newcomers /\ w # "shutdown"
  BY HandFacts
<1>1. \A q : ~AtBody(w, q)' /\ ~Building(w, q)'
  BY DEF AtBody, Building, HandAt
<1>2. NewInv'
  <2> SUFFICES ASSUME NEW q \in Newcomers
               PROVE  /\ thread'[q].at \in {"off", "admitted", "entered", "enqueued", "done"}
                      /\ thread'[q].at \in {"admitted", "entered", "enqueued"} => q \in admitted'
                      /\ thread'[q].at \in {"off", "admitted"} => Unborn(q)'
    BY DEF NewInv
  <2>1. q \in Everyone /\ q # w
    BY <1>0, HandFacts
  <2>2. q \notin roll /\ seat[q] = "none" => seat'[q] = "none" \/ Building(w, q)
    BY <2>1 DEF Keeps
  <2>3. Foreign(w, q)
    BY <1>1, <2>2 DEF Foreign
  <2>4. QED
    BY <1>0, <2>1, <2>3, NewcomerStays DEF CareInv
<1>3. DeadInv'
  <2>1. w \notin deadMark' /\ ~HandAt(w, "gone")
    BY BusyWorker DEF Doomed, HandAt
  <2>2. QED
    BY <1>0, <2>1, DeadStays DEF CareInv
<1>4. BodyInv'
  <2>1. \A x \in Hands : HandAt(x, "body")' => thread'[x].pid \in Everyone \ roll'
    <3> SUFFICES ASSUME NEW x \in Hands, HandAt(x, "body")' PROVE thread'[x].pid \in Everyone \ roll'
      OBVIOUS
    <3>1. thread'[x] = thread[x]
      BY DEF Alone, HandAt
    <3>2. QED
      BY <3>1 DEF CareInv, BodyInv, HandAt
  <2>2. ASSUME NEW q \in Everyone \ lost' PROVE CareOf(q)'
    <3>1. CASE q = p
      BY <2>2, <3>1
    <3>2. CASE q # p
      BY <1>0, <2>2, <3>2, KeepsCare DEF CareInv, BodyInv
    <3>3. QED
      BY <3>1, <3>2
  <2>3. QED
    BY <2>1, <2>2 DEF BodyInv
<1>5. SettleInv'
  <2>1. ~Settling
    BY BusyWorker
  <2>2. QED
    BY <1>0, <2>1, SettlingStays DEF CareInv
<1>6. QED
  BY <1>2, <1>3, <1>4, <1>5 DEF CareInv

(* materialize_spawn_request, the take of a body, and its return. *)
LEMMA BodiesCared ==
  ASSUME TdTypes, CareInv, NEW w \in Crew,
         Materialize(w) \/ CheckOut(w) \/ StoreExited(w) \/ StoreRunnableBack(w)
  PROVE  CareInv'
<1> USE HandFacts DEF books, admission, latchVars, tdGhosts
<1>0. w \in Hands /\ w \notin Newcomers /\ thread[w].pid \in AnyPid
  BY DEF TdTypes, HandRecords
<1>1. /\ UNCHANGED <<roll, joined, deadMark, injects, admitted>> /\ lost \subseteq lost'
      /\ thread[w].at \in {"building", "loop", "slice", "exiting", "store"}
  BY DEF Materialize, InsertBody, CheckOut, StoreExited, StoreRunnableBack, HandAt
<1>2. ~Doomed(w) /\ thread[w].at # "body" /\ \A q \in Everyone : ~AtBody(w, q) /\ ~Ending(w, q)
  BY <1>1 DEF Doomed, AtBody, Ending, HandAt
<1>3. /\ {"loop", "slice", "sliceDone"} \subseteq Steps /\ "sliceDone" \in Backs
      /\ NoOne \in AnyPid /\ Everyone \subseteq AnyPid
  BY DEF Steps, Backs, AnyPid
<1>4. seat \in [Everyone -> {"none", "present", "executing"}]
  BY DEF CareInv, SeatTypes
<1>5. CASE Materialize(w)
  <2>0. PICK p : p = thread[w].pid
    OBVIOUS
  <2>1. /\ thread[w].at = "building" /\ seat' = [seat EXCEPT ![p] = "present"]
        /\ lost' = IF p \in roll THEN lost ELSE lost \cup {p}
    BY <1>5, <2>0 DEF Materialize, InsertBody, HandAt
  <2>2. Alone(w) /\ thread'[w].at = "loop"
    <3>1. thread' = [thread EXCEPT ![w].at = "loop", ![w].pid = NoOne] /\ "loop" \in Steps
      BY <1>3, <1>5 DEF Materialize
    <3>2. QED
      BY <1>0, <1>3, <3>1, PidEffect
  <2>3. SeatTypes' /\ (p \in Everyone => seat'[p] = "present") /\ \A q \in Everyone : q # p => seat'[q] = seat[q]
    BY <1>4, <2>1 DEF SeatTypes
  <2>4. \A q \in Everyone : q # p => Keeps(w, q)
    BY <1>0, <1>1, <1>2, <2>0, <2>1, <2>3 DEF Keeps, Building, Holding, HandAt
  <2>5. p \in Everyone => p \in lost' \/ CareOf(p)'
    BY <1>1, <2>1, <2>3 DEF CareOf
  <2>6. p \in Everyone /\ p \notin roll /\ seat[p] = "none" => Building(w, p)
    BY <2>0, <2>1 DEF Building, HandAt
  <2>7. QED
    BY <1>1, <1>2, <2>2, <2>3, <2>4, <2>5, <2>6, SeatStep
<1>6. CASE CheckOut(w)
  <2>1. PICK p \in Everyone : /\ seat[p] = "present" /\ seat' = [seat EXCEPT ![p] = "executing"]
                              /\ thread' = [thread EXCEPT ![w].at = "slice", ![w].pid = p]
    BY <1>6 DEF CheckOut
  <2>2. Alone(w) /\ thread'[w].at = "slice" /\ thread'[w].pid = p
    <3> HIDE HandFacts DEF books, admission, latchVars, tdGhosts
    <3>1. w \in Hands /\ "slice" \in Steps /\ p \in AnyPid
      BY <1>0, <1>3
    <3>2. thread' = [thread EXCEPT ![w].at = "slice", ![w].pid = p]
      BY <2>1
    <3>3. QED
      BY <3>1, <3>2, PidEffect
  <2>3. SeatTypes' /\ seat'[p] = "executing" /\ \A q \in Everyone : q # p => seat'[q] = seat[q]
    BY <1>4, <2>1 DEF SeatTypes
  <2>4. thread[w].at = "loop" /\ UNCHANGED lost
    BY <1>6 DEF CheckOut, HandAt
  <2>5. \A q \in Everyone : q # p => Keeps(w, q)
    BY <1>0, <1>1, <1>2, <2>3, <2>4 DEF Keeps, Building, Holding, HandAt
  <2>6. p \in lost' \/ CareOf(p)'
    <3>1. CASE p \in lost
      BY <2>4, <3>1
    <3>2. CASE p \notin lost /\ p \notin roll
      <4>1. PICK x \in Hands : AtBody(x, p)
        BY <2>1, <3>2 DEF CareInv, BodyInv, CareOf
      <4>2. x # w
        BY <1>2, <4>1
      <4>3. AtBody(x, p)'
        BY <1>0, <2>2, <4>1, <4>2, OthersSame
      <4>4. QED
        BY <1>1, <3>2, <4>3 DEF CareOf
    <3>3. CASE p \in roll
      <4>1. Holding(w, p)'
        BY <2>2 DEF Holding
      <4>2. QED
        BY <1>1, <2>3, <3>3, <4>1 DEF CareOf
    <3>4. QED
      BY <3>1, <3>2, <3>3
  <2>7. QED
    BY <1>1, <1>2, <2>1, <2>2, <2>3, <2>5, <2>6, SeatStep
<1>7. CASE StoreExited(w) \/ StoreRunnableBack(w)
  <2>0. PICK p : p = thread[w].pid
    OBVIOUS
  <2>1. /\ thread[w].at \in {"slice", "exiting", "store"} /\ UNCHANGED lost
        /\ seat' = [seat EXCEPT ![p] = IF @ = "none" /\ p \notin roll THEN "none" ELSE "present"]
    BY <1>7, <2>0 DEF StoreExited, StoreRunnableBack, StoredBack
  <2>2. Alone(w) /\ thread'[w].at \in {"tomb", "sliceDone"}
    <3>1. Calls(w, p, "sliceDone") \/ Move(w, "sliceDone")
      BY <1>7, <2>0 DEF StoreExited, StoreRunnableBack
    <3>2. CASE Calls(w, p, "sliceDone")
      BY <1>0, <1>3, <2>0, <3>2, CallsEffect
    <3>3. CASE Move(w, "sliceDone")
      BY <1>0, <1>3, <3>3, MoveEffect
    <3>4. QED
      BY <3>1, <3>2, <3>3
  <2>3. /\ SeatTypes' /\ \A q \in Everyone : q # p => seat'[q] = seat[q]
        /\ p \in Everyone => seat'[p] = IF seat[p] = "none" /\ p \notin roll THEN "none" ELSE "present"
    BY <1>4, <2>1 DEF SeatTypes
  <2>4. \A q \in Everyone : q # p => Keeps(w, q)
    BY <1>0, <1>1, <1>2, <2>0, <2>1, <2>3 DEF Keeps, Building, Holding, HandAt
  <2>5. p \in Everyone => p \in lost' \/ CareOf(p)'
    <3> SUFFICES ASSUME p \in Everyone, p \notin lost PROVE CareOf(p)'
      BY <2>1
    <3>1. p \in roll => seat'[p] = "present"
      BY <2>3
    <3>2. ASSUME p \notin roll, seat'[p] # "none" PROVE \E x \in Hands : AtBody(x, p)'
      <4>1. seat[p] # "none"
        BY <2>3, <3>2
      <4>2. PICK x \in Hands : AtBody(x, p)
        BY <3>2, <4>1 DEF CareInv, BodyInv, CareOf
      <4>3. x # w
        BY <1>2, <4>2
      <4>4. AtBody(x, p)'
        BY <1>0, <2>2, <4>2, <4>3, OthersSame
      <4>5. QED
        BY <4>4
    <3>3. QED
      BY <1>1, <3>1, <3>2 DEF CareOf
  <2>6. p \in Everyone /\ p \notin roll /\ seat[p] = "none" => seat'[p] = "none"
    BY <2>3
  <2>7. thread'[w].at \notin {"body", "building"}
    BY <2>2
  <2>8. QED
    BY <1>1, <1>2, <2>2, <2>3, <2>4, <2>5, <2>6, <2>7, SeatStep
<1>8. QED
  BY <1>5, <1>6, <1>7

(* A spawn under way touches its own process only. *)
LEMMA SpawnStep ==
  ASSUME CareInv, NEW p \in Newcomers, Alone(p), UNCHANGED <<joined, deadMark>>, lost \subseteq lost', SeatTypes',
         thread[p].at \in {"off", "admitted", "entered", "enqueued"},
         thread'[p].at \in {"admitted", "entered", "enqueued", "done"},
         thread'[p].at \in {"admitted", "entered", "enqueued"} => p \in admitted',
         thread'[p].at = "admitted" => Unborn(p)',
         \A q \in Everyone : q # p => /\ (q \in roll' <=> q \in roll) /\ seat'[q] = seat[q]
                                      /\ q \in admitted => q \in admitted'
                                      /\ \A w \in Crew : q \in injects'[w] <=> q \in injects[w],
         p \in lost' \/ CareOf(p)',
         \A x \in Hands : AtBody(x, p) => p \notin roll',
         Settling => UNCHANGED <<roll, seat, injects>>
  PROVE  CareInv'
<1>0. p \in Hands /\ p \notin Crew /\ p # "shutdown" /\ p \in Everyone
  BY HandFacts
<1>1. \A q : ~AtBody(p, q) /\ ~AtBody(p, q)' /\ ~Building(p, q) /\ ~Building(p, q)' /\ ~Ending(p, q) /\ ~Holding(p, q)
  BY DEF AtBody, Building, Ending, Holding, HandAt
<1>2. NewInv'
  <2> SUFFICES ASSUME NEW q \in Newcomers
               PROVE  /\ thread'[q].at \in {"off", "admitted", "entered", "enqueued", "done"}
                      /\ thread'[q].at \in {"admitted", "entered", "enqueued"} => q \in admitted'
                      /\ thread'[q].at \in {"off", "admitted"} => Unborn(q)'
    BY DEF NewInv
  <2>1. CASE q = p
    BY <2>1
  <2>2. CASE q # p
    <3>1. Foreign(p, q) /\ q \in Everyone
      BY <1>0, <1>1, <2>2, HandFacts DEF Foreign
    <3>2. QED
      BY <1>0, <2>2, <3>1, NewcomerStays DEF CareInv
  <2>3. QED
    BY <2>1, <2>2
<1>3. DeadInv'
  BY <1>0, DeadStays DEF CareInv
<1>4. BodyInv'
  <2>1. \A x \in Hands : HandAt(x, "body")' => thread'[x].pid \in Everyone \ roll'
    <3> SUFFICES ASSUME NEW x \in Hands, HandAt(x, "body")' PROVE thread'[x].pid \in Everyone \ roll'
      OBVIOUS
    <3>1. thread'[x] = thread[x]
      BY DEF Alone, HandAt
    <3>2. thread[x].pid \in Everyone \ roll /\ AtBody(x, thread[x].pid)
      BY <3>1 DEF CareInv, BodyInv, HandAt, AtBody
    <3>3. thread[x].pid \notin roll'
      BY <3>2
    <3>4. QED
      BY <3>1, <3>2, <3>3
  <2>2. ASSUME NEW q \in Everyone \ lost' PROVE CareOf(q)'
    <3>1. CASE q = p
      BY <2>2, <3>1
    <3>2. CASE q # p
      <4>1. Keeps(p, q)
        BY <1>0, <1>1, <3>2 DEF Keeps
      <4>2. QED
        BY <1>0, <2>2, <4>1, KeepsCare DEF CareInv, BodyInv
    <3>3. QED
      BY <3>1, <3>2
  <2>3. QED
    BY <2>1, <2>2 DEF BodyInv
<1>5. SettleInv'
  <2>1. Settling => /\ \A w \in Crew : injects'[w] \subseteq injects[w]
                    /\ \A q \in roll' : seat'[q] = "present" => q \in roll /\ seat[q] = "present"
    OBVIOUS
  <2>2. QED
    BY <1>0, <2>1, SettlingStays DEF CareInv
<1>6. QED
  BY <1>2, <1>3, <1>4, <1>5 DEF CareInv

(* A spawn holds an admission, which shutdown waits out. *)
LEMMA AdmittedNotSettling ==
  ASSUME TdInv, CareInv, NEW p \in Newcomers, thread[p].at \in {"admitted", "entered", "enqueued"}
  PROVE  ~Settling
<1>1. p \in admitted
  BY DEF CareInv, NewInv
<1>2. Settling => thread["shutdown"].at \in Past
  BY DEF Settling, Past
<1>3. QED
  BY <1>1, <1>2 DEF TdInv, BridgeInv

(* A spawn, from its admission to its release. *)
LEMMA SpawnCares ==
  ASSUME TdInv, CareInv, NEW p \in Newcomers, Admit(p) \/ EnterTable(p) \/ EnterQueue(p) \/ ReleaseAdmission(p)
  PROVE  CareInv'
<1> USE HandFacts DEF books, admission, latchVars, tdGhosts
<1>0. TdTypes /\ p \in Hands /\ p \in Everyone
  BY DEF TdInv
<1>1. /\ UNCHANGED <<joined, deadMark>> /\ lost \subseteq lost'
      /\ thread[p].at \in {"off", "admitted", "entered", "enqueued"}
  BY DEF Admit, EnterTable, EnterQueue, InsertBody, ReleaseAdmission, HandAt
<1>2. {"admitted", "entered", "enqueued", "done"} \subseteq Steps
  BY DEF Steps, Backs
<1>3. SeatTypes /\ \A q \in Everyone \ lost : CareOf(q)
  BY DEF CareInv, BodyInv
<1>4. \A q : ~AtBody(p, q) /\ ~Building(p, q) /\ ~Ending(p, q) /\ ~Holding(p, q)
  BY <1>1 DEF AtBody, Building, Ending, Holding, HandAt
<1>5. \A x \in Hands : AtBody(x, p) => p \notin roll
  BY DEF CareInv, BodyInv, AtBody
<1>6. CASE Admit(p) \/ ReleaseAdmission(p)
  <2>1. UNCHANGED <<roll, seat, injects, lost>> /\ thread[p].at \in {"off", "enqueued"}
    BY <1>6 DEF Admit, ReleaseAdmission, HandAt
  <2>2. /\ Alone(p) /\ thread'[p].at \in {"admitted", "done"}
        /\ thread'[p].at = "admitted" => p \in admitted' /\ thread[p].at = "off"
        /\ \A q \in Everyone : q # p /\ q \in admitted => q \in admitted'
    <3>1. CASE Admit(p) /\ MayReserve
      <4>1. Move(p, "admitted") /\ admitted' = admitted \cup {p} /\ thread[p].at = "off"
        BY <3>1 DEF Admit, HandAt
      <4>2. QED
        BY <1>0, <1>2, <4>1, MoveEffect
    <3>2. CASE Admit(p) /\ ~MayReserve
      <4>1. Move(p, "done") /\ admitted' = admitted
        BY <3>2 DEF Admit
      <4>2. QED
        BY <1>0, <1>2, <4>1, MoveEffect
    <3>3. CASE ReleaseAdmission(p)
      <4>1. Move(p, "done") /\ admitted' = admitted \ {p}
        BY <3>3 DEF ReleaseAdmission
      <4>2. QED
        BY <1>0, <1>2, <4>1, MoveEffect
    <3>4. QED
      BY <1>6, <3>1, <3>2, <3>3
  <2>3. thread'[p].at = "admitted" => Unborn(p)'
    <3> SUFFICES ASSUME thread'[p].at = "admitted" PROVE Unborn(p)'
      OBVIOUS
    <3>1. Unborn(p)
      BY <2>2 DEF CareInv, NewInv
    <3>2. \A x \in Hands : x # p => ~AtBody(x, p)' /\ (x \in Crew => ~Building(x, p)')
      BY <1>0, <2>2, <3>1, OthersSame DEF Unborn
    <3>3. ~AtBody(p, p)' /\ p \notin Crew
      BY <2>2 DEF AtBody, HandAt
    <3>4. QED
      BY <2>1, <3>1, <3>2, <3>3 DEF Unborn
  <2>4. p \in lost' \/ CareOf(p)'
    <3>1. Keeps(p, p)
      BY <1>4, <2>1 DEF Keeps, HandAt
    <3>2. CASE p \in lost
      BY <2>1, <3>2
    <3>3. CASE p \notin lost
      BY <1>0, <1>3, <2>2, <3>1, <3>3, KeepsCare
    <3>4. QED
      BY <3>2, <3>3
  <2>5. SeatTypes'
    BY <1>3, <2>1 DEF SeatTypes
  <2>6. QED
    BY <1>1, <1>5, <2>1, <2>2, <2>3, <2>4, <2>5, SpawnStep
<1>7. CASE EnterTable(p)
  <2>1. /\ UNCHANGED <<seat, injects, lost, admitted>> /\ roll' = roll \cup {p} /\ thread[p].at = "admitted"
        /\ Move(p, "entered")
    BY <1>7 DEF EnterTable, HandAt
  <2>2. Alone(p) /\ thread'[p].at = "entered"
    BY <1>0, <1>2, <2>1, MoveEffect
  <2>3. Unborn(p) /\ p \in admitted
    BY <2>1 DEF CareInv, NewInv
  <2>4. CareOf(p)'
    <3>1. Pending(p)'
      BY <2>2 DEF Pending, HandAt
    <3>2. QED
      BY <2>1, <2>3, <3>1 DEF CareOf, Unborn
  <2>5. SeatTypes' /\ ~Settling
    BY <1>3, <2>1, AdmittedNotSettling DEF SeatTypes
  <2>6. \A x \in Hands : ~AtBody(x, p)
    BY <2>3 DEF Unborn
  <2>7. QED
    BY <1>1, <2>1, <2>2, <2>3, <2>4, <2>5, <2>6, SpawnStep
<1>8. CASE EnterQueue(p)
  <2>1. /\ UNCHANGED <<roll, admitted>> /\ thread[p].at = "entered" /\ Move(p, "enqueued")
        /\ \/ (\E w \in Crew : injects' = [injects EXCEPT ![w] = @ \cup {p}]) /\ UNCHANGED <<seat, lost>>
           \/ InsertBody(p) /\ UNCHANGED injects
    BY <1>8 DEF EnterQueue, HandAt
  <2>2. Alone(p) /\ thread'[p].at = "enqueued"
    BY <1>0, <1>2, <2>1, MoveEffect
  <2>3. ~Settling /\ p \in admitted
    BY <2>1, AdmittedNotSettling DEF CareInv, NewInv
  <2>4. CASE (\E w \in Crew : injects' = [injects EXCEPT ![w] = @ \cup {p}]) /\ UNCHANGED <<seat, lost>>
    <3>1. PICK w \in Crew : injects' = [injects EXCEPT ![w] = @ \cup {p}]
      BY <2>4
    <3>2. /\ p \in injects'[w] /\ \A v \in Crew : injects[v] \subseteq injects'[v]
          /\ \A q \in Everyone, v \in Crew : q # p => (q \in injects'[v] <=> q \in injects[v])
      BY <1>0, <3>1 DEF TdTypes
    <3>3. p \in lost' \/ CareOf(p)'
      <4>1. Keeps(p, p)
        BY <1>4, <2>1, <2>4, <3>2 DEF Keeps, HandAt
      <4>2. CASE p \in lost
        BY <2>4, <4>2
      <4>3. CASE p \notin lost
        BY <1>0, <1>3, <2>2, <4>1, <4>3, KeepsCare
      <4>4. QED
        BY <4>2, <4>3
    <3>4. SeatTypes'
      BY <1>3, <2>4 DEF SeatTypes
    <3>5. QED
      BY <1>1, <1>5, <2>1, <2>2, <2>3, <2>4, <3>2, <3>3, <3>4, SpawnStep
  <2>5. CASE InsertBody(p) /\ UNCHANGED injects
    <3>1. seat' = [seat EXCEPT ![p] = "present"] /\ lost' = IF p \in roll THEN lost ELSE lost \cup {p}
      BY <2>5 DEF InsertBody
    <3>2. SeatTypes' /\ seat'[p] = "present" /\ \A q \in Everyone : q # p => seat'[q] = seat[q]
      BY <1>0, <1>3, <3>1 DEF SeatTypes
    <3>3. p \in lost' \/ CareOf(p)'
      BY <2>1, <3>1, <3>2 DEF CareOf
    <3>4. QED
      BY <1>1, <1>5, <2>1, <2>2, <2>3, <2>5, <3>2, <3>3, SpawnStep
  <2>6. QED
    BY <2>1, <2>4, <2>5
<1>9. QED
  BY <1>6, <1>7, <1>8

(* What shutdown has yet to finalize, over its own call of the cleanup. *)
LEMMA CleanupSettles ==
  ASSUME TdInv, SettleInv, Alone("shutdown"), UNCHANGED <<joined, injects, lost>>,
         thread["shutdown"].at \in {"tomb", "token", "body"},
         \/ thread'["shutdown"].at \in {"token", "body"} /\ thread'["shutdown"].back = thread["shutdown"].back
         \/ thread'["shutdown"].at = thread["shutdown"].back,
         thread'["shutdown"].todo = thread["shutdown"].todo,
         \A p \in roll' : seat'[p] = "present" => p \in roll /\ seat[p] = "present",
         thread["shutdown"].at = "tomb" => thread'["shutdown"].at = "token" /\ thread'["shutdown"].pid = thread["shutdown"].pid,
         thread["shutdown"].at = "token" => thread["shutdown"].pid \notin roll'
  PROVE  SettleInv'
<1>1. thread["shutdown"].back \in {"join", "settle"}
  BY DEF TdInv, BridgeInv
<1>2. Settling' => Settling
  BY <1>1 DEF Settling
<1>3. ~HandAt("shutdown", "returned")'
  BY <1>1 DEF HandAt
<1>4. ASSUME Settling, NEW p \in roll' \ lost', seat'[p] = "present" PROVE OnList(p)'
  <2>1. OnList(p)
    BY <1>4 DEF SettleInv
  <2>2. QED
    BY <1>4, <2>1 DEF OnList
<1>5. Settling => joined' = Crew /\ \A w \in Crew : injects'[w] = {}
  BY DEF SettleInv
<1>6. QED
  BY <1>2, <1>3, <1>4, <1>5 DEF SettleInv

(* cleanup_exited_process, on whatever thread it runs. *)
LEMMA CleanupCares ==
  ASSUME TdInv, CareInv, NEW t \in Hands, Tombstone(t) \/ TableToken(t) \/ RemoveBody(t)
  PROVE  CareInv'
<1> USE HandFacts DEF books, admission, latchVars, tdGhosts
<1>0. TdTypes /\ thread[t].back \in Backs /\ SeatTypes
  BY DEF TdInv, TdTypes, HandRecords, CareInv
<1>1. /\ UNCHANGED <<injects, admitted, joined, deadMark, lost>> /\ roll' \subseteq roll
      /\ thread[t].at \in {"tomb", "token", "body"}
  BY DEF Tombstone, TableToken, RemoveBody, HandAt
<1>2. t \notin Newcomers
  BY <1>1 DEF CareInv, NewInv
<1>3. PICK p : p = thread[t].pid
  OBVIOUS
<1>4. /\ Alone(t) /\ thread'[t].todo = thread[t].todo
      /\ \/ /\ thread[t].at = "tomb" /\ thread'[t].at = "token" /\ thread'[t].back = thread[t].back
            /\ thread'[t].pid = p /\ UNCHANGED <<roll, seat>>
         \/ /\ thread[t].at = "token" /\ thread'[t].at = "body" /\ thread'[t].back = thread[t].back
            /\ thread'[t].pid = p /\ p \in roll /\ roll' = roll \ {p} /\ UNCHANGED seat
         \/ /\ thread[t].at = "token" /\ thread'[t].at = thread[t].back
            /\ p \notin roll /\ UNCHANGED <<roll, seat>>
         \/ /\ thread[t].at = "body" /\ thread'[t].at = thread[t].back
            /\ UNCHANGED roll /\ seat' = [seat EXCEPT ![p] = "none"]
  <2>1. CASE Tombstone(t)
    <3>1. Move(t, "token") /\ UNCHANGED <<roll, seat>> /\ thread[t].at = "tomb"
      BY <2>1 DEF Tombstone, HandAt
    <3>2. QED
      BY <1>0, <1>3, <3>1, MoveEffect DEF Steps
  <2>2. CASE TableToken(t)
    <3>1. roll' = roll \ {p} /\ UNCHANGED seat /\ thread[t].at = "token"
      BY <1>3, <2>2 DEF TableToken, HandAt
    <3>2. CASE p \in roll
      <4>1. Move(t, "body")
        BY <1>3, <2>2, <3>2 DEF TableToken
      <4>2. QED
        BY <1>0, <1>3, <3>1, <3>2, <4>1, MoveEffect DEF Steps
    <3>3. CASE p \notin roll
      <4>1. Returns(t) /\ roll' = roll
        BY <1>3, <2>2, <3>1, <3>3 DEF TableToken
      <4>2. QED
        BY <1>0, <3>1, <3>3, <4>1, ReturnsEffect
    <3>4. QED
      BY <3>2, <3>3
  <2>3. CASE RemoveBody(t)
    <3>1. Returns(t) /\ seat' = [seat EXCEPT ![p] = "none"] /\ UNCHANGED roll /\ thread[t].at = "body"
      BY <1>3, <2>3 DEF RemoveBody, HandAt
    <3>2. QED
      BY <1>0, <3>1, ReturnsEffect
  <2>4. QED
    BY <2>1, <2>2, <2>3
<1>5. /\ SeatTypes' /\ \A q \in Everyone : q # p => seat'[q] = seat[q] /\ (q \in roll' <=> q \in roll)
      /\ \A q \in Everyone : seat'[q] = seat[q] \/ seat'[q] = "none"
  BY <1>0, <1>4 DEF SeatTypes
<1>6. thread'[t].at # "building" /\ (thread'[t].at = "body" => thread'[t].pid = p /\ p \in roll /\ p \notin roll')
  BY <1>0, <1>4 DEF Backs
<1>7. NewInv'
  <2> SUFFICES ASSUME NEW q \in Newcomers
               PROVE  /\ thread'[q].at \in {"off", "admitted", "entered", "enqueued", "done"}
                      /\ thread'[q].at \in {"admitted", "entered", "enqueued"} => q \in admitted'
                      /\ thread'[q].at \in {"off", "admitted"} => Unborn(q)'
    BY DEF NewInv
  <2>1. Foreign(t, q) /\ q # t
    BY <1>1, <1>2, <1>5, <1>6 DEF Foreign, Building, AtBody, HandAt
  <2>2. QED
    BY <1>4, <2>1, NewcomerStays DEF CareInv
<1>8. DeadInv'
  <2>1. t \in Crew /\ t \in deadMark => Doomed(t)'
    <3> SUFFICES ASSUME t \in Crew, t \in deadMark PROVE Doomed(t)'
      OBVIOUS
    <3>1. thread[t].back \in {"leave", "settle"}
      BY <1>1 DEF CareInv, DeadInv, Doomed
    <3>2. QED
      BY <1>4, <3>1 DEF Doomed
  <2>2. ~HandAt(t, "gone")
    BY <1>1 DEF HandAt
  <2>3. QED
    BY <1>1, <1>4, <2>1, <2>2, DeadStays DEF CareInv
<1>9. BodyInv'
  <2>1. \A x \in Hands : HandAt(x, "body")' => thread'[x].pid \in Everyone \ roll'
    <3> SUFFICES ASSUME NEW x \in Hands, HandAt(x, "body")' PROVE thread'[x].pid \in Everyone \ roll'
      OBVIOUS
    <3>1. CASE x = t
      BY <1>0, <1>6, <3>1 DEF HandAt, TdTypes
    <3>2. CASE x # t
      <4>1. thread'[x] = thread[x]
        BY <1>4, <3>2 DEF Alone
      <4>2. QED
        BY <1>1, <4>1 DEF CareInv, BodyInv, HandAt
    <3>3. QED
      BY <3>1, <3>2
  <2>2. ASSUME NEW q \in Everyone \ lost', q # p PROVE CareOf(q)'
    <3>1. Keeps(t, q)
      BY <1>1, <1>2, <1>3, <1>5, <2>2 DEF Keeps, AtBody, Building, Ending, Holding, HandAt
    <3>2. QED
      BY <1>1, <1>4, <2>2, <3>1, KeepsCare DEF CareInv, BodyInv
  <2>3. ASSUME p \in Everyone \ lost' PROVE CareOf(p)'
    <3>1. CASE thread[t].at = "tomb"
      <4>1. Keeps(t, p)
        BY <1>1, <1>2, <1>4, <3>1 DEF Keeps, AtBody, Building, Ending, Holding, HandAt
      <4>2. QED
        BY <1>1, <1>4, <2>3, <4>1, KeepsCare DEF CareInv, BodyInv
    <3>2. CASE thread[t].at = "token" /\ p \in roll
      <4>1. AtBody(t, p)' /\ p \notin roll'
        BY <1>4, <3>2 DEF AtBody, HandAt
      <4>2. QED
        BY <4>1 DEF CareOf
    <3>3. CASE thread[t].at = "token" /\ p \notin roll
      <4>1. Keeps(t, p)
        BY <1>1, <1>2, <1>4, <3>3 DEF Keeps, AtBody, Building, HandAt
      <4>2. QED
        BY <1>1, <1>4, <2>3, <4>1, KeepsCare DEF CareInv, BodyInv
    <3>4. CASE thread[t].at = "body"
      <4>1. p \notin roll
        BY <1>3, <3>4 DEF CareInv, BodyInv, HandAt
      <4>2. seat'[p] = "none" /\ p \notin roll'
        BY <1>0, <1>4, <2>3, <3>4, <4>1 DEF SeatTypes
      <4>3. QED
        BY <4>2 DEF CareOf
    <3>5. QED
      BY <1>1, <3>1, <3>2, <3>3, <3>4
  <2>4. QED
    BY <2>1, <2>2, <2>3 DEF BodyInv
<1>10. SettleInv'
  <2>1. \A q \in roll' : seat'[q] = "present" => q \in roll /\ seat[q] = "present"
    BY <1>0, <1>1, <1>5 DEF TdTypes
  <2>2. CASE t = "shutdown"
    <3>1. thread[t].at = "token" => thread[t].pid \notin roll'
      BY <1>3, <1>4
    <3>2. QED
      BY <1>1, <1>3, <1>4, <2>1, <2>2, <3>1, CleanupSettles DEF CareInv
  <2>3. CASE t # "shutdown"
    BY <1>1, <1>4, <2>1, <2>3, SettlingStays DEF CareInv
  <2>4. QED
    BY <2>2, <2>3
<1>11. QED
  BY <1>5, <1>7, <1>8, <1>9, <1>10 DEF CareInv

(* A step of shutdown outside the cleanup. *)
LEMMA ShutdownQuiet ==
  ASSUME CareInv, Alone("shutdown"), UNCHANGED <<roll, seat, lost, admitted, deadMark>>,
         \A w \in Crew : injects'[w] \subseteq injects[w],
         \A w \in Crew, p \in Everyone : p \in injects[w] => p \in injects'[w] \/ Ending("shutdown", p)',
         thread["shutdown"].at \notin {"tomb", "token", "body", "building", "died", "slice", "submit", "exiting", "store",
                                       "latch", "tell", "stop", "unwound"},
         thread'["shutdown"].at \notin {"body", "building"},
         \A w \in Crew : w \in joined' => w \in joined \/ w \in deadMark \/ HandAt(w, "gone")
  PROVE  SeatTypes' /\ NewInv' /\ BodyInv' /\ DeadInv'
<1>0. "shutdown" \in Hands /\ "shutdown" \notin Newcomers /\ "shutdown" \notin Crew /\ "shutdown" \notin Everyone
  BY HandFacts, TeardownAssumption
<1>1. \A p \in Everyone : Keeps("shutdown", p) /\ ~Building("shutdown", p)'
  BY <1>0 DEF Keeps, AtBody, Building, Ending, Holding, HandAt
<1>2. SeatTypes' /\ NewInv' /\ BodyInv'
  BY <1>0, <1>1, QuietParts
<1>3. \A w \in Crew : (Doomed(w)' <=> Doomed(w)) /\ (HandAt(w, "gone")' <=> HandAt(w, "gone"))
  BY <1>0, OthersSame, HandFacts
<1>4. DeadInv'
  BY <1>3 DEF CareInv, DeadInv
<1>5. QED
  BY <1>2, <1>4

(* shutdown, up to the workers it has joined. *)
LEMMA JoiningCares ==
  ASSUME TdTypes, CareInv,
         CloseAdmission \/ HangUp \/ TakeBridges \/ JoinBridges \/ NextWorker \/ JoinWorker
  PROVE  CareInv'
<1> USE HandFacts DEF books, admission, latchVars, tdGhosts
<1>1. /\ UNCHANGED <<roll, seat, injects, lost, admitted, deadMark>>
      /\ thread["shutdown"].at \in {"off", "hangUp", "waitAdmitted", "joinBridges", "join", "await"}
  BY DEF CloseAdmission, HangUp, TakeBridges, JoinBridges, NextWorker, JoinWorker, HandAt
<1>2. Alone("shutdown") /\ thread'["shutdown"].at \in {"hangUp", "waitAdmitted", "joinBridges", "join", "await"}
  <2>1. CASE CloseAdmission \/ HangUp
    <3>1. PICK l \in {"hangUp", "waitAdmitted"} : Move("shutdown", l)
      BY <2>1 DEF CloseAdmission, HangUp
    <3>2. QED
      BY <3>1, MoveEffect DEF Steps
  <2>2. CASE TakeBridges \/ JoinBridges
    <3>1. PICK l \in {"joinBridges", "join"}, s \in {retained, {}} :
            thread' = [thread EXCEPT !["shutdown"].at = l, !["shutdown"].todo = s]
      BY <2>2 DEF TakeBridges, JoinBridges
    <3>2. l \in Steps /\ s \in SUBSET AnyPid
      BY DEF Steps, Backs, TdTypes
    <3>3. Alone("shutdown") /\ thread'["shutdown"].at = l
      BY <3>1, <3>2, TodoEffect
    <3>4. QED
      BY <3>3
  <2>3. CASE NextWorker \/ JoinWorker
    <3>1. PICK l \in {"join", "await"}, p \in Crew \cup {NoOne} :
            \/ UNCHANGED thread
            \/ thread' = [thread EXCEPT !["shutdown"].at = l, !["shutdown"].pid = p]
      BY <2>3 DEF NextWorker, JoinWorker
    <3>2. l \in Steps /\ p \in AnyPid
      BY DEF Steps, Backs, AnyPid
    <3>3. CASE UNCHANGED thread
      BY <2>3, <3>3 DEF Alone, TdTypes, NextWorker, JoinWorker, HandAt
    <3>4. CASE thread' = [thread EXCEPT !["shutdown"].at = l, !["shutdown"].pid = p]
      <4>1. Alone("shutdown") /\ thread'["shutdown"].at = l
        BY <3>2, <3>4, PidEffect
      <4>2. QED
        BY <4>1
    <3>5. QED
      BY <3>1, <3>3, <3>4
  <2>4. QED
    BY <2>1, <2>2, <2>3
<1>3. \A w \in Crew : w \in joined' => w \in joined \/ w \in deadMark \/ HandAt(w, "gone")
  BY DEF CloseAdmission, HangUp, TakeBridges, JoinBridges, NextWorker, JoinWorker, SkipReason
<1>4. SeatTypes' /\ NewInv' /\ BodyInv' /\ DeadInv'
  BY <1>1, <1>2, <1>3, ShutdownQuiet
<1>5. SettleInv'
  BY <1>2 DEF SettleInv, Settling, HandAt
<1>6. QED
  BY <1>4, <1>5 DEF CareInv

(* shutdown finalizes what it finds, once every worker is done with. *)
LEMMA SettlingCares ==
  ASSUME TdTypes, CareInv, DrainRequests \/ Settle("shutdown", "returned")
  PROVE  CareInv'
<1> USE HandFacts DEF books, admission, latchVars, tdGhosts
<1>1. /\ UNCHANGED <<roll, seat, lost, admitted, deadMark, joined>>
      /\ thread["shutdown"].at \in {"join", "settle"}
  BY DEF DrainRequests, Settle, HandAt
<1>2. CASE DrainRequests /\ \E w \in Crew : injects[w] # {}
  <2>1. PICK w \in Crew, p \in Everyone :
          injects' = [injects EXCEPT ![w] = @ \ {p}] /\ Calls("shutdown", p, "join")
    BY <1>2 DEF DrainRequests, TdTypes
  <2>2. p \in AnyPid /\ "join" \in Backs
    BY DEF AnyPid, Backs
  <2>3. /\ Alone("shutdown") /\ thread'["shutdown"].at = "tomb" /\ thread'["shutdown"].back = "join"
        /\ thread'["shutdown"].pid = p
    BY <2>1, <2>2, CallsEffect
  <2>4. /\ \A v \in Crew : injects'[v] \subseteq injects[v]
        /\ \A v \in Crew, q \in Everyone : q \in injects[v] => q \in injects'[v] \/ q = p
    BY <2>1 DEF TdTypes
  <2>5. Ending("shutdown", p)'
    BY <2>3 DEF Ending
  <2>6. SeatTypes' /\ NewInv' /\ BodyInv' /\ DeadInv'
    BY <1>1, <2>3, <2>4, <2>5, ShutdownQuiet
  <2>7. SettleInv'
    BY <2>3 DEF SettleInv, Settling, HandAt
  <2>8. QED
    BY <2>6, <2>7 DEF CareInv
<1>3. CASE DrainRequests /\ ~\E w \in Crew : injects[w] # {}
  <2> DEFINE left == {p \in Everyone : seat[p] = "present" \/ (seat[p] = "executing" /\ ~latched)}
  <2>1. /\ UNCHANGED injects /\ joined = Crew
        /\ thread' = [thread EXCEPT !["shutdown"].at = "settle", !["shutdown"].todo = left]
    BY <1>3 DEF DrainRequests
  <2>2. "settle" \in Steps /\ left \in SUBSET AnyPid
    BY DEF Steps, Backs, AnyPid
  <2>3. \A p \in roll : seat[p] = "present" => p \in left
    BY DEF TdTypes
  <2> HIDE DEF left
  <2>4. Alone("shutdown") /\ thread'["shutdown"].at = "settle" /\ thread'["shutdown"].todo = left
    BY <2>1, <2>2, TodoEffect
  <2>5. SeatTypes' /\ NewInv' /\ BodyInv' /\ DeadInv'
    BY <1>1, <2>1, <2>4, ShutdownQuiet
  <2>6. \A p \in roll' \ lost' : seat'[p] = "present" => OnList(p)'
    BY <1>1, <2>3, <2>4 DEF OnList
  <2>7. SettleInv'
    BY <1>1, <1>3, <2>1, <2>4, <2>6 DEF SettleInv, HandAt
  <2>8. QED
    BY <2>5, <2>7 DEF CareInv
<1>4. CASE Settle("shutdown", "returned")
  <2>1. UNCHANGED injects /\ HandAt("shutdown", "settle")
    BY <1>4 DEF Settle
  <2>2. /\ Alone("shutdown")
        /\ \/ thread'["shutdown"].at = "returned" /\ thread["shutdown"].todo = {} /\ thread'["shutdown"].todo = {}
           \/ /\ thread'["shutdown"].at = "tomb" /\ thread'["shutdown"].back = "settle"
              /\ thread'["shutdown"].pid \in thread["shutdown"].todo
              /\ thread'["shutdown"].todo = thread["shutdown"].todo \ {thread'["shutdown"].pid}
    BY <1>4, SettleEffect DEF Steps
  <2>3. SeatTypes' /\ NewInv' /\ BodyInv' /\ DeadInv'
    BY <1>1, <2>1, <2>2, ShutdownQuiet
  <2>4. Settling
    BY <2>1 DEF Settling, HandAt
  <2>5. ASSUME NEW p \in roll' \ lost', seat'[p] = "present" PROVE OnList(p)'
    <3>1. p \in thread["shutdown"].todo
      BY <1>1, <2>1, <2>4, <2>5 DEF CareInv, SettleInv, OnList, HandAt
    <3>2. QED
      BY <2>2, <3>1 DEF OnList
  <2>6. joined' = Crew /\ \A w \in Crew : injects'[w] = {}
    BY <1>1, <2>1, <2>4 DEF CareInv, SettleInv
  <2>7. HandAt("shutdown", "returned")' => thread'["shutdown"].todo = {}
    BY <2>2 DEF HandAt
  <2>8. SettleInv'
    BY <2>5, <2>6, <2>7 DEF SettleInv
  <2>9. QED
    BY <2>3, <2>8 DEF CareInv
<1>5. QED
  BY <1>2, <1>3, <1>4

(* Nothing of this is the bridges' business. *)
LEMMA CareUnchanged ==
  ASSUME CareInv, UNCHANGED <<thread, roll, seat, injects, admitted, deadMark, joined, lost>>
  PROVE  CareInv'
<1>1. SeatTypes' /\ DeadInv'
  BY DEF CareInv, SeatTypes, DeadInv, Doomed, HandAt
<1>2. NewInv'
  BY DEF CareInv, NewInv, Unborn, Building, AtBody, HandAt
<1>3. BodyInv'
  BY DEF CareInv, BodyInv, CareOf, Pending, AtBody, Building, Ending, Holding, HandAt
<1>4. SettleInv'
  BY DEF CareInv, SettleInv, Settling, OnList, HandAt
<1>5. QED
  BY <1>1, <1>2, <1>3, <1>4 DEF CareInv

(* The care for every process, all through the teardown. *)
LEMMA CareInvariant == TdSpec => []CareInv
<1>1. TdInit => CareInv
  <2> SUFFICES ASSUME TdInit PROVE CareInv
    OBVIOUS
  <2>1. PICK script \in Scripts :
          thread = [t \in Hands |->
               [at |-> CASE t \in Crew -> "loop" [] t \in script.cast -> "off" [] OTHER -> "done",
                pid |-> NoOne, todo |-> {}, back |-> "loop"]]
    BY DEF TdInit
  <2>2. \A t \in Hands : /\ thread[t].at \in {"loop", "off", "done"}
                         /\ t \notin Crew => thread[t].at \in {"off", "done"}
    BY <2>1
  <2>3. \A t \in Hands : ~HandAt(t, "body") /\ \A p : ~AtBody(t, p) /\ ~Building(t, p)
    BY <2>2 DEF AtBody, Building, HandAt
  <2>4. /\ seat = [p \in Everyone |-> IF p \in Residents THEN "present" ELSE "none"]
        /\ roll = Residents /\ injects = [w \in Crew |-> {}] /\ deadMark = {} /\ joined = {}
    BY DEF TdInit
  <2>5. SeatTypes /\ DeadInv
    BY <2>4 DEF SeatTypes, DeadInv
  <2>6. NewInv
    <3> SUFFICES ASSUME NEW p \in Newcomers PROVE thread[p].at \in {"off", "done"} /\ Unborn(p)
      BY DEF NewInv
    <3>1. p \in Hands /\ p \notin Crew /\ p \in Everyone /\ p \notin Residents
      BY HandFacts, TeardownAssumption
    <3>2. QED
      BY <2>2, <2>3, <2>4, <3>1, HandFacts DEF Unborn
  <2>7. BodyInv
    BY <2>3, <2>4 DEF BodyInv, CareOf, Everyone
  <2>8. SettleInv
    BY <2>2, HandFacts DEF SettleInv, Settling, HandAt
  <2>9. QED
    BY <2>5, <2>6, <2>7, <2>8 DEF CareInv
<1>2. TdInv /\ CareInv /\ [TdNext]_tdVars => CareInv'
  <2> SUFFICES ASSUME TdInv, CareInv, [TdNext]_tdVars PROVE CareInv'
    OBVIOUS
  <2>0. TdTypes
    BY DEF TdInv
  <2>1. CASE UNCHANGED tdVars
    BY <2>1, CareUnchanged DEF tdVars, books, admission, latchVars, tdGhosts
  <2>2. CASE Embedder
    BY <2>0, <2>2, SpawnCares, HostCares, JoiningCares, SettlingCares DEF Embedder
  <2>3. ASSUME NEW w \in Crew, CrewStep(w)
        PROVE  CareInv'
    BY <2>0, <2>3, LoopCares, DeathCares, LeavingCares, BodiesCared DEF CrewStep
  <2>4. ASSUME NEW p \in Everyone, BridgeHears(p) \/ BridgeDelivers(p)
        PROVE  CareInv'
    BY <2>4, CareUnchanged DEF BridgeHears, BridgeDelivers, books, latchVars, tdGhosts
  <2>5. QED
    BY <2>1, <2>2, <2>3, <2>4, CleanupCares DEF TdNext
<1>3. QED
  BY <1>1, <1>2, TeardownInvariant, PTL DEF TdSpec

(* shutdown leaves nobody behind: once it has returned and the threads have *)
(* ended, every process that no death and no early kill put out of reach is *)
(* out of the table, has no body and is in no inject queue, for any number  *)
(* of workers, processes, spawns, kills and deaths, in any order            *)
(* (shutdown, drain_undispatched_requests, recover, cleanup_exited_process). *)
THEOREM NobodyOutlivesShutdown == TdSpec => []ShutdownLeavesNobody
<1>1. CareInv => ShutdownLeavesNobody
  <2> SUFFICES ASSUME CareInv, Over, NEW p \in Everyone \ lost
               PROVE  p \notin roll /\ seat[p] = "none" /\ \A w \in Crew : p \notin injects[w]
    BY DEF ShutdownLeavesNobody
  <2> USE HandFacts
  <2>1. /\ thread["shutdown"].at = "returned" /\ \A w \in Crew : thread[w].at = "gone"
        /\ \A t \in Newcomers \cup {"host", "registrar"} : thread[t].at \in {"off", "done"}
    BY DEF Over, HandAt
  <2>2. \A t \in Hands : thread[t].at \in {"returned", "gone", "off", "done"}
    BY <2>1 DEF Hands
  <2>3. \A t \in Hands : ~AtBody(t, p) /\ ~Building(t, p) /\ ~Ending(t, p) /\ ~Holding(t, p) /\ ~HandAt(t, "entered")
    BY <2>2 DEF AtBody, Building, Ending, Holding, HandAt
  <2>4. Settling /\ thread["shutdown"].todo = {}
    BY <2>1 DEF Settling, CareInv, SettleInv, HandAt
  <2>5. /\ \A w \in Crew : p \notin injects[w]
        /\ ~(p \in roll /\ seat[p] = "present")
    BY <2>1, <2>4 DEF CareInv, SettleInv, OnList
  <2>6. CareOf(p) /\ seat[p] \in {"none", "present", "executing"}
    BY DEF CareInv, BodyInv, SeatTypes
  <2>7. ~Pending(p)
    BY <2>3, <2>5 DEF Pending
  <2>8. QED
    BY <2>3, <2>5, <2>6, <2>7 DEF CareOf
<1>2. QED
  BY <1>1, CareInvariant, PTL

-----------------------------------------------------------------------------
(* Connections: the shares of the accept envelope *)

TaskPlaces == {"off", "register", "mark", "reap", "dispatch", "drain", "reading"}

PermitTypes ==
  /\ task \in [Tasks -> [at : TaskPlaces, victim : Sockets \cup {None}]]
  /\ resp \in [Sockets -> {"none", "nok", "challenged", "register", "done", "failed"}]
  /\ permits \in [Nodes -> SUBSET Sockets] /\ table \in [Nodes -> Sockets \cup {None}]

(* What holds a share of the envelope: a handshake, or the reader of a link *)
(* that was accepted.                                                       *)
HoldsPermit(n, s) == resp[s] \in {"challenged", "register"} \/ task[<<n, s, "read">>].at # "off"

PermitInv ==
  /\ PermitTypes
  /\ \A n \in Nodes : IsFiniteSet(permits[n]) /\ Cardinality(permits[n]) <= Envelope
  /\ \A n \in Nodes : \A s \in permits[n] : Accepts(n, s) /\ HoldsPermit(n, s)

(* The tasks of a node. *)
LEMMA TaskFacts ==
  /\ \A n \in Nodes, s \in Sockets, r \in Roles : <<n, s, r>> \in Tasks
  /\ \A t \in Tasks : t[1] \in Nodes /\ t[2] \in Sockets /\ t[3] \in Roles /\ t = <<t[1], t[2], t[3]>>
  /\ {"install", "read", "user"} = Roles
BY DEF Tasks, Roles

(* The two nodes. *)
LEMMA PeerFacts ==
  /\ \A n \in Nodes : Peer(n) \in Nodes /\ Peer(n) # n /\ Peer(Peer(n)) = n
  /\ \A m, n \in Nodes, s \in Sockets : Accepts(m, s) /\ Accepts(n, s) => m = n
  /\ \A n \in Nodes, s \in Sockets : Accepts(n, s) => Dialer[s] # n /\ n = Peer(Dialer[s])
  /\ \A s \in Sockets : Dialer[s] \in Nodes /\ Peer(Dialer[s]) \in Nodes /\ Accepts(Peer(Dialer[s]), s)
BY ConnectionsAssumption DEF Peer, Nodes, Accepts

(* No share is taken, and what is kept is still held. *)
LEMMA PermitsShrink ==
  ASSUME PermitInv, PermitTypes', \A n \in Nodes : permits'[n] \subseteq permits[n],
         \A n \in Nodes : \A s \in permits'[n] : HoldsPermit(n, s)'
  PROVE  PermitInv'
<1>1. \A n \in Nodes : IsFiniteSet(permits'[n]) /\ Cardinality(permits'[n]) <= Cardinality(permits[n])
  BY FS_Subset DEF PermitInv
<1>2. \A n \in Nodes : Cardinality(permits'[n]) \in Nat /\ Cardinality(permits[n]) \in Nat
  BY <1>1, FS_CardinalityType DEF PermitInv
<1>3. \A n \in Nodes : Cardinality(permits'[n]) <= Envelope
  BY <1>1, <1>2, ConnectionsAssumption DEF PermitInv
<1>4. \A n \in Nodes : \A s \in permits'[n] : Accepts(n, s)'
  BY DEF PermitInv, Accepts
<1>5. QED
  BY <1>1, <1>3, <1>4 DEF PermitInv

(* A task goes on. *)
LEMMA GoEffect ==
  ASSUME PermitTypes, NEW t \in Tasks, NEW pc \in TaskPlaces, Go(t, pc)
  PROVE  /\ task' \in [Tasks -> [at : TaskPlaces, victim : Sockets \cup {None}]]
         /\ task'[t].at = pc /\ \A x \in Tasks : x # t => task'[x] = task[x]
BY DEF PermitTypes, Go, Off, TaskPlaces

(* A task is set to something else. *)
LEMMA TaskSet ==
  ASSUME PermitTypes, NEW t \in Tasks, NEW pc \in TaskPlaces, NEW v \in Sockets \cup {None},
         task' = [task EXCEPT ![t] = [at |-> pc, victim |-> v]]
  PROVE  /\ task' \in [Tasks -> [at : TaskPlaces, victim : Sockets \cup {None}]]
         /\ task'[t].at = pc /\ \A x \in Tasks : x # t => task'[x] = task[x]
BY DEF PermitTypes

(* A task other than an end of a reader, and no handshake, moves. *)
LEMMA TaskMoves ==
  ASSUME PermitInv, NEW t \in Tasks, task' \in [Tasks -> [at : TaskPlaces, victim : Sockets \cup {None}]],
         \A x \in Tasks : x # t => task'[x] = task[x],
         t[3] = "read" => task'[t].at # "off" \/ (t[1] \in Nodes /\ ReturnPermit(t[1], t[2])),
         UNCHANGED permits \/ ReturnPermit(t[1], t[2]), UNCHANGED resp,
         table' \in [Nodes -> Sockets \cup {None}]
  PROVE  PermitInv'
<1>1. t[1] \in Nodes /\ t[2] \in Sockets /\ t = <<t[1], t[2], t[3]>>
  BY TaskFacts
<1>2. permits' \in [Nodes -> SUBSET Sockets] /\ \A n \in Nodes : permits'[n] \subseteq permits[n]
  BY <1>1 DEF PermitInv, PermitTypes, ReturnPermit
<1>3. PermitTypes'
  BY <1>2 DEF PermitInv, PermitTypes
<1>4. ASSUME NEW n \in Nodes, NEW s \in permits'[n]
      PROVE  HoldsPermit(n, s)'
  <2>1. s \in Sockets /\ HoldsPermit(n, s) /\ <<n, s, "read">> \in Tasks
    BY <1>2, TaskFacts DEF PermitInv, PermitTypes
  <2>2. CASE t # <<n, s, "read">>
    BY <2>1, <2>2 DEF HoldsPermit
  <2>3. CASE t = <<n, s, "read">>
    <3>1. t[1] = n /\ t[2] = s /\ t[3] = "read"
      BY <2>3
    <3>2. ~ReturnPermit(t[1], t[2])
      BY <3>1 DEF ReturnPermit, PermitInv, PermitTypes
    <3>3. task'[t].at # "off"
      BY <3>1, <3>2
    <3>4. QED
      BY <2>3, <3>3 DEF HoldsPermit
  <2>4. QED
    BY <2>2, <2>3
<1>5. QED
  BY <1>2, <1>3, <1>4, PermitsShrink

(* The accepting end of a socket is through, and gives its share back or    *)
(* leaves it to its reader.                                                 *)
LEMMA AcceptorDone ==
  ASSUME PermitInv, PermitTypes', NEW s \in Sockets,
         \A r \in Sockets : r # s => resp'[r] = resp[r],
         \A n \in Nodes : permits'[n] \subseteq permits[n],
         \A n \in Nodes, r \in Sockets : task[<<n, r, "read">>].at # "off" => task'[<<n, r, "read">>].at # "off",
         \A n \in Nodes : s \in permits'[n] /\ Accepts(n, s) => task'[<<n, s, "read">>].at # "off"
  PROVE  PermitInv'
<1>1. ASSUME NEW n \in Nodes, NEW r \in permits'[n]
      PROVE  HoldsPermit(n, r)'
  <2>1. r \in Sockets /\ HoldsPermit(n, r) /\ Accepts(n, r)
    BY DEF PermitInv, PermitTypes
  <2>2. QED
    BY <2>1 DEF HoldsPermit
<1>2. QED
  BY <1>1, PermitsShrink

(* Dials, accepts and handshakes. *)
LEMMA HandshakePermits ==
  ASSUME PermitInv, NEW s \in Sockets, Connect(s) \/ HandshakeStep(s) \/ HandshakeFails(s)
  PROVE  PermitInv'
<1> DEFINE n == Peer(Dialer[s])
<1>0. PermitTypes /\ n \in Nodes /\ Dialer[s] \in Nodes /\ Accepts(n, s) /\ \A m \in Nodes : Accepts(m, s) => m = n
  BY PeerFacts DEF PermitInv
<1>1. UNCHANGED table
  BY DEF Connect, HandshakeStep, Accept, Exchange, ReadAck, HandshakeFails
<1>2. CASE UNCHANGED <<resp, permits, task>>
  BY <1>1, <1>2, PermitsShrink DEF PermitInv, PermitTypes, HoldsPermit
<1>3. CASE AcceptEnds(s) /\ UNCHANGED task
  <2>1. resp' = [resp EXCEPT ![s] = "failed"] /\ permits' = [permits EXCEPT ![n] = @ \ {s}]
    BY <1>3 DEF AcceptEnds, ReturnPermit
  <2>2. PermitTypes'
    BY <1>0, <1>1, <1>3, <2>1 DEF PermitTypes
  <2>3. \A m \in Nodes : permits'[m] \subseteq permits[m] /\ (s \in permits'[m] => m # n)
    BY <1>0, <2>1 DEF PermitTypes
  <2>4. \A r \in Sockets : r # s => resp'[r] = resp[r]
    BY <1>0, <2>1 DEF PermitTypes
  <2>5. QED
    BY <1>0, <1>3, <2>2, <2>3, <2>4, AcceptorDone
<1>4. CASE resp[s] = "none" /\ resp' \in {[resp EXCEPT ![s] = "failed"], [resp EXCEPT ![s] = "nok"]}
           /\ UNCHANGED <<permits, task>>
  <2>1. PermitTypes' /\ \A r \in Sockets : r # s => resp'[r] = resp[r]
    BY <1>0, <1>1, <1>4 DEF PermitTypes
  <2>2. \A m \in Nodes : s \in permits[m] => task[<<m, s, "read">>].at # "off"
    BY <1>4 DEF PermitInv, HoldsPermit
  <2>3. QED
    BY <1>4, <2>1, <2>2, AcceptorDone
<1>5. CASE /\ resp' = [resp EXCEPT ![s] = "challenged"] /\ permits' = [permits EXCEPT ![n] = @ \cup {s}]
           /\ ~(Cardinality(permits[n]) >= Envelope) /\ UNCHANGED task
  <2>1. PermitTypes'
    BY <1>0, <1>1, <1>5 DEF PermitTypes
  <2>2. IsFiniteSet(permits[n]) /\ Cardinality(permits[n]) \in Nat
    BY <1>0, FS_CardinalityType DEF PermitInv
  <2>3. IsFiniteSet(permits[n] \cup {s}) /\ Cardinality(permits[n] \cup {s}) <= Envelope
    <3>1. /\ IsFiniteSet(permits[n] \cup {s})
          /\ \/ Cardinality(permits[n] \cup {s}) = Cardinality(permits[n])
             \/ Cardinality(permits[n] \cup {s}) = Cardinality(permits[n]) + 1
      BY <2>2, FS_AddElement
    <3>2. Envelope \in Nat /\ Cardinality(permits[n]) + 1 <= Envelope
      BY <1>5, <2>2, ConnectionsAssumption
    <3>3. QED
      BY <2>2, <3>1, <3>2
  <2>4. permits'[n] = permits[n] \cup {s} /\ \A m \in Nodes : m # n => permits'[m] = permits[m]
    BY <1>0, <1>5 DEF PermitTypes
  <2>5. resp'[s] = "challenged" /\ \A r \in Sockets : r # s => resp'[r] = resp[r]
    BY <1>0, <1>5 DEF PermitTypes
  <2>6. \A m \in Nodes : IsFiniteSet(permits'[m]) /\ Cardinality(permits'[m]) <= Envelope
    BY <2>3, <2>4 DEF PermitInv
  <2>7. ASSUME NEW m \in Nodes, NEW r \in permits'[m]
        PROVE  Accepts(m, r) /\ HoldsPermit(m, r)'
    <3>1. CASE r = s
      <4>1. Accepts(m, r)
        BY <1>0, <2>4, <3>1 DEF PermitInv
      <4>2. QED
        BY <2>5, <3>1, <4>1 DEF HoldsPermit
    <3>2. CASE r # s
      <4>1. r \in permits[m] /\ r \in Sockets
        BY <1>0, <2>4, <3>2 DEF PermitTypes
      <4>2. QED
        BY <1>5, <2>5, <3>2, <4>1 DEF PermitInv, HoldsPermit
    <3>3. QED
      BY <3>1, <3>2
  <2>8. \A m \in Nodes : \A r \in permits'[m] : Accepts(m, r)' /\ HoldsPermit(m, r)'
    BY <2>7 DEF Accepts
  <2>9. QED
    BY <2>1, <2>6, <2>8 DEF PermitInv
<1>6. CASE /\ resp[s] = "challenged" /\ resp' = [resp EXCEPT ![s] = "register"]
           /\ Go(<<n, s, "install">>, "register") /\ UNCHANGED permits
  <2>1. <<n, s, "install">> \in Tasks /\ "register" \in TaskPlaces
    BY <1>0, TaskFacts DEF TaskPlaces
  <2>2. /\ task' \in [Tasks -> [at : TaskPlaces, victim : Sockets \cup {None}]]
        /\ \A x \in Tasks : x # <<n, s, "install">> => task'[x] = task[x]
    BY <1>0, <1>6, <2>1, GoEffect
  <2>3. PermitTypes'
    BY <1>0, <1>1, <1>6, <2>2 DEF PermitTypes
  <2>4. resp'[s] = "register" /\ \A r \in Sockets : r # s => resp'[r] = resp[r]
    BY <1>0, <1>6 DEF PermitTypes
  <2>5. \A m \in Nodes, r \in Sockets : task'[<<m, r, "read">>] = task[<<m, r, "read">>]
    BY <2>2, TaskFacts
  <2>6. ASSUME NEW m \in Nodes, NEW r \in permits'[m]
        PROVE  HoldsPermit(m, r)'
    <3>1. r \in permits[m] /\ r \in Sockets
      BY <1>0, <1>6 DEF PermitTypes
    <3>2. HoldsPermit(m, r)
      BY <3>1 DEF PermitInv
    <3>3. QED
      BY <2>4, <2>5, <3>1, <3>2 DEF HoldsPermit
  <2>7. QED
    BY <1>6, <2>3, <2>6, PermitsShrink
<1>7. CASE Go(<<Dialer[s], s, "install">>, "register") /\ UNCHANGED <<resp, permits>>
  <2>1. <<Dialer[s], s, "install">> \in Tasks /\ "register" \in TaskPlaces
    BY <1>0, TaskFacts DEF TaskPlaces
  <2>2. /\ task' \in [Tasks -> [at : TaskPlaces, victim : Sockets \cup {None}]]
        /\ \A x \in Tasks : x # <<Dialer[s], s, "install">> => task'[x] = task[x]
    BY <1>0, <1>7, <2>1, GoEffect
  <2>3. QED
    BY <1>0, <1>1, <1>7, <2>1, <2>2, TaskMoves DEF PermitTypes
<1>8. QED
  <2>1. CASE Connect(s)
    BY <1>2, <2>1 DEF Connect
  <2>2. CASE Accept(s)
    BY <1>4, <1>5, <2>2 DEF Accept
  <2>3. CASE Exchange(s)
    BY <1>2, <1>3, <1>6, <2>3 DEF Exchange, links
  <2>4. CASE ReadAck(s)
    BY <1>2, <1>7, <2>4 DEF ReadAck
  <2>5. CASE HandshakeFails(s)
    BY <1>2, <1>3, <2>5 DEF HandshakeFails
  <2>6. QED
    BY <2>1, <2>2, <2>3, <2>4, <2>5 DEF HandshakeStep

(* register_connection: the newcomer is refused and drops its stream, or it *)
(* is installed and its task goes on.                                       *)
LEMMA RegisterPermits ==
  ASSUME PermitInv, NEW n \in Nodes, NEW s \in Sockets, Register(n, s) \/ RegisterFails(n, s)
  PROVE  PermitInv'
<1> DEFINE t == <<n, s, "install">>
<1>0. PermitTypes /\ t \in Tasks /\ t[1] = n /\ t[2] = s /\ t[3] = "install"
  BY TaskFacts DEF PermitInv
<1>1. table' \in [Nodes -> Sockets \cup {None}]
  BY <1>0 DEF Register, RegisterFails, PermitTypes
<1>2. CASE HandshakeOver(n, s) /\ ReturnPermit(n, s) /\ task' = [task EXCEPT ![t] = Off]
  <2>1. /\ task' \in [Tasks -> [at : TaskPlaces, victim : Sockets \cup {None}]]
        /\ \A x \in Tasks : x # t => task'[x] = task[x]
    BY <1>0, <1>2, TaskSet DEF Off, TaskPlaces
  <2>2. CASE Dialer[s] = n
    <3>1. UNCHANGED resp
      BY <1>2, <2>2 DEF HandshakeOver
    <3>2. QED
      BY <1>0, <1>1, <1>2, <2>1, <3>1, TaskMoves
  <2>3. CASE Dialer[s] # n
    <3>1. resp' = [resp EXCEPT ![s] = "done"] /\ permits' = [permits EXCEPT ![n] = @ \ {s}]
      BY <1>2, <2>3 DEF HandshakeOver, ReturnPermit
    <3>2. PermitTypes' /\ \A r \in Sockets : r # s => resp'[r] = resp[r]
      BY <1>0, <1>1, <2>1, <3>1 DEF PermitTypes
    <3>3. \A m \in Nodes : permits'[m] \subseteq permits[m] /\ (s \in permits'[m] => m # n)
      BY <1>0, <3>1 DEF PermitTypes
    <3>4. \A m \in Nodes : Accepts(m, s) => m = n
      BY <2>3, PeerFacts DEF Nodes
    <3>5. \A m \in Nodes, r \in Sockets : task'[<<m, r, "read">>] = task[<<m, r, "read">>]
      BY <2>1, TaskFacts
    <3>6. QED
      BY <3>2, <3>3, <3>4, <3>5, AcceptorDone
  <2>4. QED
    BY <2>2, <2>3
<1>3. CASE /\ task' = [task EXCEPT ![t] = [at |-> IF table[n] = None THEN "dispatch" ELSE "mark", victim |-> table[n]]]
           /\ UNCHANGED <<resp, permits>>
  <2>1. PICK pc \in {"dispatch", "mark"}, v \in Sockets \cup {None} :
          task' = [task EXCEPT ![t] = [at |-> pc, victim |-> v]]
    BY <1>0, <1>3 DEF PermitTypes
  <2>2. /\ task' \in [Tasks -> [at : TaskPlaces, victim : Sockets \cup {None}]]
        /\ \A x \in Tasks : x # t => task'[x] = task[x]
    BY <1>0, <2>1, TaskSet DEF TaskPlaces
  <2>3. QED
    BY <1>0, <1>1, <1>3, <2>2, TaskMoves
<1>4. QED
  BY <1>2, <1>3 DEF Register, RegisterFails, links

(* A task that is not done moves, and no handshake does. *)
LEMMA TaskGoesOn ==
  ASSUME PermitInv, NEW t \in Tasks, NEW pc \in TaskPlaces,
         \/ Go(t, pc) \/ \E v \in Sockets \cup {None} : task' = [task EXCEPT ![t] = [at |-> pc, victim |-> v]],
         UNCHANGED resp, table' \in [Nodes -> Sockets \cup {None}],
         IF t[3] = "read" /\ pc = "off" THEN ReturnPermit(t[1], t[2]) ELSE UNCHANGED permits
  PROVE  PermitInv'
<1>0. PermitTypes /\ t[1] \in Nodes
  BY TaskFacts DEF PermitInv
<1>1. /\ task' \in [Tasks -> [at : TaskPlaces, victim : Sockets \cup {None}]]
      /\ task'[t].at = pc /\ \A x \in Tasks : x # t => task'[x] = task[x]
  BY <1>0, GoEffect, TaskSet
<1>2. QED
  BY <1>0, <1>1, TaskMoves

(* The caller of dispatch goes on. *)
LEMMA ReturnPermits ==
  ASSUME PermitInv, NEW t \in Tasks, Return(t), UNCHANGED table
  PROVE  PermitInv'
<1> DEFINE n == t[1]
           s == t[2]
<1>0. PermitTypes /\ n \in Nodes /\ s \in Sockets /\ t = <<n, s, t[3]>>
  BY TaskFacts DEF PermitInv
<1>1. CASE t[3] # "install"
  <2>1. Go(t, "off") /\ Ends(t, "off") /\ UNCHANGED resp
    BY <1>1 DEF Return
  <2>2. QED
    BY <1>0, <2>1, TaskGoesOn DEF Ends, TaskPlaces, PermitTypes
<1>2. CASE t[3] = "install"
  <2> DEFINE reader == <<n, s, "read">>
             g == [task EXCEPT ![t] = Off]
  <2>1. /\ task' = [g EXCEPT ![reader] = [at |-> "reading", victim |-> s]]
        /\ HandshakeOver(n, s) /\ UNCHANGED permits
    BY <1>2 DEF Return
  <2>2. reader \in Tasks /\ reader # t
    BY <1>0, <1>2, TaskFacts
  <2>3. /\ g \in [Tasks -> [at : TaskPlaces, victim : Sockets \cup {None}]]
        /\ \A x \in Tasks : x # t => g[x] = task[x]
    BY <1>0 DEF PermitTypes, Off, TaskPlaces
  <2> HIDE DEF g
  <2>4. /\ task' \in [Tasks -> [at : TaskPlaces, victim : Sockets \cup {None}]]
        /\ task'[reader].at = "reading" /\ \A x \in Tasks : x # reader /\ x # t => task'[x] = task[x]
    BY <1>0, <2>1, <2>2, <2>3 DEF TaskPlaces
  <2>5. \A m \in Nodes, r \in Sockets : ~(m = n /\ r = s) => task'[<<m, r, "read">>] = task[<<m, r, "read">>]
    BY <1>0, <1>2, <2>4, TaskFacts
  <2>6. /\ resp' \in [Sockets -> {"none", "nok", "challenged", "register", "done", "failed"}]
        /\ \A r \in Sockets : r # s \/ Dialer[s] = n => resp'[r] = resp[r]
    BY <1>0, <2>1 DEF HandshakeOver, PermitTypes
  <2>7. PermitTypes'
    BY <1>0, <2>1, <2>4, <2>6 DEF PermitTypes
  <2>8. ASSUME NEW m \in Nodes, NEW r \in permits'[m]
        PROVE  HoldsPermit(m, r)'
    <3>1. r \in Sockets /\ HoldsPermit(m, r) /\ Accepts(m, r)
      BY <1>0, <2>1 DEF PermitInv, PermitTypes
    <3>2. CASE m = n /\ r = s
      BY <2>4, <3>2 DEF HoldsPermit
    <3>3. CASE ~(m = n /\ r = s)
      <4>1. r # s \/ Dialer[s] = n
        BY <1>0, <3>1, <3>3, PeerFacts DEF Nodes, Peer, Accepts
      <4>2. QED
        BY <2>5, <2>6, <3>1, <3>3, <4>1 DEF HoldsPermit
    <3>4. QED
      BY <3>2, <3>3
  <2>9. QED
    BY <2>1, <2>7, <2>8, PermitsShrink
<1>3. QED
  BY <1>1, <1>2

(* mark_down, connection_down, dispatch, and what takes a link down. *)
LEMMA TaskPermits ==
  ASSUME PermitInv, NEW t \in Tasks, TaskStep(t) \/ CallbackDisconnects(t)
  PROVE  PermitInv'
<1> USE DEF links, handshake, hub, TaskPlaces
<1>0. PermitTypes /\ t[1] \in Nodes
  BY TaskFacts DEF PermitInv
<1>1. CASE MarkDown(t)
  <2>1. UNCHANGED <<resp, table>> /\ AfterMark(t) \in {"drain", "dispatch", "off"}
    BY <1>1 DEF MarkDown, AfterMark
  <2>2. CASE Go(t, AfterMark(t)) /\ Ends(t, AfterMark(t))
    BY <1>0, <2>1, <2>2, TaskGoesOn DEF Ends, PermitTypes
  <2>3. CASE Go(t, "reap") /\ UNCHANGED permits
    BY <1>0, <2>1, <2>3, TaskGoesOn DEF PermitTypes
  <2>4. QED
    BY <1>1, <2>2, <2>3 DEF MarkDown
<1>2. CASE ConnectionDown(t)
  <2>1. table' \in [Nodes -> Sockets \cup {None}]
    BY <1>0, <1>2 DEF ConnectionDown, PermitTypes
  <2>2. QED
    BY <1>2, <2>1, TaskGoesOn DEF ConnectionDown
<1>3. CASE Dispatch(t)
  BY <1>0, <1>3, TaskGoesOn DEF Dispatch, PermitTypes
<1>4. CASE Drain(t)
  BY <1>0, <1>4, PermitsShrink DEF Drain, PermitTypes, PermitInv, HoldsPermit
<1>5. CASE DispatchReturns(t) \/ DispatchAtOnce(t)
  BY <1>5, ReturnPermits DEF DispatchReturns, DispatchAtOnce
<1>6. CASE CallbackDisconnects(t)
  BY <1>0, <1>6, TaskGoesOn DEF CallbackDisconnects, PermitTypes
<1>7. QED
  BY <1>1, <1>2, <1>3, <1>4, <1>5, <1>6 DEF TaskStep

(* A reader stops, or a user disconnects. *)
LEMMA StopPermits ==
  ASSUME PermitInv, NEW n \in Nodes, NEW s \in Sockets, ReaderStops(n, s) \/ DisconnectNode(n, s)
  PROVE  PermitInv'
<1> USE DEF links, handshake, hub, TaskPlaces
<1>0. PermitTypes
  BY DEF PermitInv
<1>1. CASE ReaderStops(n, s)
  <2>1. <<n, s, "read">> \in Tasks /\ Go(<<n, s, "read">>, "mark")
    BY <1>1, TaskFacts DEF ReaderStops
  <2>2. UNCHANGED <<resp, table, permits>>
    BY <1>1 DEF ReaderStops
  <2>3. QED
    BY <1>0, <2>1, <2>2, TaskGoesOn DEF PermitTypes
<1>2. CASE DisconnectNode(n, s)
  <2>1. <<n, s, "user">> \in Tasks /\ task' = [task EXCEPT ![<<n, s, "user">>] = [at |-> "mark", victim |-> s]]
    BY <1>2, TaskFacts DEF DisconnectNode
  <2>2. UNCHANGED <<resp, table, permits>>
    BY <1>2 DEF DisconnectNode
  <2>3. QED
    BY <1>0, <2>1, <2>2, TaskGoesOn DEF PermitTypes
<1>3. QED
  BY <1>1, <1>2

(* A node starts again with an empty envelope. *)
LEMMA RestartPermits ==
  ASSUME PermitInv, NEW n \in Nodes, Restart(n)
  PROVE  PermitInv'
<1>0. PermitTypes
  BY DEF PermitInv
<1>1. /\ permits' = [permits EXCEPT ![n] = {}] /\ table' = [table EXCEPT ![n] = None]
      /\ task' = [t \in Tasks |-> IF t[1] = n THEN Off ELSE task[t]]
      /\ resp' = [s \in Sockets |->
           IF ~Accepts(n, s) \/ init[s] = "unused" THEN resp[s]
           ELSE IF resp[s] \in {"register", "done"} THEN "done" ELSE "failed"]
  BY DEF Restart
<1>2. PermitTypes'
  BY <1>0, <1>1 DEF PermitTypes, Off, TaskPlaces
<1>3. \A m \in Nodes : permits'[m] \subseteq permits[m] /\ (m = n => permits'[m] = {})
  BY <1>0, <1>1 DEF PermitTypes
<1>4. ASSUME NEW m \in Nodes, NEW r \in permits'[m]
      PROVE  HoldsPermit(m, r)'
  <2>1. m # n /\ r \in Sockets /\ HoldsPermit(m, r) /\ Accepts(m, r)
    BY <1>0, <1>3 DEF PermitInv, PermitTypes
  <2>2. ~Accepts(n, r)
    BY <2>1, PeerFacts
  <2>3. resp'[r] = resp[r]
    BY <1>1, <2>1, <2>2
  <2>4. <<m, r, "read">> \in Tasks /\ <<m, r, "read">>[1] = m
    BY <2>1, TaskFacts
  <2>5. task'[<<m, r, "read">>] = task[<<m, r, "read">>]
    BY <1>1, <2>1, <2>4
  <2>6. QED
    BY <2>1, <2>3, <2>5 DEF HoldsPermit
<1>5. QED
  BY <1>2, <1>3, <1>4, PermitsShrink

(* The shares are accounted for along every behaviour. *)
LEMMA PermitsKept == (Init => PermitInv) /\ (PermitInv /\ [Next]_vars => PermitInv')
<1>1. Init => PermitInv
  <2> SUFFICES ASSUME Init PROVE PermitInv
    OBVIOUS
  <2>1. PermitTypes
    BY DEF Init, PermitTypes, Off, TaskPlaces
  <2>2. \A n \in Nodes : permits[n] = {}
    BY DEF Init
  <2>3. QED
    BY <2>1, <2>2, FS_EmptySet, ConnectionsAssumption DEF PermitInv
<1>2. PermitInv /\ [Next]_vars => PermitInv'
  <2> SUFFICES ASSUME PermitInv, [Next]_vars PROVE PermitInv'
    OBVIOUS
  <2>1. CASE UNCHANGED <<resp, task, permits, table>>
    BY <2>1, PermitsShrink DEF PermitInv, PermitTypes, HoldsPermit
  <2>2. ASSUME NEW n \in Nodes, AbortDials(n) \/ Restart(n) \/ Subscribe(n) \/ LateStep(n)
        PROVE  PermitInv'
    <3>1. Restart(n) \/ UNCHANGED <<resp, task, permits, table>>
      BY <2>2 DEF AbortDials, Subscribe, LateStep, LateDrains, LateDrained, Snapshot, RecheckQueue,
         LateReturns,
                  LateRest, links, handshake
    <3>2. QED
      BY <2>1, <3>1, RestartPermits
  <2>3. ASSUME Next PROVE PermitInv'
    BY <2>2, <2>3, HandshakePermits, RegisterPermits, StopPermits, TaskPermits DEF Next
  <2>4. QED
    BY <2>1, <2>3 DEF vars, handshake, links
<1>3. QED
  BY <1>1, <1>2

(* The accept bound: however accepts, refusals, timeouts, displaced links,  *)
(* disconnects and restarts interleave, over any number of sockets, a node  *)
(* never has more inbound links than its envelope, and each share of it is  *)
(* held by a handshake under way or a reader (try_admit, handle_accepted,   *)
(* register_connection).                                                    *)
THEOREM EnvelopeNotOverdrawn == Spec => []PermitsAccounted
<1>1. PermitInv => PermitsAccounted
  BY DEF PermitInv, PermitsAccounted, HoldsPermit
<1>2. QED
  BY <1>1, PermitsKept, PTL DEF Spec

-----------------------------------------------------------------------------
(* Connections: the events of a node *)

(* The event at place i of a node's history: Up(1) Down(1) Up(2) Down(2).  *)
IsEvent(i, e) == e.kind = (IF i % 2 = 1 THEN "Up" ELSE "Down") /\ e.gen = (i + 1) \div 2

(* The events delivered and those queued are a history. *)
History(l, q) ==
  /\ \A i \in 1..Len(l) : IsEvent(i, l[i])
  /\ \A i \in 1..Len(q) : IsEvent(Len(l) + i, q[i])

(* How many events a node has queued since it started. *)
Queued(n) == Len(log[n]) + Len(queue[n])

LatePlaces == {"off", "drain", "snapshot", "check", "last", "on"}

HubTypes ==
  /\ creation \in [Nodes -> Nat] /\ met \in [Sockets -> [Nodes -> Nat]]
  /\ init \in [Sockets -> {"unused", "name", "replied", "register", "done", "failed"}]
  /\ conn \in [Nodes -> [Sockets -> [gen : Nat, creation : Nat, down : BOOLEAN]]]
  /\ generation \in [Nodes -> Nat]
  /\ queue \in [Nodes -> Seq(Events)] /\ log \in [Nodes -> Seq(Events)] /\ stream \in [Nodes -> Seq(Events)]
  /\ gate \in [Nodes -> Tasks \cup {Free, Late}]
  /\ late \in [Nodes -> [at : LatePlaces, snap : SUBSET Events]]

(* What was delivered and what is queued is the history, and the table is   *)
(* its last event.                                                          *)
HistoryInv(n) ==
  /\ History(log[n], queue[n])
  /\ Queued(n) % 2 = IF table[n] # None THEN 1 ELSE 0
  /\ generation[n] = (Queued(n) + 1) \div 2
  /\ table[n] # None => conn[n][table[n]].gen = generation[n]

(* How far n's end of the handshake of s is. *)
HandshakeAt(n, s) == IF Dialer[s] = n THEN init[s] ELSE resp[s]

(* A socket is installed once, under a generation whose Up is queued by     *)
(* then; its reader starts when that has been delivered.                    *)
InstallInv(n) ==
  \A s \in Sockets :
    /\ conn[n][s].gen <= generation[n]
    /\ task[<<n, s, "install">>].at # "off" => HandshakeAt(n, s) = "register"
    /\ task[<<n, s, "read">>].at # "off" => HandshakeAt(n, s) = "done"
    /\ task[<<n, s, "install">>].at \notin {"off", "register"} => conn[n][s].gen > 0
    /\ task[<<n, s, "read">>].at = "reading" =>
         \E i \in 1..Len(log[n]) : log[n][i].kind = "Up" /\ log[n][i].gen = conn[n][s].gen

(* A task that still comes to dispatch, or is in it. *)
Owes(t) ==
  \/ task[t].at \in {"reap", "dispatch", "drain"}
  \/ task[t].at = "mark" /\ (t[3] = "install" \/ gate[t[1]] = t)

(* Who has the gate, and who still delivers what is queued. *)
GateInv(n) ==
  /\ \A t \in Tasks : t[1] = n =>
       /\ task[t].at = "drain" => gate[n] = t
       /\ gate[n] = t => task[t].at \in {"mark", "reap", "dispatch", "drain"}
       /\ task[t].at \in {"mark", "reap", "reading"} => task[t].victim \in Sockets
  /\ gate[n] = Late <=> late[n].at \in {"drain", "snapshot", "check", "last"}
  /\ late[n].at # "off" \/ gate[n] # Free => n \in Stepwise
  /\ queue[n] # <<>> => \E t \in Tasks : t[1] = n /\ Owes(t)

(* The late subscriber was told nothing before its snapshot, the snapshot   *)
(* is of the table unless something was queued since, and what it was told  *)
(* last is the last event delivered.                                        *)
LateInv(n) ==
  /\ late[n].at \notin {"last", "on"} => stream[n] = <<>>
  /\ late[n].at = "check" /\ queue[n] = <<>> =>
       \/ late[n].snap = {}
       \/ \E e \in Events : late[n].snap = {e} /\ Len(log[n]) > 0 /\ IsEvent(Len(log[n]), e)
  /\ stream[n] # <<>> => Len(log[n]) > 0 /\ IsEvent(Len(log[n]), stream[n][Len(stream[n])])
  /\ \A i \in 2..Len(stream[n]) : 
       LET a == stream[n][i - 1]
           b == stream[n][i]
       IN \/ a.kind = "Up" /\ b.kind = "Down" /\ b.gen = a.gen
          \/ a.kind = "Down" /\ b.kind = "Up" /\ b.gen > a.gen

NodeInv(n) == HistoryInv(n) /\ InstallInv(n) /\ GateInv(n) /\ LateInv(n)

EventInv == HubTypes /\ \A n \in Nodes : NodeInv(n)

(* The places of a history. *)
LEMMA Places ==
  ASSUME NEW k \in Nat
  PROVE  /\ k % 2 = 0 \/ k % 2 = 1
         /\ (k + 1) \div 2 \in Nat /\ (k > 0 => (k + 1) \div 2 > 0)
         /\ k % 2 = 1 => (k + 1) % 2 = 0 /\ ((k + 1) + 1) \div 2 = (k + 1) \div 2
         /\ k % 2 = 0 => (k + 1) % 2 = 1 /\ ((k + 1) + 1) \div 2 = (k + 1) \div 2 + 1
OBVIOUS

(* What is left of a queue once its head is taken. *)
LEMMA RestOfQueue ==
  ASSUME NEW S, NEW s \in Seq(S), s # <<>>
  PROVE  /\ Len(s) \in Nat \ {0} /\ Head(s) = s[1] /\ s[1] \in S /\ Tail(s) \in Seq(S)
         /\ Len(Tail(s)) = Len(s) - 1
         /\ \A i \in 1..Len(Tail(s)) : i + 1 \in 1..Len(s) /\ Tail(s)[i] = s[i + 1]
<1>1. PICK k \in Nat : k = Len(s)
  OBVIOUS
<1>2. k # 0
  BY <1>1
<1>3. Head(s) = s[1] /\ s[1] \in S
  BY <1>1, <1>2
<1>4. Tail(s) \in Seq(S) /\ Len(Tail(s)) = k - 1 /\ k - 1 \in Nat
  BY <1>1, <1>2
<1>5. \A i \in 1..(k - 1) : Tail(s)[i] = s[i + 1]
  BY <1>1, <1>2
<1>6. \A i \in 1..(k - 1) : i + 1 \in 1..k
  BY <1>2
<1> QED BY <1>1, <1>2, <1>3, <1>4, <1>5, <1>6

(* What a queue holds once an element is added. *)
LEMMA LongerQueue ==
  ASSUME NEW S, NEW s \in Seq(S), NEW e \in S
  PROVE  /\ Append(s, e) \in Seq(S) /\ Append(s, e) # <<>> /\ Len(Append(s, e)) = Len(s) + 1
         /\ Append(s, e)[Len(s) + 1] = e /\ Len(s) \in Nat
         /\ \A i \in 1..Len(s) : i \in 1..Len(Append(s, e)) /\ Append(s, e)[i] = s[i]
         /\ \A i \in 1..Len(Append(s, e)) : i = Len(s) + 1 \/ (i \in 1..Len(s) /\ Append(s, e)[i] = s[i])
<1>1. PICK k \in Nat : k = Len(s)
  OBVIOUS
<1>2. Append(s, e) \in Seq(S) /\ Len(Append(s, e)) = k + 1 /\ Append(s, e)[k + 1] = e
  BY <1>1
<1>3. \A i \in 1..k : Append(s, e)[i] = s[i]
  BY <1>1
<1>4. \A i \in 1..(k + 1) : i = k + 1 \/ i \in 1..k
  OBVIOUS
<1>5. \A i \in 1..k : i \in 1..(k + 1)
  OBVIOUS
<1>6. Append(s, e) # <<>>
  <2>1. \A t \in Seq(S) : t = <<>> => Len(t) = 0
    OBVIOUS
  <2>2. k + 1 # 0
    OBVIOUS
  <2> QED BY <1>2, <2>1, <2>2
<1> QED BY <1>1, <1>2, <1>3, <1>4, <1>5, <1>6

(* The first event of the queue is delivered. *)
LEMMA HistoryDelivered ==
  ASSUME NEW l \in Seq(Events), NEW q \in Seq(Events), q # <<>>, History(l, q)
  PROVE  /\ History(Append(l, Head(q)), Tail(q)) /\ IsEvent(Len(l) + 1, Head(q)) /\ Head(q) \in Events
         /\ Len(Append(l, Head(q))) + Len(Tail(q)) = Len(l) + Len(q)
<1>1. /\ Len(q) \in Nat \ {0} /\ Head(q) = q[1] /\ q[1] \in Events /\ Len(Tail(q)) = Len(q) - 1
      /\ \A i \in 1..Len(Tail(q)) : i + 1 \in 1..Len(q) /\ Tail(q)[i] = q[i + 1]
  BY RestOfQueue
<1>2. PICK e \in Events : e = Head(q)
  BY <1>1
<1>3. PICK k \in Nat, j \in Nat : k = Len(l) /\ j = Len(q)
  OBVIOUS
<1>4. PICK r : r = Append(l, e)
  OBVIOUS
<1>5. /\ Len(r) = k + 1 /\ r[k + 1] = e
      /\ \A i \in 1..Len(r) : i = k + 1 \/ (i \in 1..k /\ r[i] = l[i])
  BY <1>3, <1>4, LongerQueue
<1>6. 1 \in 1..j
  BY <1>1, <1>3
<1>7. IsEvent(k + 1, e)
  BY <1>1, <1>2, <1>3, <1>6 DEF History
<1>8. \A i \in 1..Len(r) : IsEvent(i, r[i])
  <2> SUFFICES ASSUME NEW i \in 1..Len(r) PROVE IsEvent(i, r[i])
    OBVIOUS
  <2>1. CASE i = k + 1
    BY <1>5, <1>7, <2>1
  <2>2. CASE i \in 1..k /\ r[i] = l[i]
    BY <1>3, <2>2 DEF History
  <2> QED BY <1>5, <2>1, <2>2
<1>9. \A i \in 1..Len(Tail(q)) : IsEvent(Len(r) + i, Tail(q)[i])
  <2> SUFFICES ASSUME NEW i \in 1..Len(Tail(q)) PROVE IsEvent(Len(r) + i, Tail(q)[i])
    OBVIOUS
  <2>1. i + 1 \in 1..Len(q) /\ Tail(q)[i] = q[i + 1] /\ i \in Nat
    BY <1>1
  <2>2. Len(r) + i = Len(l) + (i + 1)
    BY <1>3, <1>5, <2>1
  <2>3. IsEvent(Len(l) + (i + 1), q[i + 1])
    BY <2>1 DEF History
  <2> QED BY <2>1, <2>2, <2>3
<1>10. Len(r) + Len(Tail(q)) = Len(l) + Len(q)
  BY <1>1, <1>3, <1>5
<1> QED BY <1>2, <1>3, <1>4, <1>7, <1>8, <1>9, <1>10 DEF History

(* An event is queued. *)
LEMMA HistoryQueued ==
  ASSUME NEW l \in Seq(Events), NEW q \in Seq(Events), History(l, q), NEW e \in Events,
         IsEvent(Len(l) + Len(q) + 1, e)
  PROVE  History(l, Append(q, e)) /\ Len(l) + Len(Append(q, e)) = Len(l) + Len(q) + 1
<1>1. PICK r : r = Append(q, e)
  OBVIOUS
<1>2. PICK k \in Nat, j \in Nat : k = Len(l) /\ j = Len(q)
  OBVIOUS
<1>3. /\ Len(r) = j + 1 /\ r[j + 1] = e
      /\ \A i \in 1..Len(r) : i = j + 1 \/ (i \in 1..j /\ r[i] = q[i])
  BY <1>1, <1>2, LongerQueue
<1>4. \A i \in 1..Len(r) : IsEvent(k + i, r[i])
  <2> SUFFICES ASSUME NEW i \in 1..Len(r) PROVE IsEvent(k + i, r[i])
    OBVIOUS
  <2>1. CASE i = j + 1
    <3>1. k + i = k + j + 1
      BY <1>2, <2>1
    <3> QED BY <1>2, <1>3, <2>1, <3>1
  <2>2. CASE i \in 1..j /\ r[i] = q[i]
    BY <1>2, <2>2 DEF History
  <2> QED BY <1>3, <2>1, <2>2
<1>5. k + Len(r) = k + j + 1
  BY <1>2, <1>3
<1> QED BY <1>1, <1>2, <1>4, <1>5 DEF History

(* The whole queue is delivered. *)
LEMMA HistoryDrained ==
  ASSUME NEW l \in Seq(Events), NEW q \in Seq(Events), History(l, q)
  PROVE  /\ l \o q \in Seq(Events) /\ History(l \o q, <<>>) /\ Len(l \o q) + Len(<<>>) = Len(l) + Len(q)
         /\ \A i \in 1..Len(l) : i \in 1..Len(l \o q) /\ (l \o q)[i] = l[i]
<1>1. PICK r : r = l \o q
  OBVIOUS
<1>2. PICK k \in Nat, j \in Nat : k = Len(l) /\ j = Len(q)
  OBVIOUS
<1>3. r \in Seq(Events) /\ Len(r) = k + j
  BY <1>1, <1>2
<1>4. \A i \in 1..(k + j) : r[i] = IF i <= k THEN l[i] ELSE q[i - k]
  BY <1>1, <1>2
<1>5. \A i \in 1..(k + j) : IsEvent(i, r[i])
  <2> SUFFICES ASSUME NEW i \in 1..(k + j) PROVE IsEvent(i, r[i])
    OBVIOUS
  <2>1. CASE i <= k
    <3>1. i \in 1..k /\ r[i] = l[i]
      BY <1>2, <1>4, <2>1
    <3> QED BY <1>2, <3>1 DEF History
  <2>2. CASE ~(i <= k)
    <3>1. i - k \in 1..j /\ r[i] = q[i - k] /\ k + (i - k) = i
      BY <1>2, <1>4, <2>2
    <3> QED BY <1>2, <3>1 DEF History
  <2> QED BY <2>1, <2>2
<1>6. \A i \in 1..k : i \in 1..(k + j) /\ r[i] = l[i]
  BY <1>2, <1>4
<1>7. Len(<<>>) = 0 /\ 1..0 = {}
  OBVIOUS
<1>8. Len(r) + Len(<<>>) = k + j
  BY <1>2, <1>3, <1>7
<1> QED BY <1>1, <1>2, <1>3, <1>5, <1>6, <1>7, <1>8 DEF History

(* A snapshot of nothing or of one link, as a sequence. *)
LEMMA SnapshotAsSequence ==
  /\ SetToSeq({}) = <<>>
  /\ \A e : SetToSeq({e}) = <<e>>
<1>1. SetToSeq({}) = <<>>
  <2>1. Cardinality({}) = 0 /\ 1..0 = {}
    BY FS_EmptySet
  <2>2. \A f \in [1..0 -> {}] : f = <<>>
    BY <2>1
  <2>3. <<>> \in [1..0 -> {}] /\ IsInjective(<<>>)
    BY <2>1 DEF IsInjective
  <2> QED BY <2>1, <2>2, <2>3 DEF SetToSeq
<1>2. ASSUME NEW e PROVE SetToSeq({e}) = <<e>>
  <2>1. Cardinality({e}) = 1 /\ 1..1 = {1}
    BY FS_Singleton
  <2>2. \A f \in [1..1 -> {e}] : f = <<e>>
    BY <2>1
  <2>3. <<e>> \in [1..1 -> {e}] /\ IsInjective(<<e>>)
    BY <2>1 DEF IsInjective
  <2> QED BY <2>1, <2>2, <2>3 DEF SetToSeq
<1> QED BY <1>1, <1>2

(* Nobody but a task holds the gate as a task does. *)
LEMMA GateHolders ==
  /\ Free # Late /\ \A t \in Tasks : t # Free /\ t # Late
  /\ \A n \in Nodes, s \in Sockets : <<n, s, "install">> # <<n, s, "read">>
<1>1. ASSUME NEW t \in Tasks PROVE t # Free /\ t # Late
  <2>1. PICK a \in Nodes, b \in Sockets, c \in Roles : t = <<a, b, c>>
    BY DEF Tasks
  <2>2. <<a, b, c>> # <<>>
    OBVIOUS
  <2>3. <<a, b, c>> # <<"late">>
    <3>1. DOMAIN <<a, b, c>> = 1..3 /\ DOMAIN <<"late">> = 1..1 /\ 2 \in 1..3 /\ 2 \notin 1..1
      OBVIOUS
    <3> QED BY <3>1
  <2> QED BY <2>1, <2>2, <2>3 DEF Free, Late
<1>2. Free # Late
  BY DEF Free, Late
<1> QED BY <1>1, <1>2

(* The history is as it was. *)
LEMMA HistoryKept ==
  ASSUME NEW n \in Nodes, HistoryInv(n), log'[n] = log[n], queue'[n] = queue[n], table'[n] = table[n],
         generation'[n] = generation[n], table[n] # None => conn'[n][table[n]].gen = conn[n][table[n]].gen
  PROVE  HistoryInv(n)'
BY DEF HistoryInv, Queued

(* No install goes further, and no reader starts. *)
LEMMA InstallKept ==
  ASSUME NEW n \in Nodes, HubTypes, InstallInv(n), generation'[n] = generation[n],
         \A s \in Sockets : conn'[n][s].gen = conn[n][s].gen,
         \A i \in 1..Len(log[n]) : i \in 1..Len(log'[n]) /\ log'[n][i] = log[n][i],
         \A s \in Sockets :
           /\ \/ HandshakeAt(n, s)' = HandshakeAt(n, s)
              \/ HandshakeAt(n, s) \notin {"register", "done"}
              \/ task'[<<n, s, "install">>].at = "off" /\ task'[<<n, s, "read">>].at = "off"
           /\ task'[<<n, s, "install">>].at # "off" => task[<<n, s, "install">>].at # "off"
           /\ task'[<<n, s, "install">>].at \notin {"off", "register"} =>
                 task[<<n, s, "install">>].at \notin {"off", "register"}
           /\ task'[<<n, s, "read">>].at # "off" => task[<<n, s, "read">>].at # "off"
           /\ task'[<<n, s, "read">>].at = "reading" => task[<<n, s, "read">>].at = "reading"
  PROVE  InstallInv(n)'
<1> SUFFICES ASSUME NEW s \in Sockets
             PROVE  /\ conn'[n][s].gen <= generation'[n]
                    /\ task'[<<n, s, "install">>].at # "off" => HandshakeAt(n, s)' = "register"
                    /\ task'[<<n, s, "read">>].at # "off" => HandshakeAt(n, s)' = "done"
                    /\ task'[<<n, s, "install">>].at \notin {"off", "register"} => conn'[n][s].gen > 0
                    /\ task'[<<n, s, "read">>].at = "reading" =>
                         \E i \in 1..Len(log'[n]) : log'[n][i].kind = "Up" /\ log'[n][i].gen = conn'[n][s].gen
  BY DEF InstallInv
<1>1. conn'[n][s].gen <= generation'[n]
  BY DEF InstallInv
<1>2. /\ task'[<<n, s, "install">>].at # "off" => HandshakeAt(n, s)' = "register"
      /\ task'[<<n, s, "read">>].at # "off" => HandshakeAt(n, s)' = "done"
  BY DEF InstallInv
<1>3. task'[<<n, s, "install">>].at \notin {"off", "register"} => conn'[n][s].gen > 0
  BY DEF InstallInv
<1>4. ASSUME task'[<<n, s, "read">>].at = "reading"
      PROVE  \E i \in 1..Len(log'[n]) : log'[n][i].kind = "Up" /\ log'[n][i].gen = conn'[n][s].gen
  <2>1. PICK i \in 1..Len(log[n]) : log[n][i].kind = "Up" /\ log[n][i].gen = conn[n][s].gen
    BY <1>4 DEF InstallInv
  <2> QED BY <2>1
<1> QED BY <1>1, <1>2, <1>3, <1>4

(* The late subscriber was told nothing more. *)
LEMMA LateKept ==
  ASSUME NEW n \in Nodes, LateInv(n), log'[n] = log[n], late'[n] = late[n], stream'[n] = stream[n],
         queue'[n] = <<>> => queue[n] = <<>>
  PROVE  LateInv(n)'
BY DEF LateInv

(* One task of the node moves, and perhaps a reader starts. *)
LEMMA GateMoves ==
  ASSUME NEW n \in Nodes, HubTypes, GateInv(n), NEW t \in Tasks, t[1] = n, late'[n] = late[n],
         \A x \in Tasks : x # t =>
           \/ task'[x] = task[x]
           \/ task[x].at = "off" /\ task'[x].at = "reading" /\ task'[x].victim \in Sockets,
         task'[t].at = "drain" => gate'[n] = t,
         gate'[n] = t => task'[t].at \in {"mark", "reap", "dispatch", "drain"},
         task'[t].at \in {"mark", "reap", "reading"} => task'[t].victim \in Sockets,
         \/ gate'[n] = gate[n]
         \/ gate[n] \in {Free, t} /\ gate'[n] \in {Free, t} /\ n \in Stepwise,
         queue'[n] # <<>> => Owes(t)' \/ (queue[n] # <<>> /\ ~Owes(t))
  PROVE  GateInv(n)'
<1>1. \A x \in Tasks : x # t => (gate'[n] = x <=> gate[n] = x)
  BY GateHolders
<1>2. gate'[n] = Late <=> gate[n] = Late
  BY GateHolders
<1>3. ASSUME NEW x \in Tasks, x[1] = n
      PROVE  /\ task'[x].at = "drain" => gate'[n] = x
             /\ gate'[n] = x => task'[x].at \in {"mark", "reap", "dispatch", "drain"}
             /\ task'[x].at \in {"mark", "reap", "reading"} => task'[x].victim \in Sockets
  <2>1. CASE x = t
    BY <2>1
  <2>2. CASE x # t
    BY <1>1, <1>3, <2>2 DEF GateInv
  <2> QED BY <2>1, <2>2
<1>4. ASSUME queue'[n] # <<>> PROVE \E x \in Tasks : x[1] = n /\ Owes(x)'
  <2>1. CASE Owes(t)'
    BY <2>1
  <2>2. CASE queue[n] # <<>> /\ ~Owes(t)
    <3>1. PICK x \in Tasks : x[1] = n /\ Owes(x)
      BY <2>2 DEF GateInv
    <3>2. x # t
      BY <2>2, <3>1
    <3>3. task'[x] = task[x] /\ (gate'[n] = x <=> gate[n] = x)
      BY <1>1, <3>1, <3>2 DEF Owes
    <3>4. Owes(x)'
      BY <3>1, <3>3 DEF Owes
    <3> QED BY <3>1, <3>4
  <2> QED BY <1>4, <2>1, <2>2
<1> QED BY <1>2, <1>3, <1>4 DEF GateInv

(* The late subscriber takes the gate or gives it back. *)
LEMMA GateLate ==
  ASSUME NEW n \in Nodes, GateInv(n), UNCHANGED task,
         \/ gate'[n] = gate[n]
         \/ gate[n] \in {Free, Late} /\ gate'[n] \in {Free, Late},
         gate'[n] = Late <=> late'[n].at \in {"drain", "snapshot", "check", "last"},
         n \in Stepwise, queue'[n] # <<>> => queue[n] # <<>>
  PROVE  GateInv(n)'
<1>1. \A x \in Tasks : gate'[n] = x <=> gate[n] = x
  BY GateHolders
<1>2. ASSUME NEW x \in Tasks, x[1] = n
      PROVE  /\ task'[x].at = "drain" => gate'[n] = x
             /\ gate'[n] = x => task'[x].at \in {"mark", "reap", "dispatch", "drain"}
             /\ task'[x].at \in {"mark", "reap", "reading"} => task'[x].victim \in Sockets
  BY <1>1, <1>2 DEF GateInv
<1>3. ASSUME queue'[n] # <<>> PROVE \E x \in Tasks : x[1] = n /\ Owes(x)'
  <2>1. PICK x \in Tasks : x[1] = n /\ Owes(x)
    BY <1>3 DEF GateInv
  <2>2. Owes(x)'
    BY <1>1, <2>1 DEF Owes
  <2> QED BY <2>1, <2>2
<1> QED BY <1>2, <1>3 DEF GateInv

(* A node that is left alone. *)
Alike(n) ==
  /\ log'[n] = log[n] /\ queue'[n] = queue[n] /\ stream'[n] = stream[n] /\ late'[n] = late[n]
  /\ table'[n] = table[n] /\ generation'[n] = generation[n] /\ conn'[n] = conn[n] /\ gate'[n] = gate[n]
  /\ \A t \in Tasks : t[1] = n => task'[t] = task[t]

LEMMA NodeKept ==
  ASSUME NEW n \in Nodes, HubTypes, NodeInv(n), Alike(n),
         \A s \in Sockets : \/ HandshakeAt(n, s)' = HandshakeAt(n, s)
                            \/ HandshakeAt(n, s) \notin {"register", "done"}
  PROVE  NodeInv(n)'
<1>1. HistoryInv(n) /\ InstallInv(n) /\ GateInv(n) /\ LateInv(n)
  BY DEF NodeInv
<1>2. HistoryInv(n)'
  BY <1>1, HistoryKept DEF Alike
<1>3. \A s \in Sockets : /\ task'[<<n, s, "install">>] = task[<<n, s, "install">>]
                         /\ task'[<<n, s, "read">>] = task[<<n, s, "read">>]
  BY TaskFacts DEF Alike
<1>4. InstallInv(n)'
  BY <1>1, <1>3, InstallKept DEF Alike
<1>5. \A t \in Tasks : t[1] = n => (Owes(t) => Owes(t)')
  BY DEF Owes, Alike
<1>6. GateInv(n)'
  <2>1. ASSUME queue'[n] # <<>> PROVE \E x \in Tasks : x[1] = n /\ Owes(x)'
    <3>1. PICK x \in Tasks : x[1] = n /\ Owes(x)
      BY <1>1, <2>1 DEF GateInv, Alike
    <3> QED BY <1>5, <3>1
  <2> QED BY <1>1, <2>1 DEF GateInv, Alike
<1>7. LateInv(n)'
  BY <1>1, LateKept DEF Alike
<1> QED BY <1>2, <1>4, <1>6, <1>7 DEF NodeInv

(* What one node does leaves the other alone. *)
LEMMA NodeActs ==
  ASSUME EventInv, HubTypes', NEW n \in Nodes, NodeInv(n)',
         \A m \in Nodes : m # n => Alike(m) /\ \A s \in Sockets :
           HandshakeAt(m, s)' = HandshakeAt(m, s) \/ HandshakeAt(m, s) \notin {"register", "done"}
  PROVE  EventInv'
<1>1. ASSUME NEW m \in Nodes, m # n PROVE NodeInv(m)'
  BY <1>1, NodeKept DEF EventInv
<1> QED BY <1>1 DEF EventInv

(* A handshake goes on or ends before either end comes to its install. *)
LEMMA NothingInstalled ==
  ASSUME EventInv, HubTypes', UNCHANGED <<conn, table, generation, hub, gate, task, late>>,
         \A s \in Sockets : /\ init'[s] = init[s] \/ init[s] \notin {"register", "done"}
                            /\ resp'[s] = resp[s] \/ resp[s] \notin {"register", "done"}
  PROVE  EventInv'
<1>1. ASSUME NEW n \in Nodes PROVE NodeInv(n)'
  <2>1. Alike(n)
    BY DEF Alike, hub
  <2>2. \A s \in Sockets : \/ HandshakeAt(n, s)' = HandshakeAt(n, s)
                           \/ HandshakeAt(n, s) \notin {"register", "done"}
    BY DEF HandshakeAt
  <2> QED BY <2>1, <2>2, NodeKept DEF EventInv
<1> QED BY <1>1 DEF EventInv

(* Dials and accepts, and handshakes that end. *)
LEMMA DialKeepsEvents ==
  ASSUME EventInv, PermitInv, NEW s \in Sockets,
         \/ Connect(s) \/ Accept(s) \/ HandshakeFails(s)
         \/ Exchange(s) /\ UNCHANGED task
         \/ ReadAck(s) /\ UNCHANGED task
  PROVE  EventInv'
<1>0. HubTypes /\ PermitTypes /\ Dialer[s] \in Nodes /\ Peer(Dialer[s]) \in Nodes
  BY PeerFacts DEF EventInv, PermitInv
<1>1. CASE Connect(s)
  <2>1. HubTypes'
    BY <1>0, <1>1 DEF HubTypes, Connect, hub
  <2>2. \A r \in Sockets : init'[r] = init[r] \/ init[r] \notin {"register", "done"}
    BY <1>0, <1>1 DEF HubTypes, Connect
  <2> QED BY <1>1, <2>1, <2>2, NothingInstalled DEF Connect
<1>2. CASE Accept(s)
  <2>0. /\ met' = met \/ met' = [met EXCEPT ![s][Peer(Dialer[s])] = creation[Peer(Dialer[s])]]
        /\ UNCHANGED <<creation, init, conn, generation, hub, gate, late>>
    BY <1>2 DEF Accept
  <2>3. met' \in [Sockets -> [Nodes -> Nat]]
    <3>1. met \in [Sockets -> [Nodes -> Nat]] /\ creation[Peer(Dialer[s])] \in Nat
      BY <1>0 DEF HubTypes
    <3>2. CASE met' = met
      BY <3>1, <3>2
    <3>3. CASE met' = [met EXCEPT ![s][Peer(Dialer[s])] = creation[Peer(Dialer[s])]]
      BY <1>0, <3>1, <3>3
    <3> QED BY <2>0, <3>2, <3>3
  <2>1. HubTypes'
    BY <1>0, <2>0, <2>3 DEF HubTypes, hub
  <2>2. \A r \in Sockets : resp'[r] = resp[r] \/ resp[r] \notin {"register", "done"}
    BY <1>0, <1>2 DEF PermitTypes, Accept
  <2> QED BY <1>2, <2>1, <2>2, NothingInstalled DEF Accept
<1>3. CASE HandshakeFails(s)
  <2>1. HubTypes'
    BY <1>0, <1>3 DEF HubTypes, HandshakeFails, DialEnds, AcceptEnds, hub
  <2>2. \A r \in Sockets : /\ init'[r] = init[r] \/ init[r] \notin {"register", "done"}
                           /\ resp'[r] = resp[r] \/ resp[r] \notin {"register", "done"}
    BY <1>0, <1>3 DEF HubTypes, PermitTypes, HandshakeFails, DialEnds, AcceptEnds
  <2> QED BY <1>3, <2>1, <2>2, NothingInstalled DEF HandshakeFails
<1>4. CASE Exchange(s) /\ UNCHANGED task
  <2>0. Exchange(s) /\ UNCHANGED <<creation, met, conn, table, generation, hub, gate, task, late>>
    BY <1>4 DEF Exchange
  <2>1. /\ init' \in [Sockets -> {"unused", "name", "replied", "register", "done", "failed"}]
        /\ \A r \in Sockets : init'[r] = init[r] \/ init[r] \notin {"register", "done"}
    BY <1>0, <2>0 DEF HubTypes, Exchange, DialEnds
  <2>2. HubTypes'
    BY <1>0, <2>0, <2>1 DEF HubTypes, hub
  <2>3. \A r \in Sockets : resp'[r] = resp[r] \/ resp[r] \notin {"register", "done"}
    BY <1>0, <2>0 DEF PermitTypes, Exchange, AcceptEnds
  <2> QED BY <2>0, <2>1, <2>2, <2>3, NothingInstalled
<1>5. CASE ReadAck(s) /\ UNCHANGED task
  <2>0. ReadAck(s) /\ UNCHANGED <<creation, resp, met, conn, table, generation, hub, gate, task, late>>
    BY <1>5 DEF ReadAck
  <2>1. /\ init' \in [Sockets -> {"unused", "name", "replied", "register", "done", "failed"}]
        /\ \A r \in Sockets : init'[r] = init[r] \/ init[r] \notin {"register", "done"}
    BY <1>0, <2>0 DEF HubTypes, ReadAck, DialEnds
  <2>2. HubTypes'
    BY <1>0, <2>0, <2>1 DEF HubTypes, hub
  <2> QED BY <2>0, <2>1, <2>2, NothingInstalled
<1> QED BY <1>1, <1>2, <1>3, <1>4, <1>5

(* disconnect_all raises abort flags. *)
LEMMA AbortKeepsEvents ==
  ASSUME EventInv, NEW n \in Nodes, AbortDials(n)
  PROVE  EventInv'
<1>1. HubTypes'
  BY DEF EventInv, HubTypes, AbortDials, hub
<1> QED BY <1>1, NothingInstalled DEF AbortDials

(* One end of a handshake comes to its install. *)
LEMMA InstallBegins ==
  ASSUME EventInv, PermitTypes, HubTypes', NEW n \in Nodes, NEW s \in Sockets,
         HandshakeAt(n, s) \notin {"register", "done"}, HandshakeAt(n, s)' = "register",
         \A r \in Sockets : r # s => HandshakeAt(n, r)' = HandshakeAt(n, r),
         Go(<<n, s, "install">>, "register"), UNCHANGED <<conn, table, generation, hub, gate, late>>
  PROVE  NodeInv(n)'
<1> DEFINE t == <<n, s, "install">>
<1>0. HubTypes /\ HistoryInv(n) /\ InstallInv(n) /\ GateInv(n) /\ LateInv(n)
  BY DEF EventInv, NodeInv
<1>1. /\ t \in Tasks /\ t[1] = n /\ t[2] = s /\ t[3] = "install" /\ "register" \in TaskPlaces
      /\ \A r \in Sockets : <<n, r, "install">> \in Tasks /\ <<n, r, "read">> \in Tasks
      /\ \A r \in Sockets : <<n, r, "read">> # t /\ (r # s => <<n, r, "install">> # t)
  BY TaskFacts DEF TaskPlaces
<1>2. task'[t].at = "register" /\ \A x \in Tasks : x # t => task'[x] = task[x]
  BY <1>1, GoEffect
<1>3. task[t].at = "off" /\ task[<<n, s, "read">>].at = "off"
  BY <1>0 DEF InstallInv
<1>4. gate[n] # t /\ ~Owes(t)
  BY <1>0, <1>1, <1>3 DEF GateInv, Owes
<1>5. HistoryInv(n)'
  BY <1>0, HistoryKept DEF hub
<1>6. LateInv(n)'
  BY <1>0, LateKept DEF hub
<1>7. GateInv(n)'
  <2>1. gate'[n] = gate[n] /\ gate'[n] # t /\ late'[n] = late[n] /\ queue'[n] = queue[n]
    BY <1>4 DEF hub
  <2> HIDE DEF t
  <2> QED BY <1>0, <1>1, <1>2, <1>4, <2>1, GateMoves
<1>8. InstallInv(n)'
  <2> SUFFICES ASSUME NEW r \in Sockets
               PROVE  /\ conn'[n][r].gen <= generation'[n]
                      /\ task'[<<n, r, "install">>].at # "off" => HandshakeAt(n, r)' = "register"
                      /\ task'[<<n, r, "read">>].at # "off" => HandshakeAt(n, r)' = "done"
                      /\ task'[<<n, r, "install">>].at \notin {"off", "register"} => conn'[n][r].gen > 0
                      /\ task'[<<n, r, "read">>].at = "reading" =>
                           \E i \in 1..Len(log'[n]) : log'[n][i].kind = "Up" /\ log'[n][i].gen = conn'[n][r].gen
    BY DEF InstallInv
  <2>1. log'[n] = log[n] /\ conn'[n][r] = conn[n][r] /\ generation'[n] = generation[n]
    BY DEF hub
  <2>2. task'[<<n, r, "read">>] = task[<<n, r, "read">>]
    BY <1>1, <1>2
  <2>3. CASE r = s
    BY <1>0, <1>2, <1>3, <2>1, <2>2, <2>3 DEF InstallInv
  <2>4. CASE r # s
    <3>1. task'[<<n, r, "install">>] = task[<<n, r, "install">>] /\ HandshakeAt(n, r)' = HandshakeAt(n, r)
      BY <1>1, <1>2, <2>4
    <3> QED BY <1>0, <2>1, <2>2, <3>1 DEF InstallInv
  <2> QED BY <2>3, <2>4
<1> QED BY <1>5, <1>6, <1>7, <1>8 DEF NodeInv

(* The accepting end has sent its acknowledgement; the dialling end has     *)
(* read it.                                                                 *)
LEMMA HandshakeKeepsEvents ==
  ASSUME EventInv, PermitInv, NEW s \in Sockets, HandshakeStep(s)
  PROVE  EventInv'
<1>0. /\ HubTypes /\ PermitTypes /\ Dialer[s] \in Nodes /\ Peer(Dialer[s]) \in Nodes
      /\ Peer(Dialer[s]) # Dialer[s] /\ \A m \in Nodes : m # Peer(Dialer[s]) => m = Dialer[s]
  BY PeerFacts, ConnectionsAssumption DEF EventInv, PermitInv, Nodes, Peer
<1>1. CASE Accept(s) \/ (Exchange(s) /\ UNCHANGED task) \/ (ReadAck(s) /\ UNCHANGED task)
  BY <1>1, DialKeepsEvents
<1>2. CASE Exchange(s) /\ ~UNCHANGED task
  <2> DEFINE n == Peer(Dialer[s])
  <2>0. /\ init[s] = "name" /\ resp[s] = "challenged"
        /\ init' = [init EXCEPT ![s] = "replied"] /\ resp' = [resp EXCEPT ![s] = "register"]
        /\ Go(<<n, s, "install">>, "register")
        /\ UNCHANGED <<creation, met, conn, table, generation, hub, gate, late>>
    BY <1>2 DEF Exchange
  <2>1. HubTypes'
    BY <1>0, <2>0 DEF HubTypes, hub
  <2>2. /\ HandshakeAt(n, s) \notin {"register", "done"} /\ HandshakeAt(n, s)' = "register"
        /\ \A r \in Sockets : r # s => HandshakeAt(n, r)' = HandshakeAt(n, r)
    BY <1>0, <2>0 DEF HandshakeAt, HubTypes, PermitTypes
  <2>3. NodeInv(n)'
    BY <1>0, <2>0, <2>1, <2>2, InstallBegins
  <2>4. ASSUME NEW m \in Nodes, m # n
        PROVE  Alike(m) /\ \A r \in Sockets : \/ HandshakeAt(m, r)' = HandshakeAt(m, r)
                                              \/ HandshakeAt(m, r) \notin {"register", "done"}
    <3>1. \A x \in Tasks : x[1] = m => x # <<n, s, "install">>
      BY <2>4
    <3>2. <<n, s, "install">> \in Tasks /\ "register" \in TaskPlaces
      BY <1>0, TaskFacts DEF TaskPlaces
    <3>3. \A x \in Tasks : x[1] = m => task'[x] = task[x]
      BY <1>0, <2>0, <3>1, <3>2, GoEffect
    <3>4. Alike(m)
      BY <2>0, <3>3 DEF Alike, hub
    <3> QED BY <1>0, <2>0, <2>4, <3>4 DEF HandshakeAt, HubTypes, PermitTypes
  <2> QED BY <1>0, <2>1, <2>3, <2>4, NodeActs
<1>3. CASE ReadAck(s) /\ ~UNCHANGED task
  <2> DEFINE n == Dialer[s]
  <2>0. /\ init[s] = "replied" /\ init' = [init EXCEPT ![s] = "register"]
        /\ Go(<<n, s, "install">>, "register")
        /\ UNCHANGED <<creation, met, resp, conn, table, generation, hub, gate, late>>
    BY <1>3 DEF ReadAck
  <2>1. HubTypes'
    BY <1>0, <2>0 DEF HubTypes, hub
  <2>2. /\ HandshakeAt(n, s) \notin {"register", "done"} /\ HandshakeAt(n, s)' = "register"
        /\ \A r \in Sockets : r # s => HandshakeAt(n, r)' = HandshakeAt(n, r)
    BY <1>0, <2>0 DEF HandshakeAt, HubTypes, PermitTypes
  <2>3. NodeInv(n)'
    BY <1>0, <2>0, <2>1, <2>2, InstallBegins
  <2>4. ASSUME NEW m \in Nodes, m # n
        PROVE  Alike(m) /\ \A r \in Sockets : \/ HandshakeAt(m, r)' = HandshakeAt(m, r)
                                              \/ HandshakeAt(m, r) \notin {"register", "done"}
    <3>1. \A x \in Tasks : x[1] = m => x # <<n, s, "install">>
      BY <2>4
    <3>2. <<n, s, "install">> \in Tasks /\ "register" \in TaskPlaces
      BY <1>0, TaskFacts DEF TaskPlaces
    <3>3. \A x \in Tasks : x[1] = m => task'[x] = task[x]
      BY <1>0, <2>0, <3>1, <3>2, GoEffect
    <3>4. Alike(m)
      BY <2>0, <3>3 DEF Alike, hub
    <3> QED BY <1>0, <2>0, <2>4, <3>4 DEF HandshakeAt, HubTypes
  <2> QED BY <1>0, <2>1, <2>3, <2>4, NodeActs
<1> QED BY <1>1, <1>2, <1>3 DEF HandshakeStep

(* One task of a node moves on, and the hub and the handshakes stay. *)
LEMMA TaskMoved ==
  ASSUME EventInv, PermitTypes, HubTypes', NEW t \in Tasks, NEW n \in Nodes, t[1] = n,
         UNCHANGED <<init, resp, table, generation, hub, late>>,
         \A s \in Sockets : conn'[n][s].gen = conn[n][s].gen,
         \A m \in Nodes : m # n => conn'[m] = conn[m] /\ gate'[m] = gate[m],
         \A x \in Tasks : x # t => task'[x] = task[x],
         task[t].at \notin {"off", "register"} \/ t[3] = "user", task'[t].at # "reading",
         task'[t].at = "drain" => gate'[n] = t,
         gate'[n] = t => task'[t].at \in {"mark", "reap", "dispatch", "drain"},
         task'[t].at \in {"mark", "reap"} => task'[t].victim \in Sockets,
         \/ gate'[n] = gate[n]
         \/ gate[n] \in {Free, t} /\ gate'[n] \in {Free, t} /\ n \in Stepwise,
         Owes(t) => Owes(t)'
  PROVE  EventInv'
<1>0. HubTypes /\ HistoryInv(n) /\ InstallInv(n) /\ GateInv(n) /\ LateInv(n)
  BY DEF EventInv, NodeInv
<1>1. /\ log' = log /\ queue' = queue /\ stream' = stream
      /\ \A m \in Nodes, s \in Sockets : HandshakeAt(m, s)' = HandshakeAt(m, s)
  BY DEF hub, HandshakeAt
<1>2. \A s \in Sockets : /\ <<n, s, "install">> \in Tasks /\ <<n, s, "read">> \in Tasks
                         /\ <<n, s, "install">>[3] # "user" /\ <<n, s, "read">>[3] # "user"
  BY TaskFacts
<1>3. HistoryInv(n)'
  <2>1. table[n] # None => table[n] \in Sockets
    BY DEF PermitTypes
  <2> QED BY <1>0, <1>1, <2>1, HistoryKept
<1>4. InstallInv(n)'
  <2>1. \A s \in Sockets :
           /\ task'[<<n, s, "install">>].at # "off" => task[<<n, s, "install">>].at # "off"
           /\ task'[<<n, s, "install">>].at \notin {"off", "register"} =>
                 task[<<n, s, "install">>].at \notin {"off", "register"}
           /\ task'[<<n, s, "read">>].at # "off" => task[<<n, s, "read">>].at # "off"
           /\ task'[<<n, s, "read">>].at = "reading" => task[<<n, s, "read">>].at = "reading"
    BY <1>2
  <2>2. \A i \in 1..Len(log[n]) : i \in 1..Len(log'[n]) /\ log'[n][i] = log[n][i]
    BY <1>1
  <2> QED BY <1>0, <1>1, <2>1, <2>2, InstallKept
<1>5. GateInv(n)'
  <2>1. queue'[n] # <<>> => Owes(t)' \/ (queue[n] # <<>> /\ ~Owes(t))
    BY <1>1
  <2> QED BY <1>0, <2>1, GateMoves
<1>6. LateInv(n)'
  BY <1>0, <1>1, LateKept
<1>7. ASSUME NEW m \in Nodes, m # n PROVE Alike(m)
  <2>1. \A x \in Tasks : x[1] = m => task'[x] = task[x]
    BY <1>7
  <2> QED BY <1>1, <1>7, <2>1 DEF Alike
<1> QED BY <1>1, <1>3, <1>4, <1>5, <1>6, <1>7, NodeActs DEF NodeInv

(* mark_down, dispatch and what starts a teardown. *)
LEMMA TeardownKeepsEvents ==
  ASSUME EventInv, PermitInv, NEW t \in Tasks,
         \/ MarkDown(t) \/ Dispatch(t) \/ CallbackDisconnects(t)
         \/ \E n \in Nodes, s \in Sockets : t = <<n, s, "read">> /\ ReaderStops(n, s)
         \/ \E n \in Nodes, s \in Sockets : t = <<n, s, "user">> /\ DisconnectNode(n, s)
  PROVE  EventInv'
<1> DEFINE n == t[1]
<1>0. HubTypes /\ PermitTypes /\ n \in Nodes /\ GateInv(n) /\ task[t].victim \in Sockets \cup {None}
  BY TaskFacts DEF EventInv, NodeInv, PermitInv, PermitTypes
<1>00. /\ task \in [Tasks -> [at : TaskPlaces, victim : Sockets \cup {None}]]
       /\ gate \in [Nodes -> Tasks \cup {Free, Late}]
  BY <1>0 DEF PermitTypes, HubTypes
<1>01. t # Free
  BY GateHolders
<1>1. CASE MarkDown(t)
  <2> DEFINE v == task[t].victim
  <2>0. /\ task[t].at = "mark" /\ v \in Sockets
        /\ UNCHANGED <<creation, init, resp, met, table, generation, hub, gate, late>>
    BY <1>0, <1>1 DEF MarkDown, GateInv, handshake
  <2>1. CASE conn[n][v].down
    <3>1. UNCHANGED conn /\ Go(t, AfterMark(t))
      BY <1>1, <2>1 DEF MarkDown
    <3>2. AfterMark(t) \in TaskPlaces \ {"mark", "reap", "register", "reading"}
      BY DEF AfterMark, TaskPlaces
    <3>3. task'[t].at = AfterMark(t) /\ \A x \in Tasks : x # t => task'[x] = task[x]
      BY <1>0, <3>1, <3>2, GoEffect
    <3>4. HubTypes'
      BY <1>0, <2>0, <3>1 DEF HubTypes, hub
    <3>5. Owes(t) => Owes(t)'
      BY <2>0, <3>3 DEF Owes, AfterMark
    <3>6. /\ task'[t].at = "drain" => gate'[n] = t
          /\ gate'[n] = t => task'[t].at \in {"mark", "reap", "dispatch", "drain"}
      BY <2>0, <3>3 DEF AfterMark
    <3> QED BY <1>0, <2>0, <3>1, <3>2, <3>3, <3>4, <3>5, <3>6, TaskMoved
  <2>2. CASE ~conn[n][v].down
    <3>1. conn' = [conn EXCEPT ![n][v].down = TRUE] /\ Go(t, "reap")
      BY <1>1, <2>2 DEF MarkDown
    <3>2. task'[t].at = "reap" /\ task'[t].victim = v /\ \A x \in Tasks : x # t => task'[x] = task[x]
      BY <1>00, <3>1 DEF Go
    <3>3. conn' \in [Nodes -> [Sockets -> [gen : Nat, creation : Nat, down : BOOLEAN]]]
      <4> DEFINE Rec == [gen : Nat, creation : Nat, down : BOOLEAN]
                 c == conn[n][v]
      <4>1. conn \in [Nodes -> [Sockets -> Rec]] /\ c \in Rec
        BY <1>0, <2>0 DEF HubTypes
      <4>2. [c EXCEPT !.down = TRUE] \in Rec
        BY <4>1
      <4>3. conn' = [conn EXCEPT ![n] = [@ EXCEPT ![v] = [c EXCEPT !.down = TRUE]]]
        BY <1>0, <2>0, <3>1, <4>1
      <4> HIDE DEF Rec, c
      <4> QED BY <1>0, <2>0, <4>1, <4>2, <4>3 DEF Rec
    <3>4. HubTypes'
      BY <1>0, <2>0, <3>3 DEF HubTypes, hub
    <3>5. /\ \A s \in Sockets : conn'[n][s].gen = conn[n][s].gen
          /\ \A m \in Nodes : m # n => conn'[m] = conn[m]
      BY <1>0, <2>0, <3>1 DEF HubTypes
    <3>6. Owes(t)'
      BY <3>2 DEF Owes
    <3> QED BY <1>0, <2>0, <3>2, <3>4, <3>5, <3>6, TaskMoved
  <2> QED BY <2>1, <2>2
<1>2. CASE Dispatch(t)
  <2>0. /\ task[t].at = "dispatch" /\ n \in Stepwise /\ gate[n] \in {Free, t} /\ gate' = [gate EXCEPT ![n] = t] /\ Go(t, "drain")
        /\ UNCHANGED <<creation, init, resp, met, conn, table, generation, hub, late>>
    BY <1>2 DEF Dispatch, handshake
  <2>1. task'[t].at = "drain" /\ \A x \in Tasks : x # t => task'[x] = task[x]
    BY <1>0, <2>0, GoEffect DEF TaskPlaces
  <2>2. HubTypes' /\ gate'[n] = t /\ \A m \in Nodes : m # n => gate'[m] = gate[m]
    BY <1>0, <2>0 DEF HubTypes, hub
  <2>3. Owes(t)'
    BY <2>1 DEF Owes
  <2> QED BY <1>0, <2>0, <2>1, <2>2, <2>3, TaskMoved
<1>3. CASE CallbackDisconnects(t)
  <2>0. /\ task[t].at = "drain" /\ table[n] \in Sockets /\ task' = [task EXCEPT ![t] = [at |-> "mark", victim |-> table[n]]]
        /\ UNCHANGED <<creation, init, resp, met, conn, table, generation, hub, gate, late>>
    BY <1>0, <1>3 DEF CallbackDisconnects, handshake, PermitTypes
  <2>1. task'[t].at = "mark" /\ task'[t].victim \in Sockets /\ \A x \in Tasks : x # t => task'[x] = task[x]
    BY <1>00, <2>0
  <2>2. HubTypes' /\ gate'[n] = t
    BY <1>0, <2>0 DEF HubTypes, hub, GateInv
  <2>3. Owes(t)'
    BY <2>1, <2>2 DEF Owes
  <2> QED BY <1>0, <2>0, <2>1, <2>2, <2>3, TaskMoved
<1>4. ASSUME NEW m \in Nodes, NEW s \in Sockets, t = <<m, s, "read">>, ReaderStops(m, s) PROVE EventInv'
  <2>0. /\ task[t].at = "reading" /\ Go(t, "mark")
        /\ UNCHANGED <<creation, init, resp, met, conn, table, generation, hub, gate, late>>
    BY <1>4 DEF ReaderStops, handshake
  <2>1. task[t].victim \in Sockets /\ gate[n] # t /\ ~Owes(t)
    BY <1>0, <2>0 DEF GateInv, Owes
  <2>2. task'[t].at = "mark" /\ task'[t].victim \in Sockets /\ \A x \in Tasks : x # t => task'[x] = task[x]
    BY <1>00, <2>0, <2>1 DEF Go
  <2>3. HubTypes'
    BY <1>0, <2>0 DEF HubTypes, hub
  <2> QED BY <1>0, <2>0, <2>1, <2>2, <2>3, TaskMoved
<1>5. ASSUME NEW m \in Nodes, NEW s \in Sockets, t = <<m, s, "user">>, DisconnectNode(m, s) PROVE EventInv'
  <2>0. /\ task[t].at = "off" /\ task' = [task EXCEPT ![t] = [at |-> "mark", victim |-> s]] /\ t[3] = "user"
        /\ UNCHANGED <<creation, init, resp, met, conn, table, generation, hub, gate, late>>
    BY <1>5 DEF DisconnectNode, handshake
  <2>1. gate[n] # t /\ ~Owes(t)
    BY <1>0, <2>0 DEF GateInv, Owes
  <2>2. task'[t].at = "mark" /\ task'[t].victim \in Sockets /\ \A x \in Tasks : x # t => task'[x] = task[x]
    BY <1>00, <2>0
  <2>3. HubTypes'
    BY <1>0, <2>0 DEF HubTypes, hub
  <2> QED BY <1>0, <2>0, <2>1, <2>2, <2>3, TaskMoved
<1> QED BY <1>1, <1>2, <1>3, <1>4, <1>5

(* An end of a handshake is over. *)
LEMMA HandshakeOverEffect ==
  ASSUME HubTypes, PermitTypes, NEW n \in Nodes, NEW s \in Sockets, HandshakeOver(n, s)
  PROVE  /\ HandshakeAt(n, s)' = "done"
         /\ \A m \in Nodes, r \in Sockets : m # n \/ r # s => HandshakeAt(m, r)' = HandshakeAt(m, r)
         /\ init' \in [Sockets -> {"unused", "name", "replied", "register", "done", "failed"}]
<1>1. \A m \in Nodes : m # n => (Dialer[s] = n <=> Dialer[s] # m)
  BY ConnectionsAssumption DEF Nodes
<1> QED BY <1>1 DEF HandshakeOver, HandshakeAt, HubTypes, PermitTypes

(* The tasks of a socket that comes to its install. *)
LEMMA InstallTask ==
  ASSUME EventInv, NEW n \in Nodes, NEW s \in Sockets, task[<<n, s, "install">>].at = "register"
  PROVE  /\ HandshakeAt(n, s) = "register" /\ task[<<n, s, "read">>].at = "off"
         /\ gate[n] # <<n, s, "install">> /\ ~Owes(<<n, s, "install">>)
         /\ <<n, s, "install">> \in Tasks /\ <<n, s, "install">>[1] = n /\ <<n, s, "install">>[2] = s
         /\ <<n, s, "install">>[3] = "install"
         /\ \A r \in Sockets : /\ <<n, r, "install">> \in Tasks /\ <<n, r, "read">> \in Tasks
                               /\ <<n, r, "read">> # <<n, s, "install">>
                               /\ r # s => <<n, r, "install">> # <<n, s, "install">>
<1> DEFINE t == <<n, s, "install">>
<1>1. /\ t \in Tasks /\ t[1] = n /\ t[2] = s /\ t[3] = "install"
      /\ \A r \in Sockets : /\ <<n, r, "install">> \in Tasks /\ <<n, r, "read">> \in Tasks
                            /\ <<n, r, "read">> # t /\ (r # s => <<n, r, "install">> # t)
  BY TaskFacts
<1>2. InstallInv(n) /\ GateInv(n)
  BY DEF EventInv, NodeInv
<1>3. HandshakeAt(n, s) = "register" /\ task[<<n, s, "read">>].at = "off"
  BY <1>2 DEF InstallInv
<1>4. gate[n] # t /\ ~Owes(t)
  BY <1>1, <1>2 DEF GateInv, Owes
<1> QED BY <1>1, <1>3, <1>4

(* An install is refused. *)
LEMMA InstallGivenUp ==
  ASSUME EventInv, PermitTypes, NEW n \in Nodes, NEW s \in Sockets, task[<<n, s, "install">>].at = "register",
         HandshakeOver(n, s), task' = [task EXCEPT ![<<n, s, "install">>] = Off],
         UNCHANGED <<creation, met, conn, table, generation, hub, gate, late>>
  PROVE  EventInv'
<1> DEFINE t == <<n, s, "install">>
<1>0. HubTypes /\ HistoryInv(n) /\ InstallInv(n) /\ GateInv(n) /\ LateInv(n)
  BY DEF EventInv, NodeInv
<1>1. /\ HandshakeAt(n, s)' = "done"
      /\ \A m \in Nodes, r \in Sockets : m # n \/ r # s => HandshakeAt(m, r)' = HandshakeAt(m, r)
      /\ HubTypes'
  BY <1>0, HandshakeOverEffect DEF HubTypes, hub
<1>2. /\ task[<<n, s, "read">>].at = "off" /\ gate[n] # t /\ ~Owes(t)
      /\ t \in Tasks /\ t[1] = n
      /\ \A r \in Sockets : /\ <<n, r, "install">> \in Tasks /\ <<n, r, "read">> \in Tasks
                            /\ <<n, r, "read">> # t /\ (r # s => <<n, r, "install">> # t)
  BY InstallTask
<1>3. task'[t].at = "off" /\ \A x \in Tasks : x # t => task'[x] = task[x]
  BY <1>2 DEF PermitTypes, Off
<1>4. log' = log /\ queue' = queue /\ stream' = stream
  BY DEF hub
<1>5. HistoryInv(n)' /\ LateInv(n)'
  BY <1>0, <1>4, HistoryKept, LateKept
<1>6. InstallInv(n)'
  <2>1. \A i \in 1..Len(log[n]) : i \in 1..Len(log'[n]) /\ log'[n][i] = log[n][i]
    BY <1>4
  <2>2. \A r \in Sockets :
           /\ \/ HandshakeAt(n, r)' = HandshakeAt(n, r)
              \/ HandshakeAt(n, r) \notin {"register", "done"}
              \/ task'[<<n, r, "install">>].at = "off" /\ task'[<<n, r, "read">>].at = "off"
           /\ task'[<<n, r, "install">>].at # "off" => task'[<<n, r, "install">>] = task[<<n, r, "install">>]
           /\ task'[<<n, r, "read">>] = task[<<n, r, "read">>]
    BY <1>1, <1>2, <1>3
  <2> QED BY <1>0, <2>1, <2>2, InstallKept
<1>7. GateInv(n)'
  <2> HIDE DEF t
  <2> QED BY <1>0, <1>2, <1>3, <1>4, GateMoves
<1>8. ASSUME NEW m \in Nodes, m # n PROVE Alike(m)
  <2>1. \A x \in Tasks : x[1] = m => task'[x] = task[x]
    BY <1>2, <1>3, <1>8
  <2> QED BY <1>4, <2>1 DEF Alike
<1> QED BY <1>1, <1>5, <1>6, <1>7, <1>8, NodeActs DEF NodeInv

(* What an install adds to the queue. *)
LEMMA QueueOfInstall ==
  ASSUME NEW q \in Seq(Events), NEW a \in Events, NEW b \in Events
  PROVE  /\ q \o <<>> = q /\ q \o (<<>> \o <<b>>) = Append(q, b)
         /\ q \o (<<a>> \o <<b>>) = Append(Append(q, a), b)
<1>1. q \o <<>> = q
  OBVIOUS
<1>4. <<>> \o <<b>> = <<b>>
  BY <<b>> \in Seq(Events), ConcatEmptySeq
<1>2. \A r \in Seq(Events), e \in Events : r \o <<e>> = Append(r, e)
  OBVIOUS
<1>3. q \o (<<a>> \o <<b>>) = (q \o <<a>>) \o <<b>>
  BY <<a>> \in Seq(Events), <<b>> \in Seq(Events), ConcatAssociative
<1>5. Append(q, a) \in Seq(Events)
  OBVIOUS
<1> QED BY <1>1, <1>2, <1>3, <1>4, <1>5

(* The history that an install makes. *)
LEMMA InstallHistory ==
  ASSUME HubTypes, PermitTypes, NEW n \in Nodes, NEW s \in Sockets, HistoryInv(n),
         NEW q, q = queue[n] \o InstallEvents(n, s),
         NEW g, g = IF Swap(n, s) THEN generation[n] ELSE generation[n] + 1
  PROVE  /\ q \in Seq(Events) /\ History(log[n], q) /\ (q = <<>> => queue[n] = <<>>)
         /\ (Len(log[n]) + Len(q)) % 2 = 1 /\ g = ((Len(log[n]) + Len(q)) + 1) \div 2
         /\ g \in Nat /\ g > 0 /\ g >= generation[n] /\ InstalledGeneration(n, s) = g
<1>0. PICK k \in Nat : k = Queued(n)
  BY DEF HubTypes, Queued
<1>1. /\ log[n] \in Seq(Events) /\ queue[n] \in Seq(Events) /\ generation[n] \in Nat
      /\ History(log[n], queue[n]) /\ Len(log[n]) + Len(queue[n]) = k
      /\ k % 2 = IF table[n] # None THEN 1 ELSE 0
      /\ generation[n] = (k + 1) \div 2 /\ (table[n] # None => conn[n][table[n]].gen = generation[n])
  BY <1>0 DEF HubTypes, HistoryInv, Queued
<1>2. Len(log[n]) \in Nat /\ Len(queue[n]) \in Nat
  BY <1>1
<1>3. PICK b : b = Up(generation[n] + 1, met[s][Peer(n)])
  OBVIOUS
<1>4. PICK a : a = Down(generation[n])
  OBVIOUS
<1>5. a \in Events /\ b \in Events
  BY <1>1, <1>3, <1>4, PeerFacts DEF Events, Up, Down, HubTypes
<1>6. /\ a.kind = "Down" /\ a.gen = generation[n] /\ b.kind = "Up" /\ b.gen = generation[n] + 1
  BY <1>3, <1>4 DEF Up, Down
<1>7. CASE Swap(n, s)
  <2>1. q = queue[n] /\ g = generation[n] /\ table[n] # None /\ InstalledGeneration(n, s) = g
    BY <1>1, <1>5, <1>7, QueueOfInstall DEF InstallEvents, Swap, Live, InstalledGeneration
  <2>2. k % 2 = 1 /\ g = (k + 1) \div 2 /\ k > 0
    BY <1>1, <2>1
  <2>3. g \in Nat /\ g > 0 /\ g >= generation[n]
    BY <1>1, <2>1, <2>2, Places
  <2>4. Len(log[n]) + Len(q) = k /\ q \in Seq(Events) /\ History(log[n], q)
    BY <1>1, <2>1
  <2> QED BY <2>1, <2>2, <2>3, <2>4
<1>8. CASE ~Swap(n, s) /\ table[n] = None
  <2>1. q = Append(queue[n], b) /\ g = generation[n] + 1 /\ InstalledGeneration(n, s) = g
    BY <1>1, <1>3, <1>5, <1>8, QueueOfInstall DEF InstallEvents, InstalledGeneration
  <2>2. k % 2 = 0 /\ (k + 1) % 2 = 1 /\ ((k + 1) + 1) \div 2 = g
    BY <1>1, <1>8, <2>1, Places
  <2>3. IsEvent(Len(log[n]) + Len(queue[n]) + 1, b)
    BY <1>1, <1>6, <2>1, <2>2 DEF IsEvent
  <2>4. History(log[n], q) /\ Len(log[n]) + Len(q) = k + 1
    BY <1>1, <1>5, <2>1, <2>3, HistoryQueued
  <2>5. q \in Seq(Events) /\ q # <<>>
    BY <1>1, <1>5, <2>1, LongerQueue
  <2>6. g \in Nat /\ g > 0 /\ g >= generation[n]
    BY <1>1, <2>1
  <2> QED BY <2>1, <2>2, <2>4, <2>5, <2>6
<1>9. CASE ~Swap(n, s) /\ table[n] # None
  <2>1. PICK r : r = Append(queue[n], a)
    OBVIOUS
  <2>2. q = Append(r, b) /\ g = generation[n] + 1 /\ InstalledGeneration(n, s) = g
    <3>1. InstallEvents(n, s) = <<a>> \o <<b>>
      BY <1>1, <1>3, <1>4, <1>9 DEF InstallEvents
    <3>2. queue[n] \o (<<a>> \o <<b>>) = Append(Append(queue[n], a), b)
      BY <1>1, <1>5, QueueOfInstall
    <3> QED BY <1>9, <2>1, <3>1, <3>2 DEF InstalledGeneration
  <2>3. k % 2 = 1 /\ (k + 1) % 2 = 0 /\ ((k + 1) + 1) \div 2 = generation[n]
    BY <1>1, <1>9, Places
  <2>4. ((k + 1) + 1) % 2 = 1 /\ (((k + 1) + 1) + 1) \div 2 = g
    BY <2>2, <2>3, Places, k + 1 \in Nat
  <2>5. IsEvent(Len(log[n]) + Len(queue[n]) + 1, a)
    <3>1. IsEvent(k + 1, a)
      BY <1>6, <2>3 DEF IsEvent
    <3>2. Len(log[n]) + Len(queue[n]) + 1 = k + 1
      BY <1>1
    <3> QED BY <3>1, <3>2
  <2>6. r \in Seq(Events) /\ History(log[n], r) /\ Len(log[n]) + Len(r) = k + 1
    BY <1>1, <1>5, <2>1, <2>5, HistoryQueued, LongerQueue
  <2>7. IsEvent(Len(log[n]) + Len(r) + 1, b)
    BY <1>6, <2>2, <2>4, <2>6 DEF IsEvent
  <2>8. History(log[n], q) /\ Len(log[n]) + Len(q) = (k + 1) + 1
    BY <1>1, <1>5, <2>2, <2>6, <2>7, HistoryQueued
  <2>9. q \in Seq(Events) /\ q # <<>>
    BY <1>5, <2>2, <2>6, LongerQueue
  <2>10. g \in Nat /\ g > 0 /\ g >= generation[n]
    BY <1>1, <2>2
  <2> QED BY <2>2, <2>4, <2>8, <2>9, <2>10
<1> QED BY <1>7, <1>8, <1>9

(* register_connection installs the newcomer. *)
LEMMA InstallKeepsEvents ==
  ASSUME EventInv, PermitInv, NEW n \in Nodes, NEW s \in Sockets, Register(n, s), ~IncumbentWins(n, s)
  PROVE  EventInv'
<1> DEFINE t == <<n, s, "install">>
           c == [gen |-> InstalledGeneration(n, s), creation |-> met[s][Peer(n)], down |-> FALSE]
<1>0. HubTypes /\ PermitTypes /\ HistoryInv(n) /\ InstallInv(n) /\ GateInv(n) /\ LateInv(n)
  BY DEF EventInv, NodeInv, PermitInv
<1>1. PICK q : q = queue[n] \o InstallEvents(n, s)
  OBVIOUS
<1>2. PICK g : g = IF Swap(n, s) THEN generation[n] ELSE generation[n] + 1
  OBVIOUS
<1>3. /\ q \in Seq(Events) /\ History(log[n], q) /\ (q = <<>> => queue[n] = <<>>)
      /\ (Len(log[n]) + Len(q)) % 2 = 1 /\ g = ((Len(log[n]) + Len(q)) + 1) \div 2
      /\ g \in Nat /\ g > 0 /\ g >= generation[n] /\ InstalledGeneration(n, s) = g
  BY <1>0, <1>1, <1>2, InstallHistory
<1>4. /\ task[t].at = "register" /\ conn' = [conn EXCEPT ![n][s] = c]
      /\ generation' = [generation EXCEPT ![n] = g] /\ queue' = [queue EXCEPT ![n] = q]
      /\ table' = [table EXCEPT ![n] = s]
      /\ task' = [task EXCEPT ![t] = [at |-> IF table[n] = None THEN "dispatch" ELSE "mark", victim |-> table[n]]]
      /\ UNCHANGED <<creation, init, resp, met, log, stream, gate, late>>
  BY <1>1, <1>2 DEF Register
<1>5. /\ task[<<n, s, "read">>].at = "off" /\ gate[n] # t /\ ~Owes(t) /\ HandshakeAt(n, s) = "register"
      /\ t \in Tasks /\ t[1] = n /\ t[3] = "install"
      /\ \A r \in Sockets : /\ <<n, r, "install">> \in Tasks /\ <<n, r, "read">> \in Tasks
                            /\ <<n, r, "read">> # t /\ (r # s => <<n, r, "install">> # t)
  BY <1>4, InstallTask
<1>6. c \in [gen : Nat, creation : Nat, down : BOOLEAN] /\ c.gen = g
  BY <1>0, <1>3, PeerFacts DEF HubTypes
<1>7. /\ conn' \in [Nodes -> [Sockets -> [gen : Nat, creation : Nat, down : BOOLEAN]]]
      /\ conn'[n][s].gen = g /\ (\A r \in Sockets : r # s => conn'[n][r] = conn[n][r])
      /\ \A m \in Nodes : m # n => conn'[m] = conn[m]
  <2> HIDE DEF c
  <2> QED BY <1>0, <1>4, <1>6 DEF HubTypes
<1>8. /\ generation'[n] = g /\ queue'[n] = q /\ table'[n] = s
      /\ \A m \in Nodes : m # n => generation'[m] = generation[m] /\ queue'[m] = queue[m] /\ table'[m] = table[m]
  BY <1>0, <1>4 DEF HubTypes, PermitTypes
<1>9. HubTypes'
  BY <1>0, <1>3, <1>4, <1>7 DEF HubTypes
<1>10. /\ task'[t].at \in {"dispatch", "mark"} /\ (task'[t].at = "mark" => task'[t].victim \in Sockets)
       /\ \A x \in Tasks : x # t => task'[x] = task[x]
  BY <1>0, <1>4, <1>5 DEF PermitTypes
<1>11. \A m \in Nodes, r \in Sockets : HandshakeAt(m, r)' = HandshakeAt(m, r)
  BY <1>4 DEF HandshakeAt
<1>12. HistoryInv(n)'
  BY <1>3, <1>4, <1>7, <1>8, ConnectionsAssumption DEF HistoryInv, Queued
<1>13. LateInv(n)'
  BY <1>0, <1>3, <1>4, <1>8, LateKept
<1>14. InstallInv(n)'
  <2> SUFFICES ASSUME NEW r \in Sockets
               PROVE  /\ conn'[n][r].gen <= generation'[n]
                      /\ task'[<<n, r, "install">>].at # "off" => HandshakeAt(n, r)' = "register"
                      /\ task'[<<n, r, "read">>].at # "off" => HandshakeAt(n, r)' = "done"
                      /\ task'[<<n, r, "install">>].at \notin {"off", "register"} => conn'[n][r].gen > 0
                      /\ task'[<<n, r, "read">>].at = "reading" =>
                           \E i \in 1..Len(log'[n]) : log'[n][i].kind = "Up" /\ log'[n][i].gen = conn'[n][r].gen
    BY DEF InstallInv
  <2>1. task'[<<n, r, "read">>] = task[<<n, r, "read">>] /\ HandshakeAt(n, r)' = HandshakeAt(n, r)
    BY <1>5, <1>10, <1>11
  <2>2. CASE r = s
    <3>1. conn'[n][r].gen = g /\ generation'[n] = g
      BY <1>7, <1>8, <2>2
    <3>2. g \in Nat /\ g > 0
      BY <1>3
    <3>3. g <= g
      BY <3>2
    <3> QED BY <1>5, <2>1, <2>2, <3>1, <3>2, <3>3
  <2>3. CASE r # s
    <3>1. task'[<<n, r, "install">>] = task[<<n, r, "install">>] /\ conn'[n][r] = conn[n][r] /\ log' = log
      BY <1>4, <1>5, <1>7, <1>10, <2>3
    <3>2. conn[n][r].gen \in Nat /\ generation[n] \in Nat /\ conn[n][r].gen <= generation[n]
      <4>1. conn[n][r] \in [gen : Nat, creation : Nat, down : BOOLEAN] /\ generation[n] \in Nat
        BY <1>0 DEF HubTypes
      <4>2. conn[n][r].gen <= generation[n]
        BY <1>0 DEF InstallInv
      <4> QED BY <4>1, <4>2
    <3>4. g \in Nat /\ g >= generation[n]
      BY <1>3
    <3>3. conn'[n][r].gen <= generation'[n]
      BY <1>8, <3>1, <3>2, <3>4
    <3> QED BY <1>0, <2>1, <3>1, <3>3 DEF InstallInv
  <2> QED BY <2>2, <2>3
<1>15. GateInv(n)'
  <2>1. Owes(t)'
    BY <1>5, <1>10 DEF Owes
  <2> HIDE DEF t
  <2> QED BY <1>0, <1>4, <1>5, <1>10, <2>1, GateMoves
<1>16. ASSUME NEW m \in Nodes, m # n PROVE Alike(m)
  <2>1. \A x \in Tasks : x[1] = m => task'[x] = task[x]
    BY <1>5, <1>10, <1>16
  <2> QED BY <1>4, <1>7, <1>8, <1>16, <2>1 DEF Alike
<1> QED BY <1>9, <1>11, <1>12, <1>13, <1>14, <1>15, <1>16, NodeActs DEF NodeInv

(* register_connection, whatever it decides. *)
LEMMA RegisterKeepsEvents ==
  ASSUME EventInv, PermitInv, NEW n \in Nodes, NEW s \in Sockets, Register(n, s) \/ RegisterFails(n, s)
  PROVE  EventInv'
<1>0. PermitTypes
  BY DEF PermitInv
<1>1. CASE Register(n, s) /\ IncumbentWins(n, s)
  <2>1. /\ task[<<n, s, "install">>].at = "register" /\ HandshakeOver(n, s)
        /\ task' = [task EXCEPT ![<<n, s, "install">>] = Off]
        /\ UNCHANGED <<creation, met, conn, table, generation, hub, gate, late>>
    BY <1>1 DEF Register, hub
  <2> QED BY <1>0, <2>1, InstallGivenUp
<1>2. CASE Register(n, s) /\ ~IncumbentWins(n, s)
  BY <1>2, InstallKeepsEvents
<1>3. CASE RegisterFails(n, s)
  BY <1>0, <1>3, InstallGivenUp DEF RegisterFails
<1> QED BY <1>1, <1>2, <1>3

(* connection_down queues the Down of the link that was in force. *)
LEMMA ConnectionDownKeepsEvents ==
  ASSUME EventInv, PermitInv, NEW t \in Tasks, ConnectionDown(t)
  PROVE  EventInv'
<1> DEFINE n == t[1]
           v == task[t].victim
<1>0. HubTypes /\ PermitTypes /\ n \in Nodes /\ HistoryInv(n) /\ InstallInv(n) /\ GateInv(n) /\ LateInv(n)
  BY TaskFacts DEF EventInv, NodeInv, PermitInv
<1>1. /\ task[t].at = "reap" /\ Go(t, "dispatch")
      /\ UNCHANGED <<creation, init, resp, met, conn, generation, log, stream, gate, late>>
  BY DEF ConnectionDown, handshake
<1>2. task'[t].at = "dispatch" /\ \A x \in Tasks : x # t => task'[x] = task[x]
  BY <1>0, <1>1, GoEffect DEF TaskPlaces
<1>3. \A m \in Nodes, r \in Sockets : HandshakeAt(m, r)' = HandshakeAt(m, r)
  BY <1>1 DEF HandshakeAt
<1>4. Owes(t) /\ Owes(t)'
  BY <1>1, <1>2 DEF Owes
<1>5. InstallInv(n)'
  <2>1. \A s \in Sockets : /\ <<n, s, "install">> \in Tasks /\ <<n, s, "read">> \in Tasks
    BY <1>0, TaskFacts
  <2>2. \A x \in Tasks : /\ task'[x].at # "off" => task[x].at # "off"
                         /\ task'[x].at \notin {"off", "register"} => task[x].at \notin {"off", "register"}
                         /\ task'[x].at = "reading" => task[x].at = "reading"
    BY <1>1, <1>2
  <2>3. \A i \in 1..Len(log[n]) : i \in 1..Len(log'[n]) /\ log'[n][i] = log[n][i]
    BY <1>1
  <2> QED BY <1>0, <1>1, <1>3, <2>1, <2>2, <2>3, InstallKept
<1>6. GateInv(n)'
  BY <1>0, <1>1, <1>2, <1>4, GateMoves
<1>7. CASE table[n] = v
  <2>0. v \in Sockets /\ v # None
    BY <1>0, <1>1, ConnectionsAssumption DEF GateInv
  <2>1. PICK e : e = Down(conn[n][v].gen)
    OBVIOUS
  <2>2. queue' = [queue EXCEPT ![n] = Append(@, e)] /\ table' = [table EXCEPT ![n] = None]
    BY <1>7, <2>1 DEF ConnectionDown
  <2>3. PICK k \in Nat : k = Queued(n)
    BY <1>0 DEF HubTypes, Queued
  <2>4. /\ log[n] \in Seq(Events) /\ queue[n] \in Seq(Events) /\ History(log[n], queue[n])
        /\ Len(log[n]) + Len(queue[n]) = k /\ k % 2 = 1 /\ generation[n] = (k + 1) \div 2
        /\ generation[n] \in Nat /\ conn[n][v].gen = generation[n]
    BY <1>0, <1>7, <2>0, <2>3 DEF HubTypes, HistoryInv, Queued
  <2>5. e \in Events /\ e.kind = "Down" /\ e.gen = generation[n]
    BY <2>1, <2>4 DEF Down, Events
  <2>6. (k + 1) % 2 = 0 /\ ((k + 1) + 1) \div 2 = generation[n]
    BY <2>4, Places
  <2>7. IsEvent(k + 1, e)
    BY <2>5, <2>6 DEF IsEvent
  <2>8. IsEvent(Len(log[n]) + Len(queue[n]) + 1, e)
    BY <2>4, <2>7
  <2>9. PICK q : q = Append(queue[n], e)
    OBVIOUS
  <2>10. q \in Seq(Events) /\ q # <<>> /\ History(log[n], q) /\ Len(log[n]) + Len(q) = k + 1
    <3>1. q \in Seq(Events) /\ q # <<>>
      BY <2>4, <2>5, <2>9, LongerQueue
    <3>2. History(log[n], q) /\ Len(log[n]) + Len(q) = Len(log[n]) + Len(queue[n]) + 1
      BY <2>4, <2>5, <2>8, <2>9, HistoryQueued
    <3> QED BY <2>4, <3>1, <3>2
  <2>11. /\ queue'[n] = q /\ table'[n] = None
         /\ \A m \in Nodes : m # n => queue'[m] = queue[m] /\ table'[m] = table[m]
    BY <1>0, <2>2, <2>9 DEF HubTypes, PermitTypes
  <2>12. HubTypes'
    <3>1. queue' \in [Nodes -> Seq(Events)]
      BY <1>0, <2>2, <2>9, <2>10 DEF HubTypes
    <3> QED BY <1>0, <1>1, <3>1 DEF HubTypes
  <2>13. HistoryInv(n)'
    BY <1>1, <2>6, <2>10, <2>11 DEF HistoryInv, Queued
  <2>14. LateInv(n)'
    BY <1>0, <1>1, <2>10, <2>11, LateKept
  <2>15. ASSUME NEW m \in Nodes, m # n PROVE Alike(m)
    BY <1>1, <1>2, <2>11, <2>15 DEF Alike
  <2> QED BY <1>0, <1>3, <1>5, <1>6, <2>12, <2>13, <2>14, <2>15, NodeActs DEF NodeInv
<1>8. CASE table[n] # v
  <2>1. UNCHANGED <<queue, table>>
    BY <1>8 DEF ConnectionDown
  <2>2. HubTypes'
    BY <1>0, <1>1, <2>1 DEF HubTypes
  <2>3. HistoryInv(n)' /\ LateInv(n)'
    BY <1>0, <1>1, <2>1, HistoryKept, LateKept
  <2>4. ASSUME NEW m \in Nodes, m # n PROVE Alike(m)
    BY <1>1, <1>2, <2>1, <2>4 DEF Alike
  <2> QED BY <1>0, <1>3, <1>5, <1>6, <2>2, <2>3, <2>4, NodeActs DEF NodeInv
<1> QED BY <1>7, <1>8

(* Two events of a history, one after the other. *)
LEMMA NextEvent ==
  ASSUME NEW k \in Nat, NEW a \in Events, NEW b \in Events, IsEvent(k, a), IsEvent(k + 1, b)
  PROVE  \/ a.kind = "Up" /\ b.kind = "Down" /\ b.gen = a.gen
         \/ a.kind = "Down" /\ b.kind = "Up" /\ b.gen > a.gen
<1>1. CASE k % 2 = 1
  BY <1>1, Places DEF IsEvent
<1>2. CASE k % 2 = 0
  <2>1. (k + 1) % 2 = 1 /\ ((k + 1) + 1) \div 2 = (k + 1) \div 2 + 1
    BY <1>2, Places
  <2>2. a.kind = "Down" /\ a.gen = (k + 1) \div 2 /\ b.kind = "Up" /\ b.gen = (k + 1) \div 2 + 1
    BY <1>2, <2>1 DEF IsEvent
  <2>3. a.gen \in Nat
    BY DEF Events
  <2> QED BY <2>2, <2>3
<1> QED BY <1>1, <1>2, Places

(* The late subscriber is told of the event that is delivered. *)
LEMMA LateDelivered ==
  ASSUME HubTypes, NEW n \in Nodes, LateInv(n), HistoryInv(n), DeliverFirst(n), late' = late, late[n].at # "check"
  PROVE  LateInv(n)'
<1>1. PICK h : h = Head(queue[n])
  OBVIOUS
<1>2. /\ log[n] \in Seq(Events) /\ queue[n] \in Seq(Events) /\ stream[n] \in Seq(Events) /\ queue[n] # <<>>
      /\ History(log[n], queue[n]) /\ log'[n] = Append(log[n], h)
      /\ stream'[n] = IF late[n].at \in {"last", "on"} THEN Append(stream[n], h) ELSE stream[n]
  BY <1>1 DEF HubTypes, DeliverFirst, HistoryInv
<1>3. PICK k \in Nat, j \in Nat : k = Len(log[n]) /\ j = Len(stream[n])
  <2>1. \A x \in Seq(Events) : Len(x) \in Nat
    OBVIOUS
  <2>2. Len(log[n]) \in Nat /\ Len(stream[n]) \in Nat
    BY <1>2, <2>1
  <2> QED BY <2>2
<1>4. h \in Events /\ IsEvent(k + 1, h)
  BY <1>1, <1>2, <1>3, HistoryDelivered
<1>5. Len(log'[n]) = k + 1 /\ k + 1 > 0
  BY <1>2, <1>3, <1>4, LongerQueue
<1>6. CASE late[n].at \notin {"last", "on"}
  <2>1. stream'[n] = <<>>
    BY <1>2, <1>6 DEF LateInv
  <2>2. Len(<<>>) = 0 /\ 2..0 = {}
    OBVIOUS
  <2> QED BY <1>6, <2>1, <2>2 DEF LateInv
<1>7. CASE late[n].at \in {"last", "on"}
  <2>1. PICK r : r = Append(stream[n], h)
    OBVIOUS
  <2>2. /\ stream'[n] = r /\ Len(r) = j + 1 /\ r[j + 1] = h
        /\ \A i \in 1..j : r[i] = stream[n][i]
    BY <1>2, <1>3, <1>4, <1>7, <2>1, LongerQueue
  <2>3. ASSUME NEW i \in 2..(j + 1)
        PROVE  \/ r[i - 1].kind = "Up" /\ r[i].kind = "Down" /\ r[i].gen = r[i - 1].gen
               \/ r[i - 1].kind = "Down" /\ r[i].kind = "Up" /\ r[i].gen > r[i - 1].gen
    <3>1. CASE i \in 2..j
      <4>1. i \in 1..j /\ i - 1 \in 1..j
        BY <3>1
      <4>2. r[i] = stream[n][i] /\ r[i - 1] = stream[n][i - 1]
        BY <2>2, <4>1
      <4> QED BY <1>3, <3>1, <4>2 DEF LateInv
    <3>2. CASE i = j + 1
      <4>1. i - 1 = j /\ j \in 1..j /\ j # 0
        BY <3>2
      <4>2. stream[n] # <<>>
        <5>1. \A x \in Seq(Events) : x = <<>> => Len(x) = 0
          OBVIOUS
        <5> QED BY <1>2, <1>3, <4>1, <5>1
      <4>3. PICK a : a = stream[n][j]
        OBVIOUS
      <4>4. a \in Events /\ IsEvent(k, a)
        BY <1>2, <1>3, <4>1, <4>2, <4>3 DEF LateInv
      <4>5. r[i - 1] = a /\ r[i] = h
        BY <2>2, <3>2, <4>1, <4>3
      <4> QED BY <1>4, <4>4, <4>5, NextEvent
    <3> QED BY <3>1, <3>2
  <2>4. IsEvent(Len(log'[n]), r[Len(r)])
    BY <1>4, <1>5, <2>2
  <2> QED BY <1>5, <1>7, <2>2, <2>3, <2>4 DEF LateInv
<1> QED BY <1>6, <1>7

(* One event is delivered. *)
LEMMA DeliveryKeepsEvents ==
  ASSUME EventInv, PermitInv, NEW n \in Nodes, DeliverFirst(n), late[n].at # "check",
         UNCHANGED <<creation, init, resp, met, conn, table, generation, gate, task, late>>
  PROVE  EventInv'
<1>0. HubTypes /\ HistoryInv(n) /\ InstallInv(n) /\ GateInv(n) /\ LateInv(n)
  BY DEF EventInv, NodeInv
<1>1. PICK l, q : l = Append(log[n], Head(queue[n])) /\ q = Tail(queue[n])
  OBVIOUS
<1>2. /\ log[n] \in Seq(Events) /\ queue[n] \in Seq(Events) /\ queue[n] # <<>> /\ History(log[n], queue[n])
      /\ log'[n] = l /\ queue'[n] = q
      /\ \A m \in Nodes : m # n => log'[m] = log[m] /\ queue'[m] = queue[m] /\ stream'[m] = stream[m]
  BY <1>0, <1>1 DEF HubTypes, DeliverFirst, HistoryInv
<1>3. Head(queue[n]) \in Events /\ q \in Seq(Events) /\ l \in Seq(Events)
  BY <1>1, <1>2, RestOfQueue, LongerQueue
<1>4. History(l, q) /\ Len(l) + Len(q) = Len(log[n]) + Len(queue[n])
  BY <1>1, <1>2, HistoryDelivered
<1>5. HubTypes'
  <2>1. log' \in [Nodes -> Seq(Events)] /\ queue' \in [Nodes -> Seq(Events)]
    BY <1>0, <1>1, <1>3 DEF HubTypes, DeliverFirst
  <2>2. stream' \in [Nodes -> Seq(Events)]
    <3>1. PICK z : z = IF late[n].at \in {"last", "on"} THEN Append(stream[n], Head(queue[n])) ELSE stream[n]
      OBVIOUS
    <3>2. z \in Seq(Events)
      BY <1>0, <1>3, <3>1, LongerQueue DEF HubTypes
    <3> QED BY <1>0, <3>1, <3>2 DEF HubTypes, DeliverFirst
  <2> QED BY <1>0, <2>1, <2>2 DEF HubTypes
<1>6. HistoryInv(n)'
  BY <1>0, <1>2, <1>4 DEF HistoryInv, Queued
<1>7. \A i \in 1..Len(log[n]) : i \in 1..Len(log'[n]) /\ log'[n][i] = log[n][i]
  BY <1>1, <1>2, <1>3, LongerQueue
<1>8. \A m \in Nodes, r \in Sockets : HandshakeAt(m, r)' = HandshakeAt(m, r)
  BY DEF HandshakeAt
<1>9. InstallInv(n)'
  BY <1>0, <1>7, <1>8, InstallKept
<1>10. GateInv(n)'
  <2>1. \A x \in Tasks : Owes(x) => Owes(x)'
    BY DEF Owes
  <2>2. PICK x \in Tasks : x[1] = n /\ Owes(x)
    BY <1>0, <1>2 DEF GateInv
  <2> QED BY <1>0, <2>1, <2>2 DEF GateInv
<1>11. LateInv(n)'
  BY <1>0, LateDelivered
<1>12. ASSUME NEW m \in Nodes, m # n PROVE Alike(m)
  BY <1>2, <1>12 DEF Alike
<1> QED BY <1>5, <1>6, <1>8, <1>9, <1>10, <1>11, <1>12, NodeActs DEF NodeInv

(* Once everything is delivered, so is the Up of every generation there was. *)
LEMMA UpDelivered ==
  ASSUME NEW l \in Seq(Events), History(l, <<>>), NEW g \in Nat, g > 0, g <= (Len(l) + 1) \div 2
  PROVE  \E i \in 1..Len(l) : l[i].kind = "Up" /\ l[i].gen = g
<1>1. PICK k \in Nat : k = Len(l)
  OBVIOUS
<1>2. PICK i \in Nat : i = 2 * g - 1
  OBVIOUS
<1>3. i % 2 = 1 /\ (i + 1) \div 2 = g
  BY <1>2
<1>4. i \in 1..k
  BY <1>1, <1>2
<1>5. IsEvent(i, l[i])
  BY <1>1, <1>4 DEF History
<1> QED BY <1>1, <1>3, <1>4, <1>5 DEF IsEvent

(* A caller of dispatch returns: nothing is left in the queue. *)
LEMMA ReturnKeepsEvents ==
  ASSUME EventInv, PermitInv, NEW t \in Tasks, NEW n \in Nodes, n = t[1], task[t].at \in {"drain", "dispatch"},
         Return(t), UNCHANGED <<creation, met, conn, table, generation, late>>,
         queue' \in [Nodes -> Seq(Events)], log' \in [Nodes -> Seq(Events)], stream' \in [Nodes -> Seq(Events)],
         gate' \in [Nodes -> Tasks \cup {Free, Late}],
         queue'[n] = <<>>, HistoryInv(n)', LateInv(n)', gate'[n] # t,
         \A i \in 1..Len(log[n]) : i \in 1..Len(log'[n]) /\ log'[n][i] = log[n][i],
         \/ gate'[n] = gate[n]
         \/ gate[n] \in {Free, t} /\ gate'[n] \in {Free, t} /\ n \in Stepwise,
         \A m \in Nodes : m # n => /\ log'[m] = log[m] /\ queue'[m] = queue[m]
                                   /\ stream'[m] = stream[m] /\ gate'[m] = gate[m]
  PROVE  EventInv'
<1>0. HubTypes /\ PermitTypes /\ HistoryInv(n) /\ InstallInv(n) /\ GateInv(n) /\ LateInv(n)
  BY DEF EventInv, NodeInv, PermitInv
<1>1. CASE t[3] = "install"
  <2> DEFINE s == t[2]
             d == <<n, s, "read">>
  <2>0. /\ s \in Sockets /\ t = <<n, s, "install">> /\ d \in Tasks /\ d # t /\ d[1] = n
        /\ \A r \in Sockets : /\ <<n, r, "install">> \in Tasks /\ <<n, r, "read">> \in Tasks
                              /\ <<n, r, "read">> # t /\ (r # s => <<n, r, "install">> # t /\ <<n, r, "read">> # d)
                              /\ <<n, r, "install">> # d
    BY <1>1, TaskFacts
  <2>1. /\ task' = [task EXCEPT ![t] = Off, ![d] = [at |-> "reading", victim |-> s]]
        /\ HandshakeOver(n, s)
    BY <1>1 DEF Return
  <2>2. /\ task'[t].at = "off" /\ task'[d].at = "reading" /\ task'[d].victim = s
        /\ \A x \in Tasks : x # t /\ x # d => task'[x] = task[x]
    BY <1>0, <2>0, <2>1 DEF PermitTypes, Off
  <2>3. /\ HandshakeAt(n, s)' = "done"
        /\ \A m \in Nodes, r \in Sockets : m # n \/ r # s => HandshakeAt(m, r)' = HandshakeAt(m, r)
        /\ init' \in [Sockets -> {"unused", "name", "replied", "register", "done", "failed"}]
    BY <1>0, <2>0, <2>1, HandshakeOverEffect
  <2>4. HubTypes'
    BY <1>0, <2>3 DEF HubTypes
  <2>5. HandshakeAt(n, s) = "register" /\ task[d].at = "off" /\ conn[n][s].gen > 0
    BY <1>0, <2>0 DEF InstallInv
  <2>6. \E i \in 1..Len(log'[n]) : log'[n][i].kind = "Up" /\ log'[n][i].gen = conn[n][s].gen
    <3>1. PICK l : l = log'[n]
      OBVIOUS
    <3>2. l \in Seq(Events) /\ History(l, <<>>) /\ generation[n] = (Len(l) + 0 + 1) \div 2
      BY <3>1, Len(<<>>) = 0 DEF HistoryInv, Queued
    <3>3. Len(l) + 0 + 1 = Len(l) + 1
      BY <3>2
    <3>4. conn[n][s] \in [gen : Nat, creation : Nat, down : BOOLEAN]
      BY <1>0, <2>0 DEF HubTypes
    <3>5. conn[n][s].gen \in Nat /\ conn[n][s].gen <= generation[n]
      BY <1>0, <2>0, <3>4 DEF InstallInv
    <3>6. PICK g \in Nat : g = conn[n][s].gen
      BY <3>5
    <3>7. g > 0 /\ g <= (Len(l) + 1) \div 2
      BY <2>5, <3>2, <3>3, <3>5, <3>6
    <3>8. \E i \in 1..Len(l) : l[i].kind = "Up" /\ l[i].gen = g
      BY <3>2, <3>7, UpDelivered
    <3> QED BY <3>1, <3>6, <3>8
  <2>7. InstallInv(n)'
    <3> SUFFICES ASSUME NEW r \in Sockets
                 PROVE  /\ conn'[n][r].gen <= generation'[n]
                        /\ task'[<<n, r, "install">>].at # "off" => HandshakeAt(n, r)' = "register"
                        /\ task'[<<n, r, "read">>].at # "off" => HandshakeAt(n, r)' = "done"
                        /\ task'[<<n, r, "install">>].at \notin {"off", "register"} => conn'[n][r].gen > 0
                        /\ task'[<<n, r, "read">>].at = "reading" =>
                             \E i \in 1..Len(log'[n]) : log'[n][i].kind = "Up" /\ log'[n][i].gen = conn'[n][r].gen
      BY DEF InstallInv
    <3>1. conn'[n][r].gen <= generation'[n]
      BY <1>0 DEF InstallInv
    <3>2. CASE r = s
      BY <2>0, <2>2, <2>3, <2>6, <3>1, <3>2
    <3>3. CASE r # s
      <4>1. /\ task'[<<n, r, "install">>] = task[<<n, r, "install">>]
            /\ task'[<<n, r, "read">>] = task[<<n, r, "read">>] /\ HandshakeAt(n, r)' = HandshakeAt(n, r)
        BY <2>0, <2>2, <2>3, <3>3
      <4>2. ASSUME task[<<n, r, "read">>].at = "reading"
            PROVE  \E i \in 1..Len(log'[n]) : log'[n][i].kind = "Up" /\ log'[n][i].gen = conn'[n][r].gen
        <5>1. PICK i \in 1..Len(log[n]) : log[n][i].kind = "Up" /\ log[n][i].gen = conn[n][r].gen
          BY <1>0, <4>2 DEF InstallInv
        <5> QED BY <5>1
      <4> QED BY <1>0, <3>1, <4>1, <4>2 DEF InstallInv
    <3> QED BY <3>2, <3>3
  <2>8. GateInv(n)'
    <3>1. /\ \A x \in Tasks : x # t =>
               \/ task'[x] = task[x]
               \/ task[x].at = "off" /\ task'[x].at = "reading" /\ task'[x].victim \in Sockets
          /\ task'[t].at = "off"
      BY <2>0, <2>2, <2>5
    <3> QED BY <1>0, <3>1, GateMoves
  <2>9. ASSUME NEW m \in Nodes, m # n PROVE Alike(m)
    <3>1. \A x \in Tasks : x[1] = m => task'[x] = task[x]
      BY <2>0, <2>2, <2>9
    <3> QED BY <2>9, <3>1 DEF Alike
  <2> QED BY <2>3, <2>4, <2>7, <2>8, <2>9, NodeActs DEF NodeInv
<1>2. CASE t[3] # "install"
  <2>1. Go(t, "off") /\ UNCHANGED <<init, resp>>
    BY <1>2 DEF Return
  <2>2. task'[t].at = "off" /\ \A x \in Tasks : x # t => task'[x] = task[x]
    BY <1>0, <2>1, GoEffect DEF TaskPlaces
  <2>3. HubTypes'
    BY <1>0, <2>1 DEF HubTypes
  <2>4. \A m \in Nodes, r \in Sockets : HandshakeAt(m, r)' = HandshakeAt(m, r)
    BY <2>1 DEF HandshakeAt
  <2>5. InstallInv(n)'
    <3>1. \A r \in Sockets : <<n, r, "install">> \in Tasks /\ <<n, r, "read">> \in Tasks
      BY TaskFacts
    <3>2. \A x \in Tasks : task'[x].at # "off" => task'[x] = task[x]
      BY <2>2
    <3>3. \A r \in Sockets :
             /\ task'[<<n, r, "install">>].at # "off" => task[<<n, r, "install">>].at # "off"
             /\ task'[<<n, r, "install">>].at \notin {"off", "register"} =>
                   task[<<n, r, "install">>].at \notin {"off", "register"}
             /\ task'[<<n, r, "read">>].at # "off" => task[<<n, r, "read">>].at # "off"
             /\ task'[<<n, r, "read">>].at = "reading" => task[<<n, r, "read">>].at = "reading"
      BY <3>1, <3>2
    <3> QED BY <1>0, <2>4, <3>3, InstallKept
  <2>6. GateInv(n)'
    BY <1>0, <2>2, GateMoves
  <2>7. ASSUME NEW m \in Nodes, m # n PROVE Alike(m)
    <3>1. \A x \in Tasks : x[1] = m => task'[x] = task[x]
      BY <2>2, <2>7
    <3> QED BY <2>7, <3>1 DEF Alike
  <2> QED BY <2>3, <2>4, <2>5, <2>6, <2>7, NodeActs DEF NodeInv
<1> QED BY <1>1, <1>2

(* The steps of dispatch. *)
LEMMA DispatchKeepsEvents ==
  ASSUME EventInv, PermitInv, NEW t \in Tasks, Drain(t) \/ DispatchReturns(t) \/ DispatchAtOnce(t)
  PROVE  EventInv'
<1> DEFINE n == t[1]
<1>0. HubTypes /\ n \in Nodes /\ HistoryInv(n) /\ GateInv(n) /\ LateInv(n) /\ t # Late /\ t # Free
  BY TaskFacts, GateHolders DEF EventInv, NodeInv
<1>1. CASE Drain(t)
  <2>1. late[n].at # "check"
    BY <1>0, <1>1 DEF Drain, GateInv
  <2> QED BY <1>0, <1>1, <2>1, DeliveryKeepsEvents DEF Drain, handshake
<1>2. CASE DispatchReturns(t)
  <2>1. /\ task[t].at = "drain" /\ queue[n] = <<>> /\ gate' = [gate EXCEPT ![n] = Free] /\ Return(t)
        /\ UNCHANGED <<creation, met, conn, table, generation, late>>
        /\ log' = log /\ queue' = queue /\ stream' = stream
    BY <1>2 DEF DispatchReturns, hub
  <2>2. gate[n] = t /\ n \in Stepwise
    BY <1>0, <2>1 DEF GateInv
  <2>3. /\ gate' \in [Nodes -> Tasks \cup {Free, Late}] /\ gate'[n] = Free
        /\ \A m \in Nodes : m # n => gate'[m] = gate[m]
    BY <1>0, <2>1 DEF HubTypes
  <2>4. HistoryInv(n)' /\ LateInv(n)'
    BY <1>0, <2>1, HistoryKept, LateKept
  <2>5. /\ queue' \in [Nodes -> Seq(Events)] /\ log' \in [Nodes -> Seq(Events)] /\ stream' \in [Nodes -> Seq(Events)]
        /\ \A i \in 1..Len(log[n]) : i \in 1..Len(log'[n]) /\ log'[n][i] = log[n][i]
    BY <1>0, <2>1 DEF HubTypes
  <2>6. gate'[n] # t /\ gate[n] \in {Free, t} /\ gate'[n] \in {Free, t} /\ queue'[n] = <<>>
    BY <1>0, <2>1, <2>2, <2>3
  <2>7. \A m \in Nodes : m # n => /\ log'[m] = log[m] /\ queue'[m] = queue[m]
                                   /\ stream'[m] = stream[m] /\ gate'[m] = gate[m]
    BY <2>1, <2>3
  <2> HIDE DEF n
  <2> QED BY <1>0, <2>1, <2>2, <2>3, <2>4, <2>5, <2>6, <2>7, ReturnKeepsEvents DEF n
<1>3. CASE DispatchAtOnce(t)
  <2>0. PICK l : l = log[n] \o queue[n]
    OBVIOUS
  <2>1. /\ task[t].at = "dispatch" /\ n \notin Stepwise /\ log' = [log EXCEPT ![n] = l]
        /\ queue' = [queue EXCEPT ![n] = <<>>] /\ Return(t)
        /\ UNCHANGED <<creation, met, conn, table, generation, late>>
        /\ gate' = gate /\ stream' = stream
    BY <1>3, <2>0 DEF DispatchAtOnce
  <2>2. gate[n] = Free /\ late[n].at = "off" /\ stream[n] = <<>>
    BY <1>0, <2>1 DEF GateInv, LateInv
  <2>3. log[n] \in Seq(Events) /\ queue[n] \in Seq(Events) /\ History(log[n], queue[n])
    BY <1>0 DEF HubTypes, HistoryInv
  <2>4. /\ l \in Seq(Events) /\ History(l, <<>>) /\ Len(l) + Len(<<>>) = Len(log[n]) + Len(queue[n])
        /\ \A i \in 1..Len(log[n]) : i \in 1..Len(l) /\ l[i] = log[n][i]
    BY <2>0, <2>3, HistoryDrained
  <2>5. /\ log'[n] = l /\ queue'[n] = <<>> /\ \A m \in Nodes : m # n => log'[m] = log[m] /\ queue'[m] = queue[m]
    BY <1>0, <2>1 DEF HubTypes
  <2>6. HistoryInv(n)'
    BY <1>0, <2>1, <2>4, <2>5 DEF HistoryInv, Queued
  <2>7. LateInv(n)'
    <3>1. late'[n].at = "off" /\ stream'[n] = <<>>
      BY <2>1, <2>2
    <3>2. Len(<<>>) = 0 /\ 2..0 = {}
      OBVIOUS
    <3> QED BY <3>1, <3>2 DEF LateInv
  <2>8. /\ queue' \in [Nodes -> Seq(Events)] /\ log' \in [Nodes -> Seq(Events)] /\ stream' \in [Nodes -> Seq(Events)]
        /\ gate' \in [Nodes -> Tasks \cup {Free, Late}]
    BY <1>0, <2>1, <2>4, <<>> \in Seq(Events) DEF HubTypes
  <2>9. /\ \A m \in Nodes : m # n => /\ log'[m] = log[m] /\ queue'[m] = queue[m]
                                     /\ stream'[m] = stream[m] /\ gate'[m] = gate[m]
        /\ gate'[n] # t /\ gate'[n] = gate[n]
        /\ \A i \in 1..Len(log[n]) : i \in 1..Len(log'[n]) /\ log'[n][i] = log[n][i]
    BY <1>0, <2>1, <2>2, <2>4, <2>5
  <2> HIDE DEF n
  <2> QED BY <1>0, <2>1, <2>5, <2>6, <2>7, <2>8, <2>9, ReturnKeepsEvents DEF n
<1> QED BY <1>1, <1>2, <1>3

(* A runtime dies and starts again. *)
LEMMA RestartKeepsEvents ==
  ASSUME EventInv, PermitInv, NEW n \in Nodes, Restart(n)
  PROVE  EventInv'
<1>0. HubTypes /\ PermitTypes
  BY DEF EventInv, PermitInv
<1>1. /\ creation' = [creation EXCEPT ![n] = @ + 1]
      /\ init' = [s \in Sockets |-> IF Dialer[s] = n /\ init[s] # "unused" THEN "failed" ELSE init[s]]
      /\ resp' = [s \in Sockets |-> IF ~Accepts(n, s) \/ init[s] = "unused" THEN resp[s]
                                    ELSE IF resp[s] \in {"register", "done"} THEN "done" ELSE "failed"]
      /\ conn' = [conn EXCEPT ![n] = [s \in Sockets |-> NoConn]] /\ table' = [table EXCEPT ![n] = None]
      /\ generation' = [generation EXCEPT ![n] = 0] /\ queue' = [queue EXCEPT ![n] = <<>>]
      /\ log' = [log EXCEPT ![n] = <<>>] /\ stream' = [stream EXCEPT ![n] = <<>>]
      /\ late' = [late EXCEPT ![n] = [at |-> "off", snap |-> {}]] /\ gate' = [gate EXCEPT ![n] = Free]
      /\ task' = [t \in Tasks |-> IF t[1] = n THEN Off ELSE task[t]] /\ UNCHANGED met
  BY DEF Restart
<1>2. /\ conn'[n] = [s \in Sockets |-> NoConn] /\ table'[n] = None /\ generation'[n] = 0 /\ queue'[n] = <<>>
      /\ log'[n] = <<>> /\ stream'[n] = <<>> /\ late'[n] = [at |-> "off", snap |-> {}] /\ gate'[n] = Free
      /\ \A t \in Tasks : t[1] = n => task'[t].at = "off"
  BY <1>0, <1>1 DEF HubTypes, PermitTypes, Off
<1>3. HubTypes'
  <2>1. /\ creation' \in [Nodes -> Nat] /\ met' \in [Sockets -> [Nodes -> Nat]] /\ generation' \in [Nodes -> Nat]
        /\ init' \in [Sockets -> {"unused", "name", "replied", "register", "done", "failed"}]
    BY <1>0, <1>1 DEF HubTypes
  <2>2. NoConn \in [gen : Nat, creation : Nat, down : BOOLEAN]
    BY DEF NoConn
  <2>3. conn' \in [Nodes -> [Sockets -> [gen : Nat, creation : Nat, down : BOOLEAN]]]
    BY <1>0, <1>1, <2>2 DEF HubTypes
  <2>4. /\ queue' \in [Nodes -> Seq(Events)] /\ log' \in [Nodes -> Seq(Events)] /\ stream' \in [Nodes -> Seq(Events)]
    BY <1>0, <1>1, <<>> \in Seq(Events) DEF HubTypes
  <2>5. gate' \in [Nodes -> Tasks \cup {Free, Late}]
    BY <1>0, <1>1 DEF HubTypes
  <2>6. late' \in [Nodes -> [at : LatePlaces, snap : SUBSET Events]]
    BY <1>0, <1>1 DEF HubTypes, LatePlaces
  <2> QED BY <2>1, <2>3, <2>4, <2>5, <2>6 DEF HubTypes
<1>4. Len(<<>>) = 0 /\ 1..0 = {} /\ 2..0 = {} /\ 0 % 2 = 0 /\ (0 + 1) \div 2 = 0 /\ 0 + 0 = 0
  OBVIOUS
<1>5. HistoryInv(n)'
  <2>1. History(<<>>, <<>>)
    BY <1>4 DEF History
  <2> QED BY <1>2, <1>4, <2>1 DEF HistoryInv, Queued
<1>6. InstallInv(n)'
  <2>1. \A s \in Sockets : conn'[n][s].gen = 0
    BY <1>2 DEF NoConn
  <2>2. \A s \in Sockets : task'[<<n, s, "install">>].at = "off" /\ task'[<<n, s, "read">>].at = "off"
    BY <1>2, TaskFacts
  <2>3. 0 <= 0
    OBVIOUS
  <2> QED BY <1>2, <2>1, <2>2, <2>3 DEF InstallInv
<1>7. GateInv(n)'
  <2>1. late'[n].at = "off" /\ gate'[n] # Late /\ \A t \in Tasks : gate'[n] # t
    BY <1>2, GateHolders
  <2> QED BY <1>2, <2>1 DEF GateInv
<1>8. LateInv(n)'
  <2>1. late'[n].at = "off"
    BY <1>2
  <2> QED BY <1>2, <1>4, <2>1 DEF LateInv
<1>9. ASSUME NEW m \in Nodes, m # n
      PROVE  Alike(m) /\ \A s \in Sockets : HandshakeAt(m, s)' = HandshakeAt(m, s)
  <2>1. Alike(m)
    BY <1>0, <1>1, <1>9 DEF Alike, HubTypes, PermitTypes
  <2>2. ASSUME NEW s \in Sockets PROVE HandshakeAt(m, s)' = HandshakeAt(m, s)
    <3>1. Accepts(n, s) => Dialer[s] = m
      BY <1>9, ConnectionsAssumption DEF Accepts, Peer, Nodes
    <3> QED BY <1>0, <1>1, <1>9, <3>1 DEF HandshakeAt, HubTypes, PermitTypes
  <2> QED BY <2>1, <2>2
<1> QED BY <1>3, <1>5, <1>6, <1>7, <1>8, <1>9, NodeActs DEF NodeInv

(* The late subscriber goes on, and nothing is delivered to the others. *)
LEMMA LateMoves ==
  ASSUME EventInv, NEW n \in Nodes, NEW pc \in LatePlaces, UNCHANGED LateRest, UNCHANGED <<queue, log>>,
         late' \in [Nodes -> [at : LatePlaces, snap : SUBSET Events]], late'[n].at = pc,
         stream' \in [Nodes -> Seq(Events)], gate' \in [Nodes -> Tasks \cup {Free, Late}],
         \A m \in Nodes : m # n => late'[m] = late[m] /\ stream'[m] = stream[m] /\ gate'[m] = gate[m],
         \/ gate'[n] = gate[n]
         \/ gate[n] \in {Free, Late} /\ gate'[n] \in {Free, Late},
         gate'[n] = Late <=> pc \in {"drain", "snapshot", "check", "last"},
         n \in Stepwise, LateInv(n)'
  PROVE  EventInv'
<1>0. HubTypes /\ HistoryInv(n) /\ InstallInv(n) /\ GateInv(n)
  BY DEF EventInv, NodeInv
<1>1. UNCHANGED <<creation, init, resp, met, conn, table, generation, task>>
  BY DEF LateRest, handshake
<1>2. HubTypes'
  BY <1>0, <1>1 DEF HubTypes
<1>3. HistoryInv(n)'
  BY <1>0, <1>1, HistoryKept
<1>4. \A m \in Nodes, r \in Sockets : HandshakeAt(m, r)' = HandshakeAt(m, r)
  BY <1>1 DEF HandshakeAt
<1>5. InstallInv(n)'
  <2>1. \A i \in 1..Len(log[n]) : i \in 1..Len(log'[n]) /\ log'[n][i] = log[n][i]
    OBVIOUS
  <2> QED BY <1>0, <1>1, <1>4, <2>1, InstallKept
<1>6. GateInv(n)'
  BY <1>0, <1>1, GateLate
<1>7. ASSUME NEW m \in Nodes, m # n PROVE Alike(m)
  BY <1>1, <1>7 DEF Alike
<1> QED BY <1>2, <1>3, <1>4, <1>5, <1>6, <1>7, NodeActs DEF NodeInv

(* subscribe_with_snapshot. *)
LEMMA LateKeepsEvents ==
  ASSUME EventInv, PermitInv, NEW n \in Nodes, Subscribe(n) \/ LateStep(n)
  PROVE  EventInv'
<1>0. /\ HubTypes /\ PermitTypes /\ HistoryInv(n) /\ GateInv(n) /\ LateInv(n) /\ Free # Late
      /\ late[n].at \in LatePlaces /\ late[n].snap \subseteq Events /\ stream[n] \in Seq(Events)
      /\ late \in [Nodes -> [at : LatePlaces, snap : SUBSET Events]]
      /\ gate \in [Nodes -> Tasks \cup {Free, Late}] /\ stream \in [Nodes -> Seq(Events)]
  BY GateHolders DEF EventInv, NodeInv, HubTypes, PermitInv
<1>1. CASE Subscribe(n)
  <2>1. /\ late[n].at = "off" /\ gate[n] = Free /\ gate' = [gate EXCEPT ![n] = Late] /\ LateGoes(n, "drain")
        /\ UNCHANGED LateRest /\ log' = log /\ queue' = queue /\ stream' = stream
    BY <1>1 DEF Subscribe, hub
  <2>2. n \in Stepwise
    BY <1>1, ConnectionsAssumption DEF Subscribe
  <2>3. /\ late' \in [Nodes -> [at : LatePlaces, snap : SUBSET Events]] /\ late'[n].at = "drain"
        /\ gate' \in [Nodes -> Tasks \cup {Free, Late}] /\ gate'[n] = Late
        /\ \A m \in Nodes : m # n => late'[m] = late[m] /\ gate'[m] = gate[m]
    BY <1>0, <2>1 DEF LateGoes, LatePlaces
  <2>4. LateInv(n)'
    BY <1>0, <2>1, <2>3 DEF LateInv
  <2>5. "drain" \in LatePlaces
    BY DEF LatePlaces
  <2> QED BY <1>0, <2>1, <2>2, <2>3, <2>4, <2>5, LateMoves
<1>2. CASE LateDrains(n)
  BY <1>2, DeliveryKeepsEvents DEF LateDrains, LateRest, handshake
<1>3. CASE LateDrained(n)
  <2>1. /\ late[n].at = "drain" /\ LateGoes(n, "snapshot")
        /\ UNCHANGED LateRest /\ gate' = gate /\ log' = log /\ queue' = queue /\ stream' = stream
    BY <1>3 DEF LateDrained, hub
  <2>2. n \in Stepwise /\ gate[n] = Late
    BY <1>0, <2>1 DEF GateInv
  <2>3. /\ late' \in [Nodes -> [at : LatePlaces, snap : SUBSET Events]] /\ late'[n].at = "snapshot"
        /\ \A m \in Nodes : m # n => late'[m] = late[m]
    BY <1>0, <2>1 DEF LateGoes, LatePlaces
  <2>4. LateInv(n)'
    BY <1>0, <2>1, <2>3 DEF LateInv
  <2>5. "snapshot" \in LatePlaces
    BY DEF LatePlaces
  <2> QED BY <1>0, <2>1, <2>2, <2>3, <2>4, <2>5, LateMoves
<1>4. CASE Snapshot(n)
  <2>0. PICK sn : sn = IF Live(n) THEN {Up(conn[n][table[n]].gen, conn[n][table[n]].creation)} ELSE {}
    OBVIOUS
  <2>1. /\ late[n].at = "snapshot" /\ late' = [late EXCEPT ![n] = [at |-> "check", snap |-> sn]]
        /\ UNCHANGED LateRest /\ gate' = gate /\ log' = log /\ queue' = queue /\ stream' = stream
    BY <1>4, <2>0 DEF Snapshot, hub
  <2>2. n \in Stepwise /\ gate[n] = Late
    BY <1>0, <2>1 DEF GateInv
  <2>3. PICK e : e = Up(conn[n][table[n]].gen, conn[n][table[n]].creation)
    OBVIOUS
  <2>4. ASSUME Live(n)
        PROVE  /\ e \in Events /\ sn = {e}
               /\ queue[n] = <<>> => Len(log[n]) > 0 /\ IsEvent(Len(log[n]), e)
    <3>1. table[n] \in Sockets /\ table[n] # None
      BY <1>0, <2>4 DEF Live, PermitTypes
    <3>2. conn[n][table[n]] \in [gen : Nat, creation : Nat, down : BOOLEAN]
      BY <1>0, <3>1 DEF HubTypes
    <3>3. e \in Events /\ e.kind = "Up" /\ e.gen = generation[n] /\ sn = {e}
      BY <1>0, <2>0, <2>3, <2>4, <3>1, <3>2 DEF Up, Events, HistoryInv
    <3>4. ASSUME queue[n] = <<>> PROVE Len(log[n]) > 0 /\ IsEvent(Len(log[n]), e)
      <4>1. PICK k \in Nat : k = Len(log[n])
        BY <1>0 DEF HubTypes
      <4>2. Queued(n) = k
        BY <3>4, <4>1, Len(<<>>) = 0 DEF Queued
      <4>3. k % 2 = 1 /\ generation[n] = (k + 1) \div 2
        BY <1>0, <3>1, <4>2 DEF HistoryInv
      <4>4. k > 0
        BY <4>3
      <4> QED BY <3>3, <4>1, <4>3, <4>4 DEF IsEvent
    <3> QED BY <3>3, <3>4
  <2>5. sn \subseteq Events /\ (~Live(n) => sn = {})
    BY <2>0, <2>4
  <2>6. /\ late' \in [Nodes -> [at : LatePlaces, snap : SUBSET Events]]
        /\ late'[n].at = "check" /\ late'[n].snap = sn
        /\ \A m \in Nodes : m # n => late'[m] = late[m]
    BY <1>0, <2>1, <2>5 DEF LatePlaces
  <2>7. LateInv(n)'
    <3>1. stream'[n] = <<>>
      BY <1>0, <2>1 DEF LateInv
    <3>2. Len(<<>>) = 0 /\ 2..0 = {}
      OBVIOUS
    <3>3. ASSUME queue'[n] = <<>>
          PROVE  \/ late'[n].snap = {}
                 \/ \E x \in Events : late'[n].snap = {x} /\ Len(log'[n]) > 0 /\ IsEvent(Len(log'[n]), x)
      BY <2>1, <2>4, <2>5, <2>6, <3>3
    <3> QED BY <2>6, <3>1, <3>2, <3>3 DEF LateInv
  <2>8. "check" \in LatePlaces
    BY DEF LatePlaces
  <2> QED BY <1>0, <2>1, <2>2, <2>6, <2>7, <2>8, LateMoves
<1>5. CASE RecheckQueue(n) /\ queue[n] # <<>>
  <2>1. /\ late[n].at = "check" /\ LateGoes(n, "drain")
        /\ UNCHANGED LateRest /\ gate' = gate /\ log' = log /\ queue' = queue /\ stream' = stream
    BY <1>5 DEF RecheckQueue
  <2>2. n \in Stepwise /\ gate[n] = Late
    BY <1>0, <2>1 DEF GateInv
  <2>3. /\ late' \in [Nodes -> [at : LatePlaces, snap : SUBSET Events]] /\ late'[n].at = "drain"
        /\ \A m \in Nodes : m # n => late'[m] = late[m]
    BY <1>0, <2>1 DEF LateGoes, LatePlaces
  <2>4. LateInv(n)'
    BY <1>0, <2>1, <2>3 DEF LateInv
  <2>5. "drain" \in LatePlaces
    BY DEF LatePlaces
  <2> QED BY <1>0, <2>1, <2>2, <2>3, <2>4, <2>5, LateMoves
<1>6. CASE RecheckQueue(n) /\ queue[n] = <<>>
  <2>0. PICK z : z = stream[n] \o SetToSeq(late[n].snap)
    OBVIOUS
  <2>1. /\ late[n].at = "check" /\ LateGoes(n, "last") /\ stream' = [stream EXCEPT ![n] = z]
        /\ UNCHANGED LateRest /\ gate' = gate /\ log' = log /\ queue' = queue
    BY <1>6, <2>0 DEF RecheckQueue
  <2>2. n \in Stepwise /\ gate[n] = Late /\ stream[n] = <<>>
    BY <1>0, <2>1 DEF GateInv, LateInv
  <2>3. /\ late' \in [Nodes -> [at : LatePlaces, snap : SUBSET Events]] /\ late'[n].at = "last"
        /\ \A m \in Nodes : m # n => late'[m] = late[m]
    BY <1>0, <2>1 DEF LateGoes, LatePlaces
  <2>4. \/ z = <<>>
        \/ \E e \in Events : z = <<e>> /\ Len(log[n]) > 0 /\ IsEvent(Len(log[n]), e)
    <3>1. CASE late[n].snap = {}
      BY <2>0, <2>2, <3>1, SnapshotAsSequence, ConcatEmptySeq, <<>> \in Seq(Events)
    <3>2. ASSUME NEW e \in Events, late[n].snap = {e}, Len(log[n]) > 0, IsEvent(Len(log[n]), e)
          PROVE  z = <<e>>
      BY <2>0, <2>2, <3>2, SnapshotAsSequence, ConcatEmptySeq, <<e>> \in Seq(Events)
    <3> QED BY <1>0, <1>6, <2>1, <3>1, <3>2 DEF LateInv
  <2>5. z \in Seq(Events)
    BY <2>4, <<>> \in Seq(Events), \A e \in Events : <<e>> \in Seq(Events)
  <2>6. /\ stream' \in [Nodes -> Seq(Events)] /\ stream'[n] = z
        /\ \A m \in Nodes : m # n => stream'[m] = stream[m]
    BY <1>0, <2>1, <2>5
  <2>7. LateInv(n)'
    <3>1. CASE z = <<>>
      <4>1. Len(<<>>) = 0 /\ 2..0 = {}
        OBVIOUS
      <4> QED BY <2>3, <2>6, <3>1, <4>1 DEF LateInv
    <3>2. ASSUME NEW e \in Events, z = <<e>>, Len(log[n]) > 0, IsEvent(Len(log[n]), e)
          PROVE  LateInv(n)'
      <4>1. Len(z) = 1 /\ z[1] = e /\ 2..1 = {}
        BY <3>2
      <4> QED BY <2>1, <2>3, <2>6, <3>2, <4>1 DEF LateInv
    <3> QED BY <2>4, <3>1, <3>2
  <2>8. "last" \in LatePlaces
    BY DEF LatePlaces
  <2> QED BY <1>0, <2>1, <2>2, <2>3, <2>6, <2>7, <2>8, LateMoves
<1>7. CASE LateReturns(n)
  <2>1. /\ late[n].at = "last" /\ gate' = [gate EXCEPT ![n] = Free]
        /\ late' = [late EXCEPT ![n] = [at |-> "on", snap |-> {}]]
        /\ UNCHANGED LateRest /\ log' = log /\ queue' = queue /\ stream' = stream
    BY <1>7 DEF LateReturns, hub
  <2>2. n \in Stepwise /\ gate[n] = Late
    BY <1>0, <2>1 DEF GateInv
  <2>3. /\ late' \in [Nodes -> [at : LatePlaces, snap : SUBSET Events]] /\ late'[n].at = "on"
        /\ gate' \in [Nodes -> Tasks \cup {Free, Late}] /\ gate'[n] = Free
        /\ \A m \in Nodes : m # n => late'[m] = late[m] /\ gate'[m] = gate[m]
    BY <1>0, <2>1 DEF LatePlaces
  <2>4. LateInv(n)'
    BY <1>0, <2>1, <2>3 DEF LateInv
  <2>5. "on" \in LatePlaces
    BY DEF LatePlaces
  <2> QED BY <1>0, <2>1, <2>2, <2>3, <2>4, <2>5, LateMoves
<1> QED BY <1>1, <1>2, <1>3, <1>4, <1>5, <1>6, <1>7 DEF LateStep

(* What is still queued is part of the history, and what is owed is there. *)
LEMMA EventsTold == EventInv => EventContract
<1> SUFFICES ASSUME EventInv PROVE EventContract
  OBVIOUS
<1>1. EventsFollowTable
  <2> SUFFICES ASSUME NEW n \in Nodes, NEW all, all = log[n] \o queue[n]
               PROVE  /\ \A i \in DOMAIN all : /\ all[i].kind = IF i % 2 = 1 THEN "Up" ELSE "Down"
                                               /\ all[i].gen = (i + 1) \div 2
                      /\ Len(all) % 2 = IF table[n] # None THEN 1 ELSE 0
                      /\ table[n] # None => conn[n][table[n]].gen = (Len(all) + 1) \div 2
    BY DEF EventsFollowTable
  <2>1. log[n] \in Seq(Events) /\ queue[n] \in Seq(Events) /\ HistoryInv(n)
    BY DEF EventInv, HubTypes, NodeInv
  <2>2. all \in Seq(Events) /\ History(all, <<>>) /\ Len(all) + Len(<<>>) = Queued(n)
    BY <2>1, HistoryDrained DEF HistoryInv, Queued
  <2>3. Len(all) = Queued(n) /\ DOMAIN all = 1..Len(all)
    <3>1. Len(all) \in Nat /\ DOMAIN all = 1..Len(all)
      <4>1. \A x \in Seq(Events) : Len(x) \in Nat /\ DOMAIN x = 1..Len(x)
        OBVIOUS
      <4> QED BY <2>2, <4>1
    <3>2. Len(<<>>) = 0
      OBVIOUS
    <3>3. Len(all) + 0 = Len(all)
      BY <3>1
    <3> QED BY <2>2, <3>1, <3>2, <3>3
  <2>4. \A i \in DOMAIN all : IsEvent(i, all[i])
    BY <2>2, <2>3 DEF History
  <2> QED BY <2>1, <2>3, <2>4 DEF HistoryInv, IsEvent
<1>2. FramesAfterUp
  <2>1. ASSUME NEW n \in Nodes, NEW s \in Sockets, task[<<n, s, "read">>].at = "reading"
        PROVE  \E i \in DOMAIN log[n] : log[n][i].kind = "Up" /\ log[n][i].gen = conn[n][s].gen
    <3>1. DOMAIN log[n] = 1..Len(log[n])
      BY DEF EventInv, HubTypes
    <3> QED BY <2>1, <3>1 DEF EventInv, NodeInv, InstallInv
  <2>2. ASSUME NEW n \in Nodes, \A t \in Tasks : t[1] = n => task[t].at \in {"off", "reading"}
        PROVE  queue[n] = <<>>
    BY <2>2 DEF EventInv, NodeInv, GateInv, Owes
  <2> QED BY <2>1, <2>2 DEF FramesAfterUp
<1>3. LateStreamAlternates
  BY DEF EventInv, NodeInv, LateInv, LateStreamAlternates
<1> QED BY <1>1, <1>2, <1>3 DEF EventContract

(* The hub starts empty. *)
LEMMA EventsBegin == Init => EventInv
<1> SUFFICES ASSUME Init PROVE EventInv
  OBVIOUS
<1>1. HubTypes
  <2>1. NoConn \in [gen : Nat, creation : Nat, down : BOOLEAN] /\ <<>> \in Seq(Events)
    BY DEF NoConn
  <2>2. /\ queue \in [Nodes -> Seq(Events)] /\ log \in [Nodes -> Seq(Events)] /\ stream \in [Nodes -> Seq(Events)]
        /\ conn \in [Nodes -> [Sockets -> [gen : Nat, creation : Nat, down : BOOLEAN]]]
    BY <2>1 DEF Init
  <2> QED BY <2>2 DEF Init, HubTypes, LatePlaces
<1>2. Len(<<>>) = 0 /\ 1..0 = {} /\ 2..0 = {} /\ 0 % 2 = 0 /\ (0 + 1) \div 2 = 0 /\ 0 + 0 = 0 /\ 0 <= 0
  OBVIOUS
<1>3. ASSUME NEW n \in Nodes PROVE NodeInv(n)
  <2>1. /\ log[n] = <<>> /\ queue[n] = <<>> /\ stream[n] = <<>> /\ table[n] = None /\ generation[n] = 0
        /\ gate[n] = Free /\ late[n].at = "off" /\ \A t \in Tasks : task[t].at = "off"
        /\ \A s \in Sockets : conn[n][s].gen = 0
    BY DEF Init, Off, NoConn
  <2>2. HistoryInv(n)
    <3>1. History(<<>>, <<>>)
      BY <1>2 DEF History
    <3> QED BY <1>2, <2>1, <3>1 DEF HistoryInv, Queued
  <2>3. InstallInv(n)
    BY <1>2, <2>1, TaskFacts DEF InstallInv
  <2>4. GateInv(n)
    BY <2>1, GateHolders DEF GateInv
  <2>5. LateInv(n)
    BY <1>2, <2>1 DEF LateInv
  <2> QED BY <2>2, <2>3, <2>4, <2>5 DEF NodeInv
<1> QED BY <1>1, <1>3 DEF EventInv

(* Every step keeps the contract. *)
LEMMA EventsKept == EventInv /\ PermitInv /\ [Next]_vars => EventInv'
<1> SUFFICES ASSUME EventInv, PermitInv, [Next]_vars PROVE EventInv'
  OBVIOUS
<1>1. ASSUME NEW s \in Sockets, Connect(s) \/ HandshakeStep(s) \/ HandshakeFails(s) PROVE EventInv'
  BY <1>1, DialKeepsEvents, HandshakeKeepsEvents
<1>2. ASSUME NEW n \in Nodes, NEW s \in Sockets,
             Register(n, s) \/ RegisterFails(n, s) \/ ReaderStops(n, s) \/ DisconnectNode(n, s)
      PROVE  EventInv'
  <2>1. CASE Register(n, s) \/ RegisterFails(n, s)
    BY <2>1, RegisterKeepsEvents
  <2>2. <<n, s, "read">> \in Tasks /\ <<n, s, "user">> \in Tasks
    BY TaskFacts
  <2>3. CASE ReaderStops(n, s)
    BY <2>2, <2>3, TeardownKeepsEvents
  <2>4. CASE DisconnectNode(n, s)
    BY <2>2, <2>4, TeardownKeepsEvents
  <2> QED BY <1>2, <2>1, <2>3, <2>4
<1>3. ASSUME NEW t \in Tasks, TaskStep(t) \/ CallbackDisconnects(t) PROVE EventInv'
  BY <1>3, TeardownKeepsEvents, ConnectionDownKeepsEvents, DispatchKeepsEvents DEF TaskStep
<1>4. ASSUME NEW n \in Nodes, AbortDials(n) \/ Restart(n) \/ Subscribe(n) \/ LateStep(n) PROVE EventInv'
  BY <1>4, AbortKeepsEvents, RestartKeepsEvents, LateKeepsEvents
<1>5. CASE UNCHANGED vars
  <2>1. UNCHANGED <<creation, init, resp, met, conn, table, generation, hub, gate, task, late>>
    BY <1>5 DEF vars, handshake
  <2>2. HubTypes'
    BY <2>1 DEF EventInv, HubTypes, hub
  <2> QED BY <2>1, <2>2, NothingInstalled
<1> QED BY <1>1, <1>2, <1>3, <1>4, <1>5 DEF Next

(* INV-ALTERNATION, INV-EXACTLY-ONCE, INV-FRAME-ORDER, INV-SYNC and the      *)
(* contract of subscribe_with_snapshot (connection_events.rs): however       *)
(* installs, displaced links, teardowns, callbacks that disconnect, late     *)
(* subscriptions and restarts interleave, over any number of sockets, what a *)
(* node delivers and has queued is Up(1) Down(1) Up(2) ..., its last event   *)
(* is what the connection table holds, no reader runs before its Up is       *)
(* delivered, nothing stays queued once nobody is at work, and a late        *)
(* subscriber sees every session opened once and closed once.                *)
THEOREM EventsTellTheTable == Spec => []EventContract
<1>1. Init => EventInv /\ PermitInv
  BY EventsBegin, PermitsKept
<1>2. (EventInv /\ PermitInv) /\ [Next]_vars => (EventInv /\ PermitInv)'
  BY EventsKept, PermitsKept
<1>3. EventInv /\ PermitInv => EventContract
  BY EventsTold
<1>4. QED
  BY <1>1, <1>2, <1>3, PTL DEF Spec

-----------------------------------------------------------------------------
(* Connections: the two nodes hold the same socket *)

(* n's end of s has not come to its install, or is about to. *)
Early == {"unused", "name", "replied", "failed", "none", "nok", "challenged"}
Unlinked(n, s) == HandshakeAt(n, s) \in Early \/ task[<<n, s, "install">>].at = "register"

(* A task of n on its way to take s down. *)
Retires(n, t, s) == t[1] = n /\ task[t].at = "mark" /\ task[t].victim = s
Reaps(n, t, s) == t[1] = n /\ task[t].at = "reap" /\ task[t].victim = s

(* A stream n has open is one somebody at n still has to do with. *)
Attended(n, s) ==
  \/ HandshakeAt(n, s) \in {"name", "replied", "none", "challenged"}
  \/ task[<<n, s, "install">>].at = "register" \/ table[n] = s
  \/ \E t \in Tasks : Retires(n, t, s)

(* The socket in force has a reader, or a task that will start it; once it  *)
(* is down, a task that will take it out of the table.                      *)
Kept(n, s) ==
  IF conn[n][s].down
  THEN \E t \in Tasks : Reaps(n, t, s)
  ELSE \/ task[<<n, s, "install">>].at \in {"mark", "reap", "dispatch", "drain"}
       \/ task[<<n, s, "read">>].at = "reading"
       \/ task[<<n, s, "read">>].at = "mark" /\ task[<<n, s, "read">>].victim = s

SocketInv(n, s) ==
  /\ Unlinked(n, s) => /\ table[n] # s /\ ~conn[n][s].down
                       /\ \A t \in Tasks : ~Retires(n, t, s) /\ ~Reaps(n, t, s)
  /\ task[<<n, s, "read">>].at = "reading" => task[<<n, s, "read">>].victim = s
  /\ conn[n][s].down => wire[s][n] # "open"
  /\ \A t \in Tasks : Reaps(n, t, s) => conn[n][s].down
  /\ wire[s][n] = "open" => Attended(n, s)
  /\ table[n] = s => Kept(n, s)

(* Nobody answers a dial that was not made, and a dial does not come past   *)
(* its name packet before it is answered.                                   *)
TurnInv ==
  \A s \in Sockets : /\ resp[s] = "none" => init[s] \in {"unused", "name", "failed"}
                     /\ init[s] = "unused" => resp[s] = "none"

WireTypes == wire \in [Sockets -> [Nodes -> {"open", "closed", "lost"}]]

AgreeInv == WireTypes /\ TurnInv /\ \A n \in Nodes, s \in Sockets : SocketInv(n, s)

(* What the events and the permits know of tasks and handshakes. *)
LEMMA TasksInOrder ==
  ASSUME EventInv, NEW n \in Nodes, NEW s \in Sockets
  PROVE  /\ task[<<n, s, "install">>].at # "off" => HandshakeAt(n, s) = "register"
         /\ task[<<n, s, "read">>].at # "off" => HandshakeAt(n, s) = "done"
         /\ <<n, s, "install">> \in Tasks /\ <<n, s, "read">> \in Tasks /\ <<n, s, "user">> \in Tasks
         /\ \A t \in Tasks : t[1] = n /\ task[t].at \in {"mark", "reap", "reading"} => task[t].victim \in Sockets
BY TaskFacts DEF EventInv, NodeInv, InstallInv, GateInv

(* n leaves s alone: its stream may close, and its handshake may go on or    *)
(* end short of its install.                                                 *)
AtRest(n, s) ==
  /\ (table'[n] = s <=> table[n] = s) /\ conn'[n][s] = conn[n][s]
  /\ task'[<<n, s, "install">>] = task[<<n, s, "install">>]
  /\ task'[<<n, s, "read">>] = task[<<n, s, "read">>]
  /\ \A t \in Tasks : (Retires(n, t, s)' <=> Retires(n, t, s)) /\ (Reaps(n, t, s)' <=> Reaps(n, t, s))
  /\ \/ /\ HandshakeAt(n, s)' = HandshakeAt(n, s)
        /\ wire'[s][n] = wire[s][n] \/ wire'[s][n] # "open"
     \/ /\ HandshakeAt(n, s) \in Early /\ HandshakeAt(n, s)' \in Early
        /\ wire'[s][n] = "open" => HandshakeAt(n, s)' \in {"name", "replied", "none", "challenged"}

LEMMA SocketAtRest ==
  ASSUME NEW n \in Nodes, NEW s \in Sockets, SocketInv(n, s), AtRest(n, s)
  PROVE  SocketInv(n, s)'
<1>1. /\ task'[<<n, s, "install">>] = task[<<n, s, "install">>]
      /\ task'[<<n, s, "read">>] = task[<<n, s, "read">>]
      /\ \A t \in Tasks : (Retires(n, t, s)' <=> Retires(n, t, s)) /\ (Reaps(n, t, s)' <=> Reaps(n, t, s))
  BY DEF AtRest
<1>2. Unlinked(n, s)' => Unlinked(n, s)
  BY <1>1 DEF AtRest, Unlinked
<1>3. HandshakeAt(n, s) \in Early => Unlinked(n, s)
  BY DEF Unlinked
<1>4. (Unlinked(n, s) => /\ table[n] # s /\ ~conn[n][s].down
                         /\ \A t \in Tasks : ~Retires(n, t, s) /\ ~Reaps(n, t, s))'
  BY <1>1, <1>2 DEF AtRest, SocketInv
<1>5. (conn[n][s].down => wire[s][n] # "open")'
  BY <1>3 DEF AtRest, SocketInv
<1>6. (wire[s][n] = "open" => Attended(n, s))'
  BY <1>1 DEF AtRest, SocketInv, Attended
<1>7. (table[n] = s => Kept(n, s))'
  BY <1>1 DEF AtRest, SocketInv, Kept
<1>8. (\A t \in Tasks : Reaps(n, t, s) => conn[n][s].down)'
  BY <1>1 DEF AtRest, SocketInv
<1>9. (task[<<n, s, "read">>].at = "reading" => task[<<n, s, "read">>].victim = s)'
  BY <1>1 DEF SocketInv
<1> QED BY <1>4, <1>5, <1>6, <1>7, <1>8, <1>9 DEF SocketInv

(* A task of n goes on and neither installs s nor takes it down: it works on *)
(* another socket, stops reading, calls disconnect_node, finds its link down *)
(* already, or is in dispatch.                                               *)
LEMMA SocketTaskTurns ==
  ASSUME NEW n \in Nodes, NEW s \in Sockets, SocketInv(n, s), PermitTypes', NEW t \in Tasks, t[1] = n,
         table'[n] = s <=> table[n] = s, conn'[n][s] = conn[n][s], wire'[s][n] = wire[s][n],
         HandshakeAt(n, s)' = HandshakeAt(n, s),
         \A x \in Tasks : x # t => task'[x] = task[x],
         task[t].at # "register", task'[t].at \notin {"register", "reading"},
         ~Reaps(n, t, s), ~Reaps(n, t, s)', Retires(n, t, s)' => ~Unlinked(n, s),
         Retires(n, t, s) => conn[n][s].down,
         t[3] = "install" => task'[t].at # "off",
         t[3] = "read" /\ task[t].at = "reading" => task'[t].at = "mark" /\ task'[t].victim = task[t].victim
  PROVE  SocketInv(n, s)'
<1>1. /\ <<n, s, "install">> \in Tasks /\ <<n, s, "read">> \in Tasks /\ <<n, s, "install">> # <<n, s, "read">>
      /\ <<n, s, "install">>[3] = "install" /\ <<n, s, "read">>[3] = "read"
  BY TaskFacts
<1>2. \A x \in Tasks : x # t => (Retires(n, x, s)' <=> Retires(n, x, s)) /\ (Reaps(n, x, s)' <=> Reaps(n, x, s))
  BY DEF Retires, Reaps
<1>4. task'[t].at \in {"off", "mark", "reap", "dispatch", "drain"}
  BY DEF PermitTypes, TaskPlaces
<1>5. (task[<<n, s, "install">>].at = "register")' <=> task[<<n, s, "install">>].at = "register"
  BY <1>1, <1>4
<1>6. Unlinked(n, s)' <=> Unlinked(n, s)
  BY <1>5 DEF Unlinked
<1>7. (Unlinked(n, s) => /\ table[n] # s /\ ~conn[n][s].down
                         /\ \A x \in Tasks : ~Retires(n, x, s) /\ ~Reaps(n, x, s))'
  BY <1>2, <1>6 DEF SocketInv
<1>8. (task[<<n, s, "read">>].at = "reading" => task[<<n, s, "read">>].victim = s)'
  BY <1>1, <1>4 DEF SocketInv
<1>9. (\A x \in Tasks : Reaps(n, x, s) => conn[n][s].down)'
  BY <1>2 DEF SocketInv
<1>10. (wire[s][n] = "open" => Attended(n, s))'
  BY <1>2, <1>5 DEF SocketInv, Attended
<1>11. (table[n] = s => Kept(n, s))'
  <2>1. SUFFICES ASSUME table[n] = s PROVE Kept(n, s)'
    OBVIOUS
  <2>2. Kept(n, s)
    BY <2>1 DEF SocketInv
  <2>3. CASE conn[n][s].down
    BY <1>2, <2>2, <2>3 DEF Kept
  <2>4. CASE ~conn[n][s].down
    <3>1. CASE task[<<n, s, "install">>].at \in {"mark", "reap", "dispatch", "drain"}
      BY <1>1, <1>4, <2>4, <3>1 DEF Kept
    <3>2. CASE task[<<n, s, "read">>].at = "reading"
      <4>1. task[<<n, s, "read">>].victim = s
        BY <3>2 DEF SocketInv
      <4> QED BY <1>1, <2>4, <3>2, <4>1 DEF Kept
    <3>3. CASE task[<<n, s, "read">>].at = "mark" /\ task[<<n, s, "read">>].victim = s
      BY <1>1, <2>4, <3>3 DEF Kept, Retires
    <3> QED BY <2>2, <2>4, <3>1, <3>2, <3>3 DEF Kept
  <2> QED BY <2>3, <2>4
<1>12. (conn[n][s].down => wire[s][n] # "open")'
  BY DEF SocketInv
<1> QED BY <1>7, <1>8, <1>9, <1>10, <1>11, <1>12 DEF SocketInv

(* A handshake ends and n's install of s begins. *)
LEMMA SocketInstallBegins ==
  ASSUME NEW n \in Nodes, NEW s \in Sockets, SocketInv(n, s), EventInv,
         table'[n] = table[n], conn'[n] = conn[n], wire'[s][n] = wire[s][n],
         HandshakeAt(n, s) \in Early,
         \A x \in Tasks : x # <<n, s, "install">> => task'[x] = task[x],
         task'[<<n, s, "install">>].at = "register"
  PROVE  SocketInv(n, s)'
<1>1. /\ <<n, s, "install">> \in Tasks /\ <<n, s, "read">> \in Tasks /\ <<n, s, "install">> # <<n, s, "read">>
      /\ task[<<n, s, "install">>].at = "off"
  BY TasksInOrder DEF Early
<1>2. \A x \in Tasks : (Retires(n, x, s)' <=> Retires(n, x, s)) /\ (Reaps(n, x, s)' <=> Reaps(n, x, s))
  BY <1>1 DEF Retires, Reaps
<1>3. Unlinked(n, s) /\ table[n] # s
  BY DEF Unlinked, SocketInv
<1>4. Attended(n, s)'
  BY DEF Attended
<1>5. task'[<<n, s, "read">>] = task[<<n, s, "read">>]
  BY <1>1
<1> QED BY <1>2, <1>3, <1>4, <1>5 DEF SocketInv

(* An install of s is refused, and the stream dropped. *)
LEMMA SocketRefused ==
  ASSUME NEW n \in Nodes, NEW s \in Sockets, SocketInv(n, s), EventInv,
         task[<<n, s, "install">>].at = "register",
         table'[n] = table[n], conn'[n] = conn[n], wire'[s][n] # "open",
         \A x \in Tasks : x # <<n, s, "install">> => task'[x] = task[x],
         task'[<<n, s, "install">>].at = "off"
  PROVE  SocketInv(n, s)'
<1>1. /\ <<n, s, "install">> \in Tasks /\ <<n, s, "read">> \in Tasks /\ <<n, s, "install">> # <<n, s, "read">>
  BY TasksInOrder
<1>2. \A x \in Tasks : (Retires(n, x, s)' <=> Retires(n, x, s)) /\ (Reaps(n, x, s)' <=> Reaps(n, x, s))
  BY <1>1 DEF Retires, Reaps
<1>3. Unlinked(n, s) /\ table[n] # s
  BY DEF Unlinked, SocketInv
<1>5. task'[<<n, s, "read">>] = task[<<n, s, "read">>]
  BY <1>1
<1> QED BY <1>2, <1>3, <1>5 DEF SocketInv

(* s is installed at n. *)
LEMMA SocketInstalled ==
  ASSUME NEW n \in Nodes, NEW s \in Sockets, SocketInv(n, s), EventInv,
         task[<<n, s, "install">>].at = "register",
         table'[n] = s, ~conn'[n][s].down, wire'[s][n] = wire[s][n], HandshakeAt(n, s)' = HandshakeAt(n, s),
         \A x \in Tasks : x # <<n, s, "install">> => task'[x] = task[x],
         task'[<<n, s, "install">>].at \in {"dispatch", "mark"},
         task'[<<n, s, "install">>].at = "mark" => task'[<<n, s, "install">>].victim # s
  PROVE  SocketInv(n, s)'
<1>1. /\ <<n, s, "install">> \in Tasks /\ <<n, s, "read">> \in Tasks /\ <<n, s, "install">> # <<n, s, "read">>
      /\ HandshakeAt(n, s) = "register"
  BY TasksInOrder
<1>2. Unlinked(n, s) /\ ~Unlinked(n, s)'
  BY <1>1 DEF Unlinked, Early
<1>3. \A x \in Tasks : ~Reaps(n, x, s)'
  BY <1>1, <1>2 DEF Reaps, SocketInv
<1>4. Attended(n, s)' /\ Kept(n, s)'
  BY DEF Attended, Kept
<1>5. task'[<<n, s, "read">>] = task[<<n, s, "read">>]
  BY <1>1
<1> QED BY <1>2, <1>3, <1>4, <1>5 DEF SocketInv

(* Another socket takes the place of s at n, and its task retires s. *)
LEMMA SocketReplaced ==
  ASSUME NEW n \in Nodes, NEW s \in Sockets, NEW t \in Tasks, SocketInv(n, s), EventInv,
         t[1] = n, table[n] = s, task[t].at = "register", t # <<n, s, "install">>, t[3] = "install",
         task'[t].at = "mark", task'[t].victim = s, \A x \in Tasks : x # t => task'[x] = task[x],
         table'[n] # s, conn'[n][s] = conn[n][s], wire'[s][n] = wire[s][n],
         HandshakeAt(n, s)' = HandshakeAt(n, s)
  PROVE  SocketInv(n, s)'
<1>1. /\ <<n, s, "install">> \in Tasks /\ <<n, s, "read">> \in Tasks /\ <<n, s, "read">>[3] = "read"
  BY TasksInOrder
<1>2. ~Unlinked(n, s)
  BY DEF SocketInv
<1>3. /\ task'[<<n, s, "install">>] = task[<<n, s, "install">>]
      /\ task'[<<n, s, "read">>] = task[<<n, s, "read">>]
  BY <1>1
<1>4. ~Unlinked(n, s)'
  BY <1>2, <1>3 DEF Unlinked
<1>5. \A x \in Tasks : Reaps(n, x, s)' => Reaps(n, x, s)
  BY DEF Reaps
<1>6. Attended(n, s)'
  BY DEF Attended, Retires
<1> QED BY <1>3, <1>4, <1>5, <1>6 DEF SocketInv

(* mark_down takes s down at n. *)
LEMMA SocketMarked ==
  ASSUME NEW n \in Nodes, NEW s \in Sockets, NEW t \in Tasks, SocketInv(n, s), EventInv,
         Retires(n, t, s), task'[t].at = "reap", task'[t].victim = s,
         \A x \in Tasks : x # t => task'[x] = task[x],
         table'[n] = table[n], conn'[n][s].down, wire'[s][n] # "open",
         HandshakeAt(n, s)' = HandshakeAt(n, s)
  PROVE  SocketInv(n, s)'
<1>1. <<n, s, "install">> \in Tasks /\ <<n, s, "read">> \in Tasks
  BY TasksInOrder
<1>2. ~Unlinked(n, s)
  BY DEF SocketInv
<1>3. ~Unlinked(n, s)'
  BY <1>1, <1>2 DEF Unlinked
<1>4. Reaps(n, t, s)'
  BY DEF Retires, Reaps
<1>5. Kept(n, s)'
  BY <1>4 DEF Kept
<1>6. (task[<<n, s, "read">>].at = "reading" => task[<<n, s, "read">>].victim = s)'
  BY <1>1 DEF SocketInv
<1> QED BY <1>3, <1>5, <1>6 DEF SocketInv

(* connection_down takes s out of the table, unless it is out already. *)
LEMMA SocketReaped ==
  ASSUME NEW n \in Nodes, NEW s \in Sockets, NEW t \in Tasks, SocketInv(n, s), EventInv,
         Reaps(n, t, s), task'[t].at = "dispatch", \A x \in Tasks : x # t => task'[x] = task[x],
         table'[n] # s, conn'[n][s] = conn[n][s], wire'[s][n] = wire[s][n],
         HandshakeAt(n, s)' = HandshakeAt(n, s)
  PROVE  SocketInv(n, s)'
<1>1. <<n, s, "install">> \in Tasks /\ <<n, s, "read">> \in Tasks
  BY TasksInOrder
<1>2. ~Unlinked(n, s) /\ conn[n][s].down
  BY DEF SocketInv
<1>3. ~Unlinked(n, s)'
  BY <1>1, <1>2 DEF Unlinked
<1>6. (task[<<n, s, "read">>].at = "reading" => task[<<n, s, "read">>].victim = s)'
  BY <1>1 DEF SocketInv
<1> QED BY <1>2, <1>3, <1>6 DEF SocketInv

(* The install of s is over, and its reader starts. *)
LEMMA SocketReads ==
  ASSUME NEW n \in Nodes, NEW s \in Sockets, SocketInv(n, s), EventInv,
         task[<<n, s, "install">>].at \in {"dispatch", "drain"}, task'[<<n, s, "install">>].at = "off",
         task'[<<n, s, "read">>] = [at |-> "reading", victim |-> s],
         \A x \in Tasks : x # <<n, s, "install">> /\ x # <<n, s, "read">> => task'[x] = task[x],
         table'[n] = table[n], conn'[n] = conn[n], wire'[s][n] = wire[s][n], HandshakeAt(n, s)' = "done"
  PROVE  SocketInv(n, s)'
<1>1. /\ <<n, s, "install">> \in Tasks /\ <<n, s, "read">> \in Tasks /\ HandshakeAt(n, s) = "register"
      /\ task[<<n, s, "read">>].at = "off"
  BY TasksInOrder
<1>2. \A x \in Tasks : (Retires(n, x, s)' <=> Retires(n, x, s)) /\ (Reaps(n, x, s)' <=> Reaps(n, x, s))
  BY <1>1 DEF Retires, Reaps
<1>3. ~Unlinked(n, s)'
  BY DEF Unlinked, Early
<1>4. (wire[s][n] = "open" => Attended(n, s))'
  BY <1>1, <1>2 DEF SocketInv, Attended
<1>5. (table[n] = s => Kept(n, s))'
  BY <1>2 DEF SocketInv, Kept
<1>6. (\A x \in Tasks : Reaps(n, x, s) => conn[n][s].down)'
  BY <1>2 DEF SocketInv
<1> QED BY <1>3, <1>4, <1>5, <1>6 DEF SocketInv

(* n starts again. *)
LEMMA SocketRestarts ==
  ASSUME NEW n \in Nodes, NEW s \in Sockets,
         \A x \in Tasks : x[1] = n => task'[x] = Off,
         table'[n] = None, conn'[n][s] = NoConn, wire'[s][n] # "open"
  PROVE  SocketInv(n, s)'
<1>1. \A x \in Tasks : ~Retires(n, x, s)' /\ ~Reaps(n, x, s)'
  BY DEF Retires, Reaps, Off
<1>2. task'[<<n, s, "read">>].at = "off"
  BY TaskFacts DEF Off
<1> QED BY <1>1, <1>2, ConnectionsAssumption DEF SocketInv, NoConn

(* The two ends of a handshake. *)
LEMMA BothEnds ==
  \A s \in Sockets : /\ HandshakeAt(Dialer[s], s) = init[s] /\ HandshakeAt(Peer(Dialer[s]), s) = resp[s]
                     /\ HandshakeAt(Dialer[s], s)' = init'[s] /\ HandshakeAt(Peer(Dialer[s]), s)' = resp'[s]
                     /\ \A n \in Nodes : n = Dialer[s] \/ n = Peer(Dialer[s])
BY PeerFacts DEF HandshakeAt, Nodes, Peer

(* No task moves, nothing is installed or taken down, and a handshake goes   *)
(* on or ends.                                                               *)
LEMMA NobodyInstalls ==
  ASSUME AgreeInv, UNCHANGED <<conn, table, task>>,
         \A n \in Nodes, s \in Sockets :
           \/ /\ HandshakeAt(n, s)' = HandshakeAt(n, s)
              /\ wire'[s][n] = wire[s][n] \/ wire'[s][n] # "open"
           \/ /\ HandshakeAt(n, s) \in Early /\ HandshakeAt(n, s)' \in Early
              /\ wire'[s][n] = "open" => HandshakeAt(n, s)' \in {"name", "replied", "none", "challenged"}
  PROVE  \A n \in Nodes, s \in Sockets : SocketInv(n, s)'
<1> SUFFICES ASSUME NEW n \in Nodes, NEW s \in Sockets PROVE SocketInv(n, s)'
  OBVIOUS
<1>1. \A t \in Tasks : (Retires(n, t, s)' <=> Retires(n, t, s)) /\ (Reaps(n, t, s)' <=> Reaps(n, t, s))
  BY DEF Retires, Reaps
<1>2. AtRest(n, s)
  BY <1>1 DEF AtRest
<1> QED BY <1>2, SocketAtRest DEF AgreeInv

(* One end of one handshake changes, and its stream may close. *)
LEMMA OneEnd ==
  ASSUME AgreeInv, HubTypes, PermitTypes, NEW s \in Sockets, UNCHANGED <<conn, table, task>>,
         \/ /\ \E x \in Early : init' = [init EXCEPT ![s] = x]
            /\ init[s] \in Early /\ resp' = resp
            /\ wire' = [wire EXCEPT ![s][Dialer[s]] = "closed"]
         \/ /\ \E x \in Early : resp' = [resp EXCEPT ![s] = x]
            /\ resp[s] \in Early /\ init' = init
            /\ \/ wire' = [wire EXCEPT ![s][Peer(Dialer[s])] = "closed"]
               \/ wire' = wire /\ resp'[s] = "challenged"
  PROVE  WireTypes' /\ \A n \in Nodes, r \in Sockets : SocketInv(n, r)'
<1> DEFINE d == Dialer[s]
           a == Peer(Dialer[s])
<1>1. d \in Nodes /\ a \in Nodes /\ a # d
  BY PeerFacts
<1>2. WireTypes'
  BY <1>1 DEF AgreeInv, WireTypes
<1>3. ASSUME NEW n \in Nodes, NEW r \in Sockets
      PROVE  \/ /\ HandshakeAt(n, r)' = HandshakeAt(n, r)
                /\ wire'[r][n] = wire[r][n] \/ wire'[r][n] # "open"
             \/ /\ HandshakeAt(n, r) \in Early /\ HandshakeAt(n, r)' \in Early
                /\ wire'[r][n] = "open" => HandshakeAt(n, r)' \in {"name", "replied", "none", "challenged"}
  <2>1. wire'[r][n] = wire[r][n] \/ wire'[r][n] # "open"
    BY <1>1 DEF AgreeInv, WireTypes
  <2>2. CASE r # s
    BY <2>1, <2>2 DEF HandshakeAt, HubTypes, PermitTypes
  <2>3. CASE r = s /\ init' = init /\ n = a
    <3>1. CASE resp' = resp
      BY <2>1, <2>3, <3>1, BothEnds
    <3>2. CASE \E x \in Early : resp' = [resp EXCEPT ![s] = x]
      <4>1. resp'[s] \in Early
        BY <3>2 DEF PermitTypes
      <4>2. resp'[s] = "challenged" \/ (wire' = [wire EXCEPT ![s][a] = "closed"] /\ resp[s] \in Early) \/ resp' = resp
        OBVIOUS
      <4>3. wire' = [wire EXCEPT ![s][a] = "closed"] => wire'[s][a] # "open"
        BY <1>1 DEF AgreeInv, WireTypes
      <4> QED BY <2>1, <2>3, <4>1, <4>2, <4>3, BothEnds
    <3> QED BY <3>1, <3>2
  <2>4. CASE r = s /\ init' = init /\ n = d
    BY <2>1, <2>4, BothEnds
  <2>5. CASE r = s /\ resp' = resp /\ n = a
    BY <2>1, <2>5, BothEnds
  <2>6. CASE r = s /\ resp' = resp /\ n = d
    <3>1. CASE init' = init
      BY <2>1, <2>6, <3>1, BothEnds
    <3>2. CASE /\ \E x \in Early : init' = [init EXCEPT ![s] = x]
               /\ init[s] \in Early /\ wire' = [wire EXCEPT ![s][d] = "closed"]
      <4>1. init'[s] \in Early
        BY <3>2 DEF HubTypes
      <4>2. wire'[s][d] # "open"
        BY <1>1, <3>2 DEF AgreeInv, WireTypes
      <4> QED BY <2>6, <3>2, <4>1, <4>2, BothEnds
    <3> QED BY <3>1, <3>2
  <2> QED BY <2>2, <2>3, <2>4, <2>5, <2>6, BothEnds
<1> QED BY <1>2, <1>3, NobodyInstalls

(* A dial. *)
LEMMA ConnectAgrees ==
  ASSUME AgreeInv, HubTypes, PermitTypes, NEW s \in Sockets, Connect(s)
  PROVE  AgreeInv'
<1>1. Dialer[s] \in Nodes /\ init[s] = "unused" /\ resp[s] = "none"
  BY PeerFacts DEF Connect, AgreeInv, TurnInv
<1>2. init' = [init EXCEPT ![s] = "name"] /\ wire' = [wire EXCEPT ![s] = [m \in Nodes |-> "open"]]
      /\ UNCHANGED <<resp, conn, table, task>>
  BY DEF Connect
<1>3. WireTypes' /\ \A r \in Sockets : r # s => wire'[r] = wire[r] /\ init'[r] = init[r]
  BY <1>2 DEF AgreeInv, WireTypes, HubTypes
<1>4. TurnInv'
  BY <1>2, <1>1 DEF AgreeInv, TurnInv, HubTypes
<1>5. ASSUME NEW n \in Nodes, NEW r \in Sockets
      PROVE  \/ /\ HandshakeAt(n, r)' = HandshakeAt(n, r)
                /\ wire'[r][n] = wire[r][n] \/ wire'[r][n] # "open"
             \/ /\ HandshakeAt(n, r) \in Early /\ HandshakeAt(n, r)' \in Early
                /\ wire'[r][n] = "open" => HandshakeAt(n, r)' \in {"name", "replied", "none", "challenged"}
  <2>1. CASE r # s
    BY <1>2, <1>3, <2>1 DEF HandshakeAt
  <2>2. CASE r = s
    BY <1>1, <1>2, <2>2, BothEnds DEF Early, HubTypes
  <2> QED BY <2>1, <2>2
<1> QED BY <1>2, <1>3, <1>4, <1>5, NobodyInstalls DEF AgreeInv

(* A handshake goes on. *)
LEMMA HandshakeAgrees ==
  ASSUME AgreeInv, EventInv, PermitTypes, PermitTypes', NEW s \in Sockets, HandshakeStep(s) \/ HandshakeFails(s)
  PROVE  AgreeInv'
<1> DEFINE d == Dialer[s]
           a == Peer(Dialer[s])
<1>0. HubTypes /\ d \in Nodes /\ a \in Nodes /\ a # d
  BY PeerFacts DEF EventInv
<1>1. UNCHANGED <<conn, table>>
  BY DEF HandshakeStep, Accept, Exchange, ReadAck, HandshakeFails
<1>2. CASE /\ init[s] \in {"name", "replied"} /\ DialEnds(s) /\ UNCHANGED <<resp, task>>
  <2>1. init' = [init EXCEPT ![s] = "failed"] /\ wire' = [wire EXCEPT ![s][d] = "closed"]
    BY <1>2 DEF DialEnds, Close
  <2>2. TurnInv'
    BY <1>0, <1>2, <2>1 DEF AgreeInv, TurnInv, HubTypes
  <2>3. WireTypes' /\ \A n \in Nodes, r \in Sockets : SocketInv(n, r)'
    BY <1>0, <1>1, <1>2, <2>1, OneEnd DEF Early
  <2> QED BY <2>2, <2>3 DEF AgreeInv
<1>3. CASE resp[s] = "challenged" /\ AcceptEnds(s) /\ UNCHANGED <<init, task>>
  <2>1. resp' = [resp EXCEPT ![s] = "failed"] /\ wire' = [wire EXCEPT ![s][a] = "closed"]
    BY <1>3 DEF AcceptEnds, Close
  <2>2. TurnInv'
    BY <1>0, <1>3, <2>1 DEF AgreeInv, TurnInv, PermitTypes
  <2>3. WireTypes' /\ \A n \in Nodes, r \in Sockets : SocketInv(n, r)'
    BY <1>0, <1>1, <1>3, <2>1, OneEnd DEF Early
  <2> QED BY <2>2, <2>3 DEF AgreeInv
<1>4. CASE Accept(s)
  <2>1. /\ init[s] = "name" /\ resp[s] = "none" /\ UNCHANGED <<init, task>>
        /\ \/ /\ \E x \in {"failed", "nok"} : resp' = [resp EXCEPT ![s] = x]
              /\ wire' = [wire EXCEPT ![s][a] = "closed"]
           \/ resp' = [resp EXCEPT ![s] = "challenged"] /\ wire' = wire
    BY <1>4 DEF Accept, Close
  <2>2. TurnInv'
    BY <2>1 DEF AgreeInv, TurnInv, PermitTypes
  <2>3. \E x \in Early : resp' = [resp EXCEPT ![s] = x]
    BY <2>1 DEF Early
  <2>4. wire' = [wire EXCEPT ![s][a] = "closed"] \/ (wire' = wire /\ resp'[s] = "challenged")
    BY <2>1 DEF PermitTypes
  <2>5. WireTypes' /\ \A n \in Nodes, r \in Sockets : SocketInv(n, r)'
    BY <1>0, <1>1, <2>1, <2>3, <2>4, OneEnd DEF Early
  <2> QED BY <2>2, <2>5 DEF AgreeInv
<1>5. CASE \/ /\ init[s] = "name" /\ resp[s] = "challenged" /\ init' = [init EXCEPT ![s] = "replied"]
              /\ resp' = [resp EXCEPT ![s] = "register"] /\ Go(<<a, s, "install">>, "register") /\ UNCHANGED wire
           \/ /\ init[s] = "replied" /\ init' = [init EXCEPT ![s] = "register"]
              /\ Go(<<d, s, "install">>, "register") /\ UNCHANGED <<resp, wire>>
  <2>1. PICK m \in Nodes : /\ Go(<<m, s, "install">>, "register") /\ UNCHANGED wire
                           /\ \/ m = a /\ resp[s] = "challenged" /\ init[s] = "name"
                              \/ m = d /\ init[s] = "replied"
    BY <1>0, <1>5
  <2>0. <<m, s, "install">> \in Tasks /\ "register" \in TaskPlaces
    BY TaskFacts DEF TaskPlaces
  <2>2. task'[<<m, s, "install">>].at = "register" /\ \A x \in Tasks : x # <<m, s, "install">> => task'[x] = task[x]
    BY <2>0, <2>1, GoEffect
  <2>3. TurnInv'
    BY <1>0, <1>5 DEF AgreeInv, TurnInv, HubTypes, PermitTypes
  <2>4. HandshakeAt(m, s) \in Early
    BY <2>1, BothEnds DEF Early
  <2>5. SocketInv(m, s)'
    <3>1. SocketInv(m, s) /\ table'[m] = table[m] /\ conn'[m] = conn[m] /\ wire'[s][m] = wire[s][m]
      BY <1>1, <2>1 DEF AgreeInv
    <3> QED BY <2>2, <2>4, <3>1, SocketInstallBegins
  <2>6. task[<<m, s, "install">>].at = "off"
    BY <2>1, <2>4, TasksInOrder DEF Early
  <2>7. ASSUME NEW n \in Nodes, NEW r \in Sockets, n # m \/ r # s PROVE SocketInv(n, r)'
    <3>1. \A x \in Tasks : (Retires(n, x, r)' <=> Retires(n, x, r)) /\ (Reaps(n, x, r)' <=> Reaps(n, x, r))
      BY <2>2, <2>6 DEF Retires, Reaps
    <3>2. /\ task'[<<n, r, "install">>] = task[<<n, r, "install">>]
          /\ task'[<<n, r, "read">>] = task[<<n, r, "read">>]
      BY <2>2, <2>7, TaskFacts
    <3>3. \/ HandshakeAt(n, r)' = HandshakeAt(n, r)
          \/ HandshakeAt(n, r) = "name" /\ HandshakeAt(n, r)' = "replied"
      <4>1. CASE r # s
        BY <1>0, <1>5, <4>1 DEF HandshakeAt, HubTypes, PermitTypes
      <4>2. CASE r = s
        BY <1>0, <1>5, <2>1, <2>7, <4>2, BothEnds DEF HubTypes, PermitTypes
      <4> QED BY <4>1, <4>2
    <3>4. AtRest(n, r)
      BY <1>1, <2>1, <3>1, <3>2, <3>3 DEF AtRest, Early
    <3> QED BY <3>4, SocketAtRest DEF AgreeInv
  <2>8. WireTypes'
    BY <2>1 DEF AgreeInv, WireTypes
  <2>9. \A n \in Nodes, r \in Sockets : SocketInv(n, r)'
    BY <2>5, <2>7
  <2> QED BY <2>3, <2>8, <2>9 DEF AgreeInv
<1>6. CASE Exchange(s)
  BY <1>2, <1>3, <1>5, <1>6 DEF Exchange, links
<1>7. CASE ReadAck(s)
  BY <1>2, <1>5, <1>7 DEF ReadAck
<1>8. CASE HandshakeFails(s)
  BY <1>2, <1>3, <1>8 DEF HandshakeFails
<1> QED BY <1>4, <1>6, <1>7, <1>8 DEF HandshakeStep

(* What one node does leaves the sockets of the other alone. *)
LEMMA SocketsOfPeer ==
  ASSUME AgreeInv, NEW n \in Nodes, \A t \in Tasks : t[1] # n => task'[t] = task[t],
         \A m \in Nodes : m # n =>
           /\ table'[m] = table[m] /\ conn'[m] = conn[m]
           /\ \A s \in Sockets : wire'[s][m] = wire[s][m] /\ HandshakeAt(m, s)' = HandshakeAt(m, s)
  PROVE  \A m \in Nodes, s \in Sockets : m # n => SocketInv(m, s)'
<1> SUFFICES ASSUME NEW m \in Nodes, NEW s \in Sockets, m # n PROVE SocketInv(m, s)'
  OBVIOUS
<1>1. \A t \in Tasks : (Retires(m, t, s)' <=> Retires(m, t, s)) /\ (Reaps(m, t, s)' <=> Reaps(m, t, s))
  BY DEF Retires, Reaps
<1>2. /\ task'[<<m, s, "install">>] = task[<<m, s, "install">>]
      /\ task'[<<m, s, "read">>] = task[<<m, s, "read">>]
  BY TaskFacts
<1>3. AtRest(m, s)
  BY <1>1, <1>2 DEF AtRest
<1> QED BY <1>3, SocketAtRest DEF AgreeInv

(* An end of a handshake that is over was past its turns. *)
LEMMA OverKeepsTurns ==
  ASSUME AgreeInv, HubTypes, PermitTypes, NEW n \in Nodes, NEW s \in Sockets, HandshakeOver(n, s),
         HandshakeAt(n, s) = "register"
  PROVE  TurnInv'
<1>1. CASE Dialer[s] = n
  BY <1>1 DEF HandshakeOver, HandshakeAt, AgreeInv, TurnInv, HubTypes, PermitTypes
<1>2. CASE Dialer[s] # n
  BY <1>2 DEF HandshakeOver, HandshakeAt, AgreeInv, TurnInv, HubTypes, PermitTypes
<1> QED BY <1>1, <1>2

(* An install is refused: the incumbent wins, or the socket is not prepared. *)
LEMMA RefusalAgrees ==
  ASSUME AgreeInv, EventInv, PermitTypes, NEW n \in Nodes, NEW s \in Sockets,
         task[<<n, s, "install">>].at = "register", Close(n, s), HandshakeOver(n, s),
         task' = [task EXCEPT ![<<n, s, "install">>] = Off], UNCHANGED <<conn, table>>
  PROVE  AgreeInv'
<1> DEFINE t == <<n, s, "install">>
<1>1. HubTypes /\ t \in Tasks /\ HandshakeAt(n, s) = "register" /\ t[1] = n
  BY TasksInOrder DEF EventInv
<1>2. task'[t] = Off /\ \A x \in Tasks : x # t => task'[x] = task[x]
  BY <1>1 DEF PermitTypes
<1>3. /\ WireTypes' /\ wire'[s][n] = "closed"
      /\ \A m \in Nodes, r \in Sockets : m # n \/ r # s => wire'[r][m] = wire[r][m]
  BY DEF Close, AgreeInv, WireTypes
<1>4. \A m \in Nodes, r \in Sockets : m # n \/ r # s => HandshakeAt(m, r)' = HandshakeAt(m, r)
  BY <1>1, HandshakeOverEffect
<1>5. TurnInv'
  BY <1>1, OverKeepsTurns
<1>6. SocketInv(n, s)'
  <2>1. task'[<<n, s, "install">>].at = "off" /\ SocketInv(n, s) /\ wire'[s][n] # "open"
        /\ table'[n] = table[n] /\ conn'[n] = conn[n]
    BY <1>2, <1>3 DEF Off, AgreeInv
  <2> QED BY <1>2, <2>1, SocketRefused
<1>7. ASSUME NEW r \in Sockets, r # s PROVE SocketInv(n, r)'
  <2>1. \A x \in Tasks : (Retires(n, x, r)' <=> Retires(n, x, r)) /\ (Reaps(n, x, r)' <=> Reaps(n, x, r))
    BY <1>2 DEF Retires, Reaps, Off
  <2>2. /\ task'[<<n, r, "install">>] = task[<<n, r, "install">>]
        /\ task'[<<n, r, "read">>] = task[<<n, r, "read">>]
    BY <1>2, <1>7, TaskFacts
  <2>3. AtRest(n, r)
    BY <1>3, <1>4, <1>7, <2>1, <2>2 DEF AtRest
  <2> QED BY <2>3, SocketAtRest DEF AgreeInv
<1>8. \A m \in Nodes, r \in Sockets : m # n => SocketInv(m, r)'
  BY <1>1, <1>2, <1>3, <1>4, SocketsOfPeer
<1> QED BY <1>3, <1>5, <1>6, <1>7, <1>8 DEF AgreeInv

(* A newcomer is installed, and what it displaces is to be retired. *)
LEMMA InstallAgrees ==
  ASSUME AgreeInv, EventInv, PermitTypes, NEW n \in Nodes, NEW s \in Sockets,
         task[<<n, s, "install">>].at = "register",
         NEW c, ~c.down, conn' = [conn EXCEPT ![n][s] = c], table' = [table EXCEPT ![n] = s],
         task' = [task EXCEPT ![<<n, s, "install">>] =
                    [at |-> IF table[n] = None THEN "dispatch" ELSE "mark", victim |-> table[n]]],
         UNCHANGED <<init, resp, wire>>
  PROVE  AgreeInv'
<1> DEFINE t == <<n, s, "install">>
<1>1. HubTypes /\ t \in Tasks /\ t[1] = n /\ t[3] = "install" /\ table[n] \in Sockets \cup {None}
  BY TasksInOrder DEF EventInv, PermitTypes
<1>2. /\ task'[t].at = (IF table[n] = None THEN "dispatch" ELSE "mark") /\ task'[t].victim = table[n]
      /\ \A x \in Tasks : x # t => task'[x] = task[x]
  BY <1>1 DEF PermitTypes
<1>3. /\ table'[n] = s /\ conn'[n][s] = c /\ \A r \in Sockets : r # s => conn'[n][r] = conn[n][r]
      /\ \A m \in Nodes : m # n => table'[m] = table[m] /\ conn'[m] = conn[m]
  BY <1>1 DEF PermitTypes, HubTypes
<1>4. /\ WireTypes' /\ TurnInv' /\ \A m \in Nodes, r \in Sockets : HandshakeAt(m, r)' = HandshakeAt(m, r)
  BY DEF AgreeInv, WireTypes, TurnInv, HandshakeAt
<1>5. SocketInv(n, s) /\ table[n] # s
  BY DEF AgreeInv, SocketInv, Unlinked
<1>6. SocketInv(n, s)'
  <2>1. /\ task'[<<n, s, "install">>].at \in {"dispatch", "mark"} /\ task'[<<n, s, "install">>].victim # s
        /\ ~conn'[n][s].down /\ wire'[s][n] = wire[s][n]
    BY <1>2, <1>3, <1>5
  <2> QED BY <1>2, <1>3, <1>4, <1>5, <2>1, SocketInstalled
<1>7. ASSUME NEW r \in Sockets, r # s PROVE SocketInv(n, r)'
  <2>0. SocketInv(n, r) /\ table'[n] # r /\ conn'[n][r] = conn[n][r] /\ wire'[r][n] = wire[r][n]
        /\ t # <<n, r, "install">>
    BY <1>3, <1>7 DEF AgreeInv
  <2>1. CASE table[n] = r
    <3>1. task'[t].at = "mark" /\ task'[t].victim = r
      BY <1>2, <2>1, ConnectionsAssumption
    <3> QED BY <1>1, <1>2, <1>4, <2>0, <2>1, <3>1, SocketReplaced
  <2>2. CASE table[n] # r
    <3>1. \A x \in Tasks : (Retires(n, x, r)' <=> Retires(n, x, r)) /\ (Reaps(n, x, r)' <=> Reaps(n, x, r))
      BY <1>2, <2>2 DEF Retires, Reaps
    <3>2. /\ task'[<<n, r, "install">>] = task[<<n, r, "install">>]
          /\ task'[<<n, r, "read">>] = task[<<n, r, "read">>]
      BY <1>2, <2>0, TaskFacts
    <3>3. AtRest(n, r)
      BY <1>4, <2>0, <2>2, <3>1, <3>2 DEF AtRest
    <3> QED BY <2>0, <3>3, SocketAtRest
  <2> QED BY <2>1, <2>2
<1>8. \A m \in Nodes, r \in Sockets : m # n => SocketInv(m, r)'
  BY <1>1, <1>2, <1>3, <1>4, SocketsOfPeer
<1> QED BY <1>4, <1>6, <1>7, <1>8 DEF AgreeInv

LEMMA RegisterAgrees ==
  ASSUME AgreeInv, EventInv, PermitTypes, NEW n \in Nodes, NEW s \in Sockets, Register(n, s) \/ RegisterFails(n, s)
  PROVE  AgreeInv'
<1>1. CASE RegisterFails(n, s) \/ (Register(n, s) /\ IncumbentWins(n, s))
  BY <1>1, RefusalAgrees DEF RegisterFails, Register
<1>2. CASE Register(n, s) /\ ~IncumbentWins(n, s)
  <2> DEFINE c == [gen |-> InstalledGeneration(n, s), creation |-> met[s][Peer(n)], down |-> FALSE]
  <2>1. ~c.down
    OBVIOUS
  <2>2. /\ task[<<n, s, "install">>].at = "register"
        /\ conn' = [conn EXCEPT ![n][s] = c] /\ table' = [table EXCEPT ![n] = s]
        /\ task' = [task EXCEPT ![<<n, s, "install">>] =
                      [at |-> IF table[n] = None THEN "dispatch" ELSE "mark", victim |-> table[n]]]
        /\ UNCHANGED <<init, resp, wire>>
    BY <1>2 DEF Register, links
  <2> HIDE DEF c
  <2> QED BY <2>1, <2>2, InstallAgrees
<1> QED BY <1>1, <1>2

(* The socket in force, and one that is being retired, are installed. *)
LEMMA VictimsInstalled ==
  ASSUME AgreeInv, NEW n \in Nodes, NEW s \in Sockets
  PROVE  /\ table[n] = s => ~Unlinked(n, s)
         /\ \A t \in Tasks : Retires(n, t, s) \/ Reaps(n, t, s) => ~Unlinked(n, s)
BY DEF AgreeInv, SocketInv

(* A task goes on, and no socket is installed or taken down. *)
LEMMA TaskTurnAgrees ==
  ASSUME AgreeInv, EventInv, PermitTypes', NEW t \in Tasks, UNCHANGED <<conn, table, wire, init, resp>>,
         \A x \in Tasks : x # t => task'[x] = task[x],
         task[t].at \notin {"register", "reap"}, task'[t].at \notin {"register", "reading", "reap"},
         task'[t].at = "mark" => task'[t].victim \in Sockets /\ ~Unlinked(t[1], task'[t].victim),
         task[t].at = "mark" => conn[t[1]][task[t].victim].down,
         t[3] = "install" => task'[t].at # "off",
         t[3] = "read" /\ task[t].at = "reading" => task'[t].at = "mark" /\ task'[t].victim = task[t].victim
  PROVE  AgreeInv'
<1>1. t[1] \in Nodes
  BY TaskFacts
<1>2. /\ WireTypes' /\ TurnInv' /\ \A m \in Nodes, r \in Sockets : HandshakeAt(m, r)' = HandshakeAt(m, r)
  BY DEF AgreeInv, WireTypes, TurnInv, HandshakeAt
<1>3. ASSUME NEW s \in Sockets PROVE SocketInv(t[1], s)'
  <2>1. /\ ~Reaps(t[1], t, s) /\ ~Reaps(t[1], t, s)' /\ (Retires(t[1], t, s)' => ~Unlinked(t[1], s))
        /\ Retires(t[1], t, s) => conn[t[1]][s].down
    BY DEF Reaps, Retires
  <2>2. SocketInv(t[1], s) /\ wire'[s][t[1]] = wire[s][t[1]] /\ (table'[t[1]] = s <=> table[t[1]] = s)
        /\ conn'[t[1]][s] = conn[t[1]][s] /\ HandshakeAt(t[1], s)' = HandshakeAt(t[1], s)
    BY <1>1, <1>2 DEF AgreeInv
  <2> QED BY <1>1, <2>1, <2>2, SocketTaskTurns
<1>4. \A m \in Nodes, r \in Sockets : m # t[1] => SocketInv(m, r)'
  BY <1>1, <1>2, SocketsOfPeer
<1>5. \A m \in Nodes, r \in Sockets : SocketInv(m, r)'
  BY <1>3, <1>4
<1> QED BY <1>2, <1>5 DEF AgreeInv

(* A task that takes a link down. *)
LEMMA MarkDownAgrees ==
  ASSUME AgreeInv, EventInv, PermitTypes, PermitTypes', NEW t \in Tasks, MarkDown(t)
  PROVE  AgreeInv'
<1> DEFINE n == t[1]
<1>0. PICK v \in Sockets : v = task[t].victim
  BY TaskFacts, TasksInOrder DEF MarkDown
<1>1. n \in Nodes /\ HubTypes /\ task[t].at = "mark" /\ task[t].victim = v /\ t = <<t[1], t[2], t[3]>>
  BY <1>0, TaskFacts DEF MarkDown, EventInv
<1>2. UNCHANGED <<table, init, resp>>
  BY DEF MarkDown, handshake
<1>3. Retires(n, t, v) /\ ~Unlinked(n, v)
  BY <1>1, VictimsInstalled DEF Retires
<1>4. CASE conn[n][v].down
  <2>1. Go(t, AfterMark(t)) /\ UNCHANGED <<conn, wire>>
    BY <1>1, <1>4 DEF MarkDown
  <2>2. AfterMark(t) \in {"drain", "dispatch", "off"} /\ (t[3] = "install" => AfterMark(t) # "off")
        /\ AfterMark(t) \in TaskPlaces
    BY DEF AfterMark, TaskPlaces
  <2>3. task'[t].at = AfterMark(t) /\ \A x \in Tasks : x # t => task'[x] = task[x]
    BY <2>1, <2>2, GoEffect
  <2> QED BY <1>1, <1>2, <1>4, <2>1, <2>2, <2>3, TaskTurnAgrees
<1>5. CASE ~conn[n][v].down
  <2>1. Go(t, "reap") /\ conn' = [conn EXCEPT ![n][v].down = TRUE] /\ Close(n, v)
    BY <1>1, <1>5 DEF MarkDown
  <2>2. task'[t].at = "reap" /\ \A x \in Tasks : x # t => task'[x] = task[x]
    BY <2>1, GoEffect DEF TaskPlaces
  <2>3. task'[t].victim = v
    BY <1>1, <2>1 DEF Go, PermitTypes
  <2>4. /\ conn'[n][v].down /\ \A r \in Sockets : r # v => conn'[n][r] = conn[n][r]
        /\ \A m \in Nodes : m # n => conn'[m] = conn[m]
    BY <1>1, <2>1 DEF HubTypes
  <2>5. /\ WireTypes' /\ wire'[v][n] = "closed"
        /\ \A m \in Nodes, r \in Sockets : m # n \/ r # v => wire'[r][m] = wire[r][m]
    BY <1>1, <2>1 DEF Close, AgreeInv, WireTypes
  <2>6. TurnInv' /\ \A m \in Nodes, r \in Sockets : HandshakeAt(m, r)' = HandshakeAt(m, r)
    BY <1>2 DEF AgreeInv, TurnInv, HandshakeAt
  <2>7. SocketInv(n, v)'
    <3>1. SocketInv(n, v) /\ wire'[v][n] # "open" /\ table'[n] = table[n] /\ HandshakeAt(n, v)' = HandshakeAt(n, v)
      BY <1>1, <1>2, <2>5, <2>6 DEF AgreeInv
    <3> QED BY <1>1, <1>3, <2>2, <2>3, <2>4, <3>1, SocketMarked
  <2>8. ASSUME NEW r \in Sockets, r # v PROVE SocketInv(n, r)'
    <3>1. ~Reaps(n, t, r) /\ ~Reaps(n, t, r)' /\ ~Retires(n, t, r) /\ ~Retires(n, t, r)'
      BY <1>1, <2>2, <2>3, <2>8 DEF Reaps, Retires
    <3>2. SocketInv(n, r) /\ wire'[r][n] = wire[r][n] /\ (table'[n] = r <=> table[n] = r)
          /\ conn'[n][r] = conn[n][r] /\ HandshakeAt(n, r)' = HandshakeAt(n, r)
      BY <1>1, <1>2, <2>4, <2>5, <2>6, <2>8 DEF AgreeInv
    <3> QED BY <1>1, <2>2, <3>1, <3>2, SocketTaskTurns
  <2>9. \A m \in Nodes, r \in Sockets : m # n => SocketInv(m, r)'
    BY <1>1, <1>2, <2>2, <2>4, <2>5, <2>6, SocketsOfPeer
  <2>10. \A m \in Nodes, r \in Sockets : SocketInv(m, r)'
    BY <2>7, <2>8, <2>9
  <2> QED BY <2>5, <2>6, <2>10 DEF AgreeInv
<1> QED BY <1>4, <1>5

(* connection_down. *)
LEMMA ReapAgrees ==
  ASSUME AgreeInv, EventInv, PermitTypes, PermitTypes', NEW t \in Tasks, ConnectionDown(t)
  PROVE  AgreeInv'
<1> DEFINE n == t[1]
<1>0. PICK v \in Sockets : v = task[t].victim
  BY TaskFacts, TasksInOrder DEF ConnectionDown
<1>1. n \in Nodes /\ task[t].at = "reap" /\ task[t].victim = v /\ UNCHANGED <<conn, wire, init, resp>>
  BY <1>0, TaskFacts DEF ConnectionDown, handshake, links
<1>2. task'[t].at = "dispatch" /\ \A x \in Tasks : x # t => task'[x] = task[x]
  BY GoEffect DEF ConnectionDown, TaskPlaces
<1>3. /\ table'[n] # v /\ \A r \in Sockets : r # v => (table'[n] = r <=> table[n] = r)
      /\ \A m \in Nodes : m # n => table'[m] = table[m]
  BY <1>1, ConnectionsAssumption DEF ConnectionDown, PermitTypes
<1>4. WireTypes' /\ TurnInv' /\ \A m \in Nodes, r \in Sockets : HandshakeAt(m, r)' = HandshakeAt(m, r)
  BY <1>1 DEF AgreeInv, WireTypes, TurnInv, HandshakeAt
<1>5. SocketInv(n, v)'
  <2>1. SocketInv(n, v) /\ Reaps(n, t, v) /\ conn'[n][v] = conn[n][v] /\ wire'[v][n] = wire[v][n]
        /\ HandshakeAt(n, v)' = HandshakeAt(n, v)
    BY <1>1, <1>4 DEF AgreeInv, Reaps
  <2> QED BY <1>1, <1>2, <1>3, <2>1, SocketReaped
<1>6. ASSUME NEW r \in Sockets, r # v PROVE SocketInv(n, r)'
  <2>1. ~Reaps(n, t, r) /\ ~Reaps(n, t, r)' /\ ~Retires(n, t, r) /\ ~Retires(n, t, r)'
    BY <1>1, <1>2, <1>6 DEF Reaps, Retires
  <2>2. SocketInv(n, r) /\ wire'[r][n] = wire[r][n] /\ (table'[n] = r <=> table[n] = r)
        /\ conn'[n][r] = conn[n][r] /\ HandshakeAt(n, r)' = HandshakeAt(n, r)
    BY <1>1, <1>3, <1>4, <1>6 DEF AgreeInv
  <2> QED BY <1>1, <1>2, <2>1, <2>2, SocketTaskTurns
<1>7. \A m \in Nodes, r \in Sockets : m # n => SocketInv(m, r)'
  BY <1>1, <1>2, <1>3, <1>4, SocketsOfPeer
<1>8. \A m \in Nodes, r \in Sockets : SocketInv(m, r)'
  BY <1>5, <1>6, <1>7
<1> QED BY <1>4, <1>8 DEF AgreeInv

(* A task returns from its dispatch. *)
LEMMA ReturnAgrees ==
  ASSUME AgreeInv, EventInv, PermitTypes, PermitTypes', NEW t \in Tasks, task[t].at \in {"dispatch", "drain"},
         Return(t), UNCHANGED <<conn, table, wire>>
  PROVE  AgreeInv'
<1> DEFINE n == t[1]
           s == t[2]
<1>1. n \in Nodes /\ s \in Sockets /\ t = <<n, s, t[3]>> /\ HubTypes
  BY TaskFacts DEF EventInv
<1>2. CASE t[3] = "install"
  <2> DEFINE rd == <<n, s, "read">>
  <2>1. t = <<n, s, "install">> /\ rd \in Tasks /\ rd # t /\ HandshakeAt(n, s) = "register" /\ task[rd].at = "off"
    BY <1>1, <1>2, TasksInOrder
  <2>2. /\ task'[t] = Off /\ task'[rd] = [at |-> "reading", victim |-> s]
        /\ \A x \in Tasks : x # t /\ x # rd => task'[x] = task[x]
    BY <1>2, <2>1 DEF Return, PermitTypes
  <2>3. HandshakeOver(n, s)
    BY <1>2 DEF Return
  <2>4. /\ HandshakeAt(n, s)' = "done"
        /\ \A m \in Nodes, r \in Sockets : m # n \/ r # s => HandshakeAt(m, r)' = HandshakeAt(m, r)
    BY <1>1, <2>3, HandshakeOverEffect
  <2>5. TurnInv' /\ WireTypes'
    BY <1>1, <2>1, <2>3, OverKeepsTurns DEF AgreeInv, WireTypes
  <2>6. SocketInv(n, s)'
    <3>1. SocketInv(n, s) /\ task'[<<n, s, "install">>].at = "off" /\ task[<<n, s, "install">>].at \in {"dispatch", "drain"}
          /\ \A x \in Tasks : x # <<n, s, "install">> /\ x # <<n, s, "read">> => task'[x] = task[x]
      BY <1>1, <2>1, <2>2 DEF AgreeInv, Off
    <3> QED BY <1>1, <2>2, <2>4, <3>1, SocketReads
  <2>7. ASSUME NEW r \in Sockets, r # s PROVE SocketInv(n, r)'
    <3>1. \A x \in Tasks : (Retires(n, x, r)' <=> Retires(n, x, r)) /\ (Reaps(n, x, r)' <=> Reaps(n, x, r))
      BY <2>1, <2>2 DEF Retires, Reaps, Off
    <3>2. /\ task'[<<n, r, "install">>] = task[<<n, r, "install">>]
          /\ task'[<<n, r, "read">>] = task[<<n, r, "read">>]
      BY <1>1, <2>1, <2>2, <2>7, TaskFacts
    <3>3. AtRest(n, r)
      BY <1>1, <2>4, <2>7, <3>1, <3>2 DEF AtRest
    <3> QED BY <1>1, <3>3, SocketAtRest DEF AgreeInv
  <2>8. \A m \in Nodes, r \in Sockets : m # n => SocketInv(m, r)'
    <3>1. \A x \in Tasks : x[1] # n => task'[x] = task[x]
      BY <2>1, <2>2
    <3> QED BY <1>1, <2>4, <3>1, SocketsOfPeer
  <2>9. \A m \in Nodes, r \in Sockets : SocketInv(m, r)'
    BY <2>6, <2>7, <2>8
  <2> QED BY <2>5, <2>9 DEF AgreeInv
<1>3. CASE t[3] # "install"
  <2>1. Go(t, "off") /\ UNCHANGED <<init, resp>>
    BY <1>3 DEF Return
  <2>2. task'[t].at = "off" /\ \A x \in Tasks : x # t => task'[x] = task[x]
    BY <2>1, GoEffect DEF TaskPlaces
  <2> QED BY <1>3, <2>1, <2>2, TaskTurnAgrees
<1> QED BY <1>2, <1>3

(* Tasks that stop reading, disconnect, dispatch and deliver. *)
LEMMA TasksAgree ==
  ASSUME AgreeInv, EventInv, PermitTypes, PermitTypes', NEW t \in Tasks,
         TaskStep(t) \/ CallbackDisconnects(t) \/ (\E n \in Nodes, s \in Sockets :
           \/ t = <<n, s, "read">> /\ ReaderStops(n, s)
           \/ t = <<n, s, "user">> /\ DisconnectNode(n, s))
  PROVE  AgreeInv'
<1>1. CASE Dispatch(t)
  <2>1. task'[t].at = "drain" /\ \A x \in Tasks : x # t => task'[x] = task[x]
    BY <1>1, GoEffect DEF Dispatch, TaskPlaces
  <2> QED BY <1>1, <2>1, TaskTurnAgrees DEF Dispatch, handshake, links
<1>2. CASE Drain(t)
  BY <1>2, TaskTurnAgrees DEF Drain, handshake, links
<1>3. CASE CallbackDisconnects(t)
  <2>1. t[1] \in Nodes /\ table[t[1]] \in Sockets /\ task[t].at = "drain"
    BY <1>3, TaskFacts DEF CallbackDisconnects, PermitTypes
  <2>2. task'[t].at = "mark" /\ task'[t].victim = table[t[1]] /\ \A x \in Tasks : x # t => task'[x] = task[x]
    BY <1>3 DEF CallbackDisconnects, PermitTypes
  <2>3. ~Unlinked(t[1], table[t[1]])
    BY <2>1, VictimsInstalled
  <2> QED BY <1>3, <2>1, <2>2, <2>3, TaskTurnAgrees DEF CallbackDisconnects, handshake, links
<1>4. ASSUME NEW n \in Nodes, NEW s \in Sockets, t = <<n, s, "read">>, ReaderStops(n, s) PROVE AgreeInv'
  <2>1. task[t].at = "reading" /\ Go(t, "mark") /\ UNCHANGED <<conn, table, wire, init, resp>>
    BY <1>4 DEF ReaderStops, handshake, links
  <2>2. task'[t].at = "mark" /\ \A x \in Tasks : x # t => task'[x] = task[x]
    BY <2>1, GoEffect DEF TaskPlaces
  <2>3. task'[t].victim = task[t].victim /\ task[t].victim = s
    BY <1>4, <2>1 DEF Go, PermitTypes, AgreeInv, SocketInv
  <2>4. HandshakeAt(n, s) = "done" /\ task[<<n, s, "install">>].at = "off"
    BY <1>4, <2>1, TasksInOrder
  <2>5. ~Unlinked(n, s) /\ t[1] = n /\ t[3] = "read"
    BY <1>4, <2>4 DEF Unlinked, Early
  <2> QED BY <2>1, <2>2, <2>3, <2>5, TaskTurnAgrees
<1>5. ASSUME NEW n \in Nodes, NEW s \in Sockets, t = <<n, s, "user">>, DisconnectNode(n, s) PROVE AgreeInv'
  <2>1. task[t].at = "off" /\ table[n] = s /\ UNCHANGED <<conn, table, wire, init, resp>>
    BY <1>5 DEF DisconnectNode, handshake, links
  <2>2. task'[t].at = "mark" /\ task'[t].victim = s /\ \A x \in Tasks : x # t => task'[x] = task[x]
    BY <1>5 DEF DisconnectNode, PermitTypes
  <2>3. ~Unlinked(n, s) /\ t[1] = n /\ t[3] = "user"
    BY <1>5, <2>1, VictimsInstalled
  <2> QED BY <2>1, <2>2, <2>3, TaskTurnAgrees
<1>6. CASE DispatchReturns(t)
  BY <1>6, ReturnAgrees DEF DispatchReturns
<1>7. CASE DispatchAtOnce(t)
  BY <1>7, ReturnAgrees DEF DispatchAtOnce
<1> QED BY <1>1, <1>2, <1>3, <1>4, <1>5, <1>6, <1>7, MarkDownAgrees, ReapAgrees DEF TaskStep

(* A node dies and starts again. *)
LEMMA RestartAgrees ==
  ASSUME AgreeInv, HubTypes, PermitTypes, NEW n \in Nodes, Restart(n)
  PROVE  AgreeInv'
<1>1. /\ table'[n] = None /\ \A s \in Sockets : conn'[n][s] = NoConn
      /\ \A m \in Nodes : m # n => table'[m] = table[m] /\ conn'[m] = conn[m]
      /\ \A t \in Tasks : task'[t] = IF t[1] = n THEN Off ELSE task[t]
  BY DEF Restart, HubTypes, PermitTypes
<1>2. /\ WireTypes' /\ \A s \in Sockets : wire'[s][n] # "open"
      /\ \A m \in Nodes, s \in Sockets : m # n => wire'[s][m] = wire[s][m]
  <2>1. PICK end \in {"closed", "lost"} :
          wire' = [s \in Sockets |-> [wire[s] EXCEPT ![n] = IF @ = "open" THEN end ELSE @]]
    BY DEF Restart
  <2> QED BY <2>1 DEF AgreeInv, WireTypes
<1>3. \A s \in Sockets :
        /\ init'[s] = IF Dialer[s] = n /\ init[s] # "unused" THEN "failed" ELSE init[s]
        /\ resp'[s] = IF ~Accepts(n, s) \/ init[s] = "unused" THEN resp[s]
                      ELSE IF resp[s] \in {"register", "done"} THEN "done" ELSE "failed"
  BY DEF Restart
<1>4. TurnInv'
  BY <1>3, PeerFacts DEF AgreeInv, TurnInv, HubTypes, PermitTypes
<1>5. \A m \in Nodes, s \in Sockets : m # n => HandshakeAt(m, s)' = HandshakeAt(m, s)
  <2>1. \A m \in Nodes, s \in Sockets : m # n => IF Dialer[s] = m THEN Dialer[s] # n ELSE ~Accepts(n, s)
    BY PeerFacts DEF Accepts, Peer, Nodes
  <2> QED BY <1>3, <2>1 DEF HandshakeAt
<1>6. \A s \in Sockets : SocketInv(n, s)'
  BY <1>1, <1>2, SocketRestarts
<1>7. \A m \in Nodes, s \in Sockets : m # n => SocketInv(m, s)'
  BY <1>1, <1>2, <1>5, SocketsOfPeer
<1>8. \A m \in Nodes, s \in Sockets : SocketInv(m, s)'
  BY <1>6, <1>7
<1> QED BY <1>2, <1>4, <1>8 DEF AgreeInv

(* Nothing of the sockets changes. *)
LEMMA IdleAgrees ==
  ASSUME AgreeInv, UNCHANGED <<conn, table, task, wire, init, resp>>
  PROVE  AgreeInv'
<1>1. WireTypes' /\ TurnInv' /\ \A m \in Nodes, r \in Sockets : HandshakeAt(m, r)' = HandshakeAt(m, r)
  BY DEF AgreeInv, WireTypes, TurnInv, HandshakeAt
<1>2. \A n \in Nodes, s \in Sockets : SocketInv(n, s)'
  BY <1>1, NobodyInstalls
<1> QED BY <1>1, <1>2 DEF AgreeInv

LEMMA AgreeBegins == Init => AgreeInv
<1> SUFFICES ASSUME Init PROVE AgreeInv
  OBVIOUS
<1>1. WireTypes /\ TurnInv
  BY DEF Init, WireTypes, TurnInv
<1>2. ASSUME NEW n \in Nodes, NEW s \in Sockets PROVE SocketInv(n, s)
  <2>1. table[n] = None /\ conn[n][s] = NoConn /\ wire[s][n] = "closed" /\ \A t \in Tasks : task[t] = Off
    BY DEF Init
  <2>2. \A t \in Tasks : ~Retires(n, t, s) /\ ~Reaps(n, t, s)
    BY <2>1 DEF Retires, Reaps, Off
  <2>3. task[<<n, s, "read">>].at = "off"
    BY <2>1, TaskFacts DEF Off
  <2> QED BY <2>1, <2>2, <2>3, ConnectionsAssumption DEF SocketInv, NoConn
<1> QED BY <1>1, <1>2 DEF AgreeInv

(* Every step keeps what the two nodes know of a socket in step. *)
LEMMA AgreeKept == AgreeInv /\ EventInv /\ PermitInv /\ PermitInv' /\ [Next]_vars => AgreeInv'
<1> SUFFICES ASSUME AgreeInv, EventInv, PermitInv, PermitInv', [Next]_vars PROVE AgreeInv'
  OBVIOUS
<1>0. HubTypes /\ PermitTypes /\ PermitTypes'
  BY DEF EventInv, PermitInv
<1>1. ASSUME NEW s \in Sockets, Connect(s) \/ HandshakeStep(s) \/ HandshakeFails(s) PROVE AgreeInv'
  BY <1>0, <1>1, ConnectAgrees, HandshakeAgrees
<1>2. ASSUME NEW n \in Nodes, NEW s \in Sockets,
             Register(n, s) \/ RegisterFails(n, s) \/ ReaderStops(n, s) \/ DisconnectNode(n, s)
      PROVE  AgreeInv'
  <2>1. <<n, s, "read">> \in Tasks /\ <<n, s, "user">> \in Tasks
    BY TaskFacts
  <2> QED BY <1>0, <1>2, <2>1, RegisterAgrees, TasksAgree
<1>3. ASSUME NEW t \in Tasks, TaskStep(t) \/ CallbackDisconnects(t) PROVE AgreeInv'
  BY <1>0, <1>3, TasksAgree
<1>4. ASSUME NEW n \in Nodes, AbortDials(n) \/ Subscribe(n) \/ LateStep(n) PROVE AgreeInv'
  <2>1. UNCHANGED <<conn, table, task, wire, init, resp>>
    BY <1>4 DEF AbortDials, Subscribe, LateStep, LateDrains, LateDrained, Snapshot, RecheckQueue, LateReturns,
                LateRest, links, handshake
  <2> QED BY <2>1, IdleAgrees
<1>5. ASSUME NEW n \in Nodes, Restart(n) PROVE AgreeInv'
  BY <1>0, <1>5, RestartAgrees
<1>6. CASE UNCHANGED vars
  BY <1>6, IdleAgrees DEF vars, handshake, links
<1> QED BY <1>1, <1>2, <1>3, <1>4, <1>5, <1>6 DEF Next

(* A node at rest that holds a socket reads from it, so the other end is     *)
(* open, and the other node at rest has nothing to do with an open end but   *)
(* to hold it.                                                               *)
LEMMA SettledAlike ==
  ASSUME AgreeInv, EventInv, PermitTypes, Quiet, NEW n \in Nodes, table[n] # None
  PROVE  table[Peer(n)] = table[n]
<1> DEFINE m == Peer(n)
<1>0. PICK s \in Sockets : table[n] = s
  BY DEF PermitTypes
<1>1. m \in Nodes /\ m # n /\ Peer(m) = n
  BY PeerFacts
<1>2. \A t \in Tasks : task[t].at \in {"off", "reading"}
  BY DEF Quiet
<1>3. <<n, s, "install">> \in Tasks /\ <<n, s, "read">> \in Tasks /\ <<m, s, "install">> \in Tasks
  BY <1>1, TaskFacts
<1>4. \A x \in Nodes, t \in Tasks : ~Retires(x, t, s) /\ ~Reaps(x, t, s)
  BY <1>2 DEF Retires, Reaps
<1>5. SocketInv(n, s) /\ SocketInv(m, s)
  BY <1>1 DEF AgreeInv
<1>6. task[<<n, s, "read">>].at = "reading"
  BY <1>0, <1>2, <1>3, <1>4, <1>5 DEF SocketInv, Kept
<1>7. wire[s][m] = "open"
  BY <1>6 DEF Quiet
<1>8. HandshakeAt(n, s) = "done"
  BY <1>6, TasksInOrder
<1>9. HandshakeAt(m, s) \notin {"name", "replied", "none", "challenged"}
  <2>1. init[s] \notin {"name", "replied"} /\ resp[s] # "challenged"
    BY DEF Quiet
  <2>2. HandshakeAt(m, s) \in {init[s], resp[s]}
    BY DEF HandshakeAt
  <2>3. CASE resp[s] = "none"
    <3>1. init[s] \in {"unused", "name", "failed"}
      BY <2>3 DEF AgreeInv, TurnInv
    <3>2. FALSE
      BY <1>8, <2>3, <3>1 DEF HandshakeAt
    <3> QED BY <3>2
  <2> QED BY <2>1, <2>2, <2>3 DEF EventInv, HubTypes, PermitTypes
<1>10. task[<<m, s, "install">>].at # "register"
  BY <1>2, <1>3
<1> QED BY <1>0, <1>1, <1>4, <1>5, <1>7, <1>9, <1>10 DEF SocketInv, Attended

(* However dials, refused and displaced links, failures, disconnects from    *)
(* outside and from inside a callback, aborts and restarts interleave, over  *)
(* any number of sockets and with any accept envelope: once both nodes have  *)
(* nothing left to do, they hold the same socket or none. No node keeps a    *)
(* link whose other end was dropped by register_connection, shut down by     *)
(* mark_down or lost in a restart without its reader going on to take it     *)
(* down.                                                                     *)
THEOREM NodesHoldTheSameSocket == Spec => []SameSocket
<1>1. Init => AgreeInv /\ EventInv /\ PermitInv
  BY AgreeBegins, EventsBegin, PermitsKept
<1>2. (AgreeInv /\ EventInv /\ PermitInv) /\ [Next]_vars => (AgreeInv /\ EventInv /\ PermitInv)'
  BY AgreeKept, EventsKept, PermitsKept
<1>3. AgreeInv /\ EventInv /\ PermitInv => SameSocket
  <2> SUFFICES ASSUME AgreeInv, EventInv, PermitInv, Quiet PROVE table[Low] = table[High]
    BY DEF SameSocket
  <2>1. Low \in Nodes /\ High \in Nodes /\ Peer(Low) = High /\ Peer(High) = Low /\ PermitTypes
    BY ConnectionsAssumption DEF Nodes, Peer, PermitInv
  <2>2. CASE table[Low] # None
    BY <2>1, <2>2, SettledAlike
  <2>3. CASE table[High] # None
    BY <2>1, <2>3, SettledAlike
  <2> QED BY <2>2, <2>3
<1>4. QED
  BY <1>1, <1>2, <1>3, PTL DEF Spec

=============================================================================

--------------------------- MODULE ServicesProofs ----------------------------
(***************************************************************************)
(* Proofs about services of the scheduler: file and socket operations on   *)
(* the completion ring, and the mailbox.                                   *)
(***************************************************************************)
EXTENDS FileIo, Mailbox, FiniteSetTheorems, TLAPS

-----------------------------------------------------------------------------
(* FileIo: the types, and where an operation can be *)

CallSteps == {"idle", "enter", "track", "pend", "tracked", "parked", "cancel", "mark", "arm", "dead"}

DrainSteps == {"idle", "miss", "orphan", "insert", "check", "data", "rearm"}

OpRecords == [pid : IoProcs, call : Nat, kind : Kinds \cup {"active", "none"}]

CallRecords ==
  [at : CallSteps, call : Nat, kind : Kinds, op : Ops \cup {NoOp}, cut : SUBSET Ops, expired : BOOLEAN]

DrainRecords == [at : DrainSteps, op : Ops \cup {NoOp}, mode : {"passive", "active", "once"}]

IoTypes ==
  /\ ioNext \in Nat \ {0}
  /\ ioFor \in [Ops -> OpRecords]
  /\ ioResults \in [IoProcs -> Ops \cup {NoOp}]
  /\ ioDrain \in DrainRecords
  /\ ioCall \in [IoProcs -> CallRecords]
  /\ ioFlight \cup ioDone \cup ioPending \cup ioOrphans \cup ioDropped \subseteq Ops
  /\ ioTable \cup ioPurged \subseteq IoProcs
  /\ sockPid \in IoProcs /\ sockMode \in {"passive", "active", "once"}

(* Every operation anybody speaks of was submitted. *)
AllSubmitted ==
  /\ \A o \in ioFlight \cup ioDone \cup ioPending \cup ioOrphans \cup ioDropped : o < ioNext
  /\ \A p \in IoProcs : /\ ioResults[p] < ioNext /\ ioCall[p].op < ioNext
                        /\ \A o \in ioCall[p].cut : o < ioNext
  /\ ioDrain.op < ioNext

(* A process between the submission and the record of its operation. *)
Recording(p) == ioCall[p].at \in {"track", "pend", "arm"}

(* The drain has taken the operation out of the pending ones. *)
DrainHolds(o) == ioDrain.at \in {"insert", "check", "data", "rearm"} /\ ioDrain.op = o

(* An operation is pending, or a result, or with the drain, or dropped; and *)
(* before any of that it is with the one process that has submitted it.     *)
OnePart ==
  /\ \A o \in ioPending : o \notin ioDropped /\ ~DrainHolds(o) /\ \A p \in IoProcs : ioResults[p] # o
  /\ \A o \in ioDropped : ~DrainHolds(o) /\ \A p \in IoProcs : ioResults[p] # o
  /\ \A p \in IoProcs : Recording(p) =>
       /\ ioCall[p].op \in Ops /\ ioCall[p].op \notin ioPending \cup ioDropped /\ ~DrainHolds(ioCall[p].op)
       /\ \A q \in IoProcs : /\ ioResults[q] # ioCall[p].op
                             /\ Recording(q) /\ q # p => ioCall[q].op # ioCall[p].op

(* A completion is produced once. *)
OneCompletion ==
  /\ ioFlight \cap ioDone = {} /\ ioOrphans \cap (ioFlight \cup ioDone) = {}
  /\ ioDrain.at # "idle" => ioDrain.op \in Ops /\ ioDrain.op \notin ioFlight \cup ioDone

(* Reads of the active socket are not results. *)
ActiveApart ==
  /\ \A p \in IoProcs :
       /\ ioCall[p].at = "arm" => ioFor[ioCall[p].op].kind = "active"
       /\ ioCall[p].at \in {"track", "pend"} =>
            /\ ioFor[ioCall[p].op].pid = p /\ ioFor[ioCall[p].op].call = ioCall[p].call
            /\ ioFor[ioCall[p].op].kind # "active"
       /\ ioResults[p] # NoOp => ioFor[ioResults[p]].kind # "active"
       /\ \A o \in ioCall[p].cut : ioFor[o].kind # "active" => ioFor[o].pid = p
  /\ ioDrain.at \in {"insert", "check"} => ioFor[ioDrain.op].kind # "active"
  /\ \A a \in ioApplied : a[1] \in Ops /\ a[1] < ioNext /\ ioFor[a[1]].kind # "active"

(* A process of worker 0 stands still while worker 0 drains. *)
StandsStill == ioDrain.at # "idle" => \A p \in OnWorkerZero : ioCall[p].at \in {"idle", "parked", "dead"}

IoShape == IoTypes /\ AllSubmitted /\ OnePart /\ OneCompletion /\ ActiveApart /\ StandsStill

(* A process of worker 0 that waits has something to wait for. *)
Waits(p) ==
  /\ ioCall[p].at \in {"track", "pend"} => ioCall[p].op \in ioFlight \cup ioDone
  /\ ioCall[p].at = "tracked" => ioCall[p].op \in ioPending \cap (ioFlight \cup ioDone)
  /\ ioCall[p].at \in {"tracked", "parked"} =>
       ioFor[ioCall[p].op].pid = p /\ ioFor[ioCall[p].op].kind # "active" /\ ioCall[p].op \in Ops
  /\ ioCall[p].at = "parked" /\ p \in ioTable =>
       \/ ioCall[p].op \in ioPending \cap (ioFlight \cup ioDone)
       \/ ioDrain.op = ioCall[p].op /\ ioDrain.at = "insert"
       \/ ioResults[p] # NoOp

WaitInv == \A p \in OnWorkerZero : Waits(p)

(* The dead. *)
DeadInv == ioPurged \cap ioTable = {} /\ NoResultForDead

(* What may still become a result of p. *)
Outstanding(p) ==
  {o \in ioPending : ioFor[o].pid = p /\ ioFor[o].kind # "active"}
  \cup {o \in {ioDrain.op} : ioDrain.at = "insert" /\ ioFor[o].pid = p}
  \cup ({ioResults[p]} \ {NoOp})

(* A process of worker 0 has at most one operation outstanding, of the call *)
(* it is in, unless a timeout is about to drop it.                          *)
OneCallAtATime(p) ==
  /\ "udp" # ioCall[p].kind
  /\ ioCall[p].at \in {"idle", "track", "pend", "arm"} => Outstanding(p) = {}
  /\ ioCall[p].at \in {"tracked", "parked", "enter"} =>
       \A o \in Outstanding(p) : /\ o = ioCall[p].op /\ ioFor[o].pid = p
                                 /\ ioFor[o].call = ioCall[p].call
  /\ ioCall[p].at = "enter" /\ ioResults[p] = NoOp /\ ~ioCall[p].expired => Outstanding(p) = {}
  /\ ioCall[p].at \in {"cancel", "mark"} => ioResults[p] = NoOp
  /\ ioCall[p].at = "cancel" => Outstanding(p) \subseteq ioCall[p].cut
  /\ ioCall[p].at = "mark" => Outstanding(p) \subseteq ioCall[p].cut \ {ioCall[p].op}

(* No process of worker 0 receives datagrams. *)
NoDatagrams == \A p \in OnWorkerZero : "udp" \notin CallKinds[p]

(* What a process of worker 0 consumed was submitted by that very call. *)
AppliedInTime ==
  \A a \in ioApplied : a[2] \in OnWorkerZero => ioFor[a[1]].pid = a[2] /\ ioFor[a[1]].call = a[3]

CallsInv == (\A p \in OnWorkerZero : OneCallAtATime(p)) /\ AppliedInTime

IoInv == IoShape /\ WaitInv /\ DeadInv /\ (NoDatagrams => CallsInv)

-----------------------------------------------------------------------------
(* What the updates of a call's record do *)

(* The record of p becomes the one given, and no other changes. *)
CallSet(p, a, c, k, o, s, e) ==
  /\ ioCall' \in [IoProcs -> CallRecords]
  /\ ioCall'[p].at = a /\ ioCall'[p].call = c /\ ioCall'[p].kind = k
  /\ ioCall'[p].op = o /\ ioCall'[p].cut = s /\ ioCall'[p].expired = e
  /\ \A q \in IoProcs : q # p => ioCall'[q] = ioCall[q]

(* The step alone. *)
LEMMA StepSet ==
  ASSUME IoTypes, NEW p \in IoProcs, NEW a \in CallSteps, IoStep(p, a)
  PROVE  CallSet(p, a, ioCall[p].call, ioCall[p].kind, ioCall[p].op, ioCall[p].cut, ioCall[p].expired)
BY DEF IoTypes, IoStep, CallSet, CallRecords

(* The step and the timeout. *)
LEMMA ExpirySet ==
  ASSUME IoTypes, NEW p \in IoProcs, NEW a \in CallSteps, NEW e \in BOOLEAN,
         ioCall' = [ioCall EXCEPT ![p].at = a, ![p].expired = e]
  PROVE  CallSet(p, a, ioCall[p].call, ioCall[p].kind, ioCall[p].op, ioCall[p].cut, e)
BY DEF IoTypes, CallSet, CallRecords

(* The step and the operation. *)
LEMMA OpSet ==
  ASSUME IoTypes, NEW p \in IoProcs, NEW a \in CallSteps, NEW o \in Ops \cup {NoOp},
         ioCall' = [ioCall EXCEPT ![p].at = a, ![p].op = o]
  PROVE  CallSet(p, a, ioCall[p].call, ioCall[p].kind, o, ioCall[p].cut, ioCall[p].expired)
BY DEF IoTypes, CallSet, CallRecords

(* The step and the operations to cancel. *)
LEMMA CutSet ==
  ASSUME IoTypes, NEW p \in IoProcs, NEW a \in CallSteps, NEW s \in SUBSET Ops,
         ioCall' = [ioCall EXCEPT ![p].at = a, ![p].cut = s]
  PROVE  CallSet(p, a, ioCall[p].call, ioCall[p].kind, ioCall[p].op, s, ioCall[p].expired)
BY DEF IoTypes, CallSet, CallRecords

(* The step, the operation and the timeout. *)
LEMMA SubmitSet ==
  ASSUME IoTypes, NEW p \in IoProcs, NEW a \in CallSteps, NEW o \in Ops \cup {NoOp}, NEW e \in BOOLEAN,
         ioCall' = [ioCall EXCEPT ![p].at = a, ![p].op = o, ![p].expired = e]
  PROVE  CallSet(p, a, ioCall[p].call, ioCall[p].kind, o, ioCall[p].cut, e)
<1> DEFINE f == [ioCall EXCEPT ![p].at = a, ![p].op = o]
<1>1. /\ f \in [IoProcs -> CallRecords]
      /\ f[p].at = a /\ f[p].call = ioCall[p].call /\ f[p].kind = ioCall[p].kind /\ f[p].op = o
      /\ f[p].cut = ioCall[p].cut /\ \A q \in IoProcs : q # p => f[q] = ioCall[q]
  BY DEF IoTypes, CallRecords
<1>2. ioCall' = [f EXCEPT ![p].expired = e]
  OBVIOUS
<1> HIDE DEF f
<1> DEFINE r == [f[p] EXCEPT !.expired = e]
<1>3. r \in CallRecords /\ r.expired = e
  BY <1>1 DEF CallRecords
<1>4. r.at = a /\ r.call = ioCall[p].call /\ r.kind = ioCall[p].kind /\ r.op = o /\ r.cut = ioCall[p].cut
  BY <1>1 DEF CallRecords
<1>5. ioCall' = [f EXCEPT ![p] = r]
  BY <1>2
<1> HIDE DEF r
<1>6. QED
  BY <1>1, <1>3, <1>4, <1>5 DEF CallSet

(* The beginning of a call. *)
LEMMA CallSetAnew ==
  ASSUME IoTypes, NEW p \in IoProcs, NEW k \in Kinds,
         ioCall' = [ioCall EXCEPT ![p].at = "enter", ![p].call = @ + 1, ![p].kind = k]
  PROVE  CallSet(p, "enter", ioCall[p].call + 1, k, ioCall[p].op, ioCall[p].cut, ioCall[p].expired)
<1> DEFINE f == [ioCall EXCEPT ![p].at = "enter", ![p].call = @ + 1]
<1>0. ioCall[p] \in CallRecords /\ "enter" \in CallSteps /\ ioCall[p].call + 1 \in Nat
  BY DEF IoTypes, CallRecords, CallSteps
<1>1. /\ f \in [IoProcs -> CallRecords]
      /\ f[p].at = "enter" /\ f[p].call = ioCall[p].call + 1 /\ f[p].op = ioCall[p].op
      /\ f[p].cut = ioCall[p].cut /\ f[p].expired = ioCall[p].expired
      /\ \A q \in IoProcs : q # p => f[q] = ioCall[q]
  BY <1>0 DEF IoTypes, CallRecords
<1>2. ioCall' = [f EXCEPT ![p].kind = k]
  OBVIOUS
<1> HIDE DEF f
<1> DEFINE r == [f[p] EXCEPT !.kind = k]
<1>3. r \in CallRecords /\ r.kind = k
  BY <1>1 DEF CallRecords
<1>4. /\ r.at = "enter" /\ r.call = ioCall[p].call + 1 /\ r.op = ioCall[p].op /\ r.cut = ioCall[p].cut
      /\ r.expired = ioCall[p].expired
  BY <1>1 DEF CallRecords
<1>5. ioCall' = [f EXCEPT ![p] = r]
  BY <1>2
<1> HIDE DEF r
<1>6. QED
  BY <1>1, <1>3, <1>4, <1>5 DEF CallSet

(* A submission: a new operation in flight. *)
LEMMA SubmitEffect ==
  ASSUME IoTypes, AllSubmitted, NEW p \in IoProcs, NEW c \in Nat, NEW k \in Kinds \cup {"active", "none"},
         Submit(p, c, k)
  PROVE  /\ ioNext \in Ops /\ ioNext' = ioNext + 1 /\ ioNext' \in Nat \ {0} /\ ioDone' = ioDone
         /\ ioFor' \in [Ops -> OpRecords] /\ ioFlight' = ioFlight \cup {ioNext}
         /\ ioFor'[ioNext].pid = p /\ ioFor'[ioNext].call = c /\ ioFor'[ioNext].kind = k
         /\ \A o \in Ops : o # ioNext => ioFor'[o] = ioFor[o]
<1>1. [pid |-> p, call |-> c, kind |-> k] \in OpRecords
  BY DEF OpRecords
<1>2. QED
  BY <1>1 DEF Submit, IoTypes

(* Operations are numbers, and none is no operation. *)
LEMMA OpFacts ==
  /\ NoOp \notin Ops /\ NoOp \in Nat
  /\ \A o \in Ops : o \in Nat
  /\ IoTypes => NoOp < ioNext /\ ioNext \in Nat
  /\ \A p \in OnWorkerZero : p \in IoProcs
BY FileIoAssumption DEF NoOp, Ops, IoTypes

(* The ring executes an operation. *)
LEMMA RingKeeps ==
  ASSUME IoInv, NEW o \in Ops, RingCompletes(o)
  PROVE  IoInv'
<1>0. IoShape /\ WaitInv /\ DeadInv /\ (NoDatagrams => CallsInv)
  BY DEF IoInv
<1>1. IoTypes /\ AllSubmitted /\ OnePart /\ OneCompletion /\ ActiveApart /\ StandsStill
  BY <1>0 DEF IoShape
<1>2. UNCHANGED <<ioNext, ioFor, ioPending, ioOrphans, ioCanceled, ioResults, ioDrain, ioCall,
                  ioTable, ioPurged, sockMode, sockPid, sockEnded, ioApplied, ioDropped>>
  BY DEF RingCompletes, ringState, ioMaps, ioLife, socket, ioGhosts
<1>3. o \in ioFlight /\ ioFlight' = ioFlight \ {o} /\ ioDone' = ioDone \cup {o}
  BY DEF RingCompletes
<1>4. IoTypes'
  BY <1>1, <1>2, <1>3, OpFacts DEF IoTypes, OneCompletion
<1>5. AllSubmitted'
  BY <1>1, <1>2, <1>3, OpFacts DEF AllSubmitted, IoTypes
<1>6. OnePart'
  BY <1>1, <1>2, <1>3, OpFacts DEF OnePart, AllSubmitted, IoTypes, Recording, DrainHolds
<1>7. OneCompletion'
  BY <1>1, <1>2, <1>3, OpFacts DEF OneCompletion, OnePart, Recording, AllSubmitted, IoTypes
<1>8. ActiveApart'
  BY <1>1, <1>2, <1>3, OpFacts DEF ActiveApart, AllSubmitted, OnePart, Recording, IoTypes, Kinds
<1>9. StandsStill'
  BY <1>1, <1>2, <1>3, OpFacts DEF StandsStill, Turn
<1>10. WaitInv'
  BY <1>0, <1>1, <1>2, <1>3, OpFacts DEF WaitInv, Waits, IoShape
<1>11. DeadInv'
  BY <1>0, <1>1, <1>2, <1>3, OpFacts DEF DeadInv, NoResultForDead, IoTypes
<1>12. ASSUME NoDatagrams PROVE CallsInv'
  <2>1. CallsInv
    BY <1>0, <1>12
  <2>2. \A q \in OnWorkerZero : Outstanding(q)' \subseteq Outstanding(q)
    BY <1>1, <1>2, <1>3, OpFacts DEF Outstanding, IoTypes
  <2>3. \A q \in OnWorkerZero : OneCallAtATime(q)'
    BY <2>1, <2>2, <1>1, <1>2, <1>3, OpFacts DEF CallsInv, OneCallAtATime, IoTypes, StandsStill
  <2>4. AppliedInTime'
    BY <2>1, <1>1, <1>2, <1>3, OpFacts DEF CallsInv, AppliedInTime, ActiveApart
  <2>5. QED
    BY <2>3, <2>4 DEF CallsInv
<1>13. QED
  BY <1>4, <1>5, <1>6, <1>7, <1>8, <1>9, <1>10, <1>11, <1>12 DEF IoInv, IoShape

(* A completion that is an orphan. *)
LEMMA OrphanKeeps ==
  ASSUME IoInv, DrainOrphan
  PROVE  IoInv'
<1>0. IoShape /\ WaitInv /\ DeadInv /\ (NoDatagrams => CallsInv)
  BY DEF IoInv
<1>1. IoTypes /\ AllSubmitted /\ OnePart /\ OneCompletion /\ ActiveApart /\ StandsStill
  BY <1>0 DEF IoShape
<1>2. UNCHANGED <<ioNext, ioFor, ioFlight, ioDone, ioPending, ioCanceled, ioResults, ioCall,
                  ioTable, ioPurged, sockMode, sockPid, sockEnded, ioApplied, ioDropped>>
  BY DEF DrainOrphan, ringState, ioMaps, ioLife, socket, ioGhosts
<1>3. ioDrain.at = "orphan" /\ ioOrphans' = ioOrphans \cup {ioDrain.op}
  BY DEF DrainOrphan
<1>4. ioDrain'.at = "idle" /\ ioDrain'.op = NoOp /\ ioDrain' \in DrainRecords
  BY DEF DrainOrphan, Drained, DrainRecords, DrainSteps
<1>5. IoTypes'
  BY <1>1, <1>2, <1>3, <1>4, OpFacts DEF IoTypes, OneCompletion
<1>6. AllSubmitted'
  BY <1>1, <1>2, <1>3, <1>4, OpFacts DEF AllSubmitted, IoTypes
<1>7. OnePart'
  BY <1>1, <1>2, <1>3, <1>4, OpFacts DEF OnePart, AllSubmitted, IoTypes, Recording, DrainHolds
<1>8. OneCompletion'
  BY <1>1, <1>2, <1>3, <1>4, OpFacts DEF OneCompletion, OnePart, Recording, AllSubmitted, IoTypes
<1>9. ActiveApart'
  BY <1>1, <1>2, <1>3, <1>4, OpFacts DEF ActiveApart, AllSubmitted, OnePart, Recording, IoTypes,
     Kinds
<1>10. StandsStill'
  BY <1>1, <1>2, <1>3, <1>4, OpFacts DEF StandsStill, Turn
<1>11. WaitInv'
  BY <1>0, <1>1, <1>2, <1>3, <1>4, OpFacts DEF WaitInv, Waits, IoShape
<1>12. DeadInv'
  BY <1>0, <1>1, <1>2, <1>3, <1>4, OpFacts DEF DeadInv, NoResultForDead, IoTypes
<1>13. ASSUME NoDatagrams PROVE CallsInv'
  <2>1. CallsInv
    BY <1>0, <1>13
  <2>2. \A q \in OnWorkerZero : Outstanding(q)' \subseteq Outstanding(q)
    BY <1>1, <1>2, <1>3, <1>4, OpFacts DEF Outstanding, IoTypes
  <2>3. \A q \in OnWorkerZero : OneCallAtATime(q)'
    BY <2>1, <2>2, <1>1, <1>2, <1>3, <1>4, OpFacts DEF CallsInv, OneCallAtATime, IoTypes,
       StandsStill
  <2>4. AppliedInTime'
    BY <2>1, <1>1, <1>2, <1>3, <1>4, OpFacts DEF CallsInv, AppliedInTime, ActiveApart
  <2>5. QED
    BY <2>3, <2>4 DEF CallsInv
<1>14. QED
  BY <1>5, <1>6, <1>7, <1>8, <1>9, <1>10, <1>11, <1>12, <1>13 DEF IoInv, IoShape

(* A completion that was cancelled, or not. *)
LEMMA CanceledKeeps ==
  ASSUME IoInv, DrainCanceled
  PROVE  IoInv'
<1>0. IoShape /\ WaitInv /\ DeadInv /\ (NoDatagrams => CallsInv)
  BY DEF IoInv
<1>1. IoTypes /\ AllSubmitted /\ OnePart /\ OneCompletion /\ ActiveApart /\ StandsStill
  BY <1>0 DEF IoShape
<1>2. UNCHANGED <<ioNext, ioFor, ioFlight, ioDone, ioPending, ioOrphans, ioResults, ioCall,
                  ioTable, ioPurged, sockMode, sockPid, sockEnded, ioApplied, ioDropped>>
  BY DEF DrainCanceled, ringState, ioMaps, ioLife, socket, ioGhosts
<1>3. ioDrain.at = "miss"
  BY DEF DrainCanceled
<1>4. /\ ioDrain' \in DrainRecords
      /\ \/ ioDrain'.at = "idle" /\ ioDrain'.op = NoOp
         \/ ioDrain'.at = "orphan" /\ ioDrain'.op = ioDrain.op
  BY <1>1 DEF DrainCanceled, DrainTo, Drained, DrainRecords, DrainSteps, IoTypes
<1>5. IoTypes'
  BY <1>1, <1>2, <1>3, <1>4, OpFacts DEF IoTypes, OneCompletion
<1>6. AllSubmitted'
  BY <1>1, <1>2, <1>3, <1>4, OpFacts DEF AllSubmitted, IoTypes
<1>7. OnePart'
  BY <1>1, <1>2, <1>3, <1>4, OpFacts DEF OnePart, AllSubmitted, IoTypes, Recording, DrainHolds
<1>8. OneCompletion'
  BY <1>1, <1>2, <1>3, <1>4, OpFacts DEF OneCompletion, OnePart, Recording, AllSubmitted, IoTypes
<1>9. ActiveApart'
  BY <1>1, <1>2, <1>3, <1>4, OpFacts DEF ActiveApart, AllSubmitted, OnePart, Recording, IoTypes,
     Kinds
<1>10. StandsStill'
  BY <1>1, <1>2, <1>3, <1>4, OpFacts DEF StandsStill, Turn
<1>11. WaitInv'
  BY <1>0, <1>1, <1>2, <1>3, <1>4, OpFacts DEF WaitInv, Waits, IoShape
<1>12. DeadInv'
  BY <1>0, <1>1, <1>2, <1>3, <1>4, OpFacts DEF DeadInv, NoResultForDead, IoTypes
<1>13. ASSUME NoDatagrams PROVE CallsInv'
  <2>1. CallsInv
    BY <1>0, <1>13
  <2>2. \A q \in OnWorkerZero : Outstanding(q)' \subseteq Outstanding(q)
    BY <1>1, <1>2, <1>3, <1>4, OpFacts DEF Outstanding, IoTypes
  <2>3. \A q \in OnWorkerZero : OneCallAtATime(q)'
    BY <2>1, <2>2, <1>1, <1>2, <1>3, <1>4, OpFacts DEF CallsInv, OneCallAtATime, IoTypes,
       StandsStill
  <2>4. AppliedInTime'
    BY <2>1, <1>1, <1>2, <1>3, <1>4, OpFacts DEF CallsInv, AppliedInTime, ActiveApart
  <2>5. QED
    BY <2>3, <2>4 DEF CallsInv
<1>14. QED
  BY <1>5, <1>6, <1>7, <1>8, <1>9, <1>10, <1>11, <1>12, <1>13 DEF IoInv, IoShape

(* worker 0 polls a completion. *)
LEMMA PollKeeps ==
  ASSUME IoInv, NEW o \in Ops, DrainPoll(o)
  PROVE  IoInv'
<1>0. IoShape /\ WaitInv /\ DeadInv /\ (NoDatagrams => CallsInv)
  BY DEF IoInv
<1>1. IoTypes /\ AllSubmitted /\ OnePart /\ OneCompletion /\ ActiveApart /\ StandsStill
  BY <1>0 DEF IoShape
<1>2. UNCHANGED <<ioNext, ioFor, ioFlight, ioOrphans, ioCanceled, ioResults, ioCall, ioTable,
                  ioPurged, sockMode, sockPid, sockEnded, ioApplied, ioDropped>>
  BY DEF DrainPoll, ringState, ioMaps, ioLife, socket, ioGhosts
<1>3. ioDrain.at = "idle" /\ o \in ioDone /\ ioDone' = ioDone \ {o} /\ ioPending' = ioPending \ {o}
  BY DEF DrainPoll
<1>4. \A q \in OnWorkerZero : ioCall[q].at \in {"idle", "parked", "dead"}
  BY DEF DrainPoll, WorkerZeroFree
<1>5. /\ ioDrain' \in DrainRecords /\ ioDrain'.op = o
      /\ ioDrain'.at = IF o \notin ioPending THEN "miss" ELSE IF ioFor[o].kind = "active" THEN "data" ELSE "insert"
  BY <1>1 DEF DrainPoll, DrainRecords, DrainSteps, IoTypes
<1>6. IoTypes'
  BY <1>1, <1>2, <1>3, <1>4, <1>5, OpFacts DEF IoTypes, OneCompletion
<1>7. AllSubmitted'
  BY <1>1, <1>2, <1>3, <1>4, <1>5, OpFacts DEF AllSubmitted, IoTypes
<1>8. OnePart'
  BY <1>1, <1>2, <1>3, <1>4, <1>5, OpFacts DEF OnePart, AllSubmitted, IoTypes, Recording, DrainHolds
<1>9. OneCompletion'
  BY <1>1, <1>2, <1>3, <1>4, <1>5, OpFacts DEF OneCompletion, OnePart, Recording, AllSubmitted,
     IoTypes
<1>10. ActiveApart'
  BY <1>1, <1>2, <1>3, <1>4, <1>5, OpFacts DEF ActiveApart, AllSubmitted, OnePart, Recording,
     IoTypes, Kinds
<1>11. StandsStill'
  BY <1>1, <1>2, <1>3, <1>4, <1>5, OpFacts DEF StandsStill, Turn
<1>12. WaitInv'
  BY <1>0, <1>1, <1>2, <1>3, <1>4, <1>5, OpFacts DEF WaitInv, Waits, IoShape
<1>13. DeadInv'
  BY <1>0, <1>1, <1>2, <1>3, <1>4, <1>5, OpFacts DEF DeadInv, NoResultForDead, IoTypes
<1>14. ASSUME NoDatagrams PROVE CallsInv'
  <2>1. CallsInv
    BY <1>0, <1>14
  <2>2. \A q \in OnWorkerZero : Outstanding(q)' \subseteq Outstanding(q)
    BY <1>1, <1>2, <1>3, <1>4, <1>5, OpFacts DEF Outstanding, IoTypes
  <2>3. \A q \in OnWorkerZero : OneCallAtATime(q)'
    BY <2>1, <2>2, <1>1, <1>2, <1>3, <1>4, <1>5, OpFacts DEF CallsInv, OneCallAtATime, IoTypes,
       StandsStill
  <2>4. AppliedInTime'
    BY <2>1, <1>1, <1>2, <1>3, <1>4, <1>5, OpFacts DEF CallsInv, AppliedInTime, ActiveApart
  <2>5. QED
    BY <2>3, <2>4 DEF CallsInv
<1>15. QED
  BY <1>6, <1>7, <1>8, <1>9, <1>10, <1>11, <1>12, <1>13, <1>14 DEF IoInv, IoShape

(* deliver_file_io_result, the insert. *)
LEMMA InsertKeeps ==
  ASSUME IoInv, DrainInsert
  PROVE  IoInv'
<1>0. IoShape /\ WaitInv /\ DeadInv /\ (NoDatagrams => CallsInv)
  BY DEF IoInv
<1>1. IoTypes /\ AllSubmitted /\ OnePart /\ OneCompletion /\ ActiveApart /\ StandsStill
  BY <1>0 DEF IoShape
<1>2. UNCHANGED <<ioNext, ioFor, ioFlight, ioDone, ioPending, ioOrphans, ioCanceled, ioCall,
                  ioTable, ioPurged, sockMode, sockPid, sockEnded, ioApplied, ioDropped>>
  BY DEF DrainInsert, ringState, ioMaps, ioLife, socket, ioGhosts
<1>3. ioDrain.at = "insert" /\ ioDrain.op \in Ops /\ ioFor[ioDrain.op].pid \in IoProcs
  BY <1>1 DEF DrainInsert, OneCompletion, IoTypes, OpRecords
<1>4. /\ ioResults' \in [IoProcs -> Ops \cup {NoOp}] /\ ioResults'[ioFor[ioDrain.op].pid] = ioDrain.op
      /\ \A q \in IoProcs : q # ioFor[ioDrain.op].pid => ioResults'[q] = ioResults[q]
  BY <1>1, <1>2, <1>3 DEF DrainInsert, IoTypes
<1>5. ioDrain' \in DrainRecords /\ ioDrain'.at = "check" /\ ioDrain'.op = ioDrain.op
  BY <1>1 DEF DrainInsert, DrainTo, DrainRecords, DrainSteps, IoTypes
<1>6. IoTypes'
  BY <1>1, <1>2, <1>3, <1>4, <1>5, OpFacts DEF IoTypes, OneCompletion
<1>7. AllSubmitted'
  BY <1>1, <1>2, <1>3, <1>4, <1>5, OpFacts DEF AllSubmitted, IoTypes
<1>8. OnePart'
  BY <1>1, <1>2, <1>3, <1>4, <1>5, OpFacts DEF OnePart, AllSubmitted, IoTypes, Recording, DrainHolds
<1>9. OneCompletion'
  BY <1>1, <1>2, <1>3, <1>4, <1>5, OpFacts DEF OneCompletion, OnePart, Recording, AllSubmitted,
     IoTypes
<1>10. ActiveApart'
  BY <1>1, <1>2, <1>3, <1>4, <1>5, OpFacts DEF ActiveApart, AllSubmitted, OnePart, Recording,
     IoTypes, Kinds
<1>11. StandsStill'
  BY <1>1, <1>2, <1>3, <1>4, <1>5, OpFacts DEF StandsStill, Turn
<1>12. WaitInv'
  BY <1>0, <1>1, <1>2, <1>3, <1>4, <1>5, OpFacts DEF WaitInv, Waits, IoShape
<1>13. DeadInv'
  BY <1>0, <1>1, <1>2, <1>3, <1>4, <1>5, OpFacts DEF DeadInv, NoResultForDead, IoTypes
<1>14. ASSUME NoDatagrams PROVE CallsInv'
  <2>1. CallsInv
    BY <1>0, <1>14
  <2>2. \A q \in OnWorkerZero : Outstanding(q)' \subseteq Outstanding(q)
    BY <1>1, <1>2, <1>3, <1>4, <1>5, OpFacts DEF Outstanding, IoTypes
  <2>3. \A q \in OnWorkerZero : OneCallAtATime(q)'
    BY <2>1, <2>2, <1>1, <1>2, <1>3, <1>4, <1>5, OpFacts DEF CallsInv, OneCallAtATime, IoTypes,
       StandsStill
  <2>4. AppliedInTime'
    BY <2>1, <1>1, <1>2, <1>3, <1>4, <1>5, OpFacts DEF CallsInv, AppliedInTime, ActiveApart
  <2>5. QED
    BY <2>3, <2>4 DEF CallsInv
<1>15. QED
  BY <1>6, <1>7, <1>8, <1>9, <1>10, <1>11, <1>12, <1>13, <1>14 DEF IoInv, IoShape

(* deliver_file_io_result, the look at the table. *)
LEMMA CheckKeeps ==
  ASSUME IoInv, DrainCheck
  PROVE  IoInv'
<1>0. IoShape /\ WaitInv /\ DeadInv /\ (NoDatagrams => CallsInv)
  BY DEF IoInv
<1>1. IoTypes /\ AllSubmitted /\ OnePart /\ OneCompletion /\ ActiveApart /\ StandsStill
  BY <1>0 DEF IoShape
<1>2. UNCHANGED <<ioNext, ioFor, ioFlight, ioDone, ioPending, ioOrphans, ioCanceled, ioCall,
                  ioTable, ioPurged, sockMode, sockPid, sockEnded, ioApplied, ioDropped>>
  BY DEF DrainCheck, ringState, ioMaps, ioLife, socket, ioGhosts
<1>3. ioDrain.at = "check" /\ ioDrain.op \in Ops /\ ioFor[ioDrain.op].pid \in IoProcs
  BY <1>1 DEF DrainCheck, OneCompletion, IoTypes, OpRecords
<1>4. /\ ioResults' \in [IoProcs -> Ops \cup {NoOp}]
      /\ ioFor[ioDrain.op].pid \notin ioTable => ioResults'[ioFor[ioDrain.op].pid] = NoOp
      /\ ioFor[ioDrain.op].pid \in ioTable => ioResults' = ioResults
      /\ \A q \in IoProcs : q # ioFor[ioDrain.op].pid => ioResults'[q] = ioResults[q]
  BY <1>1, <1>2, <1>3 DEF DrainCheck, IoTypes
<1>5. ioDrain'.at = "idle" /\ ioDrain'.op = NoOp /\ ioDrain' \in DrainRecords
  BY DEF DrainCheck, Drained, DrainRecords, DrainSteps
<1>6. IoTypes'
  BY <1>1, <1>2, <1>3, <1>4, <1>5, OpFacts DEF IoTypes, OneCompletion
<1>7. AllSubmitted'
  BY <1>1, <1>2, <1>3, <1>4, <1>5, OpFacts DEF AllSubmitted, IoTypes
<1>8. OnePart'
  BY <1>1, <1>2, <1>3, <1>4, <1>5, OpFacts DEF OnePart, AllSubmitted, IoTypes, Recording, DrainHolds
<1>9. OneCompletion'
  BY <1>1, <1>2, <1>3, <1>4, <1>5, OpFacts DEF OneCompletion, OnePart, Recording, AllSubmitted,
     IoTypes
<1>10. ActiveApart'
  BY <1>1, <1>2, <1>3, <1>4, <1>5, OpFacts DEF ActiveApart, AllSubmitted, OnePart, Recording,
     IoTypes, Kinds
<1>11. StandsStill'
  BY <1>1, <1>2, <1>3, <1>4, <1>5, OpFacts DEF StandsStill, Turn
<1>12. WaitInv'
  BY <1>0, <1>1, <1>2, <1>3, <1>4, <1>5, OpFacts DEF WaitInv, Waits, IoShape
<1>13. DeadInv'
  BY <1>0, <1>1, <1>2, <1>3, <1>4, <1>5, OpFacts DEF DeadInv, NoResultForDead, IoTypes
<1>14. ASSUME NoDatagrams PROVE CallsInv'
  <2>1. CallsInv
    BY <1>0, <1>14
  <2>2. \A q \in OnWorkerZero : Outstanding(q)' \subseteq Outstanding(q)
    BY <1>1, <1>2, <1>3, <1>4, <1>5, OpFacts DEF Outstanding, IoTypes
  <2>3. \A q \in OnWorkerZero : OneCallAtATime(q)'
    BY <2>1, <2>2, <1>1, <1>2, <1>3, <1>4, <1>5, OpFacts DEF CallsInv, OneCallAtATime, IoTypes,
       StandsStill
  <2>4. AppliedInTime'
    BY <2>1, <1>1, <1>2, <1>3, <1>4, <1>5, OpFacts DEF CallsInv, AppliedInTime, ActiveApart
  <2>5. QED
    BY <2>3, <2>4 DEF CallsInv
<1>15. QED
  BY <1>6, <1>7, <1>8, <1>9, <1>10, <1>11, <1>12, <1>13, <1>14 DEF IoInv, IoShape

(* handle_tcp_active_completion, the data. *)
LEMMA DataKeeps ==
  ASSUME IoInv, NEW ended \in BOOLEAN, DrainData(ended)
  PROVE  IoInv'
<1>0. IoShape /\ WaitInv /\ DeadInv /\ (NoDatagrams => CallsInv)
  BY DEF IoInv
<1>1. IoTypes /\ AllSubmitted /\ OnePart /\ OneCompletion /\ ActiveApart /\ StandsStill
  BY <1>0 DEF IoShape
<1>2. UNCHANGED <<ioNext, ioFor, ioFlight, ioDone, ioPending, ioOrphans, ioCanceled, ioResults,
                  ioCall, ioTable, ioPurged, sockMode, sockPid, ioApplied, ioDropped>>
  BY DEF DrainData, ringState, ioMaps, ioLife, socket, ioGhosts
<1>3. ioDrain.at = "data"
  BY DEF DrainData
<1>4. LET r == [ioDrain EXCEPT !.at = "rearm", !.mode = sockMode]
      IN  r \in DrainRecords /\ r.at = "rearm" /\ r.op = ioDrain.op
  BY <1>1 DEF IoTypes, DrainRecords, DrainSteps
<1>5. Drained \in DrainRecords /\ Drained.at = "idle" /\ Drained.op = NoOp
  BY DEF Drained, DrainRecords, DrainSteps
<1>6. /\ ioDrain' \in DrainRecords
      /\ \/ ioDrain'.at = "idle" /\ ioDrain'.op = NoOp
         \/ ioDrain'.at = "rearm" /\ ioDrain'.op = ioDrain.op
  BY <1>4, <1>5 DEF DrainData
<1>7. IoTypes'
  BY <1>1, <1>2, <1>3, <1>4, <1>5, <1>6, OpFacts DEF IoTypes, OneCompletion
<1>8. AllSubmitted'
  BY <1>1, <1>2, <1>3, <1>4, <1>5, <1>6, OpFacts DEF AllSubmitted, IoTypes
<1>9. OnePart'
  BY <1>1, <1>2, <1>3, <1>4, <1>5, <1>6, OpFacts DEF OnePart, AllSubmitted, IoTypes, Recording,
     DrainHolds
<1>10. OneCompletion'
  BY <1>1, <1>2, <1>3, <1>4, <1>5, <1>6, OpFacts DEF OneCompletion, OnePart, Recording,
     AllSubmitted, IoTypes
<1>11. ActiveApart'
  BY <1>1, <1>2, <1>3, <1>4, <1>5, <1>6, OpFacts DEF ActiveApart, AllSubmitted, OnePart, Recording,
     IoTypes, Kinds
<1>12. StandsStill'
  BY <1>1, <1>2, <1>3, <1>4, <1>5, <1>6, OpFacts DEF StandsStill, Turn
<1>13. WaitInv'
  BY <1>0, <1>1, <1>2, <1>3, <1>4, <1>5, <1>6, OpFacts DEF WaitInv, Waits, IoShape
<1>14. DeadInv'
  BY <1>0, <1>1, <1>2, <1>3, <1>4, <1>5, <1>6, OpFacts DEF DeadInv, NoResultForDead, IoTypes
<1>15. ASSUME NoDatagrams PROVE CallsInv'
  <2>1. CallsInv
    BY <1>0, <1>15
  <2>2. \A q \in OnWorkerZero : Outstanding(q)' \subseteq Outstanding(q)
    BY <1>1, <1>2, <1>3, <1>4, <1>5, <1>6, OpFacts DEF Outstanding, IoTypes
  <2>3. \A q \in OnWorkerZero : OneCallAtATime(q)'
    BY <2>1, <2>2, <1>1, <1>2, <1>3, <1>4, <1>5, <1>6, OpFacts DEF CallsInv, OneCallAtATime,
       IoTypes, StandsStill
  <2>4. AppliedInTime'
    BY <2>1, <1>1, <1>2, <1>3, <1>4, <1>5, <1>6, OpFacts DEF CallsInv, AppliedInTime, ActiveApart
  <2>5. QED
    BY <2>3, <2>4 DEF CallsInv
<1>16. QED
  BY <1>7, <1>8, <1>9, <1>10, <1>11, <1>12, <1>13, <1>14, <1>15 DEF IoInv, IoShape

(* A native function is entered. *)
LEMMA BeginKeeps ==
  ASSUME IoInv, NEW p \in IoProcs, NEW k \in Kinds, BeginCall(p, k)
  PROVE  IoInv'
<1> USE DEF CallSet
<1>0. IoShape /\ WaitInv /\ DeadInv /\ (NoDatagrams => CallsInv)
  BY DEF IoInv
<1>1. IoTypes /\ AllSubmitted /\ OnePart /\ OneCompletion /\ ActiveApart /\ StandsStill
  BY <1>0 DEF IoShape
<1>2. UNCHANGED <<ioNext, ioFor, ioFlight, ioDone, ioPending, ioOrphans, ioCanceled, ioResults,
                  ioDrain, ioTable, ioPurged, sockMode, sockPid, sockEnded, ioApplied, ioDropped>>
  BY DEF BeginCall, ringState, ioMaps, ioLife, socket, ioGhosts
<1>3. ioCall[p].at = "idle" /\ Turn(p) /\ k \in CallKinds[p] /\ k \in Kinds
  BY DEF BeginCall
<1>4. CallSet(p, "enter", ioCall[p].call + 1, k, ioCall[p].op, ioCall[p].cut, ioCall[p].expired)
  BY <1>1, CallSetAnew DEF BeginCall
<1>5. IoTypes'
  BY <1>1, <1>2, <1>3, <1>4, OpFacts DEF IoTypes, OneCompletion
<1>6. AllSubmitted'
  BY <1>1, <1>2, <1>3, <1>4, OpFacts DEF AllSubmitted, IoTypes
<1>7. OnePart'
  BY <1>1, <1>2, <1>3, <1>4, OpFacts DEF OnePart, AllSubmitted, IoTypes, Recording, DrainHolds
<1>8. OneCompletion'
  BY <1>1, <1>2, <1>3, <1>4, OpFacts DEF OneCompletion, OnePart, Recording, AllSubmitted, IoTypes
<1>9. ActiveApart'
  BY <1>1, <1>2, <1>3, <1>4, OpFacts DEF ActiveApart, AllSubmitted, OnePart, Recording, IoTypes,
     Kinds
<1>10. StandsStill'
  BY <1>1, <1>2, <1>3, <1>4, OpFacts DEF StandsStill, Turn
<1>11. WaitInv'
  BY <1>0, <1>1, <1>2, <1>3, <1>4, OpFacts DEF WaitInv, Waits, IoShape
<1>12. DeadInv'
  BY <1>0, <1>1, <1>2, <1>3, <1>4, OpFacts DEF DeadInv, NoResultForDead, IoTypes
<1>13. ASSUME NoDatagrams PROVE CallsInv'
  <2>1. CallsInv
    BY <1>0, <1>13
  <2>2. \A q \in OnWorkerZero : Outstanding(q)' \subseteq Outstanding(q)
    BY <1>1, <1>2, <1>3, <1>4, OpFacts DEF Outstanding, IoTypes
  <2>3. \A q \in OnWorkerZero : OneCallAtATime(q)'
    BY <2>1, <2>2, <1>13, <1>1, <1>2, <1>3, <1>4, OpFacts DEF CallsInv, OneCallAtATime,
       NoDatagrams, IoTypes, StandsStill
  <2>4. AppliedInTime'
    BY <2>1, <1>1, <1>2, <1>3, <1>4, OpFacts DEF CallsInv, AppliedInTime, ActiveApart
  <2>5. QED
    BY <2>3, <2>4 DEF CallsInv
<1>14. QED
  BY <1>5, <1>6, <1>7, <1>8, <1>9, <1>10, <1>11, <1>12, <1>13 DEF IoInv, IoShape

(* The operation is pending. *)
LEMMA PendingKeeps ==
  ASSUME IoInv, NEW p \in IoProcs, TrackPending(p)
  PROVE  IoInv'
<1> USE DEF CallSet
<1>0. IoShape /\ WaitInv /\ DeadInv /\ (NoDatagrams => CallsInv)
  BY DEF IoInv
<1>1. IoTypes /\ AllSubmitted /\ OnePart /\ OneCompletion /\ ActiveApart /\ StandsStill
  BY <1>0 DEF IoShape
<1>2. UNCHANGED <<ioNext, ioFor, ioFlight, ioDone, ioOrphans, ioCanceled, ioResults, ioDrain,
                  ioTable, ioPurged, sockMode, sockPid, sockEnded, ioApplied, ioDropped>>
  BY DEF TrackPending, ringState, ioMaps, ioLife, socket, ioGhosts
<1>3. ioCall[p].at = "pend" /\ Turn(p) /\ ioPending' = ioPending \cup {ioCall[p].op}
  BY DEF TrackPending
<1>4. CallSet(p, "tracked", ioCall[p].call, ioCall[p].kind, ioCall[p].op, ioCall[p].cut,
              ioCall[p].expired)
  BY <1>1, StepSet DEF TrackPending, CallSteps
<1>5. ioCall[p].op \in Ops
  BY <1>1, <1>3 DEF OnePart, Recording
<1>6. IoTypes'
  BY <1>1, <1>2, <1>3, <1>4, <1>5, OpFacts DEF IoTypes, OneCompletion
<1>7. AllSubmitted'
  BY <1>1, <1>2, <1>3, <1>4, <1>5, OpFacts DEF AllSubmitted, IoTypes
<1>8. OnePart'
  BY <1>1, <1>2, <1>3, <1>4, <1>5, OpFacts DEF OnePart, AllSubmitted, IoTypes, Recording, DrainHolds
<1>9. OneCompletion'
  BY <1>1, <1>2, <1>3, <1>4, <1>5, OpFacts DEF OneCompletion, OnePart, Recording, AllSubmitted,
     IoTypes
<1>10. ActiveApart'
  BY <1>1, <1>2, <1>3, <1>4, <1>5, OpFacts DEF ActiveApart, AllSubmitted, OnePart, Recording,
     IoTypes, Kinds
<1>11. StandsStill'
  BY <1>1, <1>2, <1>3, <1>4, <1>5, OpFacts DEF StandsStill, Turn
<1>12. WaitInv'
  BY <1>0, <1>1, <1>2, <1>3, <1>4, <1>5, OpFacts DEF WaitInv, Waits, IoShape, ActiveApart
<1>13. DeadInv'
  BY <1>0, <1>1, <1>2, <1>3, <1>4, <1>5, OpFacts DEF DeadInv, NoResultForDead, IoTypes
<1>14. ASSUME NoDatagrams PROVE CallsInv'
  <2>1. CallsInv
    BY <1>0, <1>14
  <2>2. \A q \in OnWorkerZero : q # p => Outstanding(q)' \subseteq Outstanding(q)
    BY <1>1, <1>2, <1>3, <1>4, <1>5, OpFacts DEF Outstanding, IoTypes, ActiveApart
  <2>3. p \in OnWorkerZero => Outstanding(p)' \subseteq Outstanding(p) \cup {ioCall[p].op}
    BY <1>1, <1>2, <1>3, <1>4, <1>5, OpFacts DEF Outstanding, IoTypes
  <2>4. \A q \in OnWorkerZero : OneCallAtATime(q)'
    BY <2>1, <2>2, <2>3, <1>1, <1>2, <1>3, <1>4, <1>5, OpFacts DEF CallsInv, OneCallAtATime,
       IoTypes, StandsStill, ActiveApart
  <2>5. AppliedInTime'
    BY <2>1, <1>1, <1>2, <1>3, <1>4, <1>5, OpFacts DEF CallsInv, AppliedInTime, ActiveApart
  <2>6. QED
    BY <2>4, <2>5 DEF CallsInv
<1>15. QED
  BY <1>6, <1>7, <1>8, <1>9, <1>10, <1>11, <1>12, <1>13, <1>14 DEF IoInv, IoShape

(* The timeout of a timed await. *)
LEMMA ExpiryKeeps ==
  ASSUME IoInv, NEW p \in IoProcs, TimerExpires(p)
  PROVE  IoInv'
<1> USE DEF CallSet
<1>0. IoShape /\ WaitInv /\ DeadInv /\ (NoDatagrams => CallsInv)
  BY DEF IoInv
<1>1. IoTypes /\ AllSubmitted /\ OnePart /\ OneCompletion /\ ActiveApart /\ StandsStill
  BY <1>0 DEF IoShape
<1>2. UNCHANGED <<ioNext, ioFor, ioFlight, ioDone, ioPending, ioOrphans, ioCanceled, ioResults,
                  ioDrain, ioTable, ioPurged, sockMode, sockPid, sockEnded, ioApplied, ioDropped>>
  BY DEF TimerExpires, ringState, ioMaps, ioLife, socket, ioGhosts
<1>3. ioCall[p].at = "parked" /\ p \in ioTable
  BY DEF TimerExpires
<1>4. ioCall' = [ioCall EXCEPT ![p].at = ioCall[p].at, ![p].expired = TRUE]
  BY <1>1 DEF TimerExpires, IoTypes, CallRecords
<1>5. CallSet(p, ioCall[p].at, ioCall[p].call, ioCall[p].kind, ioCall[p].op, ioCall[p].cut, TRUE)
  BY <1>1, <1>4, ExpirySet DEF IoTypes, CallRecords
<1>6. IoTypes'
  BY <1>1, <1>2, <1>3, <1>4, <1>5, OpFacts DEF IoTypes, OneCompletion
<1>7. AllSubmitted'
  BY <1>1, <1>2, <1>3, <1>4, <1>5, OpFacts DEF AllSubmitted, IoTypes
<1>8. OnePart'
  BY <1>1, <1>2, <1>3, <1>4, <1>5, OpFacts DEF OnePart, AllSubmitted, IoTypes, Recording, DrainHolds
<1>9. OneCompletion'
  BY <1>1, <1>2, <1>3, <1>4, <1>5, OpFacts DEF OneCompletion, OnePart, Recording, AllSubmitted,
     IoTypes
<1>10. ActiveApart'
  BY <1>1, <1>2, <1>3, <1>4, <1>5, OpFacts DEF ActiveApart, AllSubmitted, OnePart, Recording,
     IoTypes, Kinds
<1>11. StandsStill'
  BY <1>1, <1>2, <1>3, <1>4, <1>5, OpFacts DEF StandsStill, Turn
<1>12. WaitInv'
  BY <1>0, <1>1, <1>2, <1>3, <1>4, <1>5, OpFacts DEF WaitInv, Waits, IoShape
<1>13. DeadInv'
  BY <1>0, <1>1, <1>2, <1>3, <1>4, <1>5, OpFacts DEF DeadInv, NoResultForDead, IoTypes
<1>14. ASSUME NoDatagrams PROVE CallsInv'
  <2>1. CallsInv
    BY <1>0, <1>14
  <2>2. \A q \in OnWorkerZero : Outstanding(q)' \subseteq Outstanding(q)
    BY <1>1, <1>2, <1>3, <1>4, <1>5, OpFacts DEF Outstanding, IoTypes
  <2>3. \A q \in OnWorkerZero : OneCallAtATime(q)'
    BY <2>1, <2>2, <1>1, <1>2, <1>3, <1>4, <1>5, OpFacts DEF CallsInv, OneCallAtATime, IoTypes,
       StandsStill
  <2>4. AppliedInTime'
    BY <2>1, <1>1, <1>2, <1>3, <1>4, <1>5, OpFacts DEF CallsInv, AppliedInTime, ActiveApart
  <2>5. QED
    BY <2>3, <2>4 DEF CallsInv
<1>15. QED
  BY <1>6, <1>7, <1>8, <1>9, <1>10, <1>11, <1>12, <1>13, <1>14 DEF IoInv, IoShape

(* A parked process is resumed. *)
LEMMA ResumeKeeps ==
  ASSUME IoInv, NEW p \in IoProcs, Resume(p)
  PROVE  IoInv'
<1> USE DEF CallSet
<1>0. IoShape /\ WaitInv /\ DeadInv /\ (NoDatagrams => CallsInv)
  BY DEF IoInv
<1>1. IoTypes /\ AllSubmitted /\ OnePart /\ OneCompletion /\ ActiveApart /\ StandsStill
  BY <1>0 DEF IoShape
<1>2. UNCHANGED <<ioNext, ioFor, ioFlight, ioDone, ioPending, ioOrphans, ioCanceled, ioResults,
                  ioDrain, ioTable, ioPurged, sockMode, sockPid, sockEnded, ioApplied, ioDropped>>
  BY DEF Resume, ringState, ioMaps, ioLife, socket, ioGhosts
<1>3. ioCall[p].at = "parked" /\ p \in ioTable /\ Turn(p) /\ (ioResults[p] # NoOp \/ ioCall[p].expired)
  BY DEF Resume
<1>4. CallSet(p, "enter", ioCall[p].call, ioCall[p].kind, ioCall[p].op, ioCall[p].cut,
              (ioCall[p].expired /\ ioResults[p] = NoOp))
  BY <1>1, ExpirySet DEF Resume, CallSteps
<1>5. ioResults[p] = NoOp => ioCall'[p].expired
  BY <1>3, <1>4
<1>6. IoTypes'
  BY <1>1, <1>2, <1>3, <1>4, <1>5, OpFacts DEF IoTypes, OneCompletion
<1>7. AllSubmitted'
  BY <1>1, <1>2, <1>3, <1>4, <1>5, OpFacts DEF AllSubmitted, IoTypes
<1>8. OnePart'
  BY <1>1, <1>2, <1>3, <1>4, <1>5, OpFacts DEF OnePart, AllSubmitted, IoTypes, Recording, DrainHolds
<1>9. OneCompletion'
  BY <1>1, <1>2, <1>3, <1>4, <1>5, OpFacts DEF OneCompletion, OnePart, Recording, AllSubmitted,
     IoTypes
<1>10. ActiveApart'
  BY <1>1, <1>2, <1>3, <1>4, <1>5, OpFacts DEF ActiveApart, AllSubmitted, OnePart, Recording,
     IoTypes, Kinds
<1>11. StandsStill'
  BY <1>1, <1>2, <1>3, <1>4, <1>5, OpFacts DEF StandsStill, Turn
<1>12. WaitInv'
  BY <1>0, <1>1, <1>2, <1>3, <1>4, <1>5, OpFacts DEF WaitInv, Waits, IoShape
<1>13. DeadInv'
  BY <1>0, <1>1, <1>2, <1>3, <1>4, <1>5, OpFacts DEF DeadInv, NoResultForDead, IoTypes
<1>14. ASSUME NoDatagrams PROVE CallsInv'
  <2>1. CallsInv
    BY <1>0, <1>14
  <2>2. \A q \in OnWorkerZero : Outstanding(q)' \subseteq Outstanding(q)
    BY <1>1, <1>2, <1>3, <1>4, <1>5, OpFacts DEF Outstanding, IoTypes
  <2>3. \A q \in OnWorkerZero : OneCallAtATime(q)'
    BY <2>1, <2>2, <1>1, <1>2, <1>3, <1>4, <1>5, OpFacts DEF CallsInv, OneCallAtATime, IoTypes,
       StandsStill
  <2>4. AppliedInTime'
    BY <2>1, <1>1, <1>2, <1>3, <1>4, <1>5, OpFacts DEF CallsInv, AppliedInTime, ActiveApart
  <2>5. QED
    BY <2>3, <2>4 DEF CallsInv
<1>15. QED
  BY <1>6, <1>7, <1>8, <1>9, <1>10, <1>11, <1>12, <1>13, <1>14 DEF IoInv, IoShape

(* The pending operations are collected. *)
LEMMA CollectKeeps ==
  ASSUME IoInv, NEW p \in IoProcs, CancelCollect(p)
  PROVE  IoInv'
<1> USE DEF CallSet
<1>0. IoShape /\ WaitInv /\ DeadInv /\ (NoDatagrams => CallsInv)
  BY DEF IoInv
<1>1. IoTypes /\ AllSubmitted /\ OnePart /\ OneCompletion /\ ActiveApart /\ StandsStill
  BY <1>0 DEF IoShape
<1>2. UNCHANGED <<ioNext, ioFor, ioFlight, ioDone, ioPending, ioOrphans, ioCanceled, ioResults,
                  ioDrain, ioTable, ioPurged, sockMode, sockPid, sockEnded, ioApplied, ioDropped>>
  BY DEF CancelCollect, ringState, ioMaps, ioLife, socket, ioGhosts
<1>3. ioCall[p].at = "enter" /\ Turn(p) /\ ioResults[p] = NoOp
  BY DEF CancelCollect
<1>4. PendingOf(p) \in SUBSET Ops
  BY <1>1 DEF PendingOf, IoTypes
<1>5. CallSet(p, "cancel", ioCall[p].call, ioCall[p].kind, ioCall[p].op, PendingOf(p),
              ioCall[p].expired)
  BY <1>1, <1>4, CutSet DEF CancelCollect, CallSteps
<1>6. PendingOf(p) = {o \in ioPending : ioFor[o].pid = p}
  BY DEF PendingOf
<1>7. IoTypes'
  BY <1>1, <1>2, <1>3, <1>4, <1>5, <1>6, OpFacts DEF IoTypes, OneCompletion
<1>8. AllSubmitted'
  BY <1>1, <1>2, <1>3, <1>4, <1>5, <1>6, OpFacts DEF AllSubmitted, IoTypes
<1>9. OnePart'
  BY <1>1, <1>2, <1>3, <1>4, <1>5, <1>6, OpFacts DEF OnePart, AllSubmitted, IoTypes, Recording,
     DrainHolds
<1>10. OneCompletion'
  BY <1>1, <1>2, <1>3, <1>4, <1>5, <1>6, OpFacts DEF OneCompletion, OnePart, Recording,
     AllSubmitted, IoTypes
<1>11. ActiveApart'
  BY <1>1, <1>2, <1>3, <1>4, <1>5, <1>6, OpFacts DEF ActiveApart, AllSubmitted, OnePart, Recording,
     IoTypes, Kinds
<1>12. StandsStill'
  BY <1>1, <1>2, <1>3, <1>4, <1>5, <1>6, OpFacts DEF StandsStill, Turn
<1>13. WaitInv'
  BY <1>0, <1>1, <1>2, <1>3, <1>4, <1>5, <1>6, OpFacts DEF WaitInv, Waits, IoShape
<1>14. DeadInv'
  BY <1>0, <1>1, <1>2, <1>3, <1>4, <1>5, <1>6, OpFacts DEF DeadInv, NoResultForDead, IoTypes
<1>15. ASSUME NoDatagrams PROVE CallsInv'
  <2>1. CallsInv
    BY <1>0, <1>15
  <2>2. \A q \in OnWorkerZero : Outstanding(q)' \subseteq Outstanding(q)
    BY <1>1, <1>2, <1>3, <1>4, <1>5, <1>6, OpFacts DEF Outstanding, IoTypes
  <2>2a. p \in OnWorkerZero => Outstanding(p) \subseteq PendingOf(p)
    BY <1>1, <1>2, <1>3, <1>4, <1>5, <1>6, OpFacts DEF Outstanding, Turn
  <2>3. \A q \in OnWorkerZero : OneCallAtATime(q)'
    BY <2>1, <2>2, <2>2a, <1>1, <1>2, <1>3, <1>4, <1>5, <1>6, OpFacts DEF CallsInv, OneCallAtATime,
       IoTypes, StandsStill
  <2>4. AppliedInTime'
    BY <2>1, <1>1, <1>2, <1>3, <1>4, <1>5, <1>6, OpFacts DEF CallsInv, AppliedInTime, ActiveApart
  <2>5. QED
    BY <2>3, <2>4 DEF CallsInv
<1>16. QED
  BY <1>7, <1>8, <1>9, <1>10, <1>11, <1>12, <1>13, <1>14, <1>15 DEF IoInv, IoShape

(* A cancelled operation is marked. *)
LEMMA MarkKeeps ==
  ASSUME IoInv, NEW p \in IoProcs, CancelMark(p)
  PROVE  IoInv'
<1> USE DEF CallSet
<1>0. IoShape /\ WaitInv /\ DeadInv /\ (NoDatagrams => CallsInv)
  BY DEF IoInv
<1>1. IoTypes /\ AllSubmitted /\ OnePart /\ OneCompletion /\ ActiveApart /\ StandsStill
  BY <1>0 DEF IoShape
<1>2. UNCHANGED <<ioNext, ioFor, ioFlight, ioDone, ioPending, ioOrphans, ioResults, ioDrain,
                  ioTable, ioPurged, sockMode, sockPid, sockEnded, ioApplied, ioDropped>>
  BY DEF CancelMark, ringState, ioMaps, ioLife, socket, ioGhosts
<1>3. ioCall[p].at = "mark" /\ Turn(p)
  BY DEF CancelMark
<1>4. ioCall[p].cut \ {ioCall[p].op} \in SUBSET Ops
  BY <1>1 DEF IoTypes, CallRecords
<1>5. \A s \in SUBSET Ops : ioCall' = [ioCall EXCEPT ![p].at = "cancel", ![p].cut = s] =>
        CallSet(p, "cancel", ioCall[p].call, ioCall[p].kind, ioCall[p].op, s, ioCall[p].expired)
  BY <1>1, CutSet DEF CallSteps
<1>6. ioCall' = [ioCall EXCEPT ![p].at = "cancel", ![p].cut = ioCall[p].cut \ {ioCall[p].op}]
  BY DEF CancelMark
<1>7. CallSet(p, "cancel", ioCall[p].call, ioCall[p].kind, ioCall[p].op,
              (ioCall[p].cut \ {ioCall[p].op}), ioCall[p].expired)
  BY <1>4, <1>5, <1>6
<1>8. IoTypes'
  BY <1>1, <1>2, <1>3, <1>4, <1>7, OpFacts DEF IoTypes, OneCompletion
<1>9. AllSubmitted'
  BY <1>1, <1>2, <1>3, <1>4, <1>7, OpFacts DEF AllSubmitted, IoTypes
<1>10. OnePart'
  BY <1>1, <1>2, <1>3, <1>4, <1>7, OpFacts DEF OnePart, AllSubmitted, IoTypes, Recording, DrainHolds
<1>11. OneCompletion'
  BY <1>1, <1>2, <1>3, <1>4, <1>7, OpFacts DEF OneCompletion, OnePart, Recording, AllSubmitted,
     IoTypes
<1>12. ActiveApart'
  BY <1>1, <1>2, <1>3, <1>4, <1>7, OpFacts DEF ActiveApart, AllSubmitted, OnePart, Recording,
     IoTypes, Kinds
<1>13. StandsStill'
  BY <1>1, <1>2, <1>3, <1>4, <1>7, OpFacts DEF StandsStill, Turn
<1>14. WaitInv'
  BY <1>0, <1>1, <1>2, <1>3, <1>4, <1>7, OpFacts DEF WaitInv, Waits, IoShape
<1>15. DeadInv'
  BY <1>0, <1>1, <1>2, <1>3, <1>4, <1>7, OpFacts DEF DeadInv, NoResultForDead, IoTypes
<1>16. ASSUME NoDatagrams PROVE CallsInv'
  <2>1. CallsInv
    BY <1>0, <1>16
  <2>2. \A q \in OnWorkerZero : Outstanding(q)' \subseteq Outstanding(q)
    BY <1>1, <1>2, <1>3, <1>4, <1>7, OpFacts DEF Outstanding, IoTypes
  <2>3. \A q \in OnWorkerZero : OneCallAtATime(q)'
    BY <2>1, <2>2, <1>1, <1>2, <1>3, <1>4, <1>7, OpFacts DEF CallsInv, OneCallAtATime, IoTypes,
       StandsStill
  <2>4. AppliedInTime'
    BY <2>1, <1>1, <1>2, <1>3, <1>4, <1>7, OpFacts DEF CallsInv, AppliedInTime, ActiveApart
  <2>5. QED
    BY <2>3, <2>4 DEF CallsInv
<1>17. QED
  BY <1>8, <1>9, <1>10, <1>11, <1>12, <1>13, <1>14, <1>15, <1>16 DEF IoInv, IoShape

(* The timeout returns. *)
LEMMA ReturnKeeps ==
  ASSUME IoInv, NEW p \in IoProcs, CancelReturns(p)
  PROVE  IoInv'
<1> USE DEF CallSet
<1>0. IoShape /\ WaitInv /\ DeadInv /\ (NoDatagrams => CallsInv)
  BY DEF IoInv
<1>1. IoTypes /\ AllSubmitted /\ OnePart /\ OneCompletion /\ ActiveApart /\ StandsStill
  BY <1>0 DEF IoShape
<1>2. UNCHANGED <<ioNext, ioFor, ioFlight, ioDone, ioPending, ioOrphans, ioCanceled, ioDrain,
                  ioTable, ioPurged, sockMode, sockPid, sockEnded, ioApplied, ioDropped>>
  BY DEF CancelReturns, ringState, ioMaps, ioLife, socket, ioGhosts
<1>3. ioCall[p].at = "cancel" /\ Turn(p) /\ ioCall[p].cut = {}
  BY DEF CancelReturns
<1>4. /\ ioResults' \in [IoProcs -> Ops \cup {NoOp}] /\ ioResults'[p] = NoOp
      /\ \A q \in IoProcs : q # p => ioResults'[q] = ioResults[q]
  BY <1>1 DEF CancelReturns, IoTypes
<1>5. CallSet(p, "idle", ioCall[p].call, ioCall[p].kind, ioCall[p].op, ioCall[p].cut, FALSE)
  BY <1>1, ExpirySet DEF CancelReturns, CallSteps
<1>6. IoTypes'
  BY <1>1, <1>2, <1>3, <1>4, <1>5, OpFacts DEF IoTypes, OneCompletion
<1>7. AllSubmitted'
  BY <1>1, <1>2, <1>3, <1>4, <1>5, OpFacts DEF AllSubmitted, IoTypes
<1>8. OnePart'
  BY <1>1, <1>2, <1>3, <1>4, <1>5, OpFacts DEF OnePart, AllSubmitted, IoTypes, Recording, DrainHolds
<1>9. OneCompletion'
  BY <1>1, <1>2, <1>3, <1>4, <1>5, OpFacts DEF OneCompletion, OnePart, Recording, AllSubmitted,
     IoTypes
<1>10. ActiveApart'
  BY <1>1, <1>2, <1>3, <1>4, <1>5, OpFacts DEF ActiveApart, AllSubmitted, OnePart, Recording,
     IoTypes, Kinds
<1>11. StandsStill'
  BY <1>1, <1>2, <1>3, <1>4, <1>5, OpFacts DEF StandsStill, Turn
<1>12. WaitInv'
  BY <1>0, <1>1, <1>2, <1>3, <1>4, <1>5, OpFacts DEF WaitInv, Waits, IoShape
<1>13. DeadInv'
  BY <1>0, <1>1, <1>2, <1>3, <1>4, <1>5, OpFacts DEF DeadInv, NoResultForDead, IoTypes
<1>14. ASSUME NoDatagrams PROVE CallsInv'
  <2>1. CallsInv
    BY <1>0, <1>14
  <2>2. \A q \in OnWorkerZero : Outstanding(q)' \subseteq Outstanding(q)
    BY <1>1, <1>2, <1>3, <1>4, <1>5, OpFacts DEF Outstanding, IoTypes
  <2>3. \A q \in OnWorkerZero : OneCallAtATime(q)'
    BY <2>1, <2>2, <1>1, <1>2, <1>3, <1>4, <1>5, OpFacts DEF CallsInv, OneCallAtATime, IoTypes,
       StandsStill
  <2>4. AppliedInTime'
    BY <2>1, <1>1, <1>2, <1>3, <1>4, <1>5, OpFacts DEF CallsInv, AppliedInTime, ActiveApart
  <2>5. QED
    BY <2>3, <2>4 DEF CallsInv
<1>15. QED
  BY <1>6, <1>7, <1>8, <1>9, <1>10, <1>11, <1>12, <1>13, <1>14 DEF IoInv, IoShape

(* The table token of a process is taken. *)
LEMMA KillKeeps ==
  ASSUME IoInv, NEW p \in IoProcs, Kill(p)
  PROVE  IoInv'
<1> USE DEF CallSet
<1>0. IoShape /\ WaitInv /\ DeadInv /\ (NoDatagrams => CallsInv)
  BY DEF IoInv
<1>1. IoTypes /\ AllSubmitted /\ OnePart /\ OneCompletion /\ ActiveApart /\ StandsStill
  BY <1>0 DEF IoShape
<1>2. UNCHANGED <<ioNext, ioFor, ioFlight, ioDone, ioPending, ioOrphans, ioCanceled, ioResults,
                  ioDrain, ioCall, ioPurged, sockMode, sockPid, sockEnded, ioApplied, ioDropped>>
  BY DEF Kill, ringState, ioMaps, ioLife, socket, ioGhosts
<1>3. p \in ioTable /\ ioTable' = ioTable \ {p}
  BY DEF Kill
<1>4. IoTypes'
  BY <1>1, <1>2, <1>3, OpFacts DEF IoTypes, OneCompletion
<1>5. AllSubmitted'
  BY <1>1, <1>2, <1>3, OpFacts DEF AllSubmitted, IoTypes
<1>6. OnePart'
  BY <1>1, <1>2, <1>3, OpFacts DEF OnePart, AllSubmitted, IoTypes, Recording, DrainHolds
<1>7. OneCompletion'
  BY <1>1, <1>2, <1>3, OpFacts DEF OneCompletion, OnePart, Recording, AllSubmitted, IoTypes
<1>8. ActiveApart'
  BY <1>1, <1>2, <1>3, OpFacts DEF ActiveApart, AllSubmitted, OnePart, Recording, IoTypes, Kinds
<1>9. StandsStill'
  BY <1>1, <1>2, <1>3, OpFacts DEF StandsStill, Turn
<1>10. WaitInv'
  BY <1>0, <1>1, <1>2, <1>3, OpFacts DEF WaitInv, Waits, IoShape
<1>11. DeadInv'
  BY <1>0, <1>1, <1>2, <1>3, OpFacts DEF DeadInv, NoResultForDead, IoTypes
<1>12. ASSUME NoDatagrams PROVE CallsInv'
  <2>1. CallsInv
    BY <1>0, <1>12
  <2>2. \A q \in OnWorkerZero : Outstanding(q)' \subseteq Outstanding(q)
    BY <1>1, <1>2, <1>3, OpFacts DEF Outstanding, IoTypes
  <2>3. \A q \in OnWorkerZero : OneCallAtATime(q)'
    BY <2>1, <2>2, <1>1, <1>2, <1>3, OpFacts DEF CallsInv, OneCallAtATime, IoTypes, StandsStill
  <2>4. AppliedInTime'
    BY <2>1, <1>1, <1>2, <1>3, OpFacts DEF CallsInv, AppliedInTime, ActiveApart
  <2>5. QED
    BY <2>3, <2>4 DEF CallsInv
<1>13. QED
  BY <1>4, <1>5, <1>6, <1>7, <1>8, <1>9, <1>10, <1>11, <1>12 DEF IoInv, IoShape

(* purge_suspension_state. *)
LEMMA PurgeKeeps ==
  ASSUME IoInv, NEW p \in IoProcs, Purge(p)
  PROVE  IoInv'
<1> USE DEF CallSet
<1>0. IoShape /\ WaitInv /\ DeadInv /\ (NoDatagrams => CallsInv)
  BY DEF IoInv
<1>1. IoTypes /\ AllSubmitted /\ OnePart /\ OneCompletion /\ ActiveApart /\ StandsStill
  BY <1>0 DEF IoShape
<1>2. UNCHANGED <<ioNext, ioFor, ioFlight, ioDone, ioPending, ioOrphans, ioCanceled, ioDrain,
                  ioCall, ioTable, sockMode, sockPid, sockEnded, ioApplied, ioDropped>>
  BY DEF Purge, ringState, ioMaps, ioLife, socket, ioGhosts
<1>3. p \notin ioTable /\ ioPurged' = ioPurged \cup {p}
  BY DEF Purge
<1>4. /\ ioResults' \in [IoProcs -> Ops \cup {NoOp}] /\ ioResults'[p] = NoOp
      /\ \A q \in IoProcs : q # p => ioResults'[q] = ioResults[q]
  BY <1>1 DEF Purge, IoTypes
<1>5. IoTypes'
  BY <1>1, <1>2, <1>3, <1>4, OpFacts DEF IoTypes, OneCompletion
<1>6. AllSubmitted'
  BY <1>1, <1>2, <1>3, <1>4, OpFacts DEF AllSubmitted, IoTypes
<1>7. OnePart'
  BY <1>1, <1>2, <1>3, <1>4, OpFacts DEF OnePart, AllSubmitted, IoTypes, Recording, DrainHolds
<1>8. OneCompletion'
  BY <1>1, <1>2, <1>3, <1>4, OpFacts DEF OneCompletion, OnePart, Recording, AllSubmitted, IoTypes
<1>9. ActiveApart'
  BY <1>1, <1>2, <1>3, <1>4, OpFacts DEF ActiveApart, AllSubmitted, OnePart, Recording, IoTypes,
     Kinds
<1>10. StandsStill'
  BY <1>1, <1>2, <1>3, <1>4, OpFacts DEF StandsStill, Turn
<1>11. WaitInv'
  BY <1>0, <1>1, <1>2, <1>3, <1>4, OpFacts DEF WaitInv, Waits, IoShape
<1>12. DeadInv'
  BY <1>0, <1>1, <1>2, <1>3, <1>4, OpFacts DEF DeadInv, NoResultForDead, IoTypes
<1>13. ASSUME NoDatagrams PROVE CallsInv'
  <2>1. CallsInv
    BY <1>0, <1>13
  <2>2. \A q \in OnWorkerZero : Outstanding(q)' \subseteq Outstanding(q)
    BY <1>1, <1>2, <1>3, <1>4, OpFacts DEF Outstanding, IoTypes
  <2>2a. p \in OnWorkerZero /\ ioCall[p].at = "enter" /\ ioResults[p] # NoOp => Outstanding(p)' = {}
    <3> SUFFICES ASSUME p \in OnWorkerZero, ioCall[p].at = "enter", ioResults[p] # NoOp, NEW o \in Outstanding(p)'
                 PROVE  FALSE
      OBVIOUS
    <3>1. ioResults[p] \in Outstanding(p) /\ ioDrain.at = "idle"
      BY <1>1 DEF Outstanding, StandsStill
    <3>2. o \in Outstanding(p) /\ o \in ioPending
      BY <2>2, <3>1, <1>1, <1>2, <1>3, <1>4, OpFacts DEF Outstanding
    <3>3. o = ioResults[p]
      BY <2>1, <3>1, <3>2 DEF CallsInv, OneCallAtATime
    <3>4. QED
      BY <1>1, <3>2, <3>3 DEF OnePart
  <2>3. \A q \in OnWorkerZero : OneCallAtATime(q)'
    BY <2>1, <2>2, <2>2a, <1>1, <1>2, <1>3, <1>4, OpFacts DEF CallsInv, OneCallAtATime, IoTypes,
       StandsStill
  <2>4. AppliedInTime'
    BY <2>1, <1>1, <1>2, <1>3, <1>4, OpFacts DEF CallsInv, AppliedInTime, ActiveApart
  <2>5. QED
    BY <2>3, <2>4 DEF CallsInv
<1>14. QED
  BY <1>5, <1>6, <1>7, <1>8, <1>9, <1>10, <1>11, <1>12, <1>13 DEF IoInv, IoShape

(* The body of a dead process is dropped. *)
LEMMA EndKeeps ==
  ASSUME IoInv, NEW p \in IoProcs, EndOfDead(p)
  PROVE  IoInv'
<1> USE DEF CallSet
<1>0. IoShape /\ WaitInv /\ DeadInv /\ (NoDatagrams => CallsInv)
  BY DEF IoInv
<1>1. IoTypes /\ AllSubmitted /\ OnePart /\ OneCompletion /\ ActiveApart /\ StandsStill
  BY <1>0 DEF IoShape
<1>2. UNCHANGED <<ioNext, ioFor, ioFlight, ioDone, ioPending, ioOrphans, ioCanceled, ioResults,
                  ioDrain, ioTable, ioPurged, sockMode, sockPid, sockEnded, ioApplied, ioDropped>>
  BY DEF EndOfDead, ringState, ioMaps, ioLife, socket, ioGhosts
<1>3. p \notin ioTable /\ ioCall[p].at = "idle"
  BY DEF EndOfDead
<1>4. CallSet(p, "dead", ioCall[p].call, ioCall[p].kind, ioCall[p].op, ioCall[p].cut,
              ioCall[p].expired)
  BY <1>1, StepSet DEF EndOfDead, CallSteps
<1>5. IoTypes'
  BY <1>1, <1>2, <1>3, <1>4, OpFacts DEF IoTypes, OneCompletion
<1>6. AllSubmitted'
  BY <1>1, <1>2, <1>3, <1>4, OpFacts DEF AllSubmitted, IoTypes
<1>7. OnePart'
  BY <1>1, <1>2, <1>3, <1>4, OpFacts DEF OnePart, AllSubmitted, IoTypes, Recording, DrainHolds
<1>8. OneCompletion'
  BY <1>1, <1>2, <1>3, <1>4, OpFacts DEF OneCompletion, OnePart, Recording, AllSubmitted, IoTypes
<1>9. ActiveApart'
  BY <1>1, <1>2, <1>3, <1>4, OpFacts DEF ActiveApart, AllSubmitted, OnePart, Recording, IoTypes,
     Kinds
<1>10. StandsStill'
  BY <1>1, <1>2, <1>3, <1>4, OpFacts DEF StandsStill, Turn
<1>11. WaitInv'
  BY <1>0, <1>1, <1>2, <1>3, <1>4, OpFacts DEF WaitInv, Waits, IoShape
<1>12. DeadInv'
  BY <1>0, <1>1, <1>2, <1>3, <1>4, OpFacts DEF DeadInv, NoResultForDead, IoTypes
<1>13. ASSUME NoDatagrams PROVE CallsInv'
  <2>1. CallsInv
    BY <1>0, <1>13
  <2>2. \A q \in OnWorkerZero : Outstanding(q)' \subseteq Outstanding(q)
    BY <1>1, <1>2, <1>3, <1>4, OpFacts DEF Outstanding, IoTypes
  <2>3. \A q \in OnWorkerZero : OneCallAtATime(q)'
    BY <2>1, <2>2, <1>1, <1>2, <1>3, <1>4, OpFacts DEF CallsInv, OneCallAtATime, IoTypes,
       StandsStill
  <2>4. AppliedInTime'
    BY <2>1, <1>1, <1>2, <1>3, <1>4, OpFacts DEF CallsInv, AppliedInTime, ActiveApart
  <2>5. QED
    BY <2>3, <2>4 DEF CallsInv
<1>14. QED
  BY <1>5, <1>6, <1>7, <1>8, <1>9, <1>10, <1>11, <1>12, <1>13 DEF IoInv, IoShape

(* tcp_controlling_process. *)
LEMMA GiveKeeps ==
  ASSUME IoInv, NEW p \in IoProcs, NEW heir \in IoProcs, GiveSocket(p, heir)
  PROVE  IoInv'
<1> USE DEF CallSet
<1>0. IoShape /\ WaitInv /\ DeadInv /\ (NoDatagrams => CallsInv)
  BY DEF IoInv
<1>1. IoTypes /\ AllSubmitted /\ OnePart /\ OneCompletion /\ ActiveApart /\ StandsStill
  BY <1>0 DEF IoShape
<1>2. UNCHANGED <<ioNext, ioFor, ioFlight, ioDone, ioPending, ioOrphans, ioCanceled, ioResults,
                  ioDrain, ioCall, ioTable, ioPurged, sockMode, sockEnded, ioApplied, ioDropped>>
  BY DEF GiveSocket, ringState, ioMaps, ioLife, socket, ioGhosts
<1>3. sockPid' \in IoProcs
  BY DEF GiveSocket
<1>4. IoTypes'
  BY <1>1, <1>2, <1>3, OpFacts DEF IoTypes, OneCompletion
<1>5. AllSubmitted'
  BY <1>1, <1>2, <1>3, OpFacts DEF AllSubmitted, IoTypes
<1>6. OnePart'
  BY <1>1, <1>2, <1>3, OpFacts DEF OnePart, AllSubmitted, IoTypes, Recording, DrainHolds
<1>7. OneCompletion'
  BY <1>1, <1>2, <1>3, OpFacts DEF OneCompletion, OnePart, Recording, AllSubmitted, IoTypes
<1>8. ActiveApart'
  BY <1>1, <1>2, <1>3, OpFacts DEF ActiveApart, AllSubmitted, OnePart, Recording, IoTypes, Kinds
<1>9. StandsStill'
  BY <1>1, <1>2, <1>3, OpFacts DEF StandsStill, Turn
<1>10. WaitInv'
  BY <1>0, <1>1, <1>2, <1>3, OpFacts DEF WaitInv, Waits, IoShape
<1>11. DeadInv'
  BY <1>0, <1>1, <1>2, <1>3, OpFacts DEF DeadInv, NoResultForDead, IoTypes
<1>12. ASSUME NoDatagrams PROVE CallsInv'
  <2>1. CallsInv
    BY <1>0, <1>12
  <2>2. \A q \in OnWorkerZero : Outstanding(q)' \subseteq Outstanding(q)
    BY <1>1, <1>2, <1>3, OpFacts DEF Outstanding, IoTypes
  <2>3. \A q \in OnWorkerZero : OneCallAtATime(q)'
    BY <2>1, <2>2, <1>1, <1>2, <1>3, OpFacts DEF CallsInv, OneCallAtATime, IoTypes, StandsStill
  <2>4. AppliedInTime'
    BY <2>1, <1>1, <1>2, <1>3, OpFacts DEF CallsInv, AppliedInTime, ActiveApart
  <2>5. QED
    BY <2>3, <2>4 DEF CallsInv
<1>13. QED
  BY <1>4, <1>5, <1>6, <1>7, <1>8, <1>9, <1>10, <1>11, <1>12 DEF IoInv, IoShape

(* The new operation is none of those anybody speaks of, and these stay *)
(* what they were submitted for.                                        *)
OthersKept ==
  /\ ioNext < ioNext' /\ NoOp < ioNext'
  /\ \A o \in ioFlight \cup ioDone \cup ioPending \cup ioOrphans \cup ioDropped :
       o # ioNext /\ o < ioNext' /\ ioFor'[o] = ioFor[o]
  /\ \A q \in IoProcs :
       /\ ioResults[q] # ioNext /\ ioResults[q] < ioNext'
       /\ ioResults[q] # NoOp => ioFor'[ioResults[q]] = ioFor[ioResults[q]]
       /\ ioCall[q].op # ioNext /\ ioCall[q].op < ioNext'
       /\ ioCall[q].op # NoOp => ioFor'[ioCall[q].op] = ioFor[ioCall[q].op]
       /\ \A o \in ioCall[q].cut : o # ioNext /\ o < ioNext' /\ ioFor'[o] = ioFor[o]
  /\ ioDrain.op # ioNext /\ ioDrain.op < ioNext'
  /\ ioDrain.op # NoOp => ioFor'[ioDrain.op] = ioFor[ioDrain.op]
  /\ \A a \in ioApplied : a[1] \in Ops /\ a[1] < ioNext' /\ ioFor'[a[1]] = ioFor[a[1]]

(* A submission keeps them apart. *)
LEMMA SubmitApart ==
  ASSUME IoTypes, AllSubmitted, ActiveApart, NEW p \in IoProcs, NEW c \in Nat,
         NEW k \in Kinds \cup {"active", "none"}, Submit(p, c, k)
  PROVE  OthersKept
<1>1. /\ ioNext \in Ops /\ ioNext' = ioNext + 1
      /\ \A o \in Ops : o # ioNext => ioFor'[o] = ioFor[o]
  BY SubmitEffect
<1>2. \A x \in Nat : x < ioNext => x < ioNext' /\ x # ioNext
  BY <1>1, OpFacts
<1>3. \A o \in Ops : o < ioNext => o < ioNext' /\ o # ioNext /\ ioFor'[o] = ioFor[o]
  BY <1>1, <1>2, OpFacts
<1>4. ioNext < ioNext' /\ NoOp < ioNext'
  BY <1>1, <1>2, OpFacts
<1>5. \A o \in ioFlight \cup ioDone \cup ioPending \cup ioOrphans \cup ioDropped :
        o # ioNext /\ o < ioNext' /\ ioFor'[o] = ioFor[o]
  BY <1>3 DEF IoTypes, AllSubmitted
<1>6. \A q \in IoProcs :
        /\ ioResults[q] # ioNext /\ ioResults[q] < ioNext'
        /\ ioResults[q] # NoOp => ioFor'[ioResults[q]] = ioFor[ioResults[q]]
  BY <1>2, <1>3, OpFacts DEF IoTypes, AllSubmitted
<1>7. \A q \in IoProcs : ioCall[q].op \in Ops \cup {NoOp} /\ ioCall[q].cut \subseteq Ops
  BY DEF IoTypes, CallRecords
<1>8. \A q \in IoProcs :
        /\ ioCall[q].op # ioNext /\ ioCall[q].op < ioNext'
        /\ ioCall[q].op # NoOp => ioFor'[ioCall[q].op] = ioFor[ioCall[q].op]
        /\ \A o \in ioCall[q].cut : o # ioNext /\ o < ioNext' /\ ioFor'[o] = ioFor[o]
  BY <1>2, <1>3, <1>7, OpFacts DEF AllSubmitted
<1>9. ioDrain.op \in Ops \cup {NoOp}
  BY DEF IoTypes, DrainRecords
<1>10. /\ ioDrain.op # ioNext /\ ioDrain.op < ioNext'
       /\ ioDrain.op # NoOp => ioFor'[ioDrain.op] = ioFor[ioDrain.op]
  BY <1>2, <1>3, <1>9, OpFacts DEF AllSubmitted
<1>11. \A a \in ioApplied : a[1] \in Ops /\ a[1] < ioNext' /\ ioFor'[a[1]] = ioFor[a[1]]
  BY <1>3 DEF ActiveApart
<1>12. QED
  BY <1>4, <1>5, <1>6, <1>8, <1>10, <1>11 DEF OthersKept

(* A completion is taken and the call returns. *)
LEMMA TakeKeeps ==
  ASSUME IoInv, NEW p \in IoProcs, TakeResult(p),
         ioCall' = [ioCall EXCEPT ![p].at = "idle", ![p].expired = FALSE], UNCHANGED ringState
  PROVE  IoInv'
<1> USE DEF CallSet, OthersKept
<1>0. IoShape /\ WaitInv /\ DeadInv /\ (NoDatagrams => CallsInv)
  BY DEF IoInv
<1>1. IoTypes /\ AllSubmitted /\ OnePart /\ OneCompletion /\ ActiveApart /\ StandsStill
  BY <1>0 DEF IoShape
<1>2. UNCHANGED <<ioNext, ioFor, ioFlight, ioDone, ioPending, ioOrphans, ioCanceled, ioDrain,
                  ioTable, ioPurged, sockMode, sockPid, sockEnded, ioDropped>>
  BY DEF TakeResult, ringState, ioMaps, ioLife, socket, ioGhosts
<1>3. ioCall[p].at = "enter" /\ Turn(p) /\ ioResults[p] # NoOp
  BY DEF TakeResult
<1>4. /\ ioResults' \in [IoProcs -> Ops \cup {NoOp}] /\ ioResults'[p] = NoOp
      /\ \A q \in IoProcs : q # p => ioResults'[q] = ioResults[q]
  BY <1>1 DEF TakeResult, Consume, IoTypes
<1>5. \A a \in ioApplied' : \/ a \in ioApplied
                            \/ a[1] = ioResults[p] /\ a[2] = p /\ a[3] = ioCall[p].call
  BY DEF TakeResult, Consume
<1>6. ioResults[p] \in Ops
  BY <1>1, <1>3 DEF IoTypes
<1>7. CallSet(p, "idle", ioCall[p].call, ioCall[p].kind, ioCall[p].op, ioCall[p].cut, FALSE)
  BY <1>1, ExpirySet DEF CallSteps
<1>8. IoTypes'
  BY <1>1, <1>2, <1>3, <1>4, <1>5, <1>6, <1>7, OpFacts DEF IoTypes, OneCompletion
<1>9. AllSubmitted'
  BY <1>1, <1>2, <1>3, <1>4, <1>5, <1>6, <1>7, OpFacts DEF AllSubmitted, IoTypes
<1>10. OnePart'
  BY <1>1, <1>2, <1>3, <1>4, <1>5, <1>6, <1>7, OpFacts DEF OnePart, AllSubmitted, IoTypes,
     Recording, DrainHolds
<1>11. OneCompletion'
  BY <1>1, <1>2, <1>3, <1>4, <1>5, <1>6, <1>7, OpFacts DEF OneCompletion, OnePart, Recording,
     AllSubmitted, IoTypes
<1>12. ActiveApart'
  BY <1>1, <1>2, <1>3, <1>4, <1>5, <1>6, <1>7, OpFacts DEF ActiveApart, AllSubmitted, OnePart,
     Recording, IoTypes, Kinds, OneCompletion
<1>13. StandsStill'
  BY <1>1, <1>2, <1>3, <1>4, <1>5, <1>6, <1>7, OpFacts DEF StandsStill, Turn
<1>14. WaitInv'
  BY <1>0, <1>1, <1>2, <1>3, <1>4, <1>5, <1>6, <1>7, OpFacts DEF WaitInv, Waits, IoShape
<1>15. DeadInv'
  BY <1>0, <1>1, <1>2, <1>3, <1>4, <1>5, <1>6, <1>7, OpFacts DEF DeadInv, NoResultForDead, IoTypes,
     OneCompletion
<1>16. ASSUME NoDatagrams PROVE CallsInv'
  <2>1. CallsInv
    BY <1>0, <1>16
  <2>2. \A q \in OnWorkerZero : Outstanding(q)' \subseteq Outstanding(q)
    BY <1>1, <1>2, <1>3, <1>4, <1>5, <1>6, <1>7, OpFacts DEF Outstanding, IoTypes, OneCompletion
  <2>2a. \A q \in OnWorkerZero : \A o \in Outstanding(q) : ioFor'[o] = ioFor[o]
    BY <1>1, <1>2, <1>3, <1>4, <1>5, <1>6, <1>7, OpFacts DEF Outstanding, OneCompletion
  <2>3. p \in OnWorkerZero => /\ ioFor[ioResults[p]].pid = p /\ ioFor[ioResults[p]].call = ioCall[p].call
                              /\ Outstanding(p)' = {}
    <3> SUFFICES ASSUME p \in OnWorkerZero
                 PROVE  /\ ioFor[ioResults[p]].pid = p /\ ioFor[ioResults[p]].call = ioCall[p].call
                        /\ Outstanding(p)' = {}
      OBVIOUS
    <3>1. ioResults[p] \in Outstanding(p) /\ ioDrain.at = "idle"
      BY <1>1, <1>2, <1>3, <1>4, <1>5, <1>6, <1>7, OpFacts DEF Outstanding, Turn
    <3>2. \A o \in Outstanding(p) : o = ioCall[p].op /\ ioFor[o].pid = p /\ ioFor[o].call = ioCall[p].call
      BY <2>1, <1>1, <1>2, <1>3, <1>4, <1>5, <1>6, <1>7, OpFacts DEF CallsInv, OneCallAtATime
    <3>3. \A o \in Outstanding(p)' : o \in ioPending
      BY <3>1, <1>1, <1>2, <1>3, <1>4, <1>5, <1>6, <1>7, OpFacts DEF Outstanding
    <3>4. \A o \in Outstanding(p)' : FALSE
      BY <3>1, <3>2, <3>3, <2>2, <1>1 DEF OnePart
    <3>5. QED
      BY <3>1, <3>2, <3>4
  <2>4. \A q \in OnWorkerZero : OneCallAtATime(q)'
    BY <2>1, <2>2, <2>2a, <2>3, <1>1, <1>2, <1>3, <1>4, <1>5, <1>6, <1>7, OpFacts DEF CallsInv,
       OneCallAtATime, IoTypes
  <2>5. AppliedInTime'
    BY <2>1, <2>3, <1>1, <1>2, <1>3, <1>4, <1>5, <1>6, <1>7, OpFacts DEF CallsInv, AppliedInTime,
       ActiveApart, AllSubmitted, IoTypes
  <2>6. QED
    BY <2>4, <2>5 DEF CallsInv
<1>17. QED
  BY <1>8, <1>9, <1>10, <1>11, <1>12, <1>13, <1>14, <1>15, <1>16 DEF IoInv, IoShape

(* A completion is taken and the rest is submitted. *)
LEMMA TakeMoreKeeps ==
  ASSUME IoInv, NEW p \in IoProcs, TakeResult(p),
         Submit(p, ioCall[p].call, "tcp"),
         ioCall' = [ioCall EXCEPT ![p].at = "track", ![p].op = ioNext, ![p].expired = FALSE]
  PROVE  IoInv'
<1> USE DEF CallSet, OthersKept
<1>0. IoShape /\ WaitInv /\ DeadInv /\ (NoDatagrams => CallsInv)
  BY DEF IoInv
<1>1. IoTypes /\ AllSubmitted /\ OnePart /\ OneCompletion /\ ActiveApart /\ StandsStill
  BY <1>0 DEF IoShape
<1>2. UNCHANGED <<ioPending, ioOrphans, ioCanceled, ioDrain, ioTable, ioPurged, sockMode, sockPid,
                  sockEnded, ioDropped>>
  BY DEF TakeResult, ringState, ioMaps, ioLife, socket, ioGhosts
<1>3. ioCall[p].at = "enter" /\ Turn(p) /\ ioResults[p] # NoOp
  BY DEF TakeResult
<1>4. /\ ioResults' \in [IoProcs -> Ops \cup {NoOp}] /\ ioResults'[p] = NoOp
      /\ \A q \in IoProcs : q # p => ioResults'[q] = ioResults[q]
  BY <1>1 DEF TakeResult, Consume, IoTypes
<1>5. \A a \in ioApplied' : \/ a \in ioApplied
                            \/ a[1] = ioResults[p] /\ a[2] = p /\ a[3] = ioCall[p].call
  BY DEF TakeResult, Consume
<1>6. ioResults[p] \in Ops
  BY <1>1, <1>3 DEF IoTypes
<1>7. /\ ioNext \in Ops /\ ioNext' = ioNext + 1 /\ ioNext' \in Nat \ {0} /\ ioDone' = ioDone
      /\ ioFor' \in [Ops -> OpRecords] /\ ioFlight' = ioFlight \cup {ioNext}
      /\ ioFor'[ioNext].pid = p /\ ioFor'[ioNext].call = ioCall[p].call /\ ioFor'[ioNext].kind = "tcp"
      /\ \A o \in Ops : o # ioNext => ioFor'[o] = ioFor[o]
  BY <1>1, SubmitEffect DEF IoTypes, CallRecords, Kinds
<1>8. OthersKept
  BY <1>1, SubmitApart DEF IoTypes, CallRecords, Kinds
<1>9. /\ ioNext \in Ops /\ ioNext' \in Nat \ {0} /\ ioDone' = ioDone
      /\ ioFor' \in [Ops -> OpRecords] /\ ioFlight' = ioFlight \cup {ioNext}
      /\ ioFor'[ioNext].pid = p /\ ioFor'[ioNext].call = ioCall[p].call /\ ioFor'[ioNext].kind = "tcp"
  BY <1>7
<1>10. CallSet(p, "track", ioCall[p].call, ioCall[p].kind, ioNext, ioCall[p].cut, FALSE)
  <2> HIDE DEF CallSet, OthersKept
  <2>1. ioNext \in Ops \cup {NoOp} /\ "track" \in CallSteps /\ FALSE \in BOOLEAN
    BY <1>7 DEF CallSteps
  <2>2. ioCall' = [ioCall EXCEPT ![p].at = "track", ![p].op = ioNext, ![p].expired = FALSE]
    OBVIOUS
  <2>3. QED
    BY <1>1, <2>1, <2>2, SubmitSet
<1>11. IoTypes'
  BY <1>1, <1>2, <1>3, <1>4, <1>5, <1>6, <1>8, <1>9, <1>10, OpFacts DEF IoTypes, OneCompletion
<1>12. AllSubmitted'
  BY <1>1, <1>2, <1>3, <1>4, <1>5, <1>6, <1>8, <1>9, <1>10, OpFacts DEF AllSubmitted, IoTypes
<1>13. OnePart'
  BY <1>1, <1>2, <1>3, <1>4, <1>5, <1>6, <1>8, <1>9, <1>10, OpFacts DEF OnePart, AllSubmitted,
     IoTypes, Recording, DrainHolds
<1>14. OneCompletion'
  BY <1>1, <1>2, <1>3, <1>4, <1>5, <1>6, <1>8, <1>9, <1>10, OpFacts DEF OneCompletion, OnePart,
     Recording, AllSubmitted, IoTypes
<1>15. ActiveApart'
  BY <1>1, <1>2, <1>3, <1>4, <1>5, <1>6, <1>8, <1>9, <1>10, OpFacts DEF ActiveApart, AllSubmitted,
     OnePart, Recording, IoTypes, Kinds, OneCompletion
<1>16. StandsStill'
  BY <1>1, <1>2, <1>3, <1>4, <1>5, <1>6, <1>8, <1>9, <1>10, OpFacts DEF StandsStill, Turn
<1>17. WaitInv'
  BY <1>0, <1>1, <1>2, <1>3, <1>4, <1>5, <1>6, <1>8, <1>9, <1>10, OpFacts DEF WaitInv, Waits,
     IoShape
<1>18. DeadInv'
  BY <1>0, <1>1, <1>2, <1>3, <1>4, <1>5, <1>6, <1>8, <1>9, <1>10, OpFacts DEF DeadInv,
     NoResultForDead, IoTypes, OneCompletion
<1>19. ASSUME NoDatagrams PROVE CallsInv'
  <2>1. CallsInv
    BY <1>0, <1>19
  <2>2. \A q \in OnWorkerZero : Outstanding(q)' \subseteq Outstanding(q)
    BY <1>1, <1>2, <1>3, <1>4, <1>5, <1>6, <1>8, <1>9, <1>10, OpFacts DEF Outstanding, IoTypes,
       OneCompletion
  <2>2a. \A q \in OnWorkerZero : \A o \in Outstanding(q) : ioFor'[o] = ioFor[o]
    BY <1>1, <1>2, <1>3, <1>4, <1>5, <1>6, <1>8, <1>9, <1>10, OpFacts DEF Outstanding, OneCompletion
  <2>3. p \in OnWorkerZero => /\ ioFor[ioResults[p]].pid = p /\ ioFor[ioResults[p]].call = ioCall[p].call
                              /\ Outstanding(p)' = {}
    <3> SUFFICES ASSUME p \in OnWorkerZero
                 PROVE  /\ ioFor[ioResults[p]].pid = p /\ ioFor[ioResults[p]].call = ioCall[p].call
                        /\ Outstanding(p)' = {}
      OBVIOUS
    <3>1. ioResults[p] \in Outstanding(p) /\ ioDrain.at = "idle"
      BY <1>1, <1>2, <1>3, <1>4, <1>5, <1>6, <1>8, <1>9, <1>10, OpFacts DEF Outstanding, Turn
    <3>2. \A o \in Outstanding(p) : o = ioCall[p].op /\ ioFor[o].pid = p /\ ioFor[o].call = ioCall[p].call
      BY <2>1, <1>1, <1>2, <1>3, <1>4, <1>5, <1>6, <1>8, <1>9, <1>10, OpFacts DEF CallsInv,
         OneCallAtATime
    <3>3. \A o \in Outstanding(p)' : o \in ioPending
      BY <3>1, <1>1, <1>2, <1>3, <1>4, <1>5, <1>6, <1>8, <1>9, <1>10, OpFacts DEF Outstanding
    <3>4. \A o \in Outstanding(p)' : FALSE
      BY <3>1, <3>2, <3>3, <2>2, <1>1 DEF OnePart
    <3>5. QED
      BY <3>1, <3>2, <3>4
  <2>4. \A q \in OnWorkerZero : OneCallAtATime(q)'
    BY <2>1, <2>2, <2>2a, <2>3, <1>1, <1>2, <1>3, <1>4, <1>5, <1>6, <1>8, <1>9, <1>10, OpFacts
       DEF CallsInv, OneCallAtATime, IoTypes
  <2>5. AppliedInTime'
    BY <2>1, <2>3, <1>1, <1>2, <1>3, <1>4, <1>5, <1>6, <1>8, <1>9, <1>10, OpFacts DEF CallsInv,
       AppliedInTime, ActiveApart, AllSubmitted, IoTypes
  <2>6. QED
    BY <2>4, <2>5 DEF CallsInv
<1>20. QED
  BY <1>11, <1>12, <1>13, <1>14, <1>15, <1>16, <1>17, <1>18, <1>19 DEF IoInv, IoShape

(* Nothing to take: submit. *)
LEMMA SubmitKeeps ==
  ASSUME IoInv, NEW p \in IoProcs, SubmitOp(p)
  PROVE  IoInv'
<1> USE DEF CallSet, OthersKept
<1>0. IoShape /\ WaitInv /\ DeadInv /\ (NoDatagrams => CallsInv)
  BY DEF IoInv
<1>1. IoTypes /\ AllSubmitted /\ OnePart /\ OneCompletion /\ ActiveApart /\ StandsStill
  BY <1>0 DEF IoShape
<1>2. UNCHANGED <<ioPending, ioOrphans, ioCanceled, ioResults, ioDrain, ioTable, ioPurged,
                  sockMode, sockPid, sockEnded, ioApplied, ioDropped>>
  BY DEF SubmitOp, ringState, ioMaps, ioLife, socket, ioGhosts
<1>3. ioCall[p].at = "enter" /\ Turn(p) /\ ioResults[p] = NoOp /\ (~ioCall[p].expired \/ ioCall[p].kind = "udp")
  BY DEF SubmitOp
<1>4. ioCall[p].kind \in Kinds /\ ioCall[p].kind # "active" /\ ioCall[p].call \in Nat
  BY <1>1 DEF IoTypes, CallRecords, Kinds
<1>5. /\ ioNext \in Ops /\ ioNext' = ioNext + 1 /\ ioNext' \in Nat \ {0} /\ ioDone' = ioDone
      /\ ioFor' \in [Ops -> OpRecords] /\ ioFlight' = ioFlight \cup {ioNext}
      /\ ioFor'[ioNext].pid = p /\ ioFor'[ioNext].call = ioCall[p].call /\ ioFor'[ioNext].kind = ioCall[p].kind
      /\ \A o \in Ops : o # ioNext => ioFor'[o] = ioFor[o]
  BY <1>1, <1>4, SubmitEffect DEF SubmitOp
<1>6. OthersKept
  BY <1>1, <1>4, SubmitApart DEF SubmitOp
<1>7. /\ ioNext \in Ops /\ ioNext' \in Nat \ {0} /\ ioDone' = ioDone
      /\ ioFor' \in [Ops -> OpRecords] /\ ioFlight' = ioFlight \cup {ioNext}
      /\ ioFor'[ioNext].pid = p /\ ioFor'[ioNext].call = ioCall[p].call /\ ioFor'[ioNext].kind = ioCall[p].kind
  BY <1>5
<1>8. CallSet(p, "track", ioCall[p].call, ioCall[p].kind, ioNext, ioCall[p].cut, FALSE)
  <2> HIDE DEF CallSet, OthersKept
  <2>1. ioNext \in Ops \cup {NoOp} /\ "track" \in CallSteps /\ FALSE \in BOOLEAN
    BY <1>5 DEF CallSteps
  <2>2. ioCall' = [ioCall EXCEPT ![p].at = "track", ![p].op = ioNext, ![p].expired = FALSE]
    BY DEF SubmitOp
  <2>3. QED
    BY <1>1, <2>1, <2>2, SubmitSet
<1>9. IoTypes'
  BY <1>1, <1>2, <1>3, <1>4, <1>6, <1>7, <1>8, OpFacts DEF IoTypes, OneCompletion
<1>10. AllSubmitted'
  BY <1>1, <1>2, <1>3, <1>4, <1>6, <1>7, <1>8, OpFacts DEF AllSubmitted, IoTypes
<1>11. OnePart'
  BY <1>1, <1>2, <1>3, <1>4, <1>6, <1>7, <1>8, OpFacts DEF OnePart, AllSubmitted, IoTypes,
     Recording, DrainHolds
<1>12. OneCompletion'
  BY <1>1, <1>2, <1>3, <1>4, <1>6, <1>7, <1>8, OpFacts DEF OneCompletion, OnePart, Recording,
     AllSubmitted, IoTypes
<1>13. ActiveApart'
  BY <1>1, <1>2, <1>3, <1>4, <1>6, <1>7, <1>8, OpFacts DEF ActiveApart, AllSubmitted, OnePart,
     Recording, IoTypes, Kinds, OneCompletion
<1>14. StandsStill'
  BY <1>1, <1>2, <1>3, <1>4, <1>6, <1>7, <1>8, OpFacts DEF StandsStill, Turn
<1>15. WaitInv'
  BY <1>0, <1>1, <1>2, <1>3, <1>4, <1>6, <1>7, <1>8, OpFacts DEF WaitInv, Waits, IoShape
<1>16. DeadInv'
  BY <1>0, <1>1, <1>2, <1>3, <1>4, <1>6, <1>7, <1>8, OpFacts DEF DeadInv, NoResultForDead, IoTypes,
     OneCompletion
<1>17. ASSUME NoDatagrams PROVE CallsInv'
  <2>1. CallsInv
    BY <1>0, <1>17
  <2>2. \A q \in OnWorkerZero : Outstanding(q)' \subseteq Outstanding(q)
    BY <1>1, <1>2, <1>3, <1>4, <1>6, <1>7, <1>8, OpFacts DEF Outstanding, IoTypes, OneCompletion
  <2>3. \A q \in OnWorkerZero : \A o \in Outstanding(q) : ioFor'[o] = ioFor[o]
    BY <1>1, <1>2, <1>3, <1>4, <1>6, <1>7, <1>8, OpFacts DEF Outstanding, OneCompletion
  <2>4. \A q \in OnWorkerZero : OneCallAtATime(q)'
    BY <2>1, <2>2, <2>3, <1>1, <1>2, <1>3, <1>4, <1>6, <1>7, <1>8, OpFacts DEF CallsInv,
       OneCallAtATime, IoTypes
  <2>5. AppliedInTime'
    BY <2>1, <1>1, <1>2, <1>3, <1>4, <1>6, <1>7, <1>8, OpFacts DEF CallsInv, AppliedInTime
  <2>6. QED
    BY <2>4, <2>5 DEF CallsInv
<1>18. QED
  BY <1>9, <1>10, <1>11, <1>12, <1>13, <1>14, <1>15, <1>16, <1>17 DEF IoInv, IoShape

(* The operation is an orphan already: its result. *)
LEMMA FoundKeeps ==
  ASSUME IoInv, NEW p \in IoProcs, TrackOrphan(p), ioCall[p].op \in ioOrphans
  PROVE  IoInv'
<1> USE DEF CallSet, OthersKept
<1>0. IoShape /\ WaitInv /\ DeadInv /\ (NoDatagrams => CallsInv)
  BY DEF IoInv
<1>1. IoTypes /\ AllSubmitted /\ OnePart /\ OneCompletion /\ ActiveApart /\ StandsStill
  BY <1>0 DEF IoShape
<1>2. UNCHANGED <<ioNext, ioFor, ioFlight, ioDone, ioPending, ioCanceled, ioDrain, ioTable,
                  ioPurged, sockMode, sockPid, sockEnded, ioApplied, ioDropped>>
  BY DEF TrackOrphan, ringState, ioMaps, ioLife, socket, ioGhosts
<1>3. ioCall[p].at = "track" /\ Turn(p) /\ ioCall[p].op \in Ops
  BY <1>1 DEF TrackOrphan, OnePart, Recording
<1>4. /\ ioOrphans' = ioOrphans \ {ioCall[p].op}
      /\ ioResults' \in [IoProcs -> Ops \cup {NoOp}] /\ ioResults'[p] = ioCall[p].op
      /\ \A q \in IoProcs : q # p => ioResults'[q] = ioResults[q]
  BY <1>1, <1>3 DEF TrackOrphan, IoTypes
<1>5. CallSet(p, "tracked", ioCall[p].call, ioCall[p].kind, ioCall[p].op, ioCall[p].cut,
              ioCall[p].expired)
  BY <1>1, StepSet DEF TrackOrphan, CallSteps
<1>6. p \notin OnWorkerZero
  BY <1>0, <1>1, <1>3 DEF WaitInv, Waits, OneCompletion
<1>7. IoTypes'
  BY <1>1, <1>2, <1>3, <1>4, <1>5, <1>6, OpFacts DEF IoTypes, OneCompletion
<1>8. AllSubmitted'
  BY <1>1, <1>2, <1>3, <1>4, <1>5, <1>6, OpFacts DEF AllSubmitted, IoTypes
<1>9. OnePart'
  BY <1>1, <1>2, <1>3, <1>4, <1>5, <1>6, OpFacts DEF OnePart, AllSubmitted, IoTypes, Recording,
     DrainHolds
<1>10. OneCompletion'
  BY <1>1, <1>2, <1>3, <1>4, <1>5, <1>6, OpFacts DEF OneCompletion, OnePart, Recording,
     AllSubmitted, IoTypes
<1>11. ActiveApart'
  BY <1>1, <1>2, <1>3, <1>4, <1>5, <1>6, OpFacts DEF ActiveApart, AllSubmitted, OnePart, Recording,
     IoTypes, Kinds, OneCompletion
<1>12. StandsStill'
  BY <1>1, <1>2, <1>3, <1>4, <1>5, <1>6, OpFacts DEF StandsStill, Turn
<1>13. WaitInv'
  BY <1>0, <1>1, <1>2, <1>3, <1>4, <1>5, <1>6, OpFacts DEF WaitInv, Waits, IoShape
<1>14. DeadInv'
  BY <1>0, <1>1, <1>2, <1>3, <1>4, <1>5, <1>6, OpFacts DEF DeadInv, NoResultForDead, IoTypes,
     OneCompletion
<1>15. ASSUME NoDatagrams PROVE CallsInv'
  <2>1. CallsInv
    BY <1>0, <1>15
  <2>2. \A q \in OnWorkerZero : Outstanding(q)' \subseteq Outstanding(q)
    BY <1>1, <1>2, <1>3, <1>4, <1>5, <1>6, OpFacts DEF Outstanding, IoTypes, OneCompletion
  <2>3. \A q \in OnWorkerZero : OneCallAtATime(q)'
    BY <2>1, <2>2, <1>1, <1>2, <1>3, <1>4, <1>5, <1>6, OpFacts DEF CallsInv, OneCallAtATime,
       IoTypes, StandsStill
  <2>4. AppliedInTime'
    BY <2>1, <1>1, <1>2, <1>3, <1>4, <1>5, <1>6, OpFacts DEF CallsInv, AppliedInTime, ActiveApart
  <2>5. QED
    BY <2>3, <2>4 DEF CallsInv
<1>16. QED
  BY <1>7, <1>8, <1>9, <1>10, <1>11, <1>12, <1>13, <1>14, <1>15 DEF IoInv, IoShape

(* No orphan: the operation is to be recorded. *)
LEMMA MissedKeeps ==
  ASSUME IoInv, NEW p \in IoProcs, TrackOrphan(p), ioCall[p].op \notin ioOrphans
  PROVE  IoInv'
<1> USE DEF CallSet, OthersKept
<1>0. IoShape /\ WaitInv /\ DeadInv /\ (NoDatagrams => CallsInv)
  BY DEF IoInv
<1>1. IoTypes /\ AllSubmitted /\ OnePart /\ OneCompletion /\ ActiveApart /\ StandsStill
  BY <1>0 DEF IoShape
<1>2. UNCHANGED <<ioNext, ioFor, ioFlight, ioDone, ioPending, ioOrphans, ioCanceled, ioResults,
                  ioDrain, ioTable, ioPurged, sockMode, sockPid, sockEnded, ioApplied, ioDropped>>
  BY DEF TrackOrphan, ringState, ioMaps, ioLife, socket, ioGhosts
<1>3. ioCall[p].at = "track" /\ Turn(p)
  BY DEF TrackOrphan
<1>4. CallSet(p, "pend", ioCall[p].call, ioCall[p].kind, ioCall[p].op, ioCall[p].cut,
              ioCall[p].expired)
  BY <1>1, StepSet DEF TrackOrphan, CallSteps
<1>5. IoTypes'
  BY <1>1, <1>2, <1>3, <1>4, OpFacts DEF IoTypes, OneCompletion
<1>6. AllSubmitted'
  BY <1>1, <1>2, <1>3, <1>4, OpFacts DEF AllSubmitted, IoTypes
<1>7. OnePart'
  BY <1>1, <1>2, <1>3, <1>4, OpFacts DEF OnePart, AllSubmitted, IoTypes, Recording, DrainHolds
<1>8. OneCompletion'
  BY <1>1, <1>2, <1>3, <1>4, OpFacts DEF OneCompletion, OnePart, Recording, AllSubmitted, IoTypes
<1>9. ActiveApart'
  BY <1>1, <1>2, <1>3, <1>4, OpFacts DEF ActiveApart, AllSubmitted, OnePart, Recording, IoTypes,
     Kinds, OneCompletion
<1>10. StandsStill'
  BY <1>1, <1>2, <1>3, <1>4, OpFacts DEF StandsStill, Turn
<1>11. WaitInv'
  BY <1>0, <1>1, <1>2, <1>3, <1>4, OpFacts DEF WaitInv, Waits, IoShape
<1>12. DeadInv'
  BY <1>0, <1>1, <1>2, <1>3, <1>4, OpFacts DEF DeadInv, NoResultForDead, IoTypes, OneCompletion
<1>13. ASSUME NoDatagrams PROVE CallsInv'
  <2>1. CallsInv
    BY <1>0, <1>13
  <2>2. \A q \in OnWorkerZero : Outstanding(q)' \subseteq Outstanding(q)
    BY <1>1, <1>2, <1>3, <1>4, OpFacts DEF Outstanding, IoTypes, OneCompletion
  <2>3. \A q \in OnWorkerZero : OneCallAtATime(q)'
    BY <2>1, <2>2, <1>1, <1>2, <1>3, <1>4, OpFacts DEF CallsInv, OneCallAtATime, IoTypes,
       StandsStill
  <2>4. AppliedInTime'
    BY <2>1, <1>1, <1>2, <1>3, <1>4, OpFacts DEF CallsInv, AppliedInTime, ActiveApart
  <2>5. QED
    BY <2>3, <2>4 DEF CallsInv
<1>14. QED
  BY <1>5, <1>6, <1>7, <1>8, <1>9, <1>10, <1>11, <1>12, <1>13 DEF IoInv, IoShape

(* close takes its completion at once. *)
LEMMA CloseKeeps ==
  ASSUME IoInv, NEW p \in IoProcs, Suspend(p), ioCall[p].kind = "close" /\ ioResults[p] # NoOp
  PROVE  IoInv'
<1> USE DEF CallSet, OthersKept
<1>0. IoShape /\ WaitInv /\ DeadInv /\ (NoDatagrams => CallsInv)
  BY DEF IoInv
<1>1. IoTypes /\ AllSubmitted /\ OnePart /\ OneCompletion /\ ActiveApart /\ StandsStill
  BY <1>0 DEF IoShape
<1>2. UNCHANGED <<ioNext, ioFor, ioFlight, ioDone, ioPending, ioOrphans, ioCanceled, ioDrain,
                  ioTable, ioPurged, sockMode, sockPid, sockEnded, ioDropped>>
  BY DEF Suspend, ringState, ioMaps, ioLife, socket, ioGhosts
<1>3. ioCall[p].at = "tracked" /\ Turn(p) /\ ioResults[p] # NoOp
  BY DEF Suspend
<1>4. /\ ioResults' \in [IoProcs -> Ops \cup {NoOp}] /\ ioResults'[p] = NoOp
      /\ \A q \in IoProcs : q # p => ioResults'[q] = ioResults[q]
  BY <1>1 DEF Suspend, Consume, IoTypes
<1>5. \A a \in ioApplied' : \/ a \in ioApplied
                            \/ a[1] = ioResults[p] /\ a[2] = p /\ a[3] = ioCall[p].call
  BY DEF Suspend, Consume
<1>6. ioResults[p] \in Ops
  BY <1>1, <1>3 DEF IoTypes
<1>7. CallSet(p, "idle", ioCall[p].call, ioCall[p].kind, ioCall[p].op, ioCall[p].cut,
              ioCall[p].expired)
  BY <1>1, StepSet DEF Suspend, CallSteps
<1>8. IoTypes'
  BY <1>1, <1>2, <1>3, <1>4, <1>5, <1>6, <1>7, OpFacts DEF IoTypes, OneCompletion
<1>9. AllSubmitted'
  BY <1>1, <1>2, <1>3, <1>4, <1>5, <1>6, <1>7, OpFacts DEF AllSubmitted, IoTypes
<1>10. OnePart'
  BY <1>1, <1>2, <1>3, <1>4, <1>5, <1>6, <1>7, OpFacts DEF OnePart, AllSubmitted, IoTypes,
     Recording, DrainHolds
<1>11. OneCompletion'
  BY <1>1, <1>2, <1>3, <1>4, <1>5, <1>6, <1>7, OpFacts DEF OneCompletion, OnePart, Recording,
     AllSubmitted, IoTypes
<1>12. ActiveApart'
  BY <1>1, <1>2, <1>3, <1>4, <1>5, <1>6, <1>7, OpFacts DEF ActiveApart, AllSubmitted, OnePart,
     Recording, IoTypes, Kinds, OneCompletion
<1>13. StandsStill'
  BY <1>1, <1>2, <1>3, <1>4, <1>5, <1>6, <1>7, OpFacts DEF StandsStill, Turn
<1>14. WaitInv'
  BY <1>0, <1>1, <1>2, <1>3, <1>4, <1>5, <1>6, <1>7, OpFacts DEF WaitInv, Waits, IoShape
<1>15. DeadInv'
  BY <1>0, <1>1, <1>2, <1>3, <1>4, <1>5, <1>6, <1>7, OpFacts DEF DeadInv, NoResultForDead, IoTypes,
     OneCompletion
<1>16. ASSUME NoDatagrams PROVE CallsInv'
  <2>1. CallsInv
    BY <1>0, <1>16
  <2>2. \A q \in OnWorkerZero : Outstanding(q)' \subseteq Outstanding(q)
    BY <1>1, <1>2, <1>3, <1>4, <1>5, <1>6, <1>7, OpFacts DEF Outstanding, IoTypes, OneCompletion
  <2>2a. \A q \in OnWorkerZero : \A o \in Outstanding(q) : ioFor'[o] = ioFor[o]
    BY <1>1, <1>2, <1>3, <1>4, <1>5, <1>6, <1>7, OpFacts DEF Outstanding, OneCompletion
  <2>3. p \in OnWorkerZero => /\ ioFor[ioResults[p]].pid = p /\ ioFor[ioResults[p]].call = ioCall[p].call
                              /\ Outstanding(p)' = {}
    <3> SUFFICES ASSUME p \in OnWorkerZero
                 PROVE  /\ ioFor[ioResults[p]].pid = p /\ ioFor[ioResults[p]].call = ioCall[p].call
                        /\ Outstanding(p)' = {}
      OBVIOUS
    <3>1. ioResults[p] \in Outstanding(p) /\ ioDrain.at = "idle"
      BY <1>1, <1>2, <1>3, <1>4, <1>5, <1>6, <1>7, OpFacts DEF Outstanding, Turn
    <3>2. \A o \in Outstanding(p) : o = ioCall[p].op /\ ioFor[o].pid = p /\ ioFor[o].call = ioCall[p].call
      BY <2>1, <1>1, <1>2, <1>3, <1>4, <1>5, <1>6, <1>7, OpFacts DEF CallsInv, OneCallAtATime
    <3>3. \A o \in Outstanding(p)' : o \in ioPending
      BY <3>1, <1>1, <1>2, <1>3, <1>4, <1>5, <1>6, <1>7, OpFacts DEF Outstanding
    <3>4. \A o \in Outstanding(p)' : FALSE
      BY <3>1, <3>2, <3>3, <2>2, <1>1 DEF OnePart
    <3>5. QED
      BY <3>1, <3>2, <3>4
  <2>4. \A q \in OnWorkerZero : OneCallAtATime(q)'
    BY <2>1, <2>2, <2>2a, <2>3, <1>1, <1>2, <1>3, <1>4, <1>5, <1>6, <1>7, OpFacts DEF CallsInv,
       OneCallAtATime, IoTypes
  <2>5. AppliedInTime'
    BY <2>1, <2>3, <1>1, <1>2, <1>3, <1>4, <1>5, <1>6, <1>7, OpFacts DEF CallsInv, AppliedInTime,
       ActiveApart, AllSubmitted, IoTypes
  <2>6. QED
    BY <2>4, <2>5 DEF CallsInv
<1>17. QED
  BY <1>8, <1>9, <1>10, <1>11, <1>12, <1>13, <1>14, <1>15, <1>16 DEF IoInv, IoShape

(* The process parks, or is dropped. *)
LEMMA ParkKeeps ==
  ASSUME IoInv, NEW p \in IoProcs, Suspend(p), ~(ioCall[p].kind = "close" /\ ioResults[p] # NoOp)
  PROVE  IoInv'
<1> USE DEF CallSet, OthersKept
<1>0. IoShape /\ WaitInv /\ DeadInv /\ (NoDatagrams => CallsInv)
  BY DEF IoInv
<1>1. IoTypes /\ AllSubmitted /\ OnePart /\ OneCompletion /\ ActiveApart /\ StandsStill
  BY <1>0 DEF IoShape
<1>2. UNCHANGED <<ioNext, ioFor, ioFlight, ioDone, ioPending, ioOrphans, ioCanceled, ioDrain,
                  ioTable, ioPurged, sockMode, sockPid, sockEnded, ioDropped, ioResults, ioApplied>>
  BY DEF Suspend, ringState, ioMaps, ioLife, socket, ioGhosts
<1>3. ioCall[p].at = "tracked" /\ Turn(p)
  BY DEF Suspend
<1>4. \/ p \in ioTable /\ CallSet(p, "parked", ioCall[p].call, ioCall[p].kind, ioCall[p].op, ioCall[p].cut, ioCall[p].expired)
      \/ p \notin ioTable /\ CallSet(p, "dead", ioCall[p].call, ioCall[p].kind, ioCall[p].op, ioCall[p].cut, ioCall[p].expired)
  BY <1>1, StepSet DEF Suspend, CallSteps
<1>5. IoTypes'
  BY <1>1, <1>2, <1>3, <1>4, OpFacts DEF IoTypes, OneCompletion
<1>6. AllSubmitted'
  BY <1>1, <1>2, <1>3, <1>4, OpFacts DEF AllSubmitted, IoTypes
<1>7. OnePart'
  BY <1>1, <1>2, <1>3, <1>4, OpFacts DEF OnePart, AllSubmitted, IoTypes, Recording, DrainHolds
<1>8. OneCompletion'
  BY <1>1, <1>2, <1>3, <1>4, OpFacts DEF OneCompletion, OnePart, Recording, AllSubmitted, IoTypes
<1>9. ActiveApart'
  BY <1>1, <1>2, <1>3, <1>4, OpFacts DEF ActiveApart, AllSubmitted, OnePart, Recording, IoTypes,
     Kinds, OneCompletion
<1>10. StandsStill'
  BY <1>1, <1>2, <1>3, <1>4, OpFacts DEF StandsStill, Turn
<1>11. WaitInv'
  BY <1>0, <1>1, <1>2, <1>3, <1>4, OpFacts DEF WaitInv, Waits, IoShape
<1>12. DeadInv'
  BY <1>0, <1>1, <1>2, <1>3, <1>4, OpFacts DEF DeadInv, NoResultForDead, IoTypes, OneCompletion
<1>13. ASSUME NoDatagrams PROVE CallsInv'
  <2>1. CallsInv
    BY <1>0, <1>13
  <2>2. \A q \in OnWorkerZero : Outstanding(q)' \subseteq Outstanding(q)
    BY <1>1, <1>2, <1>3, <1>4, OpFacts DEF Outstanding, IoTypes, OneCompletion
  <2>3. \A q \in OnWorkerZero : OneCallAtATime(q)'
    BY <2>1, <2>2, <1>1, <1>2, <1>3, <1>4, OpFacts DEF CallsInv, OneCallAtATime, IoTypes,
       StandsStill
  <2>4. AppliedInTime'
    BY <2>1, <1>1, <1>2, <1>3, <1>4, OpFacts DEF CallsInv, AppliedInTime, ActiveApart
  <2>5. QED
    BY <2>3, <2>4 DEF CallsInv
<1>14. QED
  BY <1>5, <1>6, <1>7, <1>8, <1>9, <1>10, <1>11, <1>12, <1>13 DEF IoInv, IoShape

(* A timeout takes a pending operation out. *)
LEMMA DropKeeps ==
  ASSUME IoInv, NEW p \in IoProcs, NEW o, CancelPending(p, o), o \in ioPending
  PROVE  IoInv'
<1> USE DEF CallSet, OthersKept
<1>0. IoShape /\ WaitInv /\ DeadInv /\ (NoDatagrams => CallsInv)
  BY DEF IoInv
<1>1. IoTypes /\ AllSubmitted /\ OnePart /\ OneCompletion /\ ActiveApart /\ StandsStill
  BY <1>0 DEF IoShape
<1>2. UNCHANGED <<ioNext, ioFor, ioFlight, ioDone, ioOrphans, ioCanceled, ioResults, ioDrain,
                  ioTable, ioPurged, sockMode, sockPid, sockEnded, ioApplied>>
  BY DEF CancelPending, ringState, ioMaps, ioLife, socket, ioGhosts
<1>3. ioCall[p].at = "cancel" /\ Turn(p) /\ o \in ioCall[p].cut /\ o \in Ops /\ o \in ioPending
  BY <1>1 DEF CancelPending, IoTypes, CallRecords
<1>4. ioPending' = ioPending \ {o} /\ ioDropped' = ioDropped \cup {o}
  BY DEF CancelPending
<1>5. CallSet(p, "mark", ioCall[p].call, ioCall[p].kind, o, ioCall[p].cut, ioCall[p].expired)
  BY <1>1, <1>3, OpSet DEF CancelPending, CallSteps
<1>6. IoTypes'
  BY <1>1, <1>2, <1>3, <1>4, <1>5, OpFacts DEF IoTypes, OneCompletion
<1>7. AllSubmitted'
  BY <1>1, <1>2, <1>3, <1>4, <1>5, OpFacts DEF AllSubmitted, IoTypes
<1>8. OnePart'
  BY <1>1, <1>2, <1>3, <1>4, <1>5, OpFacts DEF OnePart, AllSubmitted, IoTypes, Recording, DrainHolds
<1>9. OneCompletion'
  BY <1>1, <1>2, <1>3, <1>4, <1>5, OpFacts DEF OneCompletion, OnePart, Recording, AllSubmitted,
     IoTypes
<1>10. ActiveApart'
  BY <1>1, <1>2, <1>3, <1>4, <1>5, OpFacts DEF ActiveApart, AllSubmitted, OnePart, Recording,
     IoTypes, Kinds, OneCompletion
<1>11. StandsStill'
  BY <1>1, <1>2, <1>3, <1>4, <1>5, OpFacts DEF StandsStill, Turn
<1>12. WaitInv'
  BY <1>0, <1>1, <1>2, <1>3, <1>4, <1>5, OpFacts DEF WaitInv, Waits, IoShape, ActiveApart
<1>13. DeadInv'
  BY <1>0, <1>1, <1>2, <1>3, <1>4, <1>5, OpFacts DEF DeadInv, NoResultForDead, IoTypes,
     OneCompletion
<1>14. ASSUME NoDatagrams PROVE CallsInv'
  <2>1. CallsInv
    BY <1>0, <1>14
  <2>2. \A q \in OnWorkerZero : Outstanding(q)' \subseteq Outstanding(q)
    BY <1>1, <1>2, <1>3, <1>4, <1>5, OpFacts DEF Outstanding, IoTypes, OneCompletion
  <2>2a. p \in OnWorkerZero => Outstanding(p)' \subseteq ioCall[p].cut \ {o}
    BY <2>1, <2>2, <1>1, <1>2, <1>3, <1>4, <1>5, OpFacts DEF CallsInv, OneCallAtATime, Outstanding,
       Turn
  <2>3. \A q \in OnWorkerZero : OneCallAtATime(q)'
    BY <2>1, <2>2, <2>2a, <1>1, <1>2, <1>3, <1>4, <1>5, OpFacts DEF CallsInv, OneCallAtATime,
       IoTypes, StandsStill
  <2>4. AppliedInTime'
    BY <2>1, <1>1, <1>2, <1>3, <1>4, <1>5, OpFacts DEF CallsInv, AppliedInTime, ActiveApart
  <2>5. QED
    BY <2>3, <2>4 DEF CallsInv
<1>15. QED
  BY <1>6, <1>7, <1>8, <1>9, <1>10, <1>11, <1>12, <1>13, <1>14 DEF IoInv, IoShape

(* An operation that is no longer pending. *)
LEMMA SkipKeeps ==
  ASSUME IoInv, NEW p \in IoProcs, NEW o, CancelPending(p, o), o \notin ioPending
  PROVE  IoInv'
<1> USE DEF CallSet, OthersKept
<1>0. IoShape /\ WaitInv /\ DeadInv /\ (NoDatagrams => CallsInv)
  BY DEF IoInv
<1>1. IoTypes /\ AllSubmitted /\ OnePart /\ OneCompletion /\ ActiveApart /\ StandsStill
  BY <1>0 DEF IoShape
<1>2. UNCHANGED <<ioNext, ioFor, ioFlight, ioDone, ioPending, ioOrphans, ioCanceled, ioResults,
                  ioDrain, ioTable, ioPurged, sockMode, sockPid, sockEnded, ioApplied, ioDropped>>
  BY DEF CancelPending, ringState, ioMaps, ioLife, socket, ioGhosts
<1>3. ioCall[p].at = "cancel" /\ Turn(p) /\ o \in ioCall[p].cut /\ o \notin ioPending
  BY <1>1 DEF CancelPending
<1>4. ioCall[p].cut \ {o} \in SUBSET Ops
  BY <1>1 DEF IoTypes, CallRecords
<1>5. \A s \in SUBSET Ops : ioCall' = [ioCall EXCEPT ![p].cut = s] =>
        CallSet(p, ioCall[p].at, ioCall[p].call, ioCall[p].kind, ioCall[p].op, s, ioCall[p].expired)
  BY <1>1 DEF IoTypes, CallRecords
<1>6. ioCall' = [ioCall EXCEPT ![p].cut = ioCall[p].cut \ {o}]
  BY <1>3 DEF CancelPending
<1>7. CallSet(p, ioCall[p].at, ioCall[p].call, ioCall[p].kind, ioCall[p].op, (ioCall[p].cut \ {o}),
              ioCall[p].expired)
  BY <1>4, <1>5, <1>6
<1>8. IoTypes'
  BY <1>1, <1>2, <1>3, <1>4, <1>7, OpFacts DEF IoTypes, OneCompletion
<1>9. AllSubmitted'
  BY <1>1, <1>2, <1>3, <1>4, <1>7, OpFacts DEF AllSubmitted, IoTypes
<1>10. OnePart'
  BY <1>1, <1>2, <1>3, <1>4, <1>7, OpFacts DEF OnePart, AllSubmitted, IoTypes, Recording, DrainHolds
<1>11. OneCompletion'
  BY <1>1, <1>2, <1>3, <1>4, <1>7, OpFacts DEF OneCompletion, OnePart, Recording, AllSubmitted,
     IoTypes
<1>12. ActiveApart'
  BY <1>1, <1>2, <1>3, <1>4, <1>7, OpFacts DEF ActiveApart, AllSubmitted, OnePart, Recording,
     IoTypes, Kinds, OneCompletion
<1>13. StandsStill'
  BY <1>1, <1>2, <1>3, <1>4, <1>7, OpFacts DEF StandsStill, Turn
<1>14. WaitInv'
  BY <1>0, <1>1, <1>2, <1>3, <1>4, <1>7, OpFacts DEF WaitInv, Waits, IoShape
<1>15. DeadInv'
  BY <1>0, <1>1, <1>2, <1>3, <1>4, <1>7, OpFacts DEF DeadInv, NoResultForDead, IoTypes,
     OneCompletion
<1>16. ASSUME NoDatagrams PROVE CallsInv'
  <2>1. CallsInv
    BY <1>0, <1>16
  <2>2. \A q \in OnWorkerZero : Outstanding(q)' \subseteq Outstanding(q)
    BY <1>1, <1>2, <1>3, <1>4, <1>7, OpFacts DEF Outstanding, IoTypes, OneCompletion
  <2>2a. p \in OnWorkerZero => Outstanding(p)' \subseteq ioCall[p].cut \ {o}
    BY <2>1, <2>2, <1>1, <1>2, <1>3, <1>4, <1>7, OpFacts DEF CallsInv, OneCallAtATime, Outstanding,
       Turn
  <2>3. \A q \in OnWorkerZero : OneCallAtATime(q)'
    BY <2>1, <2>2, <2>2a, <1>1, <1>2, <1>3, <1>4, <1>7, OpFacts DEF CallsInv, OneCallAtATime,
       IoTypes, StandsStill
  <2>4. AppliedInTime'
    BY <2>1, <1>1, <1>2, <1>3, <1>4, <1>7, OpFacts DEF CallsInv, AppliedInTime, ActiveApart
  <2>5. QED
    BY <2>3, <2>4 DEF CallsInv
<1>17. QED
  BY <1>8, <1>9, <1>10, <1>11, <1>12, <1>13, <1>14, <1>15, <1>16 DEF IoInv, IoShape

(* setopts changes the mode. *)
LEMMA ModeKeeps ==
  ASSUME IoInv, NEW p \in IoProcs, NEW mode \in Modes, SetMode(p, mode),
         ~(mode # "passive" /\ sockMode = "passive")
  PROVE  IoInv'
<1> USE DEF CallSet, OthersKept
<1>0. IoShape /\ WaitInv /\ DeadInv /\ (NoDatagrams => CallsInv)
  BY DEF IoInv
<1>1. IoTypes /\ AllSubmitted /\ OnePart /\ OneCompletion /\ ActiveApart /\ StandsStill
  BY <1>0 DEF IoShape
<1>2. UNCHANGED <<ioNext, ioFor, ioFlight, ioDone, ioPending, ioOrphans, ioCanceled, ioResults,
                  ioDrain, ioCall, ioTable, ioPurged, sockPid, sockEnded, ioApplied, ioDropped>>
  BY DEF SetMode, ringState, ioMaps, ioLife, socket, ioGhosts
<1>3. sockMode' \in {"passive", "active", "once"}
  BY FileIoAssumption DEF SetMode
<1>4. IoTypes'
  BY <1>1, <1>2, <1>3, OpFacts DEF IoTypes, OneCompletion
<1>5. AllSubmitted'
  BY <1>1, <1>2, <1>3, OpFacts DEF AllSubmitted, IoTypes
<1>6. OnePart'
  BY <1>1, <1>2, <1>3, OpFacts DEF OnePart, AllSubmitted, IoTypes, Recording, DrainHolds
<1>7. OneCompletion'
  BY <1>1, <1>2, <1>3, OpFacts DEF OneCompletion, OnePart, Recording, AllSubmitted, IoTypes
<1>8. ActiveApart'
  BY <1>1, <1>2, <1>3, OpFacts DEF ActiveApart, AllSubmitted, OnePart, Recording, IoTypes, Kinds,
     OneCompletion
<1>9. StandsStill'
  BY <1>1, <1>2, <1>3, OpFacts DEF StandsStill, Turn
<1>10. WaitInv'
  BY <1>0, <1>1, <1>2, <1>3, OpFacts DEF WaitInv, Waits, IoShape
<1>11. DeadInv'
  BY <1>0, <1>1, <1>2, <1>3, OpFacts DEF DeadInv, NoResultForDead, IoTypes, OneCompletion
<1>12. ASSUME NoDatagrams PROVE CallsInv'
  <2>1. CallsInv
    BY <1>0, <1>12
  <2>2. \A q \in OnWorkerZero : Outstanding(q)' \subseteq Outstanding(q)
    BY <1>1, <1>2, <1>3, OpFacts DEF Outstanding, IoTypes, OneCompletion
  <2>3. \A q \in OnWorkerZero : OneCallAtATime(q)'
    BY <2>1, <2>2, <1>1, <1>2, <1>3, OpFacts DEF CallsInv, OneCallAtATime, IoTypes, StandsStill
  <2>4. AppliedInTime'
    BY <2>1, <1>1, <1>2, <1>3, OpFacts DEF CallsInv, AppliedInTime, ActiveApart
  <2>5. QED
    BY <2>3, <2>4 DEF CallsInv
<1>13. QED
  BY <1>4, <1>5, <1>6, <1>7, <1>8, <1>9, <1>10, <1>11, <1>12 DEF IoInv, IoShape

(* setopts submits a read. *)
LEMMA ArmedKeeps ==
  ASSUME IoInv, NEW p \in IoProcs, NEW mode \in Modes, SetMode(p, mode),
         mode # "passive" /\ sockMode = "passive"
  PROVE  IoInv'
<1> USE DEF CallSet, OthersKept
<1>0. IoShape /\ WaitInv /\ DeadInv /\ (NoDatagrams => CallsInv)
  BY DEF IoInv
<1>1. IoTypes /\ AllSubmitted /\ OnePart /\ OneCompletion /\ ActiveApart /\ StandsStill
  BY <1>0 DEF IoShape
<1>2. UNCHANGED <<ioPending, ioOrphans, ioCanceled, ioResults, ioDrain, ioTable, ioPurged, sockPid,
                  sockEnded, ioApplied, ioDropped>>
  BY DEF SetMode, ringState, ioMaps, ioLife, socket, ioGhosts
<1>3. ioCall[p].at = "idle" /\ Turn(p)
  BY DEF SetMode
<1>4. sockMode' \in {"passive", "active", "once"}
  BY FileIoAssumption DEF SetMode
<1>5. /\ ioNext \in Ops /\ ioNext' = ioNext + 1 /\ ioNext' \in Nat \ {0} /\ ioDone' = ioDone
      /\ ioFor' \in [Ops -> OpRecords] /\ ioFlight' = ioFlight \cup {ioNext}
      /\ ioFor'[ioNext].pid = p /\ ioFor'[ioNext].call = 0 /\ ioFor'[ioNext].kind = "active"
      /\ \A o \in Ops : o # ioNext => ioFor'[o] = ioFor[o]
  BY <1>1, SubmitEffect DEF SetMode
<1>6. OthersKept
  BY <1>1, SubmitApart DEF SetMode
<1>7. /\ ioNext \in Ops /\ ioNext' \in Nat \ {0} /\ ioDone' = ioDone
      /\ ioFor' \in [Ops -> OpRecords] /\ ioFlight' = ioFlight \cup {ioNext}
      /\ ioFor'[ioNext].pid = p /\ ioFor'[ioNext].call = 0 /\ ioFor'[ioNext].kind = "active"
  BY <1>5
<1>8. CallSet(p, "arm", ioCall[p].call, ioCall[p].kind, ioNext, ioCall[p].cut, ioCall[p].expired)
  <2> HIDE DEF CallSet, OthersKept
  <2>1. ioNext \in Ops \cup {NoOp} /\ "arm" \in CallSteps
    BY <1>5 DEF CallSteps
  <2>2. ioCall' = [ioCall EXCEPT ![p].at = "arm", ![p].op = ioNext]
    BY DEF SetMode
  <2>3. QED
    BY <1>1, <2>1, <2>2, OpSet
<1>9. IoTypes'
  BY <1>1, <1>2, <1>3, <1>4, <1>6, <1>7, <1>8, OpFacts DEF IoTypes, OneCompletion
<1>10. AllSubmitted'
  BY <1>1, <1>2, <1>3, <1>4, <1>6, <1>7, <1>8, OpFacts DEF AllSubmitted, IoTypes
<1>11. OnePart'
  BY <1>1, <1>2, <1>3, <1>4, <1>6, <1>7, <1>8, OpFacts DEF OnePart, AllSubmitted, IoTypes,
     Recording, DrainHolds
<1>12. OneCompletion'
  BY <1>1, <1>2, <1>3, <1>4, <1>6, <1>7, <1>8, OpFacts DEF OneCompletion, OnePart, Recording,
     AllSubmitted, IoTypes
<1>13. ActiveApart'
  BY <1>1, <1>2, <1>3, <1>4, <1>6, <1>7, <1>8, OpFacts DEF ActiveApart, AllSubmitted, OnePart,
     Recording, IoTypes, Kinds, OneCompletion
<1>14. StandsStill'
  BY <1>1, <1>2, <1>3, <1>4, <1>6, <1>7, <1>8, OpFacts DEF StandsStill, Turn
<1>15. WaitInv'
  BY <1>0, <1>1, <1>2, <1>3, <1>4, <1>6, <1>7, <1>8, OpFacts DEF WaitInv, Waits, IoShape
<1>16. DeadInv'
  BY <1>0, <1>1, <1>2, <1>3, <1>4, <1>6, <1>7, <1>8, OpFacts DEF DeadInv, NoResultForDead, IoTypes,
     OneCompletion
<1>17. ASSUME NoDatagrams PROVE CallsInv'
  <2>1. CallsInv
    BY <1>0, <1>17
  <2>2. \A q \in OnWorkerZero : Outstanding(q)' \subseteq Outstanding(q)
    BY <1>1, <1>2, <1>3, <1>4, <1>6, <1>7, <1>8, OpFacts DEF Outstanding, IoTypes, OneCompletion
  <2>3. \A q \in OnWorkerZero : \A o \in Outstanding(q) : ioFor'[o] = ioFor[o]
    BY <1>1, <1>2, <1>3, <1>4, <1>6, <1>7, <1>8, OpFacts DEF Outstanding, OneCompletion
  <2>4. \A q \in OnWorkerZero : OneCallAtATime(q)'
    BY <2>1, <2>2, <2>3, <1>1, <1>2, <1>3, <1>4, <1>6, <1>7, <1>8, OpFacts DEF CallsInv,
       OneCallAtATime, IoTypes
  <2>5. AppliedInTime'
    BY <2>1, <1>1, <1>2, <1>3, <1>4, <1>6, <1>7, <1>8, OpFacts DEF CallsInv, AppliedInTime
  <2>6. QED
    BY <2>4, <2>5 DEF CallsInv
<1>18. QED
  BY <1>9, <1>10, <1>11, <1>12, <1>13, <1>14, <1>15, <1>16, <1>17 DEF IoInv, IoShape

(* submit_active_tcp_read records its read. *)
LEMMA ArmKeeps ==
  ASSUME IoInv, NEW p \in IoProcs, ArmRead(p)
  PROVE  IoInv'
<1> USE DEF CallSet, OthersKept
<1>0. IoShape /\ WaitInv /\ DeadInv /\ (NoDatagrams => CallsInv)
  BY DEF IoInv
<1>1. IoTypes /\ AllSubmitted /\ OnePart /\ OneCompletion /\ ActiveApart /\ StandsStill
  BY <1>0 DEF IoShape
<1>2. UNCHANGED <<ioNext, ioFlight, ioDone, ioOrphans, ioCanceled, ioResults, ioDrain, ioTable,
                  ioPurged, sockMode, sockPid, sockEnded, ioApplied, ioDropped>>
  BY DEF ArmRead, ringState, ioMaps, ioLife, socket, ioGhosts
<1>3. /\ ioCall[p].at = "arm" /\ Turn(p) /\ ioCall[p].op \in Ops /\ ioFor[ioCall[p].op].kind = "active"
      /\ ioPending' = ioPending \cup {ioCall[p].op}
  BY <1>1 DEF ArmRead, OnePart, Recording, ActiveApart
<1>4. /\ ioFor' \in [Ops -> OpRecords] /\ ioFor'[ioCall[p].op].kind = "active"
      /\ \A o \in Ops : o # ioCall[p].op => ioFor'[o] = ioFor[o]
  BY <1>1, <1>3 DEF ArmRead, IoTypes, OpRecords
<1>5. CallSet(p, "idle", ioCall[p].call, ioCall[p].kind, ioCall[p].op, ioCall[p].cut,
              ioCall[p].expired)
  BY <1>1, StepSet DEF ArmRead, CallSteps
<1>6. \A o \in Ops : ioFor[o].kind # "active" => ioFor'[o] = ioFor[o]
  BY <1>3, <1>4
<1>7. \A o \in Ops : ioFor'[o].kind # "active" => ioFor'[o] = ioFor[o]
  BY <1>3, <1>4
<1>8. IoTypes'
  BY <1>1, <1>2, <1>3, <1>4, <1>5, <1>6, <1>7, OpFacts DEF IoTypes, OneCompletion
<1>9. AllSubmitted'
  BY <1>1, <1>2, <1>3, <1>4, <1>5, <1>6, <1>7, OpFacts DEF AllSubmitted, IoTypes
<1>10. OnePart'
  BY <1>1, <1>2, <1>3, <1>5, OpFacts DEF OnePart, IoTypes, Recording, DrainHolds
<1>11. OneCompletion'
  BY <1>1, <1>2, <1>3, <1>4, <1>5, <1>6, <1>7, OpFacts DEF OneCompletion, OnePart, Recording,
     AllSubmitted, IoTypes
<1>12. ActiveApart'
  <2>1. \A q \in IoProcs :
         /\ ioCall[q].at \in {"arm", "track", "pend"} => ioCall[q].op \in Ops
         /\ q # p /\ Recording(q) => ioCall[q].op # ioCall[p].op
         /\ ioCall[q].cut \subseteq Ops /\ ioResults[q] \in Ops \cup {NoOp}
    BY <1>1, <1>3 DEF OnePart, Recording, IoTypes, CallRecords
  <2>2. \A q \in IoProcs :
         /\ ioCall'[q].at = "arm" => ioFor'[ioCall'[q].op].kind = "active"
         /\ ioCall'[q].at \in {"track", "pend"} =>
              /\ ioFor'[ioCall'[q].op].pid = q /\ ioFor'[ioCall'[q].op].call = ioCall'[q].call
              /\ ioFor'[ioCall'[q].op].kind # "active"
    BY <1>1, <1>3, <1>4, <1>5, <2>1 DEF ActiveApart, Recording
  <2>3. \A q \in IoProcs :
         /\ ioResults[q] # NoOp => ioFor'[ioResults[q]].kind # "active"
         /\ \A o \in ioCall'[q].cut : ioFor'[o].kind # "active" => ioFor'[o].pid = q
    BY <1>1, <1>5, <1>6, <1>7, <2>1 DEF ActiveApart
  <2>4. /\ ioDrain.at \in {"insert", "check"} => ioFor'[ioDrain.op].kind # "active"
        /\ \A a \in ioApplied : a[1] \in Ops /\ a[1] < ioNext /\ ioFor'[a[1]].kind # "active"
    BY <1>1, <1>6 DEF ActiveApart, OneCompletion
  <2>5. QED
    BY <1>2, <2>2, <2>3, <2>4 DEF ActiveApart
<1>13. StandsStill'
  BY <1>1, <1>2, <1>3, <1>4, <1>5, <1>6, <1>7, OpFacts DEF StandsStill, Turn
<1>14. WaitInv'
  BY <1>0, <1>1, <1>2, <1>3, <1>4, <1>5, <1>6, <1>7, OpFacts DEF WaitInv, Waits, IoShape
<1>15. DeadInv'
  BY <1>0, <1>1, <1>2, <1>3, <1>4, <1>5, <1>6, <1>7, OpFacts DEF DeadInv, NoResultForDead, IoTypes,
     OneCompletion, ActiveApart
<1>16. ASSUME NoDatagrams PROVE CallsInv'
  <2>1. CallsInv
    BY <1>0, <1>16
  <2>2. \A q \in OnWorkerZero : Outstanding(q)' \subseteq Outstanding(q)
    BY <1>1, <1>2, <1>3, <1>4, <1>5, <1>6, <1>7, OpFacts DEF Outstanding, IoTypes, OneCompletion,
       ActiveApart
  <2>3. \A q \in OnWorkerZero : \A o \in Outstanding(q) : ioFor'[o] = ioFor[o]
    BY <1>1, <1>2, <1>3, <1>4, <1>5, <1>6, <1>7, OpFacts DEF Outstanding, OneCompletion,
       ActiveApart, IoTypes
  <2>4. \A q \in OnWorkerZero : OneCallAtATime(q)'
    BY <2>1, <2>2, <2>3, <1>1, <1>2, <1>3, <1>4, <1>5, <1>6, <1>7, OpFacts DEF CallsInv,
       OneCallAtATime, IoTypes
  <2>5. AppliedInTime'
    BY <2>1, <1>1, <1>2, <1>3, <1>4, <1>5, <1>6, <1>7, OpFacts DEF CallsInv, AppliedInTime,
       ActiveApart
  <2>6. QED
    BY <2>4, <2>5 DEF CallsInv
<1>17. QED
  BY <1>8, <1>9, <1>10, <1>11, <1>12, <1>13, <1>14, <1>15, <1>16 DEF IoInv, IoShape

(* A socket in mode once becomes passive. *)
LEMMA OnceKeeps ==
  ASSUME IoInv, DrainRearm, ioDrain.mode # "active"
  PROVE  IoInv'
<1> USE DEF OthersKept
<1>0. IoShape /\ WaitInv /\ DeadInv /\ (NoDatagrams => CallsInv)
  BY DEF IoInv
<1>1. IoTypes /\ AllSubmitted /\ OnePart /\ OneCompletion /\ ActiveApart /\ StandsStill
  BY <1>0 DEF IoShape
<1>2. UNCHANGED <<ioNext, ioFor, ioFlight, ioDone, ioPending, ioOrphans, ioCanceled, ioResults,
                  ioCall, ioTable, ioPurged, sockPid, sockEnded, ioApplied, ioDropped>>
  BY DEF DrainRearm, ringState, ioMaps, ioLife, socket, ioGhosts
<1>3. ioDrain.at = "rearm" /\ ioDrain'.at = "idle" /\ ioDrain'.op = NoOp /\ ioDrain' \in DrainRecords
  BY DEF DrainRearm, Drained, DrainRecords, DrainSteps
<1>4. sockMode' \in {"passive", "active", "once"}
  BY DEF DrainRearm
<1>5. IoTypes'
  BY <1>1, <1>2, <1>3, <1>4, OpFacts DEF IoTypes, OneCompletion
<1>6. AllSubmitted'
  BY <1>1, <1>2, <1>3, <1>4, OpFacts DEF AllSubmitted, IoTypes
<1>7. OnePart'
  BY <1>1, <1>2, <1>3, <1>4, OpFacts DEF OnePart, AllSubmitted, IoTypes, Recording, DrainHolds
<1>8. OneCompletion'
  BY <1>1, <1>2, <1>3, <1>4, OpFacts DEF OneCompletion, OnePart, Recording, AllSubmitted, IoTypes
<1>9. ActiveApart'
  BY <1>1, <1>2, <1>3, <1>4, OpFacts DEF ActiveApart, AllSubmitted, OnePart, Recording, IoTypes,
     Kinds, OneCompletion
<1>10. StandsStill'
  BY <1>1, <1>2, <1>3, <1>4, OpFacts DEF StandsStill, Turn
<1>11. WaitInv'
  BY <1>0, <1>1, <1>2, <1>3, <1>4, OpFacts DEF WaitInv, Waits, IoShape
<1>12. DeadInv'
  BY <1>0, <1>1, <1>2, <1>3, <1>4, OpFacts DEF DeadInv, NoResultForDead, IoTypes, OneCompletion
<1>13. ASSUME NoDatagrams PROVE CallsInv'
  <2>1. CallsInv
    BY <1>0, <1>13
  <2>2. \A q \in OnWorkerZero : Outstanding(q)' \subseteq Outstanding(q)
    BY <1>1, <1>2, <1>3, <1>4, OpFacts DEF Outstanding, IoTypes, OneCompletion
  <2>3. \A q \in OnWorkerZero : OneCallAtATime(q)'
    BY <2>1, <2>2, <1>1, <1>2, <1>3, <1>4, OpFacts DEF CallsInv, OneCallAtATime, IoTypes,
       StandsStill
  <2>4. AppliedInTime'
    BY <2>1, <1>1, <1>2, <1>3, <1>4, OpFacts DEF CallsInv, AppliedInTime, ActiveApart
  <2>5. QED
    BY <2>3, <2>4 DEF CallsInv
<1>14. QED
  BY <1>5, <1>6, <1>7, <1>8, <1>9, <1>10, <1>11, <1>12, <1>13 DEF IoInv, IoShape

(* An active socket is read again. *)
LEMMA RearmKeeps ==
  ASSUME IoInv, DrainRearm, ioDrain.mode = "active"
  PROVE  IoInv'
<1> USE DEF OthersKept
<1>0. IoShape /\ WaitInv /\ DeadInv /\ (NoDatagrams => CallsInv)
  BY DEF IoInv
<1>1. IoTypes /\ AllSubmitted /\ OnePart /\ OneCompletion /\ ActiveApart /\ StandsStill
  BY <1>0 DEF IoShape
<1>2. UNCHANGED <<ioOrphans, ioCanceled, ioResults, ioCall, ioTable, ioPurged, sockMode, sockPid,
                  sockEnded, ioApplied, ioDropped>>
  BY DEF DrainRearm, ringState, ioMaps, ioLife, socket, ioGhosts
<1>3. ioDrain.at = "rearm" /\ ioDrain'.at = "idle" /\ ioDrain'.op = NoOp /\ ioDrain' \in DrainRecords
  BY DEF DrainRearm, Drained, DrainRecords, DrainSteps
<1>4. sockPid \in IoProcs
  BY <1>1 DEF IoTypes
<1>5. /\ ioNext \in Ops /\ ioNext' = ioNext + 1 /\ ioNext' \in Nat \ {0} /\ ioDone' = ioDone
      /\ ioFor' \in [Ops -> OpRecords] /\ ioFlight' = ioFlight \cup {ioNext}
      /\ ioFor'[ioNext].pid = sockPid /\ ioFor'[ioNext].call = 0 /\ ioFor'[ioNext].kind = "active"
      /\ \A o \in Ops : o # ioNext => ioFor'[o] = ioFor[o]
  BY <1>1, <1>4, SubmitEffect DEF DrainRearm
<1>6. OthersKept
  BY <1>1, <1>4, SubmitApart DEF DrainRearm
<1>7. /\ ioNext \in Ops /\ ioNext' \in Nat \ {0} /\ ioDone' = ioDone
      /\ ioFor' \in [Ops -> OpRecords] /\ ioFlight' = ioFlight \cup {ioNext}
      /\ ioFor'[ioNext].pid = sockPid /\ ioFor'[ioNext].call = 0 /\ ioFor'[ioNext].kind = "active"
  BY <1>5
<1>8. ioPending' = ioPending \cup {ioNext}
  BY DEF DrainRearm
<1>9. IoTypes'
  BY <1>1, <1>2, <1>3, <1>6, <1>7, <1>8, OpFacts DEF IoTypes, OneCompletion
<1>10. AllSubmitted'
  BY <1>1, <1>2, <1>3, <1>6, <1>7, <1>8, OpFacts DEF AllSubmitted, IoTypes
<1>11. OnePart'
  BY <1>1, <1>2, <1>3, <1>6, <1>7, <1>8, OpFacts DEF OnePart, AllSubmitted, IoTypes, Recording,
     DrainHolds
<1>12. OneCompletion'
  BY <1>1, <1>2, <1>3, <1>6, <1>7, <1>8, OpFacts DEF OneCompletion, OnePart, Recording,
     AllSubmitted, IoTypes
<1>13. ActiveApart'
  BY <1>1, <1>2, <1>3, <1>6, <1>7, <1>8, OpFacts DEF ActiveApart, AllSubmitted, OnePart, Recording,
     IoTypes, Kinds, OneCompletion
<1>14. StandsStill'
  BY <1>1, <1>2, <1>3, <1>6, <1>7, <1>8, OpFacts DEF StandsStill, Turn
<1>15. WaitInv'
  BY <1>0, <1>1, <1>2, <1>3, <1>6, <1>7, <1>8, OpFacts DEF WaitInv, Waits, IoShape
<1>16. DeadInv'
  BY <1>0, <1>1, <1>2, <1>3, <1>6, <1>7, <1>8, OpFacts DEF DeadInv, NoResultForDead, IoTypes,
     OneCompletion
<1>17. ASSUME NoDatagrams PROVE CallsInv'
  <2>1. CallsInv
    BY <1>0, <1>17
  <2>2. \A q \in OnWorkerZero : Outstanding(q)' \subseteq Outstanding(q)
    BY <1>1, <1>2, <1>3, <1>6, <1>7, <1>8, OpFacts DEF Outstanding, IoTypes, OneCompletion
  <2>3. \A q \in OnWorkerZero : \A o \in Outstanding(q) : ioFor'[o] = ioFor[o]
    BY <1>1, <1>2, <1>3, <1>6, <1>7, <1>8, OpFacts DEF Outstanding, OneCompletion
  <2>4. \A q \in OnWorkerZero : OneCallAtATime(q)'
    BY <2>1, <2>2, <2>3, <1>1, <1>2, <1>3, <1>6, <1>7, <1>8, OpFacts DEF CallsInv, OneCallAtATime,
       IoTypes
  <2>5. AppliedInTime'
    BY <2>1, <1>1, <1>2, <1>3, <1>6, <1>7, <1>8, OpFacts DEF CallsInv, AppliedInTime
  <2>6. QED
    BY <2>4, <2>5 DEF CallsInv
<1>18. QED
  BY <1>9, <1>10, <1>11, <1>12, <1>13, <1>14, <1>15, <1>16, <1>17 DEF IoInv, IoShape

-----------------------------------------------------------------------------
(* The invariant of every behaviour *)

(* Nothing is submitted at the start. *)
LEMMA IoStarts ==
  ASSUME IoInit
  PROVE  IoInv
<1>1. Unused \in OpRecords /\ Drained \in DrainRecords /\ Drained.op = NoOp /\ Drained.at = "idle"
  BY FileIoAssumption DEF Unused, Drained, OpRecords, DrainRecords, DrainSteps
<1>2. /\ ioCall \in [IoProcs -> CallRecords]
      /\ \A p \in IoProcs : /\ ioCall[p].at = "idle" /\ ioCall[p].op = NoOp /\ ioCall[p].cut = {}
                            /\ ioCall[p].kind = "file"
  BY DEF IoInit, CallRecords, CallSteps, Kinds
<1>3. IoTypes
  <2>1. ioNext \in Nat \ {0} /\ ioFor \in [Ops -> OpRecords] /\ ioDrain \in DrainRecords
    BY <1>1 DEF IoInit
  <2>2. ioResults \in [IoProcs -> Ops \cup {NoOp}]
    BY DEF IoInit
  <2>3. QED
    BY <1>2, <2>1, <2>2, FileIoAssumption DEF IoInit, IoTypes
<1>4. AllSubmitted
  BY <1>1, <1>2, <1>3, OpFacts DEF IoInit, AllSubmitted
<1>5. OnePart /\ OneCompletion /\ ActiveApart /\ StandsStill
  BY <1>1, <1>2, <1>3, OpFacts DEF IoInit, OnePart, OneCompletion, ActiveApart, StandsStill,
     Recording, DrainHolds
<1>6. WaitInv /\ DeadInv
  BY <1>1, <1>2, OpFacts DEF IoInit, WaitInv, Waits, DeadInv, NoResultForDead
<1>7. CallsInv
  BY <1>1, <1>2, OpFacts DEF IoInit, CallsInv, OneCallAtATime, Outstanding, AppliedInTime
<1>8. QED
  BY <1>3, <1>4, <1>5, <1>6, <1>7 DEF IoInv, IoShape

(* A step that changes nothing. *)
LEMMA IoStutters ==
  ASSUME IoInv, UNCHANGED ioVars
  PROVE  IoInv'
<1>1. /\ UNCHANGED <<ioNext, ioFor, ioFlight, ioDone, ioPending, ioOrphans, ioCanceled, ioResults, ioDrain>>
      /\ UNCHANGED <<ioCall, ioTable, ioPurged, sockMode, sockPid, sockEnded, ioApplied, ioDropped>>
  BY DEF ioVars, ringState, ioMaps, ioLife, socket, ioGhosts
<1>2. IoShape'
  BY <1>1 DEF IoInv, IoShape, IoTypes, AllSubmitted, OnePart, OneCompletion, ActiveApart,
     StandsStill,
              Recording, DrainHolds
<1>3. WaitInv' /\ DeadInv'
  BY <1>1 DEF IoInv, WaitInv, Waits, DeadInv, NoResultForDead
<1>4. \A p \in OnWorkerZero : Outstanding(p)' = Outstanding(p)
  BY <1>1 DEF Outstanding
<1>5. NoDatagrams => CallsInv'
  BY <1>1, <1>4 DEF IoInv, CallsInv, OneCallAtATime, AppliedInTime
<1>6. QED
  BY <1>2, <1>3, <1>5 DEF IoInv

(* Every step of a process. *)
LEMMA CallStepKeeps ==
  ASSUME IoInv, NEW p \in IoProcs,
         \/ \E kind \in Kinds : BeginCall(p, kind)
         \/ TakeResult(p) \/ SubmitOp(p) \/ TrackOrphan(p) \/ TrackPending(p) \/ Suspend(p)
         \/ TimerExpires(p) \/ Resume(p) \/ CancelCollect(p) \/ CancelMark(p)
         \/ CancelReturns(p) \/ \E o \in ioCall[p].cut : CancelPending(p, o)
  PROVE  IoInv'
<1>1. CASE \E kind \in Kinds : BeginCall(p, kind)
  BY <1>1, BeginKeeps
<1>2. CASE TakeResult(p)
  BY <1>2, TakeKeeps, TakeMoreKeeps DEF TakeResult
<1>3. CASE SubmitOp(p)
  BY <1>3, SubmitKeeps
<1>4. CASE TrackOrphan(p)
  BY <1>4, FoundKeeps, MissedKeeps
<1>5. CASE TrackPending(p)
  BY <1>5, PendingKeeps
<1>6. CASE Suspend(p)
  BY <1>6, CloseKeeps, ParkKeeps
<1>7. CASE TimerExpires(p)
  BY <1>7, ExpiryKeeps
<1>8. CASE Resume(p)
  BY <1>8, ResumeKeeps
<1>9. CASE CancelCollect(p)
  BY <1>9, CollectKeeps
<1>10. CASE CancelMark(p)
  BY <1>10, MarkKeeps
<1>11. CASE CancelReturns(p)
  BY <1>11, ReturnKeeps
<1>12. CASE \E o \in ioCall[p].cut : CancelPending(p, o)
  BY <1>12, DropKeeps, SkipKeeps
<1>13. QED
  BY <1>1, <1>2, <1>3, <1>4, <1>5, <1>6, <1>7, <1>8, <1>9, <1>10, <1>11, <1>12

(* Every step keeps the invariant. *)
LEMMA IoStepKeeps ==
  ASSUME IoInv, [IoNextStep]_ioVars
  PROVE  IoInv'
<1>1. CASE UNCHANGED ioVars
  BY <1>1, IoStutters
<1>2. CASE \E o \in Ops : RingCompletes(o) \/ DrainPoll(o)
  BY <1>2, RingKeeps, PollKeeps
<1>3. CASE DrainCanceled \/ DrainOrphan \/ DrainInsert \/ DrainCheck
  BY <1>3, CanceledKeeps, OrphanKeeps, InsertKeeps, CheckKeeps
<1>4. CASE DrainRearm
  BY <1>4, OnceKeeps, RearmKeeps
<1>5. CASE \E ended \in BOOLEAN : DrainData(ended)
  BY <1>5, DataKeeps
<1>6. ASSUME NEW p \in IoProcs, \E mode \in Modes : SetMode(p, mode)
      PROVE  IoInv'
  BY <1>6, ModeKeeps, ArmedKeeps
<1>7. ASSUME NEW p \in IoProcs, ArmRead(p) \/ \E q \in IoProcs : GiveSocket(p, q)
      PROVE  IoInv'
  BY <1>7, ArmKeeps, GiveKeeps
<1>8. ASSUME NEW p \in IoProcs, Kill(p) \/ Purge(p) \/ EndOfDead(p)
      PROVE  IoInv'
  BY <1>8, KillKeeps, PurgeKeeps, EndKeeps
<1>9. QED
  BY <1>1, <1>2, <1>3, <1>4, <1>5, <1>6, <1>7, <1>8, CallStepKeeps DEF IoNextStep

(* And every behaviour. *)
LEMMA IoAlways == IoSpec => []IoInv
BY IoStarts, IoStepKeeps, PTL DEF IoSpec

(* A process of worker 0 that parks on a file operation or a close has an  *)
(* operation that is pending and yet to complete, or its completion is     *)
(* with the drain or is its result already: whatever the number of         *)
(* processes, calls and operations, no completion passes a parked process  *)
(* of worker 0 by (track_submitted_file_io, drain_file_io_completions).    *)
THEOREM ParkedIsResumed == IoSpec => []ParkedWillBeResumed
<1>1. IoInv => ParkedWillBeResumed
  BY DEF IoInv, WaitInv, Waits, ParkedWillBeResumed
<1>2. QED
  BY <1>1, IoAlways, PTL

(* No completion stays under a process that was killed while parked: the   *)
(* purge, or else the drain's own look at the table, takes it back         *)
(* (deliver_file_io_result, purge_suspension_state).                       *)
THEOREM DeadKeepNoResult == IoSpec => []NoResultForDead
<1>1. IoInv => NoResultForDead
  BY DEF IoInv, DeadInv
<1>2. QED
  BY <1>1, IoAlways, PTL

(* A completion is consumed by the call that submitted its operation, and  *)
(* one that a timeout dropped is never a result again.  The first half     *)
(* needs that no process of worker 0 receives datagrams: udp_recv leaves   *)
(* its operation pending when it times out.                                *)
THEOREM LateIsNeverApplied ==
  ASSUME NoDatagrams
  PROVE  IoSpec => []LateNeverApplied
<1>1. IoInv => LateNeverApplied
  <2> SUFFICES ASSUME IoInv PROVE LateNeverApplied
    OBVIOUS
  <2>1. OnePart /\ AppliedInTime
    BY NoDatagrams DEF IoInv, IoShape, CallsInv
  <2>2. QED
    BY <2>1 DEF OnePart, DrainHolds, AppliedInTime, LateNeverApplied
<1>2. QED
  BY <1>1, IoAlways, PTL

-----------------------------------------------------------------------------
(* Mailbox: the invariant *)

Queues ==
  arrival \in Seq(Signal) /\ scanList \in Seq(Signal) /\ pendingOf \in [Lanes -> Seq(Signal)]

OwnerTypes ==
  /\ body \in {"present", "executing"} /\ at \in {"code", "rec", "message", "wait"}
  /\ want \subseteq Senders /\ marked \in BOOLEAN /\ staleMarker \in BOOLEAN

(* Where the lanes lead, and in what order. *)
Behind(x, y) ==
  x.from = y.from /\ x.lane = y.lane /\ x.lane # "local" => x.n < y.n

LaneInv ==
  /\ body = "present" => \A l \in Lanes : pendingOf[l] = <<>>
  /\ \A x \in Range(arrival) : x.lane = "local"
  /\ \A l \in Lanes : \A x \in Range(pendingOf[l]) : x.lane = l

OrderInv ==
  /\ InOrder(scanList)
  /\ \A l \in Lanes : InOrder(pendingOf[l])
  /\ \A l \in Lanes : \A x \in Range(scanList), y \in Range(pendingOf[l]) : Behind(x, y)

QueueInv == Queues /\ LaneInv /\ OrderInv

(* The pointer and the markers are positions of the scan list.  A receive   *)
(* starts from the front or from the marker; until a message is removed,    *)
(* the marker counts what was there when it was reserved.                   *)
PointerInv ==
  /\ savePointer \in Nat /\ savePointer <= Len(scanList)
  /\ at = "message" => savePointer < Len(scanList)
  /\ at = "code" => savePointer = 0
  /\ recvMarker \in Nat \cup {NoMarker} /\ reserved \in Nat \cup {NoMarker}
  /\ recvMarker # NoMarker => reserved # NoMarker /\ recvMarker <= reserved
  /\ reserved # NoMarker /\ ~staleMarker =>
       reserved <= Len(scanList) /\ \A i \in 1..reserved : scanList[i] \in before

(* Every signal accepted is held or was received, and none twice; its       *)
(* number is at most the last its sender used.                              *)
Held == arrival \o scanList \o Merged

CountInv ==
  /\ sends \in [Senders -> Nat] /\ accepted \subseteq Signal /\ IsFiniteSet(accepted)
  /\ Range(Held) \cup taken = accepted
  /\ Len(Held) + Cardinality(taken) = Cardinality(accepted)
  /\ \A x \in accepted : x.n <= sends[x.from]

MbInv == OwnerTypes /\ QueueInv /\ PointerInv /\ CountInv /\ ReceiveSkipsNothing

-----------------------------------------------------------------------------
(* Lemmas about sequences of signals *)

(* Two sequences in a row hold what both hold. *)
LEMMA Concatenated ==
  ASSUME NEW s \in Seq(Signal), NEW t \in Seq(Signal)
  PROVE  /\ s \o t \in Seq(Signal) /\ Len(s \o t) = Len(s) + Len(t)
         /\ \A i \in 1..Len(s) : (s \o t)[i] = s[i]
         /\ \A i \in 1..Len(t) : (s \o t)[Len(s) + i] = t[i]
         /\ Range(s \o t) = Range(s) \cup Range(t)
<1>1. s \o t \in Seq(Signal) /\ Len(s \o t) = Len(s) + Len(t)
  OBVIOUS
<1>2. \A i \in 1..Len(s) : (s \o t)[i] = s[i]
  OBVIOUS
<1>3. \A i \in 1..Len(t) : (s \o t)[Len(s) + i] = t[i]
  OBVIOUS
<1>4. \A i \in 1..Len(s \o t) : i \in 1..Len(s) \/ \E j \in 1..Len(t) : i = Len(s) + j
  <2> TAKE i \in 1..Len(s \o t)
  <2>1. CASE i <= Len(s)
    BY <2>1, <1>1
  <2>2. CASE i > Len(s)
    <3>1. i - Len(s) \in 1..Len(t) /\ i = Len(s) + (i - Len(s))
      BY <2>2, <1>1
    <3> QED BY <3>1
  <2> QED BY <2>1, <2>2, <1>1
<1>5. DOMAIN s = 1..Len(s) /\ DOMAIN t = 1..Len(t) /\ DOMAIN (s \o t) = 1..Len(s \o t)
  BY <1>1
<1>6. Range(s \o t) \subseteq Range(s) \cup Range(t)
  <2> SUFFICES ASSUME NEW i \in 1..Len(s \o t) PROVE (s \o t)[i] \in Range(s) \cup Range(t)
    BY <1>5 DEF Range
  <2>1. CASE i \in 1..Len(s)
    BY <2>1, <1>2, <1>5 DEF Range
  <2>2. CASE \E j \in 1..Len(t) : i = Len(s) + j
    BY <2>2, <1>3, <1>5 DEF Range
  <2> QED BY <2>1, <2>2, <1>4
<1>7. Range(s) \subseteq Range(s \o t)
  <2> SUFFICES ASSUME NEW i \in 1..Len(s) PROVE s[i] \in Range(s \o t)
    BY <1>5 DEF Range
  <2>1. i \in 1..Len(s \o t) /\ (s \o t)[i] = s[i]
    BY <1>1, <1>2
  <2> QED BY <2>1, <1>5 DEF Range
<1>8. Range(t) \subseteq Range(s \o t)
  <2> SUFFICES ASSUME NEW i \in 1..Len(t) PROVE t[i] \in Range(s \o t)
    BY <1>5 DEF Range
  <2>1. Len(s) + i \in 1..Len(s \o t) /\ (s \o t)[Len(s) + i] = t[i]
    BY <1>1, <1>3
  <2> QED BY <2>1, <1>5 DEF Range
<1> QED BY <1>1, <1>2, <1>3, <1>6, <1>7, <1>8

(* One signal more at the end. *)
LEMMA Appended ==
  ASSUME NEW s \in Seq(Signal), NEW x \in Signal
  PROVE  /\ Append(s, x) \in Seq(Signal) /\ Len(Append(s, x)) = Len(s) + 1
         /\ \A i \in 1..Len(s) : Append(s, x)[i] = s[i]
         /\ Append(s, x)[Len(s) + 1] = x
         /\ Range(Append(s, x)) = Range(s) \cup {x}
<1>1. Append(s, x) \in Seq(Signal) /\ Len(Append(s, x)) = Len(s) + 1
  OBVIOUS
<1>2. (\A i \in 1..Len(s) : Append(s, x)[i] = s[i]) /\ Append(s, x)[Len(s) + 1] = x
  OBVIOUS
<1>3. DOMAIN s = 1..Len(s) /\ DOMAIN Append(s, x) = 1..(Len(s) + 1)
  BY <1>1
<1>4. \A i \in 1..(Len(s) + 1) : i \in 1..Len(s) \/ i = Len(s) + 1
  OBVIOUS
<1>5. 1..Len(s) \subseteq 1..(Len(s) + 1) /\ Len(s) + 1 \in 1..(Len(s) + 1)
  OBVIOUS
<1>6. Range(Append(s, x)) \subseteq Range(s) \cup {x}
  BY <1>2, <1>3, <1>4 DEF Range
<1>7. Range(s) \cup {x} \subseteq Range(Append(s, x))
  BY <1>2, <1>3, <1>5 DEF Range
<1> QED BY <1>1, <1>2, <1>6, <1>7

(* Two sequences in a row are in order when each is and all of the first    *)
(* may stand before all of the second.                                      *)
LEMMA OrderedConcatenation ==
  ASSUME NEW s \in Seq(Signal), NEW t \in Seq(Signal), InOrder(s), InOrder(t),
         \A x \in Range(s), y \in Range(t) : Behind(x, y)
  PROVE  InOrder(s \o t)
<1> DEFINE q == s \o t
<1>1. /\ q \in Seq(Signal) /\ Len(q) = Len(s) + Len(t)
      /\ \A i \in 1..Len(s) : q[i] = s[i]
      /\ \A i \in 1..Len(t) : q[Len(s) + i] = t[i]
  BY Concatenated
<1>2. DOMAIN s = 1..Len(s) /\ DOMAIN t = 1..Len(t) /\ DOMAIN q = 1..(Len(s) + Len(t))
  BY <1>1
<1> HIDE DEF q
<1> SUFFICES ASSUME NEW i \in 1..(Len(s) + Len(t)), NEW j \in 1..(Len(s) + Len(t)), i < j
             PROVE  Behind(q[i], q[j])
  BY <1>2 DEF InOrder, Behind, q
<1>3. CASE j <= Len(s)
  <2>1. i \in 1..Len(s) /\ j \in 1..Len(s)
    BY <1>3
  <2> QED BY <2>1, <1>1, <1>2 DEF InOrder, Behind
<1>4. CASE i > Len(s)
  <2>1. i - Len(s) \in 1..Len(t) /\ j - Len(s) \in 1..Len(t) /\ i - Len(s) < j - Len(s)
    BY <1>4
  <2>2. q[i] = t[i - Len(s)] /\ q[j] = t[j - Len(s)]
    <3>1. i = Len(s) + (i - Len(s)) /\ j = Len(s) + (j - Len(s))
      OBVIOUS
    <3> QED BY <3>1, <2>1, <1>1
  <2> QED BY <2>1, <2>2, <1>2 DEF InOrder, Behind
<1>5. CASE i <= Len(s) /\ j > Len(s)
  <2>1. i \in 1..Len(s) /\ j - Len(s) \in 1..Len(t) /\ j = Len(s) + (j - Len(s))
    BY <1>5
  <2>2. q[i] = s[i] /\ q[j] = t[j - Len(s)]
    BY <2>1, <1>1
  <2>3. s[i] \in Range(s) /\ t[j - Len(s)] \in Range(t)
    BY <2>1, <1>2 DEF Range
  <2> QED BY <2>2, <2>3
<1> QED BY <1>3, <1>4, <1>5

(* A signal taken out, and the arrivals behind the rest. *)
LEMMA Removed ==
  ASSUME NEW s \in Seq(Signal), NEW k \in 1..Len(s)
  PROVE  /\ RemoveAt(s, k) \in Seq(Signal) /\ Len(RemoveAt(s, k)) = Len(s) - 1
         /\ Range(RemoveAt(s, k)) \cup {s[k]} = Range(s)
         /\ InOrder(s) => InOrder(RemoveAt(s, k))
<1> DEFINE q == RemoveAt(s, k)
<1>1. q = SubSeq(s, 1, k - 1) \o SubSeq(s, k + 1, Len(s))
  BY DEF RemoveAt
<1>2. /\ SubSeq(s, 1, k - 1) \in Seq(Signal) /\ Len(SubSeq(s, 1, k - 1)) = k - 1
      /\ \A i \in 1..(k - 1) : SubSeq(s, 1, k - 1)[i] = s[i]
  OBVIOUS
<1>3. /\ SubSeq(s, k + 1, Len(s)) \in Seq(Signal) /\ Len(SubSeq(s, k + 1, Len(s))) = Len(s) - k
      /\ \A i \in 1..(Len(s) - k) : SubSeq(s, k + 1, Len(s))[i] = s[k + i]
  OBVIOUS
<1> DEFINE u == SubSeq(s, 1, k - 1)
           v == SubSeq(s, k + 1, Len(s))
<1> HIDE DEF q, u, v
<1>0. /\ u \o v \in Seq(Signal) /\ Len(u \o v) = Len(u) + Len(v)
      /\ \A i \in 1..Len(u) : (u \o v)[i] = u[i]
      /\ \A i \in 1..Len(v) : (u \o v)[Len(u) + i] = v[i]
  <2>1. u \in Seq(Signal) /\ v \in Seq(Signal)
    BY <1>2, <1>3 DEF u, v
  <2> QED BY <2>1, Concatenated
<1>4. q \in Seq(Signal) /\ Len(q) = Len(s) - 1
  <2>1. Len(s) - 1 = (k - 1) + (Len(s) - k)
    OBVIOUS
  <2> QED BY <1>0, <1>1, <1>2, <1>3, <2>1 DEF u, v
<1>5. \A i \in 1..(k - 1) : q[i] = s[i]
  <2> TAKE i \in 1..(k - 1)
  <2>1. q = u \o v /\ Len(u) = k - 1 /\ u[i] = s[i]
    BY <1>1, <1>2 DEF u, v
  <2> QED BY <2>1, <1>0
<1>6. \A i \in k..(Len(s) - 1) : q[i] = s[i + 1]
  <2> TAKE i \in k..(Len(s) - 1)
  <2>1. i - (k - 1) \in 1..(Len(s) - k) /\ i = (k - 1) + (i - (k - 1)) /\ k + (i - (k - 1)) = i + 1
    OBVIOUS
  <2>2. q[(k - 1) + (i - (k - 1))] = SubSeq(s, k + 1, Len(s))[i - (k - 1)]
    <3>1. q = u \o v /\ Len(u) = k - 1 /\ Len(v) = Len(s) - k
      BY <1>1, <1>2, <1>3 DEF u, v
    <3>2. q[(k - 1) + (i - (k - 1))] = v[i - (k - 1)]
      BY <3>1, <2>1, <1>0
    <3> QED BY <3>2 DEF v
  <2> QED BY <2>1, <2>2, <1>3
<1>7. DOMAIN s = 1..Len(s) /\ DOMAIN q = 1..(Len(s) - 1)
  BY <1>4
<1> HIDE DEF q
<1>8. Range(q) \subseteq Range(s)
  <2> SUFFICES ASSUME NEW i \in 1..(Len(s) - 1) PROVE q[i] \in Range(s)
    BY <1>7 DEF Range
  <2>1. i \in 1..Len(s) /\ i + 1 \in 1..Len(s) /\ (i \in 1..(k - 1) \/ i \in k..(Len(s) - 1))
    OBVIOUS
  <2> QED BY <2>1, <1>5, <1>6, <1>7 DEF Range
<1>9. Range(s) \subseteq Range(q) \cup {s[k]}
  <2> SUFFICES ASSUME NEW i \in 1..Len(s), i # k PROVE s[i] \in Range(q)
    BY <1>7 DEF Range
  <2>1. CASE i < k
    <3>1. i \in 1..(k - 1) /\ i \in 1..(Len(s) - 1)
      BY <2>1
    <3> QED BY <3>1, <1>5, <1>7 DEF Range
  <2>2. CASE i > k
    <3>1. i - 1 \in k..(Len(s) - 1) /\ i - 1 \in 1..(Len(s) - 1) /\ (i - 1) + 1 = i
      BY <2>2
    <3>2. q[i - 1] = s[i]
      BY <3>1, <1>6
    <3> QED BY <3>1, <3>2, <1>7 DEF Range
  <2> QED BY <2>1, <2>2
<1>10. s[k] \in Range(s)
  BY <1>7 DEF Range
<1>11. ASSUME InOrder(s) PROVE InOrder(q)
  <2> SUFFICES ASSUME NEW i \in 1..(Len(s) - 1), NEW j \in 1..(Len(s) - 1), i < j
               PROVE  Behind(q[i], q[j])
    BY <1>7 DEF InOrder, Behind
  <2> DEFINE a == IF i < k THEN i ELSE i + 1
             b == IF j < k THEN j ELSE j + 1
  <2>1. a \in 1..Len(s) /\ q[i] = s[a]
    BY <1>5, <1>6
  <2>2. b \in 1..Len(s) /\ q[j] = s[b]
    BY <1>5, <1>6
  <2>3. a < b
    OBVIOUS
  <2> HIDE DEF a, b
  <2> QED BY <2>1, <2>2, <2>3, <1>7, <1>11 DEF InOrder, Behind
<1> QED BY <1>4, <1>8, <1>9, <1>10, <1>11 DEF q

(* One signal more, later than all that it could follow. *)
LEMMA OrderedAppend ==
  ASSUME NEW s \in Seq(Signal), NEW x \in Signal, InOrder(s), \A y \in Range(s) : Behind(y, x)
  PROVE  InOrder(Append(s, x))
<1> DEFINE q == Append(s, x)
<1>1. /\ q \in Seq(Signal) /\ Len(q) = Len(s) + 1
      /\ \A i \in 1..Len(s) : q[i] = s[i]
      /\ q[Len(s) + 1] = x
  BY Appended
<1>2. DOMAIN s = 1..Len(s) /\ DOMAIN q = 1..(Len(s) + 1)
  BY <1>1
<1> HIDE DEF q
<1> SUFFICES ASSUME NEW i \in 1..(Len(s) + 1), NEW j \in 1..(Len(s) + 1), i < j
             PROVE  Behind(q[i], q[j])
  BY <1>2 DEF InOrder, Behind, q
<1>3. i \in 1..Len(s) /\ (j \in 1..Len(s) \/ j = Len(s) + 1)
  OBVIOUS
<1>4. CASE j \in 1..Len(s)
  BY <1>1, <1>2, <1>3, <1>4 DEF InOrder, Behind
<1>5. CASE j = Len(s) + 1
  <2>1. s[i] \in Range(s)
    BY <1>2, <1>3 DEF Range
  <2> QED BY <2>1, <1>1, <1>3, <1>5
<1> QED BY <1>3, <1>4, <1>5

(* The empty sequence holds nothing. *)
LEMMA EmptySequence == <<>> \in Seq(Signal) /\ Len(<<>>) = 0 /\ Range(<<>>) = {} /\ InOrder(<<>>)
BY DEF Range, InOrder

-----------------------------------------------------------------------------
(* The merge of the pending lists *)

MergeOf(p) ==
  p["exit"] \o p["down"] \o p["io"] \o p["dist"] \o p["local"] \o p["ets"] \o p["udp"] \o p["tcp"]

LengthOf(p) ==
  Len(p["exit"]) + Len(p["down"]) + Len(p["io"]) + Len(p["dist"])
  + Len(p["local"]) + Len(p["ets"]) + Len(p["udp"]) + Len(p["tcp"])

HeldIn(p) == {x \in Signal : \E l \in Lanes : x \in Range(p[l])}

(* The merge holds what the lists hold, in order when each list is. *)
LEMMA MergeFacts ==
  ASSUME NEW p \in [Lanes -> Seq(Signal)]
  PROVE  /\ MergeOf(p) \in Seq(Signal) /\ Len(MergeOf(p)) = LengthOf(p)
         /\ Range(MergeOf(p)) = HeldIn(p)
         /\ (\A l \in Lanes : InOrder(p[l]) /\ \A x \in Range(p[l]) : x.lane = l) => InOrder(MergeOf(p))
<1> DEFINE Ordered == \A l \in Lanes : InOrder(p[l]) /\ \A x \in Range(p[l]) : x.lane = l
           Adds(s, t, S, T) ==
              /\ t \in Seq(Signal) /\ Len(t) = Len(s) + Len(p[T])
              /\ Range(t) = Range(s) \cup Range(p[T])
              /\ Ordered => InOrder(t) /\ \A x \in Range(t) : x.lane \in S \cup {T}
<1>1. ASSUME NEW s \in Seq(Signal), NEW S \in SUBSET Lanes, NEW T \in Lanes, T \notin S,
             Ordered => InOrder(s) /\ \A x \in Range(s) : x.lane \in S
      PROVE  Adds(s, s \o p[T], S, T)
  <2>1. p[T] \in Seq(Signal)
    OBVIOUS
  <2>2. /\ s \o p[T] \in Seq(Signal) /\ Len(s \o p[T]) = Len(s) + Len(p[T])
        /\ Range(s \o p[T]) = Range(s) \cup Range(p[T])
    BY <2>1, Concatenated
  <2>3. ASSUME Ordered PROVE InOrder(s \o p[T]) /\ \A x \in Range(s \o p[T]) : x.lane \in S \cup {T}
    <3>1. InOrder(s) /\ InOrder(p[T]) /\ \A x \in Range(p[T]) : x.lane = T
      BY <2>3, <1>1
    <3>2. \A x \in Range(s), y \in Range(p[T]) : Behind(x, y)
      BY <3>1, <2>3, <1>1 DEF Behind
    <3>3. InOrder(s \o p[T])
      BY <3>1, <3>2, <2>1, OrderedConcatenation
    <3> QED BY <3>1, <3>3, <2>2, <2>3, <1>1
  <2> QED BY <2>2, <2>3
<1> DEFINE s1 == p["exit"]
           s2 == s1 \o p["down"]
           s3 == s2 \o p["io"]
           s4 == s3 \o p["dist"]
           s5 == s4 \o p["local"]
           s6 == s5 \o p["ets"]
           s7 == s6 \o p["udp"]
           s8 == s7 \o p["tcp"]
<1>2. /\ s1 \in Seq(Signal) /\ s8 = MergeOf(p)
      /\ Ordered => InOrder(s1) /\ \A x \in Range(s1) : x.lane \in {"exit"}
  BY DEF MergeOf, Lanes
<1> HIDE DEF Ordered
<1>3. Adds(s1, s2, {"exit"}, "down")
  <2> HIDE DEF s1
  <2> QED BY <1>1, <1>2 DEF Lanes
<1>4. Adds(s2, s3, {"exit", "down"}, "io")
  <2> HIDE DEF s2
  <2>1. s2 \in Seq(Signal) /\ (Ordered => InOrder(s2) /\ \A x \in Range(s2) : x.lane \in {"exit", "down"})
    BY <1>3
  <2>2. {"exit", "down"} \in SUBSET Lanes /\ "io" \in Lanes /\ "io" \notin {"exit", "down"}
    BY DEF Lanes
  <2> HIDE DEF Adds
  <2> QED BY <2>1, <2>2, <1>1 DEF s3
<1>5. Adds(s3, s4, {"exit", "down", "io"}, "dist")
  <2> HIDE DEF s3
  <2>1. s3 \in Seq(Signal) /\ (Ordered => InOrder(s3) /\ \A x \in Range(s3) : x.lane \in {"exit", "down", "io"})
    BY <1>4
  <2>2. {"exit", "down", "io"} \in SUBSET Lanes /\ "dist" \in Lanes /\ "dist" \notin {"exit", "down", "io"}
    BY DEF Lanes
  <2> HIDE DEF Adds
  <2> QED BY <2>1, <2>2, <1>1 DEF s4
<1>6. Adds(s4, s5, {"exit", "down", "io", "dist"}, "local")
  <2> HIDE DEF s4
  <2>1. s4 \in Seq(Signal) /\ (Ordered => InOrder(s4) /\ \A x \in Range(s4) : x.lane \in {"exit", "down", "io", "dist"})
    BY <1>5
  <2>2. {"exit", "down", "io", "dist"} \in SUBSET Lanes /\ "local" \in Lanes /\ "local" \notin {"exit", "down", "io", "dist"}
    BY DEF Lanes
  <2> HIDE DEF Adds
  <2> QED BY <2>1, <2>2, <1>1 DEF s5
<1>7. Adds(s5, s6, {"exit", "down", "io", "dist", "local"}, "ets")
  <2> HIDE DEF s5
  <2>1. s5 \in Seq(Signal) /\ (Ordered => InOrder(s5) /\ \A x \in Range(s5) : x.lane \in {"exit", "down", "io", "dist", "local"})
    BY <1>6
  <2>2. {"exit", "down", "io", "dist", "local"} \in SUBSET Lanes /\ "ets" \in Lanes /\ "ets" \notin {"exit", "down", "io", "dist", "local"}
    BY DEF Lanes
  <2> HIDE DEF Adds
  <2> QED BY <2>1, <2>2, <1>1 DEF s6
<1>8. Adds(s6, s7, {"exit", "down", "io", "dist", "local", "ets"}, "udp")
  <2> HIDE DEF s6
  <2>1. s6 \in Seq(Signal) /\ (Ordered => InOrder(s6) /\ \A x \in Range(s6) : x.lane \in {"exit", "down", "io", "dist", "local", "ets"})
    BY <1>7
  <2>2. {"exit", "down", "io", "dist", "local", "ets"} \in SUBSET Lanes /\ "udp" \in Lanes /\ "udp" \notin {"exit", "down", "io", "dist", "local", "ets"}
    BY DEF Lanes
  <2> HIDE DEF Adds
  <2> QED BY <2>1, <2>2, <1>1 DEF s7
<1>9. Adds(s7, s8, {"exit", "down", "io", "dist", "local", "ets", "udp"}, "tcp")
  <2> HIDE DEF s7
  <2>1. s7 \in Seq(Signal) /\ (Ordered => InOrder(s7) /\ \A x \in Range(s7) : x.lane \in {"exit", "down", "io", "dist", "local", "ets", "udp"})
    BY <1>8
  <2>2. {"exit", "down", "io", "dist", "local", "ets", "udp"} \in SUBSET Lanes /\ "tcp" \in Lanes /\ "tcp" \notin {"exit", "down", "io", "dist", "local", "ets", "udp"}
    BY DEF Lanes
  <2> HIDE DEF Adds
  <2> QED BY <2>1, <2>2, <1>1 DEF s8
<1>10. Range(s1) = Range(p["exit"]) /\ Len(s1) = Len(p["exit"])
  OBVIOUS
<1> HIDE DEF s1, s2, s3, s4, s5, s6, s7, s8
<1>11. Len(s8) = LengthOf(p)
  <2>1. \A l \in Lanes : Len(p[l]) \in Nat
    OBVIOUS
  <2> QED BY <2>1, <1>3, <1>4, <1>5, <1>6, <1>7, <1>8, <1>9, <1>10 DEF LengthOf, Lanes
<1>12. Range(s8) = HeldIn(p)
  <2>1. Range(s8) \subseteq Signal
    BY <1>9 DEF Range
  <2>2. Range(s8) = Range(p["exit"]) \cup Range(p["down"]) \cup Range(p["io"]) \cup Range(p["dist"])
                    \cup Range(p["local"]) \cup Range(p["ets"]) \cup Range(p["udp"]) \cup Range(p["tcp"])
    BY <1>3, <1>4, <1>5, <1>6, <1>7, <1>8, <1>9, <1>10
  <2> QED BY <2>1, <2>2 DEF HeldIn, Lanes
<1> QED BY <1>2, <1>9, <1>11, <1>12 DEF Ordered

(* A signal deferred to one of the lists. *)
LEMMA MergeDeferred ==
  ASSUME NEW p \in [Lanes -> Seq(Signal)], NEW x \in Signal, NEW l \in Lanes,
         NEW q, q = [p EXCEPT ![l] = Append(@, x)]
  PROVE  /\ q \in [Lanes -> Seq(Signal)]
         /\ LengthOf(q) = LengthOf(p) + 1 /\ HeldIn(q) = HeldIn(p) \cup {x}
<1>1. q[l] = Append(p[l], x) /\ \A m \in Lanes : m # l => q[m] = p[m]
  OBVIOUS
<1>2. /\ q[l] \in Seq(Signal) /\ Len(q[l]) = Len(p[l]) + 1 /\ Range(q[l]) = Range(p[l]) \cup {x}
  <2>1. p[l] \in Seq(Signal)
    OBVIOUS
  <2> QED BY <1>1, <2>1, Appended
<1>3. q \in [Lanes -> Seq(Signal)]
  BY <1>2
<1>4. \A m \in Lanes : Len(p[m]) \in Nat /\ Len(q[m]) \in Nat
  BY <1>3
<1>5. \A m \in Lanes : Len(q[m]) = IF m = l THEN Len(p[m]) + 1 ELSE Len(p[m])
  BY <1>1, <1>2
<1>6. LengthOf(q) = LengthOf(p) + 1
  <2>1. CASE l = "exit"
    BY <1>4, <1>5, <2>1 DEF LengthOf, Lanes
  <2>2. CASE l = "down"
    BY <1>4, <1>5, <2>2 DEF LengthOf, Lanes
  <2>3. CASE l = "io"
    BY <1>4, <1>5, <2>3 DEF LengthOf, Lanes
  <2>4. CASE l = "dist"
    BY <1>4, <1>5, <2>4 DEF LengthOf, Lanes
  <2>5. CASE l = "local"
    BY <1>4, <1>5, <2>5 DEF LengthOf, Lanes
  <2>6. CASE l = "ets"
    BY <1>4, <1>5, <2>6 DEF LengthOf, Lanes
  <2>7. CASE l = "udp"
    BY <1>4, <1>5, <2>7 DEF LengthOf, Lanes
  <2>8. CASE l = "tcp"
    BY <1>4, <1>5, <2>8 DEF LengthOf, Lanes
  <2> QED BY <2>1, <2>2, <2>3, <2>4, <2>5, <2>6, <2>7, <2>8 DEF Lanes
<1>7. HeldIn(q) = HeldIn(p) \cup {x}
  BY <1>1, <1>2 DEF HeldIn
<1> QED BY <1>3, <1>6, <1>7

(* Empty lists. *)
LEMMA MergeEmpty ==
  ASSUME NEW p \in [Lanes -> Seq(Signal)], \A l \in Lanes : p[l] = <<>>
  PROVE  LengthOf(p) = 0 /\ HeldIn(p) = {}
<1>1. LengthOf(p) = 0
  BY DEF LengthOf, Lanes
<1>2. HeldIn(p) = {}
  BY EmptySequence DEF HeldIn
<1> QED BY <1>1, <1>2

-----------------------------------------------------------------------------
(* What is held *)

HeldOf(a, s, p) == a \o s \o MergeOf(p)

(* Length and contents of what is held. *)
LEMMA HeldFacts ==
  ASSUME NEW a \in Seq(Signal), NEW s \in Seq(Signal), NEW p \in [Lanes -> Seq(Signal)]
  PROVE  /\ HeldOf(a, s, p) \in Seq(Signal)
         /\ Len(HeldOf(a, s, p)) = Len(a) + Len(s) + LengthOf(p)
         /\ Range(HeldOf(a, s, p)) = Range(a) \cup Range(s) \cup HeldIn(p)
<1>1. /\ MergeOf(p) \in Seq(Signal) /\ Len(MergeOf(p)) = LengthOf(p) /\ Range(MergeOf(p)) = HeldIn(p)
  BY MergeFacts
<1>2. /\ a \o s \in Seq(Signal) /\ Len(a \o s) = Len(a) + Len(s) /\ Range(a \o s) = Range(a) \cup Range(s)
  BY Concatenated
<1> DEFINE as == a \o s
           m == MergeOf(p)
<1> HIDE DEF as, m
<1>3. as \o m \in Seq(Signal) /\ Len(as \o m) = Len(as) + Len(m) /\ Range(as \o m) = Range(as) \cup Range(m)
  BY <1>1, <1>2, Concatenated DEF as, m
<1> QED BY <1>1, <1>2, <1>3 DEF HeldOf, as, m

(* When as many signals are held or received as were accepted, none is both *)
(* held and received.                                                       *)
LEMMA NoneTwice ==
  ASSUME NEW q \in Seq(Signal), NEW T, NEW A, IsFiniteSet(A), Range(q) \cup T = A,
         Len(q) + Cardinality(T) = Cardinality(A)
  PROVE  Range(q) \cap T = {}
<1>1. IsFiniteSet(T) /\ IsFiniteSet(Range(q))
  BY FS_Subset
<1>2. Cardinality(Range(q)) <= Len(q)
  <2>1. q \in Surjection(1..Len(q), Range(q))
    BY DEF Surjection, Range
  <2>2. IsFiniteSet(1..Len(q)) /\ Cardinality(1..Len(q)) = Len(q)
    BY FS_Interval
  <2> QED BY <2>1, <2>2, FS_Surjection
<1>3. Cardinality(A) = Cardinality(Range(q)) + Cardinality(T) - Cardinality(Range(q) \cap T)
  BY <1>1, FS_Union
<1>4. IsFiniteSet(Range(q) \cap T)
  BY <1>1, FS_Subset
<1>5. Cardinality(Range(q) \cap T) = 0
  BY <1>1, <1>2, <1>3, <1>4, FS_CardinalityType
<1> QED BY <1>4, <1>5, FS_EmptySet

-----------------------------------------------------------------------------
(* The steps of the queues *)

(* What a step does to the signals held. *)
HoldsSame == Range(Held') = Range(Held) /\ Len(Held') = Len(Held)

HoldsMore(x) == Range(Held') = Range(Held) \cup {x} /\ Len(Held') = Len(Held) + 1

(* The scan list gets longer at its end. *)
Grows ==
  /\ Len(scanList) \in Nat /\ Len(scanList') \in Nat /\ Len(scanList) <= Len(scanList')
  /\ \A i \in 1..Len(scanList) : scanList'[i] = scanList[i]

(* What is held, now and after a step. *)
LEMMA HeldNow ==
  ASSUME Queues
  PROVE  /\ Held \in Seq(Signal)
         /\ Len(Held) = Len(arrival) + Len(scanList) + LengthOf(pendingOf)
         /\ Range(Held) = Range(arrival) \cup Range(scanList) \cup HeldIn(pendingOf)
<1>1. Held = HeldOf(arrival, scanList, pendingOf)
  BY DEF Held, HeldOf, Merged, MergeOf
<1> QED BY <1>1, HeldFacts DEF Queues

LEMMA HeldNext ==
  ASSUME Queues'
  PROVE  /\ Held' \in Seq(Signal)
         /\ Len(Held') = Len(arrival') + Len(scanList') + LengthOf(pendingOf')
         /\ Range(Held') = Range(arrival') \cup Range(scanList') \cup HeldIn(pendingOf')
<1>1. Held' = HeldOf(arrival', scanList', pendingOf')
  BY DEF Held, HeldOf, Merged, MergeOf
<1> QED BY <1>1, HeldFacts DEF Queues

(* Lengths are numbers. *)
LEMMA LengthsAreNumbers ==
  ASSUME NEW p \in [Lanes -> Seq(Signal)]
  PROVE  LengthOf(p) \in Nat
BY DEF LengthOf, Lanes

(* The queues as they are. *)
LEMMA QueuesKept ==
  ASSUME QueueInv, UNCHANGED <<arrival, scanList, pendingOf>>, body' \in {body, "executing"}
  PROVE  QueueInv' /\ HoldsSame /\ Grows
<1>1. Queues' /\ LaneInv' /\ OrderInv'
  BY DEF QueueInv, Queues, LaneInv, OrderInv
<1>2. Held' = Held
  BY DEF Held, Merged
<1>3. Grows
  BY DEF Grows, QueueInv, Queues
<1> QED BY <1>1, <1>2, <1>3 DEF QueueInv, HoldsSame

(* The arrivals join the scan list. *)
LEMMA ArrivalDrained ==
  ASSUME QueueInv, DrainArrival, body' = body
  PROVE  QueueInv' /\ HoldsSame /\ Grows
<1>1. /\ arrival \in Seq(Signal) /\ scanList \in Seq(Signal) /\ pendingOf \in [Lanes -> Seq(Signal)]
      /\ scanList' = scanList \o arrival /\ arrival' = <<>> /\ pendingOf' = pendingOf
  BY DEF QueueInv, Queues, DrainArrival
<1>2. /\ scanList' \in Seq(Signal) /\ Len(scanList') = Len(scanList) + Len(arrival)
      /\ Range(scanList') = Range(scanList) \cup Range(arrival)
      /\ \A i \in 1..Len(scanList) : scanList'[i] = scanList[i]
  BY <1>1, Concatenated
<1>3. Queues'
  BY <1>1, <1>2 DEF Queues
<1>4. HoldsSame
  <2>1. Len(arrival') = 0 /\ Range(arrival') = {}
    BY <1>1, EmptySequence
  <2>2. Len(arrival) \in Nat /\ Len(scanList) \in Nat /\ LengthOf(pendingOf) \in Nat
    BY <1>1, LengthsAreNumbers
  <2>3. Range(Held') = Range(Held)
    BY <1>1, <1>2, <1>3, <2>1, HeldNow, HeldNext DEF QueueInv
  <2>4. Len(Held') = Len(Held)
    BY <1>1, <1>2, <1>3, <2>1, <2>2, HeldNow, HeldNext DEF QueueInv
  <2> QED BY <2>3, <2>4 DEF HoldsSame
<1>5. LaneInv'
  BY <1>1, EmptySequence DEF QueueInv, LaneInv
<1>6. OrderInv'
  <2>1. InOrder(arrival) /\ \A x \in Range(scanList), y \in Range(arrival) : Behind(x, y)
    <3>1. \A i \in DOMAIN arrival : arrival[i].lane = "local"
      BY DEF QueueInv, LaneInv, Range
    <3>2. \A y \in Range(arrival) : y.lane = "local"
      BY DEF QueueInv, LaneInv
    <3> QED BY <3>1, <3>2 DEF InOrder, Behind
  <2>2. InOrder(scanList')
    BY <1>1, <2>1, OrderedConcatenation DEF QueueInv, OrderInv
  <2>3. \A l \in Lanes : \A x \in Range(scanList'), y \in Range(pendingOf[l]) : Behind(x, y)
    BY <1>2 DEF QueueInv, OrderInv, LaneInv, Behind
  <2> QED BY <1>1, <2>2, <2>3 DEF QueueInv, OrderInv
<1>7. Grows
  BY <1>1, <1>2 DEF Grows
<1> QED BY <1>3, <1>4, <1>5, <1>6, <1>7 DEF QueueInv

(* The pending lists join the scan list. *)
LEMMA PendingStored ==
  ASSUME QueueInv, StoreBack
  PROVE  QueueInv' /\ HoldsSame /\ Grows
<1>1. /\ arrival \in Seq(Signal) /\ scanList \in Seq(Signal) /\ pendingOf \in [Lanes -> Seq(Signal)]
      /\ scanList' = scanList \o MergeOf(pendingOf) /\ arrival' = arrival
      /\ pendingOf' = [l \in Lanes |-> <<>>]
  BY DEF QueueInv, Queues, StoreBack, Merged, MergeOf
<1>2. /\ MergeOf(pendingOf) \in Seq(Signal) /\ Len(MergeOf(pendingOf)) = LengthOf(pendingOf)
      /\ Range(MergeOf(pendingOf)) = HeldIn(pendingOf) /\ InOrder(MergeOf(pendingOf))
  BY <1>1, MergeFacts DEF QueueInv, LaneInv, OrderInv
<1> DEFINE m == MergeOf(pendingOf)
<1> HIDE DEF m
<1>3. /\ scanList' \in Seq(Signal) /\ Len(scanList') = Len(scanList) + Len(m)
      /\ Range(scanList') = Range(scanList) \cup Range(m)
      /\ \A i \in 1..Len(scanList) : scanList'[i] = scanList[i]
  BY <1>1, <1>2, Concatenated DEF m
<1>4. pendingOf' \in [Lanes -> Seq(Signal)] /\ \A l \in Lanes : pendingOf'[l] = <<>>
  BY <1>1, EmptySequence
<1>5. Queues'
  BY <1>1, <1>3, <1>4 DEF Queues
<1>6. HoldsSame
  <2>1. LengthOf(pendingOf') = 0 /\ HeldIn(pendingOf') = {}
    BY <1>4, MergeEmpty
  <2>2. Len(arrival) \in Nat /\ Len(scanList) \in Nat /\ LengthOf(pendingOf) \in Nat
    BY <1>1, LengthsAreNumbers
  <2>3. Range(Held') = Range(Held)
    BY <1>1, <1>2, <1>3, <1>5, <2>1, HeldNow, HeldNext DEF QueueInv, m
  <2>4. Len(Held') = Len(Held)
    BY <1>1, <1>2, <1>3, <1>5, <2>1, <2>2, HeldNow, HeldNext DEF QueueInv, m
  <2> QED BY <2>3, <2>4 DEF HoldsSame
<1>7. LaneInv'
  BY <1>1, <1>4, EmptySequence DEF QueueInv, LaneInv
<1>8. OrderInv'
  <2>1. \A x \in Range(scanList), y \in Range(m) : Behind(x, y)
    BY <1>2 DEF QueueInv, OrderInv, HeldIn, m
  <2>2. InOrder(scanList')
    BY <1>1, <1>2, <2>1, OrderedConcatenation DEF QueueInv, OrderInv, m
  <2> QED BY <1>4, <2>2, EmptySequence DEF OrderInv
<1>9. Grows
  BY <1>1, <1>2, <1>3 DEF Grows, m
<1> QED BY <1>5, <1>6, <1>7, <1>8, <1>9 DEF QueueInv

(* A signal later than every one of its sender's that is held. *)
Newest(x) == x \in Signal /\ \A y \in Range(Held) : y.from = x.from => y.n < x.n

(* It arrives. *)
LEMMA ArrivalGrows ==
  ASSUME QueueInv, NEW x, Newest(x), x.lane = "local", body' = body,
         arrival' = Append(arrival, x), UNCHANGED <<scanList, pendingOf>>
  PROVE  QueueInv' /\ HoldsMore(x) /\ Grows
<1>1. arrival \in Seq(Signal) /\ scanList \in Seq(Signal) /\ pendingOf \in [Lanes -> Seq(Signal)] /\ x \in Signal
  BY DEF QueueInv, Queues, Newest
<1>2. /\ arrival' \in Seq(Signal) /\ Len(arrival') = Len(arrival) + 1
      /\ Range(arrival') = Range(arrival) \cup {x}
  BY <1>1, Appended
<1>3. Queues'
  BY <1>1, <1>2 DEF Queues
<1>4. HoldsMore(x)
  <2>1. Len(arrival) \in Nat /\ Len(scanList) \in Nat /\ LengthOf(pendingOf) \in Nat
    BY <1>1, LengthsAreNumbers
  <2>2. Range(Held') = Range(Held) \cup {x}
    BY <1>2, <1>3, HeldNow, HeldNext DEF QueueInv
  <2>3. Len(Held') = Len(Held) + 1
    BY <1>2, <1>3, <2>1, HeldNow, HeldNext DEF QueueInv
  <2> QED BY <2>2, <2>3 DEF HoldsMore
<1>5. LaneInv' /\ OrderInv'
  BY <1>2 DEF QueueInv, LaneInv, OrderInv
<1>6. Grows
  BY <1>1 DEF Grows
<1> QED BY <1>3, <1>4, <1>5, <1>6 DEF QueueInv

(* It is pushed on the scan list of a body that is in its slot. *)
LEMMA ScanListGrows ==
  ASSUME QueueInv, NEW x, Newest(x), body = "present", body' = body, PushOwned(x)
  PROVE  QueueInv' /\ HoldsMore(x) /\ Grows
<1>1. /\ arrival \in Seq(Signal) /\ scanList \in Seq(Signal) /\ pendingOf \in [Lanes -> Seq(Signal)] /\ x \in Signal
      /\ scanList' = Append(scanList, x) /\ arrival' = arrival /\ pendingOf' = pendingOf
  BY DEF QueueInv, Queues, Newest, PushOwned
<1>2. /\ scanList' \in Seq(Signal) /\ Len(scanList') = Len(scanList) + 1
      /\ Range(scanList') = Range(scanList) \cup {x}
      /\ \A i \in 1..Len(scanList) : scanList'[i] = scanList[i]
  BY <1>1, Appended
<1>3. Queues'
  BY <1>1, <1>2 DEF Queues
<1>4. HoldsMore(x)
  <2>1. Len(arrival) \in Nat /\ Len(scanList) \in Nat /\ LengthOf(pendingOf) \in Nat
    BY <1>1, LengthsAreNumbers
  <2>2. Range(Held') = Range(Held) \cup {x}
    BY <1>1, <1>2, <1>3, HeldNow, HeldNext DEF QueueInv
  <2>3. Len(Held') = Len(Held) + 1
    BY <1>1, <1>2, <1>3, <2>1, HeldNow, HeldNext DEF QueueInv
  <2> QED BY <2>2, <2>3 DEF HoldsMore
<1>5. LaneInv'
  BY <1>1 DEF QueueInv, LaneInv
<1>6. OrderInv'
  <2>1. \A y \in Range(scanList) : Behind(y, x)
    BY HeldNow DEF QueueInv, Newest, Behind
  <2>2. InOrder(scanList')
    BY <1>1, <2>1, OrderedAppend DEF QueueInv, OrderInv
  <2>3. \A l \in Lanes : Range(pendingOf[l]) = {}
    BY EmptySequence DEF QueueInv, LaneInv
  <2> QED BY <1>1, <2>2, <2>3 DEF QueueInv, OrderInv
<1>7. Grows
  BY <1>1, <1>2 DEF Grows
<1> QED BY <1>3, <1>4, <1>5, <1>6, <1>7 DEF QueueInv

(* It waits for the body that is out on a worker. *)
LEMMA PendingGrows ==
  ASSUME QueueInv, NEW x, Newest(x), body # "present", body' = body, Defer(x)
  PROVE  QueueInv' /\ HoldsMore(x) /\ Grows
<1>1. /\ arrival \in Seq(Signal) /\ scanList \in Seq(Signal) /\ pendingOf \in [Lanes -> Seq(Signal)]
      /\ x \in Signal /\ x.lane \in Lanes
      /\ pendingOf' = [pendingOf EXCEPT ![x.lane] = Append(@, x)] /\ arrival' = arrival /\ scanList' = scanList
  BY DEF QueueInv, Queues, Newest, Defer, Signal
<1>2. PICK l \in Lanes : l = x.lane
  BY <1>1
<1>3. /\ pendingOf' \in [Lanes -> Seq(Signal)]
      /\ LengthOf(pendingOf') = LengthOf(pendingOf) + 1 /\ HeldIn(pendingOf') = HeldIn(pendingOf) \cup {x}
  BY <1>1, <1>2, MergeDeferred
<1>4. pendingOf[l] \in Seq(Signal) /\ pendingOf'[l] = Append(pendingOf[l], x)
  BY <1>1, <1>2
<1>5. \A m \in Lanes : m # l => pendingOf'[m] = pendingOf[m]
  BY <1>1, <1>2
<1>6. Range(pendingOf'[l]) = Range(pendingOf[l]) \cup {x}
  BY <1>1, <1>4, Appended
<1>7. Queues'
  BY <1>1, <1>3 DEF Queues
<1>8. HoldsMore(x)
  <2>1. Len(arrival) \in Nat /\ Len(scanList) \in Nat /\ LengthOf(pendingOf) \in Nat
    BY <1>1, LengthsAreNumbers
  <2>2. Range(Held') = Range(Held) \cup {x}
    BY <1>1, <1>3, <1>7, HeldNow, HeldNext DEF QueueInv
  <2>3. Len(Held') = Len(Held) + 1
    BY <1>1, <1>3, <1>7, <2>1, HeldNow, HeldNext DEF QueueInv
  <2> QED BY <2>2, <2>3 DEF HoldsMore
<1>9. LaneInv'
  <2>1. \A m \in Lanes : \A y \in Range(pendingOf'[m]) : y.lane = m
    BY <1>2, <1>5, <1>6 DEF QueueInv, LaneInv
  <2> QED BY <1>1, <2>1 DEF QueueInv, LaneInv
<1>10. OrderInv'
  <2>1. Range(pendingOf[l]) \subseteq Range(Held) /\ Range(scanList) \subseteq Range(Held)
    <3>1. Range(pendingOf[l]) \subseteq Signal
      BY <1>4 DEF Range
    <3> QED BY <3>1, HeldNow DEF QueueInv, HeldIn
  <2>2. InOrder(pendingOf'[l])
    <3>1. \A y \in Range(pendingOf[l]) : Behind(y, x)
      BY <2>1 DEF Newest, Behind
    <3> QED BY <1>1, <1>4, <3>1, OrderedAppend DEF QueueInv, OrderInv
  <2>3. \A y \in Range(scanList) : Behind(y, x)
    BY <2>1 DEF Newest, Behind
  <2> QED BY <1>1, <1>5, <1>6, <2>2, <2>3 DEF QueueInv, OrderInv
<1>11. Grows
  BY <1>1 DEF Grows
<1> QED BY <1>7, <1>8, <1>9, <1>10, <1>11 DEF QueueInv

(* A message is taken out of the scan list. *)
LEMMA ScanListShrinks ==
  ASSUME QueueInv, NEW k \in 1..Len(scanList), body' = body, arrival' = <<>>, pendingOf' = pendingOf,
         scanList' = RemoveAt(scanList, k) \o arrival
  PROVE  /\ QueueInv'
         /\ Range(Held') \cup {scanList[k]} = Range(Held) /\ Len(Held') + 1 = Len(Held)
<1> DEFINE r == RemoveAt(scanList, k)
<1>1. arrival \in Seq(Signal) /\ scanList \in Seq(Signal) /\ pendingOf \in [Lanes -> Seq(Signal)]
  BY DEF QueueInv, Queues
<1>2. /\ r \in Seq(Signal) /\ Len(r) = Len(scanList) - 1 /\ Range(r) \cup {scanList[k]} = Range(scanList)
      /\ InOrder(r)
  BY <1>1, Removed DEF QueueInv, OrderInv
<1>3. scanList' = r \o arrival
  OBVIOUS
<1> HIDE DEF r
<1>4. /\ scanList' \in Seq(Signal) /\ Len(scanList') = Len(r) + Len(arrival)
      /\ Range(scanList') = Range(r) \cup Range(arrival)
  BY <1>1, <1>2, <1>3, Concatenated
<1>5. Queues'
  BY <1>1, <1>4 DEF Queues
<1>6. LaneInv'
  BY EmptySequence DEF QueueInv, LaneInv
<1>7. OrderInv'
  <2>1. \A y \in Range(arrival) : y.lane = "local"
    BY DEF QueueInv, LaneInv
  <2>2. InOrder(arrival)
    BY <2>1 DEF InOrder, Range
  <2>3. \A x \in Range(r), y \in Range(arrival) : Behind(x, y)
    BY <2>1 DEF Behind
  <2>4. InOrder(scanList')
    BY <1>1, <1>2, <1>3, <2>2, <2>3, OrderedConcatenation
  <2>5. \A l \in Lanes : \A x \in Range(scanList'), y \in Range(pendingOf[l]) : Behind(x, y)
    BY <1>2, <1>4, <2>1 DEF QueueInv, OrderInv, Behind
  <2> QED BY <2>4, <2>5 DEF QueueInv, OrderInv
<1>8. Len(arrival') = 0 /\ Range(arrival') = {}
  BY EmptySequence
<1>9. Range(Held') \cup {scanList[k]} = Range(Held)
  BY <1>2, <1>4, <1>5, <1>8, HeldNow, HeldNext DEF QueueInv
<1>10. Len(Held') + 1 = Len(Held)
  <2>1. Len(arrival) \in Nat /\ Len(scanList) \in Nat /\ LengthOf(pendingOf) \in Nat
    BY <1>1, LengthsAreNumbers
  <2> QED BY <1>2, <1>4, <1>5, <1>8, <2>1, HeldNow, HeldNext DEF QueueInv
<1> QED BY <1>5, <1>6, <1>7, <1>9, <1>10 DEF QueueInv

-----------------------------------------------------------------------------
(* Pointers and counts *)

(* What is added at the end of the scan list moves nothing that the pointer *)
(* or a marker counts.                                                      *)
LEMMA PointersKept ==
  ASSUME PointerInv, ReceiveSkipsNothing, Grows,
         UNCHANGED <<savePointer, recvMarker, reserved, want, marked, before, staleMarker>>,
         at' = "code" <=> at = "code", at' = "message" => savePointer < Len(scanList')
  PROVE  PointerInv' /\ ReceiveSkipsNothing'
<1>1. /\ Len(scanList) \in Nat /\ Len(scanList') \in Nat /\ Len(scanList) <= Len(scanList')
      /\ \A i \in 1..Len(scanList) : scanList'[i] = scanList[i]
  BY DEF Grows
<1>2. reserved # NoMarker /\ ~staleMarker =>
        reserved <= Len(scanList') /\ \A i \in 1..reserved : scanList'[i] \in before
  <2> HAVE reserved # NoMarker /\ ~staleMarker
  <2>1. reserved \in Nat /\ reserved <= Len(scanList) /\ \A i \in 1..reserved : scanList[i] \in before
    BY DEF PointerInv
  <2>2. \A i \in 1..reserved : i \in 1..Len(scanList)
    BY <1>1, <2>1
  <2> QED BY <1>1, <2>1, <2>2
<1>3. PointerInv'
  BY <1>1, <1>2 DEF PointerInv
<1>4. ReceiveSkipsNothing'
  <2>1. \A i \in 1..savePointer : i \in 1..Len(scanList)
    BY <1>1 DEF PointerInv
  <2> QED BY <1>1, <2>1 DEF ReceiveSkipsNothing, Wanted
<1> QED BY <1>3, <1>4

(* Nothing is accepted and nothing received. *)
LEMMA CountKept ==
  ASSUME CountInv, HoldsSame, UNCHANGED <<accepted, taken>>,
         sends' \in [Senders -> Nat], \A s \in Senders : sends[s] <= sends'[s]
  PROVE  CountInv'
<1>1. \A x \in accepted : x.n <= sends'[x.from]
  <2> TAKE x \in accepted
  <2>1. x.n \in Nat /\ x.from \in Senders /\ x.n <= sends[x.from]
    BY DEF CountInv, Signal
  <2>2. sends[x.from] \in Nat /\ sends'[x.from] \in Nat /\ sends[x.from] <= sends'[x.from]
    BY <2>1 DEF CountInv
  <2> QED BY <2>1, <2>2
<1> QED BY <1>1 DEF CountInv, HoldsSame

(* The next signal of a sender is later than every one of its signals. *)
LEMMA NextIsNewest ==
  ASSUME CountInv, NEW s \in Senders, NEW l \in Lanes
  PROVE  /\ Newest(Next1(s, l)) /\ Next1(s, l) \notin accepted
         /\ Next1(s, l).from = s /\ Next1(s, l).lane = l /\ Next1(s, l).n = sends[s] + 1
<1>1. sends[s] \in Nat
  BY DEF CountInv
<1>2. PICK x : x = Next1(s, l)
  OBVIOUS
<1>3. x \in Signal /\ x.from = s /\ x.lane = l /\ x.n = sends[s] + 1
  BY <1>1, <1>2 DEF Next1, Signal
<1>4. \A y \in accepted : y.from = s => y.n < x.n
  <2> TAKE y \in accepted
  <2>1. y.n \in Nat /\ y.n <= sends[y.from]
    BY DEF CountInv, Signal
  <2> QED BY <1>1, <1>3, <2>1
<1>5. x \notin accepted
  BY <1>1, <1>3, <1>4
<1>6. Range(Held) \subseteq accepted
  BY DEF CountInv
<1> QED BY <1>2, <1>3, <1>4, <1>5, <1>6 DEF Newest

(* One signal more is accepted, and held. *)
LEMMA CountMore ==
  ASSUME CountInv, NEW s \in Senders, NEW l \in Lanes, HoldsMore(Next1(s, l)), Accept(Next1(s, l)),
         Queues, taken' = taken
  PROVE  CountInv'
<1>1. PICK x : x = Next1(s, l)
  OBVIOUS
<1>2. x \in Signal /\ x \notin accepted /\ x.from = s /\ x.n = sends[s] + 1
  BY <1>1, NextIsNewest DEF Newest
<1>3. accepted' = accepted \cup {x} /\ sends' = [sends EXCEPT ![s] = sends[s] + 1]
  BY <1>1, <1>2 DEF Accept
<1>4. Range(Held') = Range(Held) \cup {x} /\ Len(Held') = Len(Held) + 1
  BY <1>1 DEF HoldsMore
<1>5. IsFiniteSet(accepted') /\ Cardinality(accepted') = Cardinality(accepted) + 1
  BY <1>2, <1>3, FS_AddElement DEF CountInv
<1>6. sends' \in [Senders -> Nat] /\ accepted' \subseteq Signal
  BY <1>2, <1>3 DEF CountInv
<1>7. \A y \in accepted' : y.n <= sends'[y.from]
  <2> TAKE y \in accepted'
  <2>1. y \in Signal /\ y.from \in Senders /\ y.n \in Nat
    BY <1>6 DEF Signal
  <2>2. CASE y = x
    BY <2>2, <1>2, <1>3 DEF CountInv
  <2>3. CASE y \in accepted
    <3>1. y.n <= sends[y.from] /\ sends[y.from] \in Nat /\ sends[s] \in Nat
      BY <2>1, <2>3 DEF CountInv
    <3>2. sends'[y.from] = IF y.from = s THEN sends[s] + 1 ELSE sends[y.from]
      BY <2>1, <1>3 DEF CountInv
    <3> QED BY <2>1, <3>1, <3>2
  <2> QED BY <2>2, <2>3, <1>3
<1>8. Len(Held') + Cardinality(taken) = Cardinality(accepted')
  <2>1. Len(Held) \in Nat /\ Cardinality(taken) \in Nat /\ Cardinality(accepted) \in Nat
    <3>1. Held \in Seq(Signal)
      BY HeldNow
    <3>2. IsFiniteSet(taken)
      BY FS_Subset DEF CountInv
    <3> QED BY <3>1, <3>2, FS_CardinalityType DEF CountInv
  <2> QED BY <2>1, <1>4, <1>5 DEF CountInv
<1>9. Range(Held') \cup taken = accepted'
  BY <1>3, <1>4 DEF CountInv
<1> QED BY <1>5, <1>6, <1>7, <1>8, <1>9 DEF CountInv

(* A signal that was held is received. *)
LEMMA CountReceived ==
  ASSUME CountInv, Queues, Queues', NEW x \in Range(Held),
         Range(Held') \cup {x} = Range(Held), Len(Held') + 1 = Len(Held),
         taken' = taken \cup {x}, UNCHANGED <<accepted, sends>>
  PROVE  CountInv'
<1>1. Held \in Seq(Signal) /\ Held' \in Seq(Signal)
  BY HeldNow, HeldNext
<1>2. x \notin taken
  BY <1>1, NoneTwice DEF CountInv
<1>3. IsFiniteSet(taken)
  BY FS_Subset DEF CountInv
<1>4. Cardinality(taken') = Cardinality(taken) + 1 /\ Cardinality(taken) \in Nat
  BY <1>2, <1>3, FS_AddElement, FS_CardinalityType
<1>5. Len(Held') \in Nat /\ Len(Held) \in Nat
  BY <1>1
<1>6. Len(Held') + Cardinality(taken') = Cardinality(accepted)
  BY <1>4, <1>5 DEF CountInv
<1>7. Range(Held') \cup taken' = accepted
  BY DEF CountInv
<1> QED BY <1>6, <1>7 DEF CountInv

-----------------------------------------------------------------------------
(* Mailbox: the steps *)

(* A signal is delivered to the owner, whatever it is about. *)
LEMMA DeliveryKeeps ==
  ASSUME MbInv, NEW s \in Senders, NEW l \in Lanes, Accept(Next1(s, l)),
         IF l = "local" THEN DeliverLocal(Next1(s, l)) ELSE DeliverOwned(Next1(s, l)),
         UNCHANGED <<body, scanning, taken, before, staleMarker>>
  PROVE  MbInv'
<1>1. PICK x : x = Next1(s, l)
  OBVIOUS
<1>2. Newest(x) /\ x.lane = l
  BY <1>1, NextIsNewest DEF MbInv
<1>3. QueueInv' /\ HoldsMore(x) /\ Grows
  <2>1. CASE body # "present"
    <3>1. Defer(x)
      BY <1>1, <2>1 DEF DeliverLocal, DeliverOwned
    <3> QED BY <1>2, <2>1, <3>1, PendingGrows DEF MbInv
  <2>2. CASE body = "present" /\ l = "local"
    <3>1. arrival' = Append(arrival, x) /\ UNCHANGED <<scanList, pendingOf>>
      BY <1>1, <2>2 DEF DeliverLocal
    <3> QED BY <1>2, <2>2, <3>1, ArrivalGrows DEF MbInv
  <2>3. CASE body = "present" /\ l # "local"
    <3>1. PushOwned(x)
      BY <1>1, <2>3 DEF DeliverOwned
    <3> QED BY <1>2, <2>3, <3>1, ScanListGrows DEF MbInv
  <2> QED BY <2>1, <2>2, <2>3
<1>4. CountInv'
  BY <1>1, <1>3, CountMore DEF MbInv, QueueInv
<1>5. PointerInv' /\ ReceiveSkipsNothing'
  <2>1. at' = "message" => savePointer < Len(scanList')
    BY <1>3 DEF MbInv, PointerInv, Grows, scanning
  <2> QED BY <1>3, <2>1, PointersKept DEF MbInv, scanning
<1>6. OwnerTypes'
  BY DEF MbInv, OwnerTypes, scanning
<1> QED BY <1>3, <1>4, <1>5, <1>6 DEF MbInv

LEMMA SendKeeps == ASSUME MbInv, NEW s \in Correspondents, Send(s) PROVE MbInv'
<1>1. s \in Senders /\ LaneOf[s] \in Lanes
  BY MailboxAssumption DEF Senders
<1>2. Next1(s, LaneOf[s]).lane = LaneOf[s]
  BY <1>1, NextIsNewest DEF MbInv
<1> QED BY <1>1, <1>2, DeliveryKeeps DEF Send

LEMMA PeerDiesKeeps == ASSUME MbInv, NEW s \in Correspondents, PeerDies(s) PROVE MbInv'
<1>1. s \in Senders /\ DeathLane[s] \in Lanes /\ DeathLane[s] # "local"
  BY MailboxAssumption DEF Senders, PeerDies, None, Lanes
<1> QED BY <1>1, DeliveryKeeps DEF PeerDies

LEMMA SendToSelfKeeps == ASSUME MbInv, SendToSelf PROVE MbInv'
<1> DEFINE s == Owner
<1>1. s \in Senders /\ "local" \in Lanes
  BY DEF Senders, Lanes
<1>2. PICK x : x = Next1(s, "local")
  OBVIOUS
<1>3. Newest(x) /\ x.lane = "local"
  BY <1>1, <1>2, NextIsNewest DEF MbInv
<1>4. /\ arrival' = Append(arrival, x) /\ Accept(x) /\ UNCHANGED <<scanList, pendingOf>> /\ body' = body
      /\ UNCHANGED <<scanning, taken, before, staleMarker>>
  BY <1>2 DEF SendToSelf
<1>5. QueueInv' /\ HoldsMore(x) /\ Grows
  BY <1>3, <1>4, ArrivalGrows DEF MbInv
<1>6. CountInv'
  BY <1>1, <1>2, <1>4, <1>5, CountMore DEF MbInv, QueueInv
<1>7. PointerInv' /\ ReceiveSkipsNothing'
  <2>1. at' = "message" => savePointer < Len(scanList')
    BY <1>4, <1>5 DEF MbInv, PointerInv, Grows, scanning
  <2> QED BY <1>4, <1>5, <2>1, PointersKept DEF MbInv, scanning
<1>8. OwnerTypes'
  BY <1>4 DEF MbInv, OwnerTypes, scanning
<1> QED BY <1>5, <1>6, <1>7, <1>8 DEF MbInv

LEMMA SendDroppedKeeps == ASSUME MbInv, NEW s \in Correspondents, SendDropped(s) PROVE MbInv'
<1>1. QueueInv' /\ HoldsSame /\ Grows
  BY QueuesKept DEF MbInv, SendDropped, store
<1>2. CountInv'
  <2>1. s \in Senders
    BY DEF Senders
  <2>2. sends \in [Senders -> Nat] /\ sends' = [sends EXCEPT ![s] = sends[s] + 1]
    BY DEF MbInv, CountInv, SendDropped
  <2>3. sends' \in [Senders -> Nat] /\ \A r \in Senders : sends[r] <= sends'[r]
    BY <2>1, <2>2
  <2> QED BY <1>1, <2>3, CountKept DEF MbInv, SendDropped, mbGhosts
<1>3. PointerInv' /\ ReceiveSkipsNothing'
  <2>1. at' = "message" => savePointer < Len(scanList')
    BY <1>1 DEF MbInv, PointerInv, Grows, SendDropped, scanning
  <2> QED BY <1>1, <2>1, PointersKept DEF MbInv, SendDropped, scanning, mbGhosts
<1>4. OwnerTypes'
  BY DEF MbInv, OwnerTypes, SendDropped, scanning, mbGhosts
<1> QED BY <1>1, <1>2, <1>3, <1>4 DEF MbInv

(* The queues are rearranged, and the owner goes on where it was. *)
LEMMA RearrangedKeeps ==
  ASSUME MbInv, QueueInv', HoldsSame, Grows, UNCHANGED <<mbBudget, mbGhosts>>, body' \in {"present", "executing"},
         UNCHANGED <<savePointer, recvMarker, reserved, want, marked>>,
         at' \in {"code", "rec", "message", "wait"}, at' = "code" <=> at = "code",
         at' = "message" => savePointer < Len(scanList')
  PROVE  MbInv'
<1>1. CountInv'
  <2>1. sends' \in [Senders -> Nat] /\ \A r \in Senders : sends[r] <= sends'[r]
    BY DEF MbInv, CountInv, mbBudget
  <2> QED BY <2>1, CountKept DEF MbInv, mbGhosts
<1>2. PointerInv' /\ ReceiveSkipsNothing'
  BY PointersKept DEF MbInv, mbGhosts
<1>3. OwnerTypes'
  BY DEF MbInv, OwnerTypes, mbGhosts
<1> QED BY <1>1, <1>2, <1>3 DEF MbInv

LEMMA TakeRunnableKeeps == ASSUME MbInv, TakeRunnable PROVE MbInv'
<1>1. QueueInv' /\ HoldsSame /\ Grows
  BY QueuesKept DEF MbInv, TakeRunnable, store
<1>2. at' = "message" => savePointer < Len(scanList')
  BY DEF MbInv, PointerInv, TakeRunnable, scanning, store
<1> QED BY <1>1, <1>2, RearrangedKeeps DEF MbInv, OwnerTypes, TakeRunnable, scanning

LEMMA PreemptKeeps == ASSUME MbInv, Preempt PROVE MbInv'
<1>1. QueueInv' /\ HoldsSame /\ Grows
  BY PendingStored DEF MbInv, Preempt
<1>2. body' = "present" /\ at = "code" /\ at' = "code"
  BY DEF Preempt, StoreBack, scanning
<1> QED BY <1>1, <1>2, RearrangedKeeps DEF Preempt, scanning

LEMMA WaitKeeps == ASSUME MbInv, Wait PROVE MbInv'
<1>1. QueueInv' /\ HoldsSame /\ Grows
  BY PendingStored DEF MbInv, Wait
<1>2. body' = "present" /\ at = "wait" /\ at' = "rec"
  BY DEF Wait, StoreBack
<1> QED BY <1>1, <1>2, RearrangedKeeps DEF Wait

LEMMA CollectKeepsMailbox == ASSUME MbInv, Collect PROVE MbInv'
<1>1. QueueInv' /\ HoldsSame /\ Grows
  BY ArrivalDrained DEF MbInv, Collect
<1>2. at' = "message" => savePointer < Len(scanList')
  BY <1>1 DEF MbInv, PointerInv, Grows, Collect, scanning
<1> QED BY <1>1, <1>2, RearrangedKeeps DEF MbInv, OwnerTypes, Collect, scanning

LEMMA LoopRecKeeps == ASSUME MbInv, LoopRec PROVE MbInv'
<1>1. QueueInv' /\ HoldsSame /\ Grows
  BY ArrivalDrained DEF MbInv, LoopRec
<1>2. at = "rec" /\ at' = IF savePointer < Len(scanList') THEN "message" ELSE "wait"
  BY DEF LoopRec
<1> QED BY <1>1, <1>2, RearrangedKeeps DEF MbInv, OwnerTypes, LoopRec

(* The queues and the counts stay as they are. *)
LEMMA QueuesUntouched ==
  ASSUME MbInv, UNCHANGED <<body, store, mbBudget, mbGhosts>>
  PROVE  QueueInv' /\ CountInv' /\ staleMarker' \in BOOLEAN
<1>1. QueueInv' /\ HoldsSame
  BY QueuesKept DEF MbInv, store
<1>2. sends' \in [Senders -> Nat] /\ \A r \in Senders : sends[r] <= sends'[r]
  BY DEF MbInv, CountInv, mbBudget
<1>3. CountInv'
  BY <1>1, <1>2, CountKept DEF MbInv, mbGhosts
<1> QED BY <1>1, <1>3 DEF MbInv, OwnerTypes, mbGhosts

LEMMA StartReceiveKeeps == ASSUME MbInv, NEW s \in Senders, StartReceive({s}) PROVE MbInv'
<1>1. QueueInv' /\ CountInv' /\ staleMarker' \in BOOLEAN
  BY QueuesUntouched DEF StartReceive
<1>2. savePointer' = 0 /\ at' = "rec"
  BY DEF MbInv, PointerInv, StartReceive
<1>3. PointerInv'
  BY <1>2 DEF MbInv, PointerInv, StartReceive, store, mbGhosts
<1>4. ReceiveSkipsNothing'
  BY <1>2 DEF ReceiveSkipsNothing
<1>5. OwnerTypes'
  BY <1>1, <1>2 DEF MbInv, OwnerTypes, StartReceive
<1> QED BY <1>1, <1>3, <1>4, <1>5 DEF MbInv

LEMMA TimeoutKeeps == ASSUME MbInv, Timeout PROVE MbInv'
<1>1. QueueInv' /\ CountInv' /\ staleMarker' \in BOOLEAN
  BY QueuesUntouched DEF Timeout
<1>2. savePointer' = 0 /\ at' = "code" /\ Len(scanList') \in Nat
  BY <1>1 DEF Timeout, QueueInv, Queues
<1>3. PointerInv'
  BY <1>2 DEF MbInv, PointerInv, Timeout, store, mbGhosts
<1>4. ReceiveSkipsNothing'
  BY <1>2 DEF ReceiveSkipsNothing
<1>5. OwnerTypes'
  BY <1>1, <1>2 DEF MbInv, OwnerTypes, Timeout
<1> QED BY <1>1, <1>3, <1>4, <1>5 DEF MbInv

LEMMA RecvMarkerClearKeeps == ASSUME MbInv, RecvMarkerClear PROVE MbInv'
<1>1. QueueInv' /\ CountInv' /\ staleMarker' \in BOOLEAN
  BY QueuesUntouched DEF RecvMarkerClear
<1>2. savePointer' = 0 /\ at' = "code" /\ Len(scanList') \in Nat
  BY <1>1 DEF RecvMarkerClear, QueueInv, Queues
<1>3. PointerInv'
  BY <1>2 DEF PointerInv, RecvMarkerClear
<1>4. ReceiveSkipsNothing'
  BY <1>2 DEF ReceiveSkipsNothing
<1>5. OwnerTypes'
  BY <1>1, <1>2 DEF MbInv, OwnerTypes, RecvMarkerClear
<1> QED BY <1>1, <1>3, <1>4, <1>5 DEF MbInv

LEMMA LoopRecEndKeeps == ASSUME MbInv, LoopRecEnd PROVE MbInv'
<1>1. QueueInv' /\ CountInv' /\ staleMarker' \in BOOLEAN
  BY QueuesUntouched DEF LoopRecEnd
<1>2. /\ savePointer \in Nat /\ Len(scanList) \in Nat /\ savePointer < Len(scanList)
      /\ savePointer' = savePointer + 1 /\ at = "message" /\ at' = "rec" /\ scanList' = scanList
  BY DEF MbInv, PointerInv, QueueInv, Queues, LoopRecEnd, Lesser, store
<1>3. PointerInv'
  BY <1>2 DEF MbInv, PointerInv, LoopRecEnd, mbGhosts
<1>4. ReceiveSkipsNothing'
  <2>1. UNCHANGED <<want, marked, before, staleMarker>> /\ ~Wanted(scanList[savePointer + 1])
    BY DEF LoopRecEnd, mbGhosts
  <2>2. \A i \in 1..(savePointer + 1) : i \in 1..savePointer \/ i = savePointer + 1
    BY <1>2
  <2> QED BY <1>2, <2>1, <2>2 DEF MbInv, ReceiveSkipsNothing, Wanted
<1>5. OwnerTypes'
  BY <1>1, <1>2 DEF MbInv, OwnerTypes, LoopRecEnd
<1> QED BY <1>1, <1>3, <1>4, <1>5 DEF MbInv

LEMMA RemoveMessageKeeps == ASSUME MbInv, RemoveMessage PROVE MbInv'
<1>1. savePointer \in Nat /\ scanList \in Seq(Signal) /\ savePointer + 1 \in 1..Len(scanList)
  BY DEF MbInv, PointerInv, QueueInv, Queues, RemoveMessage
<1>2. PICK k \in 1..Len(scanList) : k = savePointer + 1
  BY <1>1
<1>3. /\ body' = body /\ arrival' = <<>> /\ pendingOf' = pendingOf
      /\ scanList' = RemoveAt(scanList, k) \o arrival
      /\ taken' = taken \cup {scanList[k]} /\ savePointer' = 0 /\ at' = "code" /\ want' = {}
      /\ UNCHANGED <<accepted, sends, recvMarker, reserved, marked, before>>
  BY <1>2 DEF RemoveMessage, RemoveCurrent, mbBudget
<1>4. /\ QueueInv' /\ Range(Held') \cup {scanList[k]} = Range(Held) /\ Len(Held') + 1 = Len(Held)
  BY <1>3, ScanListShrinks DEF MbInv
<1>5. CountInv'
  <2>1. scanList[k] \in Range(Held)
    BY <1>4
  <2> QED BY <2>1, <1>3, <1>4, CountReceived DEF MbInv, QueueInv
<1>6. PointerInv'
  <2>1. Len(scanList') \in Nat
    BY <1>4 DEF QueueInv, Queues
  <2>2. reserved' # NoMarker => staleMarker'
    BY <1>3 DEF RemoveMessage
  <2> QED BY <1>3, <2>1, <2>2 DEF MbInv, PointerInv
<1>7. ReceiveSkipsNothing'
  BY <1>3 DEF ReceiveSkipsNothing
<1>8. OwnerTypes'
  BY <1>3 DEF MbInv, OwnerTypes, RemoveMessage
<1> QED BY <1>4, <1>5, <1>6, <1>7, <1>8 DEF MbInv

(* The arrivals are drained and the owner sets or uses a marker. *)
LEMMA DrainedKeeps ==
  ASSUME MbInv, DrainArrival, UNCHANGED <<body, mbBudget, accepted, taken>>
  PROVE  QueueInv' /\ CountInv' /\ Grows /\ Len(scanList') \in Nat
<1>1. QueueInv' /\ HoldsSame /\ Grows
  BY ArrivalDrained DEF MbInv
<1>2. sends' \in [Senders -> Nat] /\ \A r \in Senders : sends[r] <= sends'[r]
  BY DEF MbInv, CountInv, mbBudget
<1> QED BY <1>1, <1>2, CountKept DEF MbInv, Grows

LEMMA RecvMarkerReserveKeeps == ASSUME MbInv, RecvMarkerReserve PROVE MbInv'
<1>1. QueueInv' /\ CountInv' /\ Grows /\ Len(scanList') \in Nat
  BY DrainedKeeps DEF RecvMarkerReserve
<1>2. /\ at' = "code" /\ savePointer' = 0 /\ reserved = NoMarker /\ recvMarker' = NoMarker
      /\ reserved' = Len(scanList') /\ before' = Range(scanList')
  BY DEF MbInv, PointerInv, RecvMarkerReserve
<1>3. PointerInv'
  <2>1. \A i \in 1..reserved' : scanList'[i] \in before'
    BY <1>1, <1>2 DEF QueueInv, Queues, Range
  <2> QED BY <1>1, <1>2, <2>1 DEF PointerInv
<1>4. ReceiveSkipsNothing'
  BY <1>2 DEF ReceiveSkipsNothing
<1>5. OwnerTypes'
  BY DEF MbInv, OwnerTypes, RecvMarkerReserve
<1> QED BY <1>1, <1>3, <1>4, <1>5 DEF MbInv

LEMMA RecvMarkerBindKeeps == ASSUME MbInv, RecvMarkerBind PROVE MbInv'
<1>1. QueueInv' /\ CountInv' /\ Grows /\ Len(scanList') \in Nat
  BY DrainedKeeps DEF RecvMarkerBind, mbGhosts
<1>2. PointerInv' /\ ReceiveSkipsNothing'
  <2>1. /\ at' = "code" /\ savePointer' = 0 /\ reserved \in Nat /\ reserved' = reserved
        /\ recvMarker' = Lesser(reserved, Len(scanList')) /\ UNCHANGED <<before, staleMarker>>
    BY DEF MbInv, PointerInv, RecvMarkerBind, mbGhosts
  <2>2. recvMarker' \in Nat /\ recvMarker' <= reserved'
    BY <1>1, <2>1 DEF Lesser
  <2>3. ~staleMarker => reserved <= Len(scanList') /\ \A i \in 1..reserved : scanList'[i] \in before
    <3> HAVE ~staleMarker
    <3>1. reserved <= Len(scanList) /\ \A i \in 1..reserved : scanList[i] \in before
      BY DEF MbInv, PointerInv, RecvMarkerBind
    <3>2. \A i \in 1..reserved : i \in 1..Len(scanList)
      BY <1>1, <2>1, <3>1 DEF Grows
    <3> QED BY <1>1, <2>1, <3>1, <3>2 DEF Grows
  <2>4. PointerInv'
    BY <1>1, <2>1, <2>2, <2>3, MailboxAssumption DEF PointerInv
  <2> QED BY <2>1, <2>4 DEF ReceiveSkipsNothing
<1>3. OwnerTypes'
  BY DEF MbInv, OwnerTypes, RecvMarkerBind, mbGhosts
<1> QED BY <1>1, <1>2, <1>3 DEF MbInv

LEMMA RecvMarkerUseKeeps == ASSUME MbInv, NEW s \in Senders, RecvMarkerUse({s}) PROVE MbInv'
<1>1. QueueInv' /\ CountInv' /\ Grows /\ Len(scanList') \in Nat
  BY DrainedKeeps DEF RecvMarkerUse, mbGhosts
<1>2. /\ at' = "rec" /\ marked' /\ recvMarker \in Nat /\ reserved \in Nat /\ recvMarker <= reserved
      /\ reserved # NoMarker /\ recvMarker # NoMarker
      /\ savePointer' = Lesser(recvMarker, Len(scanList'))
      /\ UNCHANGED <<recvMarker, reserved, before, staleMarker>>
  BY DEF MbInv, PointerInv, RecvMarkerUse, mbGhosts
<1>3. ~staleMarker => reserved <= Len(scanList') /\ \A i \in 1..reserved : scanList'[i] \in before
  <2> HAVE ~staleMarker
  <2>1. reserved <= Len(scanList) /\ \A i \in 1..reserved : scanList[i] \in before
    BY <1>2 DEF MbInv, PointerInv
  <2>2. \A i \in 1..reserved : i \in 1..Len(scanList)
    BY <1>1, <1>2, <2>1 DEF Grows
  <2> QED BY <1>1, <1>2, <2>1, <2>2 DEF Grows
<1>4. savePointer' \in Nat /\ savePointer' <= Len(scanList') /\ savePointer' <= recvMarker
  BY <1>1, <1>2 DEF Lesser
<1>5. PointerInv'
  BY <1>1, <1>2, <1>3, <1>4 DEF PointerInv
<1>6. ReceiveSkipsNothing'
  <2>1. \A i \in 1..savePointer' : i \in 1..reserved
    BY <1>2, <1>4
  <2> QED BY <1>2, <1>3, <2>1 DEF ReceiveSkipsNothing
<1>7. OwnerTypes'
  BY <1>2 DEF MbInv, OwnerTypes, RecvMarkerUse, mbGhosts
<1> QED BY <1>1, <1>5, <1>6, <1>7 DEF MbInv

LEMMA MbStarts == MbInit => MbInv
<1> HAVE MbInit
<1>1. Queues
  BY EmptySequence DEF MbInit, Queues
<1>2. (\A l \in Lanes : pendingOf[l] = <<>>) /\ arrival = <<>> /\ scanList = <<>>
  BY DEF MbInit
<1>3. LaneInv /\ OrderInv
  BY <1>2, EmptySequence DEF LaneInv, OrderInv
<1>4. CountInv
  <2>1. LengthOf(pendingOf) = 0 /\ HeldIn(pendingOf) = {}
    BY <1>1, <1>2, MergeEmpty DEF Queues
  <2>2. Range(Held) = {} /\ Len(Held) = 0
    BY <1>1, <1>2, <2>1, HeldNow, EmptySequence
  <2>3. IsFiniteSet({}) /\ Cardinality({}) = 0
    BY FS_EmptySet
  <2> QED BY <2>2, <2>3 DEF MbInit, CountInv
<1>5. PointerInv
  BY <1>2, EmptySequence DEF MbInit, PointerInv
<1>6. OwnerTypes /\ ReceiveSkipsNothing
  BY DEF MbInit, OwnerTypes, ReceiveSkipsNothing
<1> QED BY <1>1, <1>3, <1>4, <1>5, <1>6 DEF MbInv, QueueInv

LEMMA MbStepKeeps == MbInv /\ [MbNext]_mbVars => MbInv'
<1> SUFFICES ASSUME MbInv, [MbNext]_mbVars PROVE MbInv'
  OBVIOUS
<1>1. CASE UNCHANGED mbVars
  <2>1. at' = "message" => savePointer < Len(scanList')
    BY <1>1 DEF MbInv, PointerInv, mbVars, scanning, store
  <2>2. QueueInv' /\ HoldsSame /\ Grows
    BY <1>1, QueuesKept DEF MbInv, mbVars, store
  <2> QED BY <1>1, <2>1, <2>2, RearrangedKeeps DEF MbInv, OwnerTypes, mbVars, scanning
<1>2. CASE MbNext
  BY <1>2, SendKeeps, SendDroppedKeeps, PeerDiesKeeps, TakeRunnableKeeps, PreemptKeeps, WaitKeeps,
     CollectKeepsMailbox, SendToSelfKeeps, StartReceiveKeeps, RecvMarkerUseKeeps, RecvMarkerReserveKeeps,
     RecvMarkerBindKeeps, RecvMarkerClearKeeps, LoopRecKeeps, LoopRecEndKeeps, RemoveMessageKeeps,
     TimeoutKeeps DEF MbNext, Receiving
<1> QED BY <1>1, <1>2

LEMMA MbAlways == MbSpec => []MbInv
<1>1. MbInit => MbInv
  BY MbStarts
<1>2. MbInv /\ [MbNext]_mbVars => MbInv'
  BY MbStepKeeps
<1> QED BY <1>1, <1>2, PTL DEF MbSpec

(* The mailbox, whatever the senders, their lanes and the bounds: a signal  *)
(* that was accepted is held once or was received once, and the signals of  *)
(* one sender and one owned lane stay in the order they were sent.          *)
THEOREM MailboxLosesNothing == MbSpec => []NothingLost
<1>1. MbInv => NothingLost
  <2> HAVE MbInv
  <2>1. Range(Held) \cup taken = accepted /\ Len(Held) + Cardinality(taken) = Cardinality(accepted)
    BY DEF MbInv, CountInv
  <2>2. InOrder(scanList \o MergeOf(pendingOf))
    <3>1. /\ scanList \in Seq(Signal) /\ pendingOf \in [Lanes -> Seq(Signal)]
          /\ \A l \in Lanes : InOrder(pendingOf[l]) /\ \A x \in Range(pendingOf[l]) : x.lane = l
      BY DEF MbInv, QueueInv, Queues, LaneInv, OrderInv
    <3>2. /\ MergeOf(pendingOf) \in Seq(Signal) /\ InOrder(MergeOf(pendingOf))
          /\ Range(MergeOf(pendingOf)) = HeldIn(pendingOf)
      BY <3>1, MergeFacts
    <3>3. \A x \in Range(scanList), y \in Range(MergeOf(pendingOf)) : Behind(x, y)
      BY <3>2 DEF MbInv, QueueInv, OrderInv, HeldIn
    <3> QED BY <3>1, <3>2, <3>3, OrderedConcatenation DEF MbInv, QueueInv, OrderInv
  <2> QED BY <2>1, <2>2 DEF NothingLost, Held, Merged, MergeOf
<1> QED BY <1>1, MbAlways, PTL

(* The scan of a receive passes over no message that it matches, but for    *)
(* what was in the mailbox when the marker it started from was reserved.    *)
THEOREM NoMatchIsSkipped == MbSpec => []ReceiveSkipsNothing
<1>1. MbInv => ReceiveSkipsNothing
  BY DEF MbInv
<1> QED BY <1>1, MbAlways, PTL
=============================================================================

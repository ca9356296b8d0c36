------------------------- MODULE ExitRecordsProofs --------------------------
(***************************************************************************)
(* Proofs about ExitRecords, for any pids, cleaners and watchers and any   *)
(* capacities: an exit is published once and its outcome taken once, no    *)
(* exit is forgotten by the subscriber's side, and every watch is told.    *)
(***************************************************************************)
EXTENDS ExitRecords, TLAPS

-----------------------------------------------------------------------------
(* Types *)

CleanerSteps == {"idle", "insert", "publish", "full", "fire", "remove", "complete", "firing"}

WatcherSteps == {"idle", "record", "table", "again", "live", "exited", "norecord", "dropped",
                 "ctable", "clive", "crecord", "removed", "cnorecord"}

Reasons == Cleaners \cup {NoReason}

CleanerRecords == [at : CleanerSteps, pid : Pids, slots : SUBSET Watchers]

WatcherRecords == [at : WatcherSteps, pid : Pids, slot : Reasons \cup {"disconnected"}]

TypeInv ==
  /\ table \subseteq Exiting /\ outcome \subseteq Pids
  /\ reasons \in [Pids -> Reasons] /\ record \in [Pids -> Reasons]
  /\ channel \in Seq(Pids)
  /\ subscriber \in {"off", "idle", "recv", "lagged"}
  /\ armed \in [Pids -> SUBSET Watchers] /\ completing \in [Pids -> SUBSET Watchers]
  /\ cleaner \in [Cleaners -> CleanerRecords]
  /\ watcher \in [Watchers -> WatcherRecords]
  /\ published \in [Pids -> Nat] /\ outcomes \in [Pids -> Nat]

(* The types hold of the initial state. *)
LEMMA InitTypes == ErInit => TypeInv
BY ExitRecordsAssumption
   DEF ErInit, TypeInv, Pids, Reasons, NoReason, CleanerSteps, WatcherSteps, CleanerRecords,
       WatcherRecords

(* What a cleaner has in its hands. *)
LEMMA CleanerFields ==
  ASSUME TypeInv, NEW c \in Cleaners
  PROVE  cleaner[c].at \in CleanerSteps /\ cleaner[c].pid \in Pids /\ cleaner[c].slots \subseteq Watchers
BY DEF TypeInv, CleanerRecords

(* What a watcher has in its hands. *)
LEMMA WatcherFields ==
  ASSUME TypeInv, NEW w \in Watchers
  PROVE  /\ watcher[w].at \in WatcherSteps /\ watcher[w].pid \in Pids
         /\ watcher[w].slot \in Reasons \cup {"disconnected"}
BY DEF TypeInv, WatcherRecords

(* A cleaner that goes on is a cleaner. *)
LEMMA GoToType ==
  ASSUME TypeInv, NEW c \in Cleaners, NEW step \in CleanerSteps, GoTo(c, step)
  PROVE  /\ cleaner' \in [Cleaners -> CleanerRecords]
         /\ cleaner'[c].at = step /\ cleaner'[c].pid = cleaner[c].pid
         /\ cleaner'[c].slots = cleaner[c].slots
         /\ \A d \in Cleaners \ {c} : cleaner'[d] = cleaner[d]
BY DEF TypeInv, GoTo, CleanerRecords

(* So is one that takes up a pid, *)
LEMMA TakePidType ==
  ASSUME TypeInv, NEW c \in Cleaners, NEW step \in CleanerSteps, NEW p \in Pids,
         cleaner' = [cleaner EXCEPT ![c].at = step, ![c].pid = p]
  PROVE  /\ cleaner' \in [Cleaners -> CleanerRecords]
         /\ cleaner'[c].at = step /\ cleaner'[c].pid = p /\ cleaner'[c].slots = cleaner[c].slots
         /\ \A d \in Cleaners \ {c} : cleaner'[d] = cleaner[d]
BY DEF TypeInv, CleanerRecords

(* and one that takes up slots or lets go of them. *)
LEMMA TakeSlotsType ==
  ASSUME TypeInv, NEW c \in Cleaners, NEW step \in CleanerSteps, NEW slots \in SUBSET Watchers,
         cleaner' = [cleaner EXCEPT ![c].at = step, ![c].slots = slots]
  PROVE  /\ cleaner' \in [Cleaners -> CleanerRecords]
         /\ cleaner'[c].at = step /\ cleaner'[c].pid = cleaner[c].pid /\ cleaner'[c].slots = slots
         /\ \A d \in Cleaners \ {c} : cleaner'[d] = cleaner[d]
BY DEF TypeInv, CleanerRecords

(* A watcher that goes on is a watcher. *)
LEMMA WatchGoToType ==
  ASSUME TypeInv, NEW w \in Watchers, NEW step \in WatcherSteps, WatchGoTo(w, step)
  PROVE  /\ watcher' \in [Watchers -> WatcherRecords]
         /\ watcher'[w].at = step /\ watcher'[w].pid = watcher[w].pid
         /\ watcher'[w].slot = watcher[w].slot
         /\ \A u \in Watchers \ {w} : watcher'[u] = watcher[u]
BY DEF TypeInv, WatchGoTo, WatcherRecords

(* Notify fills the empty ones among the slots, and changes nothing else. *)
LEMMA NotifyType ==
  ASSUME TypeInv, NEW c \in Cleaners, NEW slots, Notify(slots, c)
  PROVE  /\ watcher' \in [Watchers -> WatcherRecords]
         /\ \A w \in Watchers :
              /\ watcher'[w].at = watcher[w].at /\ watcher'[w].pid = watcher[w].pid
              /\ watcher'[w].slot = IF w \in slots /\ watcher[w].slot = NoReason
                                    THEN c ELSE watcher[w].slot
BY DEF TypeInv, Notify, WatcherRecords, Reasons

(* The cleaner that takes the completion watches, *)
LEMMA TakeCompletionType ==
  ASSUME TypeInv, NEW c \in Cleaners, TakeCompletion(c)
  PROVE  /\ cleaner' \in [Cleaners -> CleanerRecords]
         /\ cleaner'[c].at = "firing" /\ cleaner'[c].pid = cleaner[c].pid
         /\ cleaner'[c].slots = completing[cleaner[c].pid]
         /\ \A d \in Cleaners \ {c} : cleaner'[d] = cleaner[d]
<1>1. completing[cleaner[c].pid] \in SUBSET Watchers
  BY CleanerFields DEF TypeInv
<1>2. cleaner' = [cleaner EXCEPT ![c].at = "firing", ![c].slots = completing[cleaner[c].pid]]
  BY DEF TakeCompletion
<1>3. PICK slots \in SUBSET Watchers : slots = completing[cleaner[c].pid]
  BY <1>1
<1>4. cleaner' = [cleaner EXCEPT ![c].at = "firing", ![c].slots = slots]
  BY <1>2, <1>3
<1>5. "firing" \in CleanerSteps
  BY DEF CleanerSteps
<1>6. /\ cleaner' \in [Cleaners -> CleanerRecords]
      /\ cleaner'[c].at = "firing" /\ cleaner'[c].pid = cleaner[c].pid /\ cleaner'[c].slots = slots
      /\ \A d \in Cleaners \ {c} : cleaner'[d] = cleaner[d]
  BY <1>4, <1>5, TakeSlotsType
<1>7. QED
  BY <1>3, <1>6

(* and the one that has answered them. *)
LEMMA FireCompletionType ==
  ASSUME TypeInv, NEW c \in Cleaners, FireCompletion(c)
  PROVE  /\ cleaner' \in [Cleaners -> CleanerRecords]
         /\ cleaner'[c].at = "idle" /\ cleaner'[c].pid = cleaner[c].pid
         /\ \A d \in Cleaners \ {c} : cleaner'[d] = cleaner[d]
<1>1. \E slots \in SUBSET Watchers : cleaner' = [cleaner EXCEPT ![c].at = "idle", ![c].slots = slots]
  BY DEF FireCompletion
<1>2. QED
  BY <1>1, TakeSlotsType DEF CleanerSteps

(* The steps of a cleaner keep the types. *)
LEMMA CleanerTypes ==
  ASSUME TypeInv, NEW c \in Cleaners, CleanerStep(c)
  PROVE  TypeInv'
<1> USE CleanerFields DEF TypeInv, Pids, Reasons, CleanerSteps, records, events, watches, erGhosts
<1>1. CASE \E p \in Exiting : BeginCleanup(c, p)
  <2>1. cleaner' \in [Cleaners -> CleanerRecords]
    BY <1>1, TakePidType DEF BeginCleanup
  <2>2. QED
    BY <1>1, <2>1 DEF BeginCleanup
<1>2. CASE InsertTombstone(c)
  <2>1. \E step \in CleanerSteps : GoTo(c, step)
    BY <1>2 DEF InsertTombstone
  <2>2. reasons' \in [Pids -> Reasons] /\ record' \in [Pids -> Reasons]
    BY <1>2 DEF InsertTombstone
  <2>3. outcome' \subseteq Pids
    BY <1>2 DEF InsertTombstone
  <2>4. QED
    BY <1>2, <2>1, <2>2, <2>3, GoToType DEF InsertTombstone
<1>3. CASE Publish(c)
  <2>1. \E step \in CleanerSteps : GoTo(c, step)
    BY <1>3 DEF Publish
  <2>2. channel' \in Seq(Pids)
    <3>1. channel' = channel \/ channel' = Append(channel, cleaner[c].pid)
      BY <1>3 DEF Publish
    <3>2. channel \in Seq(Pids) /\ cleaner[c].pid \in Pids
      OBVIOUS
    <3> HIDE DEF TypeInv, Pids
    <3>3. QED
      BY <3>1, <3>2
  <2>3. published' \in [Pids -> Nat]
    BY <1>3 DEF Publish
  <2>4. QED
    BY <1>3, <2>1, <2>2, <2>3, GoToType DEF Publish
<1>4. CASE MarkOverflow(c)
  BY <1>4, GoToType DEF MarkOverflow
<1>5. CASE FireWatches(c)
  BY <1>5, GoToType, NotifyType DEF FireWatches
<1>6. CASE RemoveFromTable(c)
  BY <1>6, GoToType DEF RemoveFromTable
<1>7. CASE TakeCompletion(c)
  BY <1>7, TakeCompletionType DEF TakeCompletion
<1>8. CASE FireCompletion(c)
  BY <1>8, FireCompletionType, NotifyType DEF FireCompletion
<1>9. QED
  BY <1>1, <1>2, <1>3, <1>4, <1>5, <1>6, <1>7, <1>8 DEF CleanerStep

(* The steps of a watcher keep the types. *)
LEMMA WatcherTypes ==
  ASSUME TypeInv, NEW w \in Watchers, WatcherStep(w)
  PROVE  TypeInv'
<1> USE ExitRecordsAssumption, WatcherFields, WatchGoToType
    DEF TypeInv, Pids, Reasons, WatcherSteps, Answer, records, events, erGhosts
<1>1. CASE \E p \in Watchable : WatchRegister(w, p)
  BY <1>1 DEF WatchRegister, WatcherRecords
<1>2. CASE \E p \in Watchable : CompletionRegister(w, p)
  BY <1>2 DEF CompletionRegister, WatcherRecords
<1>3. CASE WatchReadRecord(w)
  BY <1>3 DEF WatchReadRecord
<1>4. CASE WatchReadTable(w)
  BY <1>4 DEF WatchReadTable
<1>5. CASE WatchReadAgain(w)
  BY <1>5 DEF WatchReadAgain
<1>6. CASE WatchDrop(w)
  BY <1>6 DEF WatchDrop
<1>7. CASE CompletionReadTable(w)
  BY <1>7 DEF CompletionReadTable
<1>8. CASE CompletionReadRecord(w)
  BY <1>8 DEF CompletionReadRecord
<1>9. QED
  BY <1>1, <1>2, <1>3, <1>4, <1>5, <1>6, <1>7, <1>8 DEF WatcherStep

(* Every step keeps the types. *)
LEMMA NextTypes == TypeInv /\ [ErNext]_erVars => TypeInv'
<1> SUFFICES ASSUME TypeInv, [ErNext]_erVars PROVE TypeInv'
  OBVIOUS
<1> USE DEF TypeInv, Pids, Reasons, records, events, watches, erGhosts
<1>1. CASE \E c \in Cleaners : CleanerStep(c)
  BY <1>1, CleanerTypes
<1>2. CASE \E w \in Watchers : WatcherStep(w)
  BY <1>2, WatcherTypes
<1>3. CASE CloseWatches
  BY <1>3 DEF CloseWatches
<1>4. CASE SettleShutdown
  BY <1>4 DEF SettleShutdown, WatcherRecords
<1>5. CASE Subscribe
  BY <1>5 DEF Subscribe
<1>6. CASE RecvBegin
  BY <1>6 DEF RecvBegin
<1>7. CASE RecvLagged
  BY <1>7 DEF RecvLagged, TakeOutcomes
<1>8. CASE RecvEvent
  BY <1>8 DEF RecvEvent, TakeOutcomes
<1>9. CASE UNCHANGED erVars
  BY <1>9 DEF erVars
<1>10. QED
  BY <1>1, <1>2, <1>3, <1>4, <1>5, <1>6, <1>7, <1>8, <1>9 DEF ErNext

(* The types are an invariant. *)
LEMMA Types == ErSpec => []TypeInv
BY InitTypes, NextTypes, PTL DEF ErSpec

-----------------------------------------------------------------------------
(* Publication *)

(* Before its record a pid has left no trace. *)
NothingBeforeRecord ==
  \A p \in Pids : record[p] = NoReason =>
    published[p] = 0 /\ outcomes[p] = 0 /\ p \notin outcome /\ reasons[p] = NoReason

(* Only the owner of the record is on its way to publish, and has not yet. *)
OwnerPublishes ==
  \A c \in Cleaners : cleaner[c].at = "publish" =>
    record[cleaner[c].pid] = c /\ published[cleaner[c].pid] = 0

(* An outcome that is still to be taken was not taken. *)
OutcomeOnce == \A p \in outcome : outcomes[p] = 0

PublishInv == NothingBeforeRecord /\ OwnerPublishes /\ OutcomeOnce /\ ExitExactlyOnce

(* A step that leaves records and counters alone, and puts no cleaner on   *)
(* its way to publish, keeps the invariant.                                *)
LEMMA PublishInvFrame ==
  ASSUME TypeInv, PublishInv, UNCHANGED <<reasons, record, outcome, published, outcomes>>,
         \A c \in Cleaners : cleaner'[c].at = "publish" => cleaner'[c] = cleaner[c]
  PROVE  PublishInv'
BY DEF TypeInv, PublishInv, NothingBeforeRecord, OwnerPublishes, OutcomeOnce, ExitExactlyOnce

(* The steps of a cleaner keep it. *)
LEMMA CleanerPublishes ==
  ASSUME TypeInv, PublishInv, NEW c \in Cleaners, CleanerStep(c)
  PROVE  PublishInv'
<1> USE CleanerFields DEF records, events, watches, erGhosts
<1>1. CASE \E p \in Exiting : BeginCleanup(c, p)
  BY <1>1, TakePidType, PublishInvFrame DEF BeginCleanup, CleanerSteps, Pids
<1>2. CASE InsertTombstone(c)
  <2> DEFINE p == cleaner[c].pid
  <2>1. CASE reasons[p] # NoReason \/ ~OwnsRecord(p)
    <3>1. GoTo(c, "remove") /\ UNCHANGED <<record, outcome, published, outcomes>>
      BY <1>2, <2>1 DEF InsertTombstone
    <3>2. record[p] # NoReason
      BY <2>1 DEF PublishInv, NothingBeforeRecord, OwnsRecord
    <3>3. \A q \in Pids : record[q] = NoReason => reasons'[q] = NoReason
      <4>1. SUFFICES ASSUME NEW q \in Pids, record[q] = NoReason PROVE reasons'[q] = NoReason
        OBVIOUS
      <4>2. q # p /\ reasons[q] = NoReason
        BY <3>2, <4>1 DEF PublishInv, NothingBeforeRecord
      <4>3. QED
        BY <1>2, <4>2 DEF InsertTombstone, TypeInv
    <3>4. QED
      BY <3>1, <3>3, GoToType
      DEF PublishInv, NothingBeforeRecord, OwnerPublishes, OutcomeOnce, ExitExactlyOnce, CleanerSteps
  <2>2. CASE reasons[p] = NoReason /\ OwnsRecord(p)
    <3>1. /\ GoTo(c, "publish") /\ record' = [record EXCEPT ![p] = c]
          /\ outcome' = outcome \cup {p} /\ UNCHANGED <<published, outcomes>>
      BY <1>2, <2>2 DEF InsertTombstone
    <3>2. \A q \in Pids \ {p} : reasons[q] = NoReason => reasons'[q] = NoReason
      BY <1>2, <2>2 DEF InsertTombstone, TypeInv
    <3>3. published[p] = 0 /\ outcomes[p] = 0
      BY <2>2 DEF PublishInv, NothingBeforeRecord, OwnsRecord
    <3>4. record'[p] = c /\ c # NoReason /\ \A q \in Pids \ {p} : record'[q] = record[q]
      BY <3>1, ExitRecordsAssumption DEF TypeInv, NoReason
    <3>5. NothingBeforeRecord'
      BY <3>1, <3>2, <3>4 DEF PublishInv, NothingBeforeRecord
    <3>6. \A d \in Cleaners \ {c} : cleaner[d].at = "publish" => cleaner[d].pid # p
      BY <2>2, ExitRecordsAssumption DEF PublishInv, OwnerPublishes, OwnsRecord, NoReason
    <3>7. OwnerPublishes'
      BY <3>1, <3>3, <3>4, <3>6, GoToType DEF PublishInv, OwnerPublishes, CleanerSteps
    <3>8. QED
      BY <3>1, <3>3, <3>5, <3>7 DEF PublishInv, OutcomeOnce, ExitExactlyOnce
  <2>3. QED
    BY <2>1, <2>2
<1>3. CASE Publish(c)
  <2> DEFINE p == cleaner[c].pid
  <2>1. record[p] = c /\ published[p] = 0 /\ c # NoReason
    BY <1>3, ExitRecordsAssumption DEF PublishInv, OwnerPublishes, Publish, NoReason
  <2>2. /\ UNCHANGED <<record, reasons, outcome, outcomes>>
        /\ published' = [published EXCEPT ![p] = @ + 1]
        /\ \E step \in CleanerSteps \ {"publish"} : GoTo(c, step)
    BY <1>3 DEF Publish, CleanerSteps
  <2>3. published'[p] = 1 /\ \A q \in Pids \ {p} : published'[q] = published[q]
    BY <2>1, <2>2 DEF TypeInv
  <2>4. \A d \in Cleaners \ {c} : cleaner[d].at = "publish" => cleaner[d].pid # p
    BY <2>1 DEF PublishInv, OwnerPublishes
  <2>5. OwnerPublishes'
    BY <2>2, <2>3, <2>4, GoToType DEF PublishInv, OwnerPublishes
  <2>6. QED
    BY <2>1, <2>2, <2>3, <2>5 DEF PublishInv, NothingBeforeRecord, OutcomeOnce, ExitExactlyOnce
<1>4. CASE MarkOverflow(c)
  BY <1>4, GoToType, PublishInvFrame DEF MarkOverflow, CleanerSteps
<1>5. CASE FireWatches(c)
  BY <1>5, GoToType, PublishInvFrame DEF FireWatches, CleanerSteps
<1>6. CASE RemoveFromTable(c)
  BY <1>6, GoToType, PublishInvFrame DEF RemoveFromTable, CleanerSteps
<1>7. CASE TakeCompletion(c)
  BY <1>7, TakeCompletionType, PublishInvFrame DEF TakeCompletion
<1>8. CASE FireCompletion(c)
  BY <1>8, FireCompletionType, PublishInvFrame DEF FireCompletion
<1>9. QED
  BY <1>1, <1>2, <1>3, <1>4, <1>5, <1>6, <1>7, <1>8 DEF CleanerStep

(* Taking outcomes keeps it: what is taken is no longer there. *)
LEMMA TakingPublishes ==
  ASSUME TypeInv, PublishInv, NEW ps \in SUBSET Pids, TakeOutcomes(ps),
         UNCHANGED <<reasons, record, cleaner, published>>
  PROVE  PublishInv'
<1>1. \A p \in Pids : outcomes'[p] = IF p \in ps \cap outcome THEN outcomes[p] + 1 ELSE outcomes[p]
  BY DEF TakeOutcomes, TypeInv
<1>2. outcome' = outcome \ ps
  BY DEF TakeOutcomes
<1>3. QED
  BY <1>1, <1>2
  DEF TypeInv, PublishInv, NothingBeforeRecord, OwnerPublishes, OutcomeOnce, ExitExactlyOnce

(* Every step keeps it. *)
LEMMA NextPublishes == TypeInv /\ PublishInv /\ [ErNext]_erVars => PublishInv'
<1> SUFFICES ASSUME TypeInv, PublishInv, [ErNext]_erVars PROVE PublishInv'
  OBVIOUS
<1> USE DEF records, events, watches, erGhosts
<1>1. CASE \E c \in Cleaners : CleanerStep(c)
  BY <1>1, CleanerPublishes
<1>2. CASE \E w \in Watchers : WatcherStep(w)
  BY <1>2, PublishInvFrame
  DEF WatcherStep, WatchRegister, CompletionRegister, WatchReadRecord, WatchReadTable,
      WatchReadAgain, WatchDrop, CompletionReadTable, CompletionReadRecord
<1>3. CASE CloseWatches \/ SettleShutdown \/ Subscribe \/ RecvBegin \/ UNCHANGED erVars
  BY <1>3, PublishInvFrame DEF CloseWatches, SettleShutdown, Subscribe, RecvBegin, erVars
<1>4. CASE RecvLagged
  BY <1>4, TakingPublishes DEF RecvLagged
<1>5. CASE RecvEvent
  <2>1. Head(channel) \in Pids
    BY <1>5 DEF RecvEvent, TypeInv
  <2>2. QED
    BY <1>5, <2>1, TakingPublishes DEF RecvEvent
<1>6. QED
  BY <1>1, <1>2, <1>3, <1>4, <1>5 DEF ErNext

(* PublishInv is an invariant. *)
LEMMA Publishes == ErSpec => []PublishInv
<1>1. ErInit => PublishInv
  BY ExitRecordsAssumption
  DEF ErInit, PublishInv, NothingBeforeRecord, OwnerPublishes, OutcomeOnce, ExitExactlyOnce
<1>2. QED
  BY <1>1, NextPublishes, Types, PTL DEF ErSpec

(* The exit of a pid is published at most once and its outcome taken at     *)
(* most once, for any number of overlapping cleanups and any capacity of    *)
(* the tombstones (ExitTombstones::insert_inner owns the publication by the *)
(* permanent record, not by the tombstone that eviction may have removed).  *)
THEOREM PublishedOnce == ErSpec => []ExitExactlyOnce
<1>1. PublishInv => ExitExactlyOnce
  BY DEF PublishInv
<1>2. QED
  BY <1>1, Publishes, PTL

-----------------------------------------------------------------------------
(* The subscriber *)

(* A step away from the events, in which nobody is between a full channel  *)
(* and the flag, forgets nothing.                                          *)
LEMMA ForgottenFrame ==
  ASSUME TypeInv, NoExitForgotten,
         UNCHANGED <<outcome, unheard, published, channel, overflowed, subscriber>>,
         \A d \in Cleaners : cleaner[d].at = "full" => cleaner'[d] = cleaner[d]
  PROVE  NoExitForgotten'
BY DEF NoExitForgotten

(* The steps of a cleaner forget nothing. *)
LEMMA CleanerForgetsNothing ==
  ASSUME TypeInv, PublishInv, NoExitForgotten, NEW c \in Cleaners, CleanerStep(c)
  PROVE  NoExitForgotten'
<1> USE CleanerFields DEF records, events, watches, erGhosts
<1>1. CASE \E p \in Exiting : BeginCleanup(c, p)
  BY <1>1, TakePidType, ForgottenFrame DEF BeginCleanup, CleanerSteps, Pids
<1>2. CASE InsertTombstone(c)
  <2>1. PICK step \in CleanerSteps : GoTo(c, step)
    BY <1>2 DEF InsertTombstone, CleanerSteps
  <2>2. \A d \in Cleaners : cleaner[d].at = "full" => cleaner'[d] = cleaner[d]
    BY <1>2, <2>1, GoToType DEF InsertTombstone
  <2>3. UNCHANGED <<unheard, published, channel, overflowed, subscriber>>
    BY <1>2 DEF InsertTombstone
  <2>4. \A p \in outcome' \ outcome : p \in Pids /\ published[p] = 0
    BY <1>2 DEF InsertTombstone, OwnsRecord, PublishInv, NothingBeforeRecord
  <2>5. QED
    BY <2>2, <2>3, <2>4 DEF NoExitForgotten
<1>3. CASE Publish(c)
  <2> DEFINE p == cleaner[c].pid
  <2>1. /\ UNCHANGED <<outcome, overflowed, subscriber>>
        /\ \A q \in Pids \ {p} : published'[q] = published[q]
        /\ unheard \subseteq unheard'
    BY <1>3 DEF Publish, TypeInv
  <2>2. \A d \in Cleaners : cleaner[d].at = "full" => cleaner'[d] = cleaner[d]
    <3>1. \E step \in CleanerSteps : GoTo(c, step)
      BY <1>3 DEF Publish, CleanerSteps
    <3>2. QED
      BY <1>3, <3>1, GoToType DEF Publish
  <2>3. channel' = channel \/ channel' = Append(channel, p)
    BY <1>3 DEF Publish
  <2>4. \A i \in DOMAIN channel : i \in DOMAIN channel' /\ channel'[i] = channel[i]
    <3>1. channel \in Seq(Pids) /\ p \in Pids
      BY DEF TypeInv
    <3> HIDE DEF p
    <3>2. CASE channel' = channel
      BY <3>2
    <3>3. CASE channel' = Append(channel, p)
      BY <3>1, <3>3
    <3>4. QED
      BY <2>3, <3>2, <3>3
  <2>5. \/ p \in unheard'
        \/ \E i \in DOMAIN channel' : channel'[i] = p
        \/ cleaner'[c].pid = p /\ cleaner'[c].at = "full"
    <3>1. CASE subscriber = "off"
      BY <1>3, <3>1 DEF Publish
    <3>2. CASE subscriber # "off" /\ Len(channel) < EventCap
      <4>1. channel' = Append(channel, p)
        BY <1>3, <3>2 DEF Publish
      <4>2. Len(channel) + 1 \in DOMAIN channel' /\ channel'[Len(channel) + 1] = p
        BY <4>1 DEF TypeInv
      <4>3. QED
        BY <4>2
    <3>3. CASE subscriber # "off" /\ ~(Len(channel) < EventCap)
      BY <1>3, <3>3, GoToType DEF Publish, CleanerSteps
    <3>4. QED
      BY <3>1, <3>2, <3>3
  <2>6. outcome \subseteq Pids
    BY DEF TypeInv
  <2> HIDE DEF p
  <2>7. QED
    BY <2>1, <2>2, <2>4, <2>5, <2>6 DEF NoExitForgotten
<1>4. CASE MarkOverflow(c)
  BY <1>4 DEF MarkOverflow, NoExitForgotten
<1>5. CASE FireWatches(c)
  BY <1>5, GoToType, ForgottenFrame DEF FireWatches, CleanerSteps
<1>6. CASE RemoveFromTable(c)
  BY <1>6, GoToType, ForgottenFrame DEF RemoveFromTable, CleanerSteps
<1>7. CASE TakeCompletion(c)
  BY <1>7, TakeCompletionType, ForgottenFrame DEF TakeCompletion
<1>8. CASE FireCompletion(c)
  BY <1>8, FireCompletionType, ForgottenFrame DEF FireCompletion
<1>9. QED
  BY <1>1, <1>2, <1>3, <1>4, <1>5, <1>6, <1>7, <1>8 DEF CleanerStep

(* Every step forgets nothing. *)
LEMMA NextForgetsNothing ==
  TypeInv /\ PublishInv /\ NoExitForgotten /\ [ErNext]_erVars => NoExitForgotten'
<1> SUFFICES ASSUME TypeInv, PublishInv, NoExitForgotten, [ErNext]_erVars PROVE NoExitForgotten'
  OBVIOUS
<1> USE DEF records, events, watches, erGhosts
<1>1. CASE \E c \in Cleaners : CleanerStep(c)
  BY <1>1, CleanerForgetsNothing
<1>2. CASE \E w \in Watchers : WatcherStep(w)
  BY <1>2, ForgottenFrame
  DEF WatcherStep, WatchRegister, CompletionRegister, WatchReadRecord, WatchReadTable,
      WatchReadAgain, WatchDrop, CompletionReadTable, CompletionReadRecord
<1>3. CASE CloseWatches \/ SettleShutdown \/ UNCHANGED erVars
  BY <1>3, ForgottenFrame DEF CloseWatches, SettleShutdown, erVars
<1>4. CASE Subscribe
  BY <1>4 DEF Subscribe, NoExitForgotten
<1>5. CASE RecvBegin
  BY <1>5 DEF RecvBegin, NoExitForgotten
<1>6. CASE RecvLagged
  BY <1>6 DEF RecvLagged, TakeOutcomes, NoExitForgotten, TypeInv
<1>7. CASE RecvEvent
  <2>1. \A i \in DOMAIN channel : channel[i] = Head(channel)
                                  \/ \E j \in DOMAIN channel' : channel'[j] = channel[i]
    <3>1. SUFFICES ASSUME NEW i \in DOMAIN channel, i # 1
                   PROVE  \E j \in DOMAIN channel' : channel'[j] = channel[i]
      BY <1>7 DEF RecvEvent, TypeInv
    <3>2. i - 1 \in DOMAIN channel' /\ channel'[i - 1] = channel[i]
      BY <1>7, <3>1 DEF RecvEvent, TypeInv
    <3>3. QED
      BY <3>2
  <2>2. /\ outcome' = outcome \ {Head(channel)} /\ subscriber = "recv"
        /\ UNCHANGED <<cleaner, published, unheard, overflowed>>
    BY <1>7 DEF RecvEvent, TakeOutcomes
  <2>3. QED
    BY <2>1, <2>2 DEF NoExitForgotten
<1>8. QED
  BY <1>1, <1>2, <1>3, <1>4, <1>5, <1>6, <1>7 DEF ErNext

(* No exit published to a subscriber is forgotten, for any capacity of the  *)
(* channel: its event is queued, its outcome was taken, or the lag flag is  *)
(* up or about to be (ExitEventPublisher::publish against the subscriber's  *)
(* recv, which clears the flag before it reads the channel).                *)
THEOREM NothingForgotten == ErSpec => []NoExitForgotten
<1>1. ErInit => NoExitForgotten
  BY DEF ErInit, NoExitForgotten
<1>2. QED
  BY <1>1, NextForgetsNothing, Types, Publishes, PTL DEF ErSpec

-----------------------------------------------------------------------------
(* Watches *)

(* A pid that left the table, or is about to, has its record. *)
RemovedIsRecorded ==
  /\ \A p \in Exiting : p \notin table => record[p] # NoReason
  /\ \A c \in Cleaners : cleaner[c].at \in {"publish", "full", "fire", "remove"} =>
                           record[cleaner[c].pid] # NoReason

(* Completions are answered once the pid has left the table, to those who  *)
(* asked for that pid.                                                     *)
CompletionInOrder ==
  \A c \in Cleaners :
    /\ cleaner[c].at \in {"complete", "firing"} => cleaner[c].pid \notin table
    /\ cleaner[c].at = "firing" =>
         \A w \in cleaner[c].slots :
           /\ watcher[w].pid = cleaner[c].pid
           /\ watcher[w].at \in {"ctable", "clive", "crecord", "removed", "cnorecord"}

(* The registries hold watchers that are watching that pid. *)
RegistriesTrue ==
  \A p \in Pids :
    /\ \A w \in armed[p] : watcher[w].pid = p /\ watcher[w].at \in {"record", "table", "again", "live"}
    /\ \A w \in completing[p] : watcher[w].pid = p /\ watcher[w].at \in {"ctable", "clive"}

(* A watch whose slot is empty will be told. *)
WatchPending(w) ==
  LET pid == watcher[w].pid
  IN  /\ watcher[w].at \in {"record", "table", "live"} /\ watcher[w].slot = NoReason => w \in armed[pid]
      /\ watcher[w].at \in {"table", "live"} /\ watcher[w].slot = NoReason => ~FullyPublished(pid)
      /\ watcher[w].at = "again" => pid \notin table

Answering(w) ==
  \E c \in Cleaners : cleaner[c].at = "firing" /\ w \in cleaner[c].slots

CompletionPending(w) ==
  LET pid == watcher[w].pid
  IN  /\ watcher[w].at \in {"ctable", "clive"} /\ watcher[w].slot = NoReason =>
           w \in completing[pid] \/ Answering(w)
      /\ watcher[w].at = "clive" /\ watcher[w].slot = NoReason /\ pid \notin table =>
           Answering(w) \/ \E c \in Cleaners : cleaner[c].pid = pid /\ cleaner[c].at = "complete"
      /\ watcher[w].at \in {"ctable", "clive"} /\ watcher[w].slot \in Cleaners => pid \notin table
      /\ watcher[w].at = "crecord" => pid \notin table
      /\ watcher[w].at \in {"norecord", "cnorecord"} => pid = Stranger

WatchInv ==
  /\ RemovedIsRecorded /\ CompletionInOrder /\ RegistriesTrue
  /\ \A w \in Watchers : WatchPending(w) /\ CompletionPending(w)

(* The invariant says what a watch promises. *)
LEMMA WatchInvSuffices ==
  ASSUME TypeInv, WatchInv
  PROVE  WatchNeverLost
<1> SUFFICES ASSUME NEW w \in Watchers
             PROVE  /\ watcher[w].at = "live" /\ FullyPublished(watcher[w].pid) => watcher[w].slot # NoReason
                    /\ watcher[w].at \in {"ctable", "clive"} /\ watcher[w].slot \in Cleaners
                         => watcher[w].pid \notin table
                    /\ \/ ~(watcher[w].at = "clive" /\ watcher[w].pid \notin table)
                       \/ \E c \in Cleaners : cleaner[c].pid = watcher[w].pid
                                              /\ cleaner[c].at \in {"complete", "firing"}
                       \/ watcher[w].slot # NoReason
                    /\ watcher[w].at \in {"norecord", "cnorecord"} => watcher[w].pid = Stranger
  BY DEF WatchNeverLost
<1>1. Answering(w) => \E c \in Cleaners : cleaner[c].pid = watcher[w].pid /\ cleaner[c].at = "firing"
  BY DEF WatchInv, CompletionInOrder, Answering
<1>2. QED
  BY <1>1 DEF WatchInv, WatchPending, CompletionPending

CompletionSteps == {"ctable", "clive", "crecord", "removed", "cnorecord"}

(* A step of one watcher, which leaves the others and the records alone,   *)
(* keeps the invariant when it keeps the part that is about that watcher.  *)
LEMMA WatcherFrame ==
  ASSUME TypeInv, WatchInv, NEW w \in Watchers, UNCHANGED <<table, record, cleaner>>,
         TypeInv',
         \A u \in Watchers \ {w} :
            /\ watcher'[u] = watcher[u]
            /\ \A p \in Pids : /\ u \in armed'[p] => u \in armed[p]
                               /\ u \in completing'[p] => u \in completing[p]
                               /\ u \in armed[p] => u \in armed'[p]
                               /\ u \in completing[p] => u \in completing'[p],
         \A p \in Pids :
            /\ w \in armed'[p] =>
                 watcher'[w].pid = p /\ watcher'[w].at \in {"record", "table", "again", "live"}
            /\ w \in completing'[p] => watcher'[w].pid = p /\ watcher'[w].at \in {"ctable", "clive"},
         Answering(w) => watcher'[w].pid = watcher[w].pid /\ watcher'[w].at \in CompletionSteps,
         WatchPending(w)', CompletionPending(w)'
  PROVE  WatchInv'
<1>1. RemovedIsRecorded'
  BY DEF WatchInv, RemovedIsRecorded
<1>2. CompletionInOrder'
  BY CleanerFields DEF WatchInv, CompletionInOrder, Answering, CompletionSteps
<1>3. RegistriesTrue'
  <2> SUFFICES ASSUME NEW p \in Pids, NEW u \in Watchers
               PROVE  /\ u \in armed'[p] => watcher'[u].pid = p
                                   /\ watcher'[u].at \in {"record", "table", "again", "live"}
                      /\ u \in completing'[p] => watcher'[u].pid = p
                                   /\ watcher'[u].at \in {"ctable", "clive"}
    BY DEF RegistriesTrue, TypeInv
  <2>1. CASE u = w
    BY <2>1
  <2>2. CASE u # w
    <3>1. /\ watcher'[u] = watcher[u]
          /\ u \in armed'[p] => u \in armed[p]
          /\ u \in completing'[p] => u \in completing[p]
      BY <2>2
    <3>2. QED
      BY <3>1 DEF WatchInv, RegistriesTrue
  <2>3. QED
    BY <2>1, <2>2
<1>4. ASSUME NEW u \in Watchers \ {w} PROVE WatchPending(u)' /\ CompletionPending(u)'
  <2>1. watcher[u].pid \in Pids
    BY WatcherFields
  <2>2. Answering(u)' <=> Answering(u)
    BY DEF Answering
  <2>3. WatchPending(u)'
    <3>1. watcher'[u] = watcher[u] /\ \A p \in Pids : u \in armed[p] => u \in armed'[p]
      OBVIOUS
    <3>2. WatchPending(u)
      BY DEF WatchInv
    <3>3. QED
      BY <2>1, <3>1, <3>2 DEF WatchPending, FullyPublished
  <2>4. CompletionPending(u)'
    BY <2>1, <2>2 DEF WatchInv, CompletionPending
  <2>5. QED
    BY <2>3, <2>4
<1>5. QED
  BY <1>1, <1>2, <1>3, <1>4 DEF WatchInv

(* A step of one cleaner, which leaves watchers, registries and table      *)
(* alone, keeps the invariant when nobody stops publishing or answering.   *)
LEMMA CleanerFrame ==
  ASSUME TypeInv, WatchInv, NEW c \in Cleaners, UNCHANGED <<table, armed, completing, watcher>>,
         \A d \in Cleaners \ {c} : cleaner'[d] = cleaner[d],
         \A p \in Pids : record[p] # NoReason => record'[p] # NoReason,
         \A p \in Pids : record'[p] # NoReason =>
            record[p] # NoReason \/ (cleaner'[c].pid = p /\ cleaner'[c].at = "publish"),
         cleaner[c].at \notin {"complete", "firing"}, cleaner'[c].at \notin {"complete", "firing"},
         cleaner[c].at \in {"publish", "full", "fire"} =>
            cleaner'[c].pid = cleaner[c].pid /\ cleaner'[c].at \in {"publish", "full", "fire"},
         cleaner'[c].at \in {"publish", "full", "fire", "remove"} => record'[cleaner'[c].pid] # NoReason
  PROVE  WatchInv'
<1>1. RemovedIsRecorded'
  BY CleanerFields DEF WatchInv, RemovedIsRecorded, Pids
<1>2. CompletionInOrder'
  BY DEF WatchInv, CompletionInOrder
<1>3. RegistriesTrue'
  BY DEF WatchInv, RegistriesTrue
<1>4. \A p \in Pids : FullyPublished(p)' => FullyPublished(p)
  BY DEF FullyPublished
<1>5. ASSUME NEW w \in Watchers PROVE WatchPending(w)' /\ CompletionPending(w)'
  <2>1. watcher[w].pid \in Pids
    BY WatcherFields
  <2>2. Answering(w) => Answering(w)'
    BY DEF Answering
  <2>3. WatchPending(w)'
    BY <1>4, <2>1 DEF WatchInv, WatchPending
  <2>4. CompletionPending(w)'
    BY <2>1, <2>2 DEF WatchInv, CompletionPending
  <2>5. QED
    BY <2>3, <2>4
<1>6. QED
  BY <1>1, <1>2, <1>3, <1>5 DEF WatchInv

(* A watcher of exits that goes on stays armed exactly while it waits. *)
LEMMA AnswerEffect ==
  ASSUME TypeInv, WatchInv, NEW w \in Watchers, NEW step \in WatcherSteps, Answer(w, step)
  PROVE  /\ watcher'[w].at = step /\ watcher'[w].pid = watcher[w].pid
         /\ watcher'[w].slot = watcher[w].slot
         /\ \A u \in Watchers \ {w} :
              /\ watcher'[u] = watcher[u]
              /\ \A p \in Pids : u \in armed'[p] <=> u \in armed[p]
         /\ step \in {"live", "table", "again"} => armed' = armed
         /\ step \notin {"live", "table", "again"} => \A p \in Pids : w \notin armed'[p]
<1>1. \A p \in Pids : w \in armed[p] => p = watcher[w].pid
  BY DEF WatchInv, RegistriesTrue
<1>2. WatchGoTo(w, step)
  BY DEF Answer
<1>3. CASE step \in {"live", "table", "again"}
  BY <1>2, <1>3, WatchGoToType DEF Answer
<1>4. CASE step \notin {"live", "table", "again"}
  <2>1. armed' = [armed EXCEPT ![watcher[w].pid] = @ \ {w}]
    BY <1>4 DEF Answer
  <2>2. \A p \in Pids : armed'[p] = IF p = watcher[w].pid THEN armed[p] \ {w} ELSE armed[p]
    BY <2>1 DEF TypeInv
  <2>3. QED
    BY <1>1, <1>2, <1>4, <2>2, WatchGoToType
<1>5. QED
  BY <1>3, <1>4

(* The steps of a watcher keep the invariant: it is in the registry before *)
(* it looks for an exit, and whatever it reads is no older than that.      *)
LEMMA WatcherKeepsWatches ==
  ASSUME TypeInv, WatchInv, TypeInv', NEW w \in Watchers, WatcherStep(w)
  PROVE  WatchInv'
<1> USE WatcherFields, ExitRecordsAssumption
    DEF records, events, erGhosts, WatcherSteps, CompletionSteps
<1> DEFINE pid == watcher[w].pid
<1>0. /\ \A p \in Pids : w \in armed[p] =>
            pid = p /\ watcher[w].at \in {"record", "table", "again", "live"}
      /\ \A p \in Pids : w \in completing[p] => pid = p /\ watcher[w].at \in {"ctable", "clive"}
      /\ Answering(w) => watcher[w].at \in CompletionSteps
      /\ WatchPending(w) /\ CompletionPending(w)
  BY DEF WatchInv, RegistriesTrue, Answering, CompletionInOrder
<1>1. CASE \E p \in Watchable : WatchRegister(w, p)
  <2>1. PICK p \in Pids : WatchRegister(w, p)
    BY <1>1 DEF Pids
  <2>2. /\ UNCHANGED <<table, record, cleaner, completing>>
        /\ watcher[w].at = "idle" /\ watcher'[w] = [at |-> "record", pid |-> p, slot |-> NoReason]
        /\ \A u \in Watchers \ {w} : watcher'[u] = watcher[u]
        /\ armed' = [armed EXCEPT ![p] = @ \cup {w}]
    BY <2>1 DEF WatchRegister, TypeInv
  <2>3. /\ w \in armed'[p]
        /\ \A q \in Pids : w \in armed'[q] => q = p
        /\ \A u \in Watchers \ {w}, q \in Pids : u \in armed'[q] <=> u \in armed[q]
    BY <1>0, <2>2 DEF TypeInv
  <2>4. WatchPending(w)' /\ CompletionPending(w)'
    BY <2>2, <2>3 DEF WatchPending, CompletionPending
  <2>5. QED
    BY <1>0, <2>2, <2>3, <2>4, WatcherFrame
<1>2. CASE \E p \in Watchable : CompletionRegister(w, p)
  <2>1. PICK p \in Pids : CompletionRegister(w, p)
    BY <1>2 DEF Pids
  <2>2. /\ UNCHANGED <<table, record, cleaner, armed>>
        /\ watcher[w].at = "idle" /\ watcher'[w].at = "ctable" /\ watcher'[w].pid = p
        /\ watcher'[w].slot = IF closed THEN "disconnected" ELSE NoReason
        /\ \A u \in Watchers \ {w} : watcher'[u] = watcher[u]
        /\ completing' = [completing EXCEPT ![p] = IF closed THEN @ ELSE @ \cup {w}]
    BY <2>1 DEF CompletionRegister, TypeInv
  <2>3. /\ closed \/ w \in completing'[p]
        /\ \A q \in Pids : w \in completing'[q] => q = p
        /\ \A u \in Watchers \ {w}, q \in Pids : u \in completing'[q] <=> u \in completing[q]
    BY <1>0, <2>2 DEF TypeInv
  <2>4. WatchPending(w)' /\ CompletionPending(w)'
    BY <2>2, <2>3 DEF WatchPending, CompletionPending, NoReason
  <2>5. QED
    BY <1>0, <2>2, <2>3, <2>4, WatcherFrame
<1>3. CASE WatchReadRecord(w)
  <2>1. PICK step \in WatcherSteps : /\ Answer(w, step)
                                     /\ step = IF record[pid] # NoReason THEN "exited" ELSE "table"
    BY <1>3 DEF WatchReadRecord
  <2>2. UNCHANGED <<table, record, cleaner, completing>> /\ watcher[w].at = "record"
    BY <1>3 DEF WatchReadRecord
  <2>3. WatchPending(w)' /\ CompletionPending(w)'
    BY <1>0, <2>1, <2>2, AnswerEffect DEF WatchPending, CompletionPending, FullyPublished
  <2>4. QED
    BY <1>0, <2>1, <2>2, <2>3, AnswerEffect, WatcherFrame
<1>4. CASE WatchReadTable(w)
  <2>1. PICK step \in WatcherSteps : /\ Answer(w, step)
                                     /\ step = IF pid \in table THEN "live" ELSE "again"
    BY <1>4 DEF WatchReadTable
  <2>2. UNCHANGED <<table, record, cleaner, completing>> /\ watcher[w].at = "table"
    BY <1>4 DEF WatchReadTable
  <2>3. WatchPending(w)' /\ CompletionPending(w)'
    BY <1>0, <2>1, <2>2, AnswerEffect DEF WatchPending, CompletionPending, FullyPublished
  <2>4. QED
    BY <1>0, <2>1, <2>2, <2>3, AnswerEffect, WatcherFrame
<1>5. CASE WatchReadAgain(w)
  <2>1. PICK step \in WatcherSteps : /\ Answer(w, step)
                                     /\ step = IF record[pid] # NoReason THEN "exited" ELSE "norecord"
    BY <1>5 DEF WatchReadAgain
  <2>2. UNCHANGED <<table, record, cleaner, completing>> /\ watcher[w].at = "again"
    BY <1>5 DEF WatchReadAgain
  <2>3. pid \in Exiting => record[pid] # NoReason
    BY <1>0, <2>2 DEF WatchInv, WatchPending, RemovedIsRecorded
  <2>4. WatchPending(w)' /\ CompletionPending(w)'
    BY <1>0, <2>1, <2>2, <2>3, AnswerEffect DEF WatchPending, CompletionPending, Pids
  <2>5. QED
    BY <1>0, <2>1, <2>2, <2>4, AnswerEffect, WatcherFrame
<1>6. CASE WatchDrop(w)
  <2>1. /\ Answer(w, "dropped") /\ "dropped" \in WatcherSteps
        /\ UNCHANGED <<table, record, cleaner, completing>> /\ watcher[w].at = "live"
    BY <1>6 DEF WatchDrop
  <2>2. WatchPending(w)' /\ CompletionPending(w)'
    BY <2>1, AnswerEffect DEF WatchPending, CompletionPending
  <2>3. QED
    BY <1>0, <2>1, <2>2, AnswerEffect, WatcherFrame
<1>7. CASE CompletionReadTable(w)
  <2>1. PICK step \in WatcherSteps : /\ WatchGoTo(w, step)
                                     /\ step = IF pid \in table THEN "clive" ELSE "crecord"
    BY <1>7 DEF CompletionReadTable
  <2>2. UNCHANGED <<table, record, cleaner, armed>> /\ watcher[w].at = "ctable"
    BY <1>7 DEF CompletionReadTable
  <2>3. completing' = IF pid \in table THEN completing ELSE [completing EXCEPT ![pid] = @ \ {w}]
    BY <1>7 DEF CompletionReadTable
  <2>4. /\ pid \in table => completing' = completing
        /\ pid \notin table => \A p \in Pids : w \notin completing'[p]
        /\ \A u \in Watchers \ {w}, p \in Pids : u \in completing'[p] <=> u \in completing[p]
    BY <1>0, <2>3 DEF TypeInv
  <2>5. Answering(w)' <=> Answering(w)
    BY <2>2 DEF Answering
  <2>6. WatchPending(w)' /\ CompletionPending(w)'
    BY <1>0, <2>1, <2>2, <2>4, <2>5, WatchGoToType DEF WatchPending, CompletionPending
  <2>7. QED
    BY <1>0, <2>1, <2>2, <2>4, <2>6, WatchGoToType, WatcherFrame
<1>8. CASE CompletionReadRecord(w)
  <2>1. PICK step \in WatcherSteps : /\ WatchGoTo(w, step)
                                     /\ step = IF record[pid] # NoReason THEN "removed" ELSE "cnorecord"
    BY <1>8 DEF CompletionReadRecord
  <2>2. UNCHANGED <<table, record, cleaner, armed, completing>> /\ watcher[w].at = "crecord"
    BY <1>8 DEF CompletionReadRecord
  <2>3. pid \in Exiting => record[pid] # NoReason
    BY <1>0, <2>2 DEF WatchInv, CompletionPending, RemovedIsRecorded
  <2>4. WatchPending(w)' /\ CompletionPending(w)'
    BY <1>0, <2>1, <2>2, <2>3, WatchGoToType DEF WatchPending, CompletionPending, Pids
  <2>5. QED
    BY <1>0, <2>1, <2>2, <2>4, WatchGoToType, WatcherFrame
<1>9. QED
  BY <1>1, <1>2, <1>3, <1>4, <1>5, <1>6, <1>7, <1>8 DEF WatcherStep

(* The steps of a cleaner keep the invariant: the watches of a pid are     *)
(* answered after its record is there, and its completions after it left   *)
(* the table.                                                              *)
LEMMA CleanerKeepsWatches ==
  ASSUME TypeInv, PublishInv, WatchInv, NEW c \in Cleaners, CleanerStep(c)
  PROVE  WatchInv'
<1> USE CleanerFields, ExitRecordsAssumption DEF records, events, watches, erGhosts, CleanerSteps
<1> DEFINE p == cleaner[c].pid
<1>0. \A w \in Watchers : watcher[w].pid \in Pids /\ WatchPending(w) /\ CompletionPending(w)
  BY WatcherFields DEF WatchInv
<1>1. CASE \E q \in Exiting : BeginCleanup(c, q)
  <2>1. PICK q \in Pids : BeginCleanup(c, q)
    BY <1>1 DEF Pids
  <2>2. /\ UNCHANGED <<table, record, armed, completing, watcher>> /\ cleaner[c].at = "idle"
        /\ cleaner' = [cleaner EXCEPT ![c].at = "insert", ![c].pid = q]
    BY <2>1 DEF BeginCleanup
  <2>3. cleaner'[c].at = "insert" /\ \A d \in Cleaners \ {c} : cleaner'[d] = cleaner[d]
    BY <2>2, TakePidType
  <2>4. QED
    BY <2>2, <2>3, CleanerFrame
<1>2. CASE InsertTombstone(c)
  <2>1. UNCHANGED <<table, armed, completing, watcher>> /\ cleaner[c].at = "insert"
    BY <1>2 DEF InsertTombstone
  <2>2. CASE reasons[p] # NoReason \/ ~OwnsRecord(p)
    <3>1. GoTo(c, "remove") /\ UNCHANGED record
      BY <1>2, <2>2 DEF InsertTombstone
    <3>2. record[p] # NoReason
      BY <2>2 DEF PublishInv, NothingBeforeRecord, OwnsRecord
    <3>3. QED
      BY <2>1, <3>1, <3>2, GoToType, CleanerFrame
  <2>3. CASE reasons[p] = NoReason /\ OwnsRecord(p)
    <3>1. GoTo(c, "publish") /\ record' = [record EXCEPT ![p] = c]
      BY <1>2, <2>3 DEF InsertTombstone
    <3>2. record'[p] # NoReason /\ \A q \in Pids \ {p} : record'[q] = record[q]
      BY <3>1 DEF TypeInv, NoReason
    <3>3. QED
      BY <2>1, <3>1, <3>2, GoToType, CleanerFrame
  <2>4. QED
    BY <2>2, <2>3
<1>3. CASE Publish(c)
  <2>1. /\ UNCHANGED <<table, record, armed, completing, watcher>> /\ cleaner[c].at = "publish"
        /\ \E step \in {"full", "fire"} : GoTo(c, step)
    BY <1>3 DEF Publish
  <2>2. record[p] # NoReason
    BY <2>1 DEF WatchInv, RemovedIsRecorded
  <2>3. QED
    BY <2>1, <2>2, GoToType, CleanerFrame
<1>4. CASE MarkOverflow(c)
  <2>1. /\ UNCHANGED <<table, record, armed, completing, watcher>> /\ cleaner[c].at = "full"
        /\ GoTo(c, "fire")
    BY <1>4 DEF MarkOverflow
  <2>2. record[p] # NoReason
    BY <2>1 DEF WatchInv, RemovedIsRecorded
  <2>3. QED
    BY <2>1, <2>2, GoToType, CleanerFrame
<1>5. CASE FireWatches(c)
  <2>1. /\ UNCHANGED <<table, record, completing>> /\ cleaner[c].at = "fire"
        /\ armed' = [armed EXCEPT ![p] = {}] /\ Notify(armed[p], c) /\ GoTo(c, "remove")
    BY <1>5 DEF FireWatches
  <2>2. /\ cleaner'[c].at = "remove" /\ cleaner'[c].pid = p
        /\ \A d \in Cleaners \ {c} : cleaner'[d] = cleaner[d]
    BY <2>1, GoToType
  <2>3. /\ armed'[p] = {} /\ \A q \in Pids \ {p} : armed'[q] = armed[q]
        /\ \A w \in Watchers : /\ watcher'[w].at = watcher[w].at /\ watcher'[w].pid = watcher[w].pid
                               /\ watcher'[w].slot = IF w \in armed[p] /\ watcher[w].slot = NoReason
                                                     THEN c ELSE watcher[w].slot
    BY <2>1, NotifyType DEF TypeInv
  <2>4. RemovedIsRecorded'
    BY <2>1, <2>2 DEF WatchInv, RemovedIsRecorded
  <2>5. CompletionInOrder'
    BY <2>1, <2>2, <2>3 DEF WatchInv, CompletionInOrder
  <2>6. RegistriesTrue'
    <3>1. \A q \in Pids : armed'[q] \subseteq armed[q] /\ armed[q] \subseteq Watchers
                          /\ completing[q] \subseteq Watchers
      BY <2>3 DEF TypeInv
    <3>2. QED
      BY <2>1, <2>3, <3>1 DEF WatchInv, RegistriesTrue
  <2>7. ASSUME NEW w \in Watchers PROVE WatchPending(w)' /\ CompletionPending(w)'
    <3>1. WatchPending(w) /\ CompletionPending(w) /\ watcher[w].pid \in Pids
      BY <1>0
    <3>2. w \in armed[p] => watcher[w].at \notin {"ctable", "clive"}
      BY DEF WatchInv, RegistriesTrue
    <3>3. \A q \in Pids \ {p} : FullyPublished(q)' => FullyPublished(q)
      BY <2>1, <2>2 DEF FullyPublished
    <3>4. WatchPending(w)'
      BY <2>1, <2>3, <3>1, <3>3 DEF WatchPending, FullyPublished, NoReason
    <3>5. Answering(w) => Answering(w)'
      BY <2>1, <2>2 DEF Answering
    <3>6. CompletionPending(w)'
      BY <2>1, <2>2, <2>3, <3>1, <3>2, <3>5 DEF CompletionPending
    <3>7. QED
      BY <3>4, <3>6
  <2>8. QED
    BY <2>4, <2>5, <2>6, <2>7 DEF WatchInv
<1>6. CASE RemoveFromTable(c)
  <2>1. /\ UNCHANGED <<record, armed, completing, watcher>> /\ cleaner[c].at = "remove"
        /\ table' = table \ {p} /\ GoTo(c, IF p \in table THEN "complete" ELSE "idle")
    BY <1>6 DEF RemoveFromTable
  <2>2. /\ cleaner'[c].at = (IF p \in table THEN "complete" ELSE "idle") /\ cleaner'[c].pid = p
        /\ \A d \in Cleaners \ {c} : cleaner'[d] = cleaner[d]
    BY <2>1, GoToType
  <2>3. RemovedIsRecorded'
    BY <2>1, <2>2 DEF WatchInv, RemovedIsRecorded
  <2>4. CompletionInOrder'
    BY <2>1, <2>2 DEF WatchInv, CompletionInOrder
  <2>5. RegistriesTrue'
    BY <2>1 DEF WatchInv, RegistriesTrue
  <2>6. ASSUME NEW w \in Watchers PROVE WatchPending(w)' /\ CompletionPending(w)'
    <3>1. WatchPending(w) /\ CompletionPending(w) /\ watcher[w].pid \in Pids
      BY <1>0
    <3>2. \A q \in Pids : FullyPublished(q)' => FullyPublished(q)
      BY <2>1, <2>2 DEF FullyPublished
    <3>3. Answering(w) => Answering(w)'
      BY <2>1, <2>2 DEF Answering
    <3>4. WatchPending(w)'
      BY <2>1, <3>1, <3>2 DEF WatchPending
    <3>5. CompletionPending(w)'
      BY <2>1, <2>2, <3>1, <3>3 DEF CompletionPending
    <3>6. QED
      BY <3>4, <3>5
  <2>7. QED
    BY <2>3, <2>4, <2>5, <2>6 DEF WatchInv
<1>7. CASE TakeCompletion(c)
  <2>1. /\ UNCHANGED <<table, record, armed, watcher>> /\ cleaner[c].at = "complete"
        /\ completing' = [completing EXCEPT ![p] = {}]
    BY <1>7 DEF TakeCompletion
  <2>2. /\ cleaner'[c].at = "firing" /\ cleaner'[c].pid = p /\ cleaner'[c].slots = completing[p]
        /\ \A d \in Cleaners \ {c} : cleaner'[d] = cleaner[d]
    BY <1>7, TakeCompletionType
  <2>3. completing'[p] = {} /\ \A q \in Pids \ {p} : completing'[q] = completing[q]
    BY <2>1 DEF TypeInv
  <2>4. RemovedIsRecorded'
    BY <2>1, <2>2 DEF WatchInv, RemovedIsRecorded
  <2>5. CompletionInOrder'
    BY <2>1, <2>2 DEF WatchInv, CompletionInOrder, RegistriesTrue
  <2>6. RegistriesTrue'
    BY <2>1, <2>3 DEF WatchInv, RegistriesTrue
  <2>7. ASSUME NEW w \in Watchers PROVE WatchPending(w)' /\ CompletionPending(w)'
    <3>1. WatchPending(w) /\ CompletionPending(w) /\ watcher[w].pid \in Pids
      BY <1>0
    <3>2. \A q \in Pids : FullyPublished(q)' => FullyPublished(q)
      BY <2>1, <2>2 DEF FullyPublished
    <3>3. Answering(w) => Answering(w)'
      BY <2>1, <2>2 DEF Answering
    <3>4. w \in completing[p] => Answering(w)'
      BY <2>2 DEF Answering
    <3>5. WatchPending(w)'
      BY <2>1, <3>1, <3>2 DEF WatchPending
    <3>6. CompletionPending(w)'
      BY <2>1, <2>2, <2>3, <3>1, <3>3, <3>4 DEF CompletionPending
    <3>7. QED
      BY <3>5, <3>6
  <2>8. QED
    BY <2>4, <2>5, <2>6, <2>7 DEF WatchInv
<1>8. CASE FireCompletion(c)
  <2>1. /\ UNCHANGED <<table, record, armed, completing>> /\ cleaner[c].at = "firing"
        /\ Notify(cleaner[c].slots, c)
    BY <1>8 DEF FireCompletion
  <2>2. /\ cleaner'[c].at = "idle" /\ cleaner'[c].pid = p
        /\ \A d \in Cleaners \ {c} : cleaner'[d] = cleaner[d]
    BY <1>8, FireCompletionType
  <2>3. \A w \in Watchers :
          /\ watcher'[w].at = watcher[w].at /\ watcher'[w].pid = watcher[w].pid
          /\ watcher'[w].slot = IF w \in cleaner[c].slots /\ watcher[w].slot = NoReason
                                THEN c ELSE watcher[w].slot
    BY <2>1, NotifyType
  <2>4. RemovedIsRecorded'
    BY <2>1, <2>2 DEF WatchInv, RemovedIsRecorded
  <2>5. CompletionInOrder'
    BY <2>1, <2>2, <2>3 DEF WatchInv, CompletionInOrder
  <2>6. RegistriesTrue'
    <3>1. \A q \in Pids : armed[q] \subseteq Watchers /\ completing[q] \subseteq Watchers
      BY DEF TypeInv
    <3>2. QED
      BY <2>1, <2>3, <3>1 DEF WatchInv, RegistriesTrue
  <2>7. ASSUME NEW w \in Watchers PROVE WatchPending(w)' /\ CompletionPending(w)'
    <3>1. WatchPending(w) /\ CompletionPending(w) /\ watcher[w].pid \in Pids
      BY <1>0
    <3>2. \A q \in Pids : FullyPublished(q)' => FullyPublished(q)
      BY <2>1, <2>2 DEF FullyPublished
    <3>3. Answering(w) => Answering(w)' \/ w \in cleaner[c].slots
      BY <2>1, <2>2 DEF Answering
    <3>4. w \in cleaner[c].slots => watcher[w].pid = p /\ p \notin table
      BY <2>1 DEF WatchInv, CompletionInOrder
    <3>5. WatchPending(w)'
      BY <2>1, <2>3, <3>1, <3>2 DEF WatchPending, NoReason
    <3>6. CompletionPending(w)'
      BY <2>1, <2>2, <2>3, <3>1, <3>3, <3>4 DEF CompletionPending, NoReason
    <3>7. QED
      BY <3>5, <3>6
  <2>8. QED
    BY <2>4, <2>5, <2>6, <2>7 DEF WatchInv
<1>9. QED
  BY <1>1, <1>2, <1>3, <1>4, <1>5, <1>6, <1>7, <1>8 DEF CleanerStep

(* A step that touches neither records, registries, cleaners nor watchers  *)
(* keeps the invariant.                                                    *)
LEMMA WatchInvFrame ==
  ASSUME WatchInv, UNCHANGED <<table, record, armed, completing, cleaner, watcher>>
  PROVE  WatchInv'
BY DEF WatchInv, RemovedIsRecorded, CompletionInOrder, RegistriesTrue, WatchPending,
       CompletionPending, FullyPublished, Answering

(* The shutdown disconnects the completion watches that are left. *)
LEMMA SettleKeepsWatches ==
  ASSUME TypeInv, WatchInv, SettleShutdown
  PROVE  WatchInv'
<1> USE ExitRecordsAssumption
<1>1. /\ UNCHANGED <<table, record, armed, cleaner>> /\ \A c \in Cleaners : cleaner[c].at # "firing"
      /\ \A p \in Pids : completing'[p] = {}
  BY DEF SettleShutdown, records, events, erGhosts
<1>2. \A w \in Watchers :
        /\ watcher'[w].at = watcher[w].at /\ watcher'[w].pid = watcher[w].pid
        /\ watcher'[w].slot = IF \E p \in Pids : w \in completing[p]
                              THEN "disconnected" ELSE watcher[w].slot
  BY DEF SettleShutdown, TypeInv, WatcherRecords
<1>3. RemovedIsRecorded'
  BY <1>1 DEF WatchInv, RemovedIsRecorded
<1>4. CompletionInOrder'
  BY <1>1 DEF WatchInv, CompletionInOrder
<1>5. RegistriesTrue'
  <2>1. \A p \in Pids : armed[p] \subseteq Watchers
    BY DEF TypeInv
  <2>2. QED
    BY <1>1, <1>2, <2>1 DEF WatchInv, RegistriesTrue
<1>6. ASSUME NEW w \in Watchers PROVE WatchPending(w)' /\ CompletionPending(w)'
  <2>1. WatchPending(w) /\ CompletionPending(w) /\ watcher[w].pid \in Pids
    BY WatcherFields DEF WatchInv
  <2>2. ~Answering(w)
    BY <1>1 DEF Answering
  <2>3. WatchPending(w)'
    BY <1>1, <1>2, <2>1 DEF WatchPending, FullyPublished, NoReason
  <2>4. CompletionPending(w)'
    BY <1>1, <1>2, <2>1, <2>2 DEF CompletionPending, NoReason
  <2>5. QED
    BY <2>3, <2>4
<1>7. QED
  BY <1>3, <1>4, <1>5, <1>6 DEF WatchInv

(* Every step keeps the invariant. *)
LEMMA NextKeepsWatches ==
  TypeInv /\ TypeInv' /\ PublishInv /\ WatchInv /\ [ErNext]_erVars => WatchInv'
<1> SUFFICES ASSUME TypeInv, TypeInv', PublishInv, WatchInv, [ErNext]_erVars PROVE WatchInv'
  OBVIOUS
<1>1. CASE \E c \in Cleaners : CleanerStep(c)
  BY <1>1, CleanerKeepsWatches
<1>2. CASE \E w \in Watchers : WatcherStep(w)
  BY <1>2, WatcherKeepsWatches
<1>3. CASE SettleShutdown
  BY <1>3, SettleKeepsWatches
<1>4. CASE CloseWatches \/ Subscribe \/ RecvBegin \/ RecvLagged \/ RecvEvent \/ UNCHANGED erVars
  BY <1>4, WatchInvFrame
  DEF CloseWatches, Subscribe, RecvBegin, RecvLagged, RecvEvent, erVars, records, events, watches,
      erGhosts
<1>5. QED
  BY <1>1, <1>2, <1>3, <1>4 DEF ErNext

(* A watch is never lost, for any number of watchers and of overlapping    *)
(* cleanups: one that answered Live is told once the exit is published in  *)
(* full, a completion watch is told after the removal and not before, or   *)
(* finds itself disconnected by the shutdown, and NoRecord is answered     *)
(* only of a pid that never ran (watch_exit reads the record again after   *)
(* the table, watch_exit_completion reads it last).                        *)
THEOREM WatchesAreTold == ErSpec => []WatchNeverLost
<1>1. ErInit => WatchInv
  BY ExitRecordsAssumption
  DEF ErInit, WatchInv, RemovedIsRecorded, CompletionInOrder, RegistriesTrue, WatchPending,
      CompletionPending
<1>2. ErSpec => []WatchInv
  BY <1>1, NextKeepsWatches, Types, Publishes, PTL DEF ErSpec
<1>3. TypeInv /\ WatchInv => WatchNeverLost
  BY WatchInvSuffices
<1>4. QED
  BY <1>2, <1>3, Types, PTL

=============================================================================

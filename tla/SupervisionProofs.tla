-------------------------- MODULE SupervisionProofs --------------------------
(***************************************************************************)
(* Proofs about Supervision, for any number of processes, links and calls: *)
(* with all threads at rest a process is whole or gone, the DOWN of a      *)
(* monitor comes once, and an abnormal death reaches those it is linked    *)
(* to; and about RemoteLinks, the links between processes on two nodes:    *)
(* each end is told once, and no half of a link is left behind.            *)
(***************************************************************************)
EXTENDS Supervision, RemoteLinks, FiniteSetTheorems, SequenceTheorems, TLAPS

-----------------------------------------------------------------------------
(* The threads *)

CleanSteps == {"tomb", "takeLinks", "collect", "downs", "signal", "spendToken", "removeBody"}

SliceSteps == {"run", "linkCaller", "linkTarget", "unlinkTarget", "spawning", "downNow"}

Steps == CleanSteps \cup SliceSteps \cup {"idle", "store", "storeDead", "stored"}

(* A record with the fields of a thread, whatever they hold. *)
Whole(r) ==
  r = [pc |-> r.pc, peer |-> r.peer, reason |-> r.reason, pid |-> r.pid, phase |-> r.phase,
       dying |-> r.dying, downs |-> r.downs, work |-> r.work, cascade |-> r.cascade]

(* A thread that cleans up knows which process it began with, and spends   *)
(* the token of a victim it found in its slot or of that process.  Any     *)
(* other thread is about no process.                                       *)
ThreadOk(r) ==
  /\ Whole(r) /\ r.pc \in Steps
  /\ r.pc \in CleanSteps => r.pid \in Pids
  /\ r.pc \notin CleanSteps => r.pid = None /\ r.dying = None
  /\ r.pc \in {"spendToken", "removeBody"} => r.phase = "present" \/ r.dying = r.pid

ThreadInv ==
  /\ thread = [t \in Threads |-> thread[t]]
  /\ \A t \in Threads : ThreadOk(thread[t])
  /\ thread[Host].pc \in CleanSteps \cup {"idle"}
  /\ \A t \in Threads : thread[t].pc = "removeBody" => thread[t].dying \notin table

(* Where the body of a process is tells what its worker does. *)
Away(p) ==
  \/ thread[p].pc \in SliceSteps \cup {"store", "storeDead"}
  \/ thread[p].pc \in CleanSteps /\ thread[p].pid # p

Back(p) ==
  \/ thread[p].pc \in {"idle", "stored"}
  \/ thread[p].pc \in CleanSteps /\ thread[p].pid = p

SlotInv ==
  /\ slot \in [Pids -> {"unborn", "present", "executing", "gone"}]
  /\ \A p \in Pids : /\ slot[p] = "executing" => Away(p)
                     /\ slot[p] = "present" => Back(p)
                     /\ slot[p] = "gone" => p \notin table

(* A process that is not published yet has no worker, no tombstone and no  *)
(* finalizer, and is in the table only when its parent is about to publish *)
(* it.                                                                     *)
SpawnInv ==
  /\ \A p \in Pids : slot[p] = "unborn" =>
       /\ thread[p].pc = "idle" /\ tombs[p] = None
       /\ \A t \in Threads : thread[t].pid # p /\ thread[t].dying # p
       /\ p \in table => \E t \in Pids : thread[t].pc = "spawning" /\ thread[t].peer = p
  /\ \A t \in Pids : thread[t].pc = "spawning" =>
       /\ thread[t].peer \in Pids /\ slot[thread[t].peer] = "unborn" /\ thread[t].peer \in table
       /\ \A u \in Pids : thread[u].pc = "spawning" /\ u # t => thread[u].peer # thread[t].peer

(* Who took the token is about to remove the body. *)
TokenInv ==
  \A p \in Pids : p \notin table /\ slot[p] \in {"present", "executing"} =>
    \E t \in Threads : thread[t].pc = "removeBody" /\ thread[t].dying = p

(* Whoever will finalize p: its own worker, a thread that began with p, or *)
(* one whose cascade reached p in its slot.                                *)
Concerned(t, p) ==
  \/ thread[t].pid = p
  \/ /\ thread[t].dying = p /\ thread[t].phase = "present"
     /\ thread[t].pc \in {"collect", "downs", "spendToken"}

TombInv ==
  /\ tombs = [p \in Pids |-> tombs[p]]
  /\ \A p \in Pids : tombs[p] # None =>
       \/ thread[p].pc # "idle"
       \/ \E t \in Threads : Concerned(t, p)
       \/ p \notin table

ZombieInv == ThreadInv /\ SlotInv /\ SpawnInv /\ TokenInv /\ TombInv

-----------------------------------------------------------------------------
(* What the updates of a thread's record do *)

(* What an update of one field leaves. *)
Put(r, s, field, x) ==
  /\ Whole(s)
  /\ s.pc = IF field = "pc" THEN x ELSE r.pc
  /\ s.peer = IF field = "peer" THEN x ELSE r.peer
  /\ s.reason = IF field = "reason" THEN x ELSE r.reason
  /\ s.pid = IF field = "pid" THEN x ELSE r.pid
  /\ s.phase = IF field = "phase" THEN x ELSE r.phase
  /\ s.dying = IF field = "dying" THEN x ELSE r.dying
  /\ s.downs = IF field = "downs" THEN x ELSE r.downs
  /\ s.work = IF field = "work" THEN x ELSE r.work
  /\ s.cascade = IF field = "cascade" THEN x ELSE r.cascade

LEMMA Fields ==
  ASSUME NEW r, Whole(r), NEW x
  PROVE  /\ Put(r, [r EXCEPT !.pc = x], "pc", x)
         /\ Put(r, [r EXCEPT !.peer = x], "peer", x)
         /\ Put(r, [r EXCEPT !.reason = x], "reason", x)
         /\ Put(r, [r EXCEPT !.pid = x], "pid", x)
         /\ Put(r, [r EXCEPT !.phase = x], "phase", x)
         /\ Put(r, [r EXCEPT !.dying = x], "dying", x)
         /\ Put(r, [r EXCEPT !.downs = x], "downs", x)
         /\ Put(r, [r EXCEPT !.work = x], "work", x)
         /\ Put(r, [r EXCEPT !.cascade = x], "cascade", x)
<1>1. Put(r, [r EXCEPT !.pc = x], "pc", x)
  BY DEF Whole, Put
<1>2. Put(r, [r EXCEPT !.peer = x], "peer", x)
  BY DEF Whole, Put
<1>3. Put(r, [r EXCEPT !.reason = x], "reason", x)
  BY DEF Whole, Put
<1>4. Put(r, [r EXCEPT !.pid = x], "pid", x)
  BY DEF Whole, Put
<1>5. Put(r, [r EXCEPT !.phase = x], "phase", x)
  BY DEF Whole, Put
<1>6. Put(r, [r EXCEPT !.dying = x], "dying", x)
  BY DEF Whole, Put
<1>7. Put(r, [r EXCEPT !.downs = x], "downs", x)
  BY DEF Whole, Put
<1>8. Put(r, [r EXCEPT !.work = x], "work", x)
  BY DEF Whole, Put
<1>9. Put(r, [r EXCEPT !.cascade = x], "cascade", x)
  BY DEF Whole, Put
<1>10. QED
  BY <1>1, <1>2, <1>3, <1>4, <1>5, <1>6, <1>7, <1>8, <1>9

LEMMA PutWhole ==
  ASSUME NEW r, NEW s, NEW field, NEW x, Put(r, s, field, x)
  PROVE  Whole(s)
BY DEF Put

(* A thread with nothing to send, and one that has what r has. *)
Blank(r) == r.downs = {} /\ r.work = <<>> /\ r.cascade = <<>>

Carries(s, r) ==
  /\ s.downs = r.downs
  /\ \/ s.work = r.work /\ s.cascade = r.cascade
     \/ s.work = r.work \o r.cascade /\ s.cascade = <<>>

(* The beginnings of a routine. *)
LEMMA Beginnings ==
  /\ Whole(Resting) /\ Resting.pc = "idle" /\ Resting.pid = None /\ Resting.dying = None
  /\ Blank(Resting)
  /\ \A t : /\ Whole(Return(t)) /\ Return(t).pc = (IF t = Host THEN "idle" ELSE "run")
            /\ Return(t).pid = None /\ Return(t).dying = None /\ Blank(Return(t))
  /\ \A p, reason : LET c == Cleanup(p, reason)
                    IN  /\ Whole(c) /\ c.pc = "tomb" /\ c.pid = p /\ c.dying = p /\ c.phase = "top"
                        /\ Blank(c) /\ c.reason = reason
<1>1. /\ Whole(Resting) /\ Resting.pc = "idle" /\ Resting.pid = None /\ Resting.dying = None
      /\ Blank(Resting)
  BY DEF Whole, Resting, Blank
<1>2. ASSUME NEW t
      PROVE  /\ Whole(Return(t)) /\ Return(t).pc = (IF t = Host THEN "idle" ELSE "run")
             /\ Return(t).pid = None /\ Return(t).dying = None /\ Blank(Return(t))
  <2>1. Put(Resting, Return(t), "pc", IF t = Host THEN "idle" ELSE "run")
    BY <1>1, Fields DEF Return
  <2>2. QED
    BY <1>1, <2>1 DEF Put, Blank
<1>3. ASSUME NEW p, NEW reason
      PROVE  LET c == Cleanup(p, reason)
             IN  /\ Whole(c) /\ c.pc = "tomb" /\ c.pid = p /\ c.dying = p /\ c.phase = "top"
                 /\ Blank(c) /\ c.reason = reason
  <2> DEFINE r1 == [Resting EXCEPT !.pc = "tomb"]
             r2 == [r1 EXCEPT !.pid = p]
             r3 == [r2 EXCEPT !.reason = reason]
             r4 == [r3 EXCEPT !.phase = "top"]
             r5 == [r4 EXCEPT !.dying = p]
  <2>1. Cleanup(p, reason) = r5
    BY DEF Cleanup
  <2>2. Put(Resting, r1, "pc", "tomb")
    BY <1>1, Fields
  <2> HIDE DEF r1
  <2>3. Put(r1, r2, "pid", p)
    BY <2>2, PutWhole, Fields
  <2> HIDE DEF r2
  <2>4. Put(r2, r3, "reason", reason)
    BY <2>3, PutWhole, Fields
  <2> HIDE DEF r3
  <2>5. Put(r3, r4, "phase", "top")
    BY <2>4, PutWhole, Fields
  <2> HIDE DEF r4
  <2>6. Put(r4, r5, "dying", p)
    BY <2>5, PutWhole, Fields
  <2> HIDE DEF r5
  <2>7. QED
    BY <1>1, <2>1, <2>2, <2>3, <2>4, <2>5, <2>6 DEF Put, Blank
<1>4. QED
  BY <1>1, <1>2, <1>3

(* Where a thread stands after its DOWNs and its signals. *)
LEMMA Extended ==
  ASSUME NEW r, Whole(r)
  PROVE  LET s == Extend(r)
         IN  /\ Whole(s) /\ s.pc = "signal" /\ s.pid = r.pid /\ s.phase = r.phase /\ s.dying = r.dying
             /\ Carries(s, r) /\ s.cascade = <<>>
<1> DEFINE r1 == [r EXCEPT !.pc = "signal"]
           w == r.work \o r.cascade
           r2 == [r1 EXCEPT !.work = w]
           r3 == [r2 EXCEPT !.cascade = <<>>]
<1>1. Extend(r) = r3
  BY DEF Extend
<1> HIDE DEF w
<1>2. Put(r, r1, "pc", "signal")
  BY Fields
<1> HIDE DEF r1
<1>3. Put(r1, r2, "work", w)
  BY <1>2, PutWhole, Fields
<1> HIDE DEF r2
<1>4. Put(r2, r3, "cascade", <<>>)
  BY <1>3, PutWhole, Fields
<1> HIDE DEF r3
<1>5. r3.work = r.work \o r.cascade
  BY <1>3, <1>4 DEF Put, w
<1>6. QED
  BY <1>1, <1>2, <1>3, <1>4, <1>5 DEF Put, Carries

LEMMA DrainedStands ==
  ASSUME NEW r, Whole(r)
  PROVE  LET s == Drained(r)
         IN  /\ Whole(s) /\ s.pid = r.pid
             /\ s.downs = r.downs /\ s.work = r.work /\ s.cascade = r.cascade
             /\ \/ s = r
                \/ r.pc = "signal" /\ s.pc = "spendToken" /\ s.dying = r.pid /\ s.phase = "last"
<1> DEFINE r1 == [r EXCEPT !.pc = "spendToken"]
           r2 == [r1 EXCEPT !.dying = r.pid]
           r3 == [r2 EXCEPT !.phase = "last"]
<1>1. \/ r.pc = "signal" /\ Drained(r) = r3
      \/ Drained(r) = r
  BY DEF Drained
<1>2. Put(r, r1, "pc", "spendToken")
  BY Fields
<1> HIDE DEF r1
<1>3. Put(r1, r2, "dying", r.pid)
  BY <1>2, PutWhole, Fields
<1> HIDE DEF r2
<1>4. Put(r2, r3, "phase", "last")
  BY <1>3, PutWhole, Fields
<1> HIDE DEF r3
<1>5. QED
  BY <1>1, <1>2, <1>3, <1>4 DEF Put

LEMMA AdvanceStands ==
  ASSUME NEW r, Whole(r), r.pc \in {"downs", "signal"}
  PROVE  LET s == Advance(r)
         IN  /\ Whole(s) /\ s.pid = r.pid
             /\ Carries(s, r) /\ (s.pc # "downs" => r.downs = {} \/ r.pc = "signal")
             /\ \/ s.pc = "spendToken" /\ s.dying = r.pid /\ s.phase = "last"
                                       /\ (r.pc = "signal" \/ r.phase # "present")
                \/ s.pc = "signal" /\ (r.pc = "signal" \/ r.phase # "present")
                                   /\ s.dying = r.dying /\ s.phase = r.phase
                \/ s.pc = "downs" /\ r.pc = "downs" /\ s.dying = r.dying /\ s.phase = r.phase
                \/ s.pc = "spendToken" /\ r.pc = "downs" /\ r.phase = "present" /\ s.dying = r.dying
                                       /\ s.phase = r.phase
<1>1. CASE r.pc = "downs" /\ r.downs = {} /\ r.phase = "present"
  <2>1. Advance(r) = [r EXCEPT !.pc = "spendToken"]
    BY <1>1 DEF Advance
  <2> DEFINE s == [r EXCEPT !.pc = "spendToken"]
  <2>2. Put(r, s, "pc", "spendToken")
    BY Fields
  <2> HIDE DEF s
  <2>3. QED
    BY <1>1, <2>1, <2>2 DEF Put, s, Carries
<1>2. CASE r.pc = "downs" /\ r.downs = {} /\ r.phase # "present"
  <2>1. Advance(r) = Drained(Extend(r))
    BY <1>2 DEF Advance
  <2> DEFINE e == Extend(r)
             s == Drained(e)
  <2>2. /\ Whole(e) /\ e.pc = "signal" /\ e.pid = r.pid /\ e.phase = r.phase /\ e.dying = r.dying
        /\ Carries(e, r)
    BY Extended
  <2> HIDE DEF e
  <2>3. /\ Whole(s) /\ s.pid = e.pid
        /\ s.downs = e.downs /\ s.work = e.work /\ s.cascade = e.cascade
        /\ \/ s = e
           \/ s.pc = "spendToken" /\ s.dying = e.pid /\ s.phase = "last"
    BY <2>2, DrainedStands
  <2> HIDE DEF s
  <2>4. Advance(r) = s
    BY <2>1 DEF s, e
  <2>5. Carries(s, r)
    BY <2>2, <2>3 DEF Carries
  <2>6. QED
    BY <1>2, <2>2, <2>3, <2>4, <2>5
<1>3. CASE ~(r.pc = "downs" /\ r.downs = {})
  <2>1. Advance(r) = Drained(r)
    BY <1>3 DEF Advance
  <2>2. QED
    BY <1>3, <2>1, DrainedStands DEF Carries
<1>4. QED
  BY <1>1, <1>2, <1>3

(* The victim of a signal. *)
LEMMA VictimStands ==
  ASSUME NEW t, Whole(thread[t]), NEW s, NEW phase, NEW rest
  PROVE  /\ LET v == Victim(t, s, phase, rest)
            IN  /\ Whole(v) /\ v.pc = "collect" /\ v.pid = thread[t].pid /\ v.dying = s.to
                /\ v.phase = phase
                /\ v.downs = thread[t].downs /\ v.work = Tail(thread[t].work)
                /\ v.cascade = Signalled(s.to, RemoveLink(rest, s.from), TerminalReason(s.reason))
         /\ Put(thread[t], Popped(t), "work", Tail(thread[t].work))
<1> DEFINE r == thread[t]
           w == Tail(r.work)
           c == Signalled(s.to, RemoveLink(rest, s.from), TerminalReason(s.reason))
           r1 == Popped(t)
           r2 == [r1 EXCEPT !.pc = "collect"]
           r3 == [r2 EXCEPT !.dying = s.to]
           r4 == [r3 EXCEPT !.phase = phase]
           r5 == [r4 EXCEPT !.cascade = c]
<1>1. Victim(t, s, phase, rest) = r5
  BY DEF Victim
<1>2. Put(r, r1, "work", w)
  <2>1. Popped(t) = [r EXCEPT !.work = w]
    BY DEF Popped
  <2> HIDE DEF w, r
  <2>2. QED
    BY <2>1, Fields DEF r
<1> HIDE DEF r1, c
<1>3. Put(r1, r2, "pc", "collect")
  BY <1>2, PutWhole, Fields
<1> HIDE DEF r2
<1>4. Put(r2, r3, "dying", s.to)
  BY <1>3, PutWhole, Fields
<1> HIDE DEF r3
<1>5. Put(r3, r4, "phase", phase)
  BY <1>4, PutWhole, Fields
<1> HIDE DEF r4
<1>6. Put(r4, r5, "cascade", c)
  BY <1>5, PutWhole, Fields
<1> HIDE DEF r5
<1>7. QED
  BY <1>1, <1>2, <1>3, <1>4, <1>5, <1>6 DEF Put, r1, c

-----------------------------------------------------------------------------
(* Steps of one thread *)

(* Thread t goes to st, the others stay where they are. *)
Only(t, st) ==
  /\ thread' = [u \in Threads |-> thread'[u]]
  /\ thread'[t] = st
  /\ \A u \in Threads : u # t => thread'[u] = thread[u]

LEMMA Goes ==
  ASSUME ThreadInv, NEW t \in Threads, NEW st, Goto(t, st)
  PROVE  Only(t, st)
BY DEF ThreadInv, Goto, Only

(* The body of a process is with its worker or not. *)
LEMMA AwayOrBack ==
  ASSUME NEW p \in Pids, Back(p)
  PROVE  ~Away(p)
BY DEF Away, Back, SliceSteps, CleanSteps

(* A call of a slice or of the host that begins and ends nothing: it may   *)
(* leave a tombstone on a process that is checked out.                     *)
LEMMA Quiet ==
  ASSUME ZombieInv, NEW t \in Threads, NEW st, Only(t, st), UNCHANGED <<table, slot>>,
         Whole(st), st.pid = None, st.dying = None,
         \/ t = Host /\ thread[t].pc = "idle" /\ st.pc = "idle"
         \/ /\ t \in Pids /\ thread[t].pc \in SliceSteps \ {"spawning"}
            /\ st.pc \in (SliceSteps \ {"spawning"}) \cup {"store", "storeDead"},
         tombs' = [p \in Pids |-> tombs'[p]],
         \A p \in Pids : tombs'[p] = tombs[p] \/ slot[p] = "executing"
  PROVE  ZombieInv'
<1> USE SupervisionAssumption DEF Threads
<1>1. ThreadInv'
  <2>1. ThreadOk(st) /\ st.pc # "removeBody"
    BY DEF ThreadOk, Steps, SliceSteps, CleanSteps
  <2>2. QED
    BY <2>1 DEF ZombieInv, ThreadInv, Only, SliceSteps
<1>0. thread[t].pid = None /\ thread[t].dying = None
  BY DEF ZombieInv, ThreadInv, ThreadOk, SliceSteps, CleanSteps
<1>2. SlotInv'
  <2> SUFFICES ASSUME NEW p \in Pids
               PROVE  (Away(p) => Away(p)') /\ (Back(p) => Back(p)')
    BY DEF ZombieInv, SlotInv
  <2>1. CASE p = t
    BY <2>1 DEF Away, Back, Only, SliceSteps, CleanSteps
  <2>2. CASE p # t
    BY <2>2 DEF Away, Back, Only
  <2>3. QED
    BY <2>1, <2>2
<1>3. SpawnInv'
  <2>1. ASSUME NEW p \in Pids, slot[p] = "unborn"
        PROVE  /\ thread'[p].pc = "idle" /\ tombs'[p] = None
               /\ \A u \in Threads : thread'[u].pid # p /\ thread'[u].dying # p
               /\ p \in table => \E u \in Pids : thread'[u].pc = "spawning" /\ thread'[u].peer = p
    <3>1. /\ thread[p].pc = "idle" /\ tombs[p] = None
          /\ \A u \in Threads : thread[u].pid # p /\ thread[u].dying # p
          /\ p \in table => \E u \in Pids : thread[u].pc = "spawning" /\ thread[u].peer = p
      BY <2>1 DEF ZombieInv, SpawnInv
    <3>2. p # t
      BY <3>1 DEF SliceSteps
    <3>3. tombs'[p] = tombs[p]
      BY <2>1
    <3>4. QED
      BY <3>1, <3>2, <3>3 DEF Only, SliceSteps
  <2>2. \A u \in Pids : thread'[u].pc = "spawning" => u # t /\ thread'[u] = thread[u]
    BY DEF Only, SliceSteps
  <2>3. QED
    BY <2>1, <2>2 DEF ZombieInv, SpawnInv
<1>4. TokenInv'
  BY DEF ZombieInv, TokenInv, Only, SliceSteps, CleanSteps
<1>5. TombInv'
  <2> SUFFICES ASSUME NEW p \in Pids, tombs'[p] # None, p \in table, thread'[p].pc = "idle"
               PROVE  \E u \in Threads : Concerned(u, p)'
    BY DEF TombInv
  <2>1. thread[p].pc = "idle"
    BY DEF Only, SliceSteps
  <2>2. slot[p] # "executing"
    BY <2>1 DEF ZombieInv, SlotInv, Away, SliceSteps, CleanSteps
  <2>3. PICK u \in Threads : Concerned(u, p)
    BY <2>1, <2>2 DEF ZombieInv, TombInv
  <2>4. u # t
    BY <2>3 DEF ZombieInv, ThreadInv, ThreadOk, Concerned, SliceSteps, CleanSteps
  <2>5. QED
    BY <2>3, <2>4 DEF Concerned, Only
<1>6. QED
  BY <1>1, <1>2, <1>3, <1>4, <1>5 DEF ZombieInv

(* A thread begins to clean up after q. *)
LEMMA Begins ==
  ASSUME ZombieInv, NEW t \in Threads, NEW q \in Pids, NEW reason, Only(t, Cleanup(q, reason)),
         UNCHANGED <<table, slot, tombs>>, slot[q] # "unborn",
         \/ t = Host /\ thread[t].pc = "idle"
         \/ t \in Pids /\ thread[t].pc = "run" /\ q # t
         \/ t \in Pids /\ thread[t].pc = "stored" /\ q = t
  PROVE  ZombieInv'
<1> USE SupervisionAssumption DEF Threads
<1> DEFINE st == Cleanup(q, reason)
<1>1. Whole(st) /\ st.pc = "tomb" /\ st.pid = q /\ st.dying = q
  BY Beginnings
<1>2. Only(t, st)
  OBVIOUS
<1> HIDE DEF st
<1>3. ThreadInv'
  <2>1. ThreadOk(st)
    BY <1>1 DEF ThreadOk, Steps, SliceSteps, CleanSteps
  <2>2. QED
    BY <1>1, <1>2, <2>1 DEF ZombieInv, ThreadInv, Only, CleanSteps
<1>4. SlotInv'
  BY <1>1, <1>2 DEF ZombieInv, SlotInv, Away, Back, Only, SliceSteps, CleanSteps
<1>5. SpawnInv'
  BY <1>1, <1>2 DEF ZombieInv, SpawnInv, Only
<1>6. TokenInv'
  BY <1>1, <1>2 DEF ZombieInv, TokenInv, Only
<1>7. TombInv'
  <2> SUFFICES ASSUME NEW p \in Pids, tombs'[p] # None, p \in table, thread'[p].pc = "idle"
               PROVE  \E u \in Threads : Concerned(u, p)'
    BY DEF ZombieInv, TombInv
  <2>1. thread[p].pc = "idle"
    BY <1>1, <1>2 DEF Only
  <2>2. PICK u \in Threads : Concerned(u, p)
    BY <2>1 DEF ZombieInv, TombInv
  <2>3. u # t
    BY <2>2 DEF ZombieInv, ThreadInv, ThreadOk, Concerned, CleanSteps
  <2>4. QED
    BY <2>2, <2>3, <1>2 DEF Concerned, Only
<1>8. QED
  BY <1>3, <1>4, <1>5, <1>6, <1>7 DEF ZombieInv

(* A step of a clean-up, up to the finalization. *)
LEMMA Cleans ==
  ASSUME ZombieInv, NEW t \in Threads, NEW st, Only(t, st), UNCHANGED <<table, slot>>, Whole(st),
         thread[t].pc \in CleanSteps \ {"spendToken", "removeBody"},
         st.pc \in CleanSteps \ {"removeBody"}, st.pid = thread[t].pid,
         st.pc = "spendToken" => st.phase = "present" \/ st.dying = st.pid,
         \A p \in Pids : st.dying = p => slot[p] # "unborn",
         thread[t].pc \in {"collect", "downs"} /\ thread[t].phase = "present" =>
           /\ st.dying = thread[t].dying /\ st.phase = "present"
           /\ st.pc \in {"collect", "downs", "spendToken"},
         tombs' = [p \in Pids |-> tombs'[p]],
         \A p \in Pids : \/ tombs'[p] = tombs[p]
                         \/ slot[p] = "executing"
                         \/ st.pid = p
                         \/ /\ slot[p] # "unborn"
                            /\ st.dying = p /\ st.phase = "present" /\ st.pc = "collect"
  PROVE  ZombieInv'
<1> USE SupervisionAssumption DEF Threads
<1>0. thread[t].pid \in Pids
  BY DEF ZombieInv, ThreadInv, ThreadOk
<1>1. ThreadInv'
  <2>1. ThreadOk(st)
    BY <1>0 DEF ThreadOk, Steps, SliceSteps, CleanSteps
  <2>2. QED
    BY <2>1 DEF ZombieInv, ThreadInv, Only
<1>2. SlotInv'
  <2> SUFFICES ASSUME NEW p \in Pids
               PROVE  (Away(p) => Away(p)') /\ (Back(p) => Back(p)')
    BY DEF ZombieInv, SlotInv
  <2>1. CASE p = t
    BY <2>1 DEF Away, Back, Only, SliceSteps, CleanSteps
  <2>2. CASE p # t
    BY <2>2 DEF Away, Back, Only
  <2>3. QED
    BY <2>1, <2>2
<1>3. SpawnInv'
  <2>1. ASSUME NEW p \in Pids, slot[p] = "unborn"
        PROVE  /\ thread'[p].pc = "idle" /\ tombs'[p] = None
               /\ \A u \in Threads : thread'[u].pid # p /\ thread'[u].dying # p
               /\ p \in table => \E u \in Pids : thread'[u].pc = "spawning" /\ thread'[u].peer = p
    <3>1. /\ thread[p].pc = "idle" /\ tombs[p] = None
          /\ \A u \in Threads : thread[u].pid # p /\ thread[u].dying # p
          /\ p \in table => \E u \in Pids : thread[u].pc = "spawning" /\ thread[u].peer = p
      BY <2>1 DEF ZombieInv, SpawnInv
    <3>2. p # t
      BY <3>1 DEF CleanSteps
    <3>3. tombs'[p] = tombs[p] /\ st.pid # p /\ st.dying # p
      BY <2>1, <3>1
    <3>4. QED
      BY <3>1, <3>2, <3>3 DEF Only, CleanSteps
  <2>2. \A u \in Pids : thread'[u].pc = "spawning" => u # t /\ thread'[u] = thread[u]
    BY DEF Only, CleanSteps
  <2>3. QED
    BY <2>1, <2>2 DEF ZombieInv, SpawnInv
<1>4. TokenInv'
  BY DEF ZombieInv, TokenInv, Only
<1>5. TombInv'
  <2> SUFFICES ASSUME NEW p \in Pids, tombs'[p] # None, p \in table, thread'[p].pc = "idle"
               PROVE  \E u \in Threads : Concerned(u, p)'
    BY DEF TombInv
  <2>1. thread[p].pc = "idle" /\ p # t
    BY DEF Only, CleanSteps
  <2>2. slot[p] # "executing"
    BY <2>1 DEF ZombieInv, SlotInv, Away, SliceSteps, CleanSteps
  <2>3. CASE tombs'[p] = tombs[p]
    <3>1. PICK u \in Threads : Concerned(u, p)
      BY <2>1, <2>3 DEF ZombieInv, TombInv
    <3>2. Concerned(u, p)'
      BY <3>1 DEF Concerned, Only
    <3>3. QED
      BY <3>2
  <2>4. CASE tombs'[p] # tombs[p]
    <3>1. Concerned(t, p)'
      BY <2>2, <2>4 DEF Concerned, Only
    <3>2. QED
      BY <3>1
  <2>5. QED
    BY <2>3, <2>4
<1>6. QED
  BY <1>1, <1>2, <1>3, <1>4, <1>5 DEF ZombieInv

(* Where a finalization leaves the thread. *)
LEMMA Finalized ==
  ASSUME ThreadInv, NEW t \in Threads
  PROVE  LET r == thread[t]
             st == AfterFinalize(t)
         IN  /\ Whole(st)
             /\ \/ /\ r.phase = "present" /\ st.pid = r.pid
                   /\ \/ st.pc = "signal" /\ st.dying = r.dying /\ st.phase = r.phase
                      \/ st.pc = "spendToken" /\ st.dying = r.pid
                   /\ Carries(st, r)
                \/ /\ r.phase # "present" /\ st.pid = None /\ st.dying = None /\ Blank(st)
                   /\ \/ t \in Pids /\ r.pid # t /\ st.pc = "run"
                      \/ ~(t \in Pids /\ r.pid # t) /\ st.pc = "idle"
<1> DEFINE r == thread[t]
<1>1. Whole(r)
  BY DEF ThreadInv, ThreadOk
<1>2. CASE r.phase = "present"
  <2>1. AfterFinalize(t) = Drained(Extend(r))
    BY <1>2 DEF AfterFinalize
  <2> DEFINE e == Extend(r)
             s == Drained(e)
  <2> HIDE DEF r
  <2>2. /\ Whole(e) /\ e.pc = "signal" /\ e.pid = r.pid /\ e.phase = r.phase /\ e.dying = r.dying
        /\ Carries(e, r)
    BY <1>1, Extended
  <2> HIDE DEF e
  <2>3. /\ Whole(s) /\ s.pid = e.pid
        /\ s.downs = e.downs /\ s.work = e.work /\ s.cascade = e.cascade
        /\ \/ s = e
           \/ s.pc = "spendToken" /\ s.dying = e.pid /\ s.phase = "last"
    BY <2>2, DrainedStands
  <2> HIDE DEF s
  <2>4. AfterFinalize(t) = s
    BY <2>1 DEF s, e
  <2>5. Carries(s, r)
    BY <2>2, <2>3 DEF Carries
  <2>6. QED
    BY <1>2, <2>2, <2>3, <2>4, <2>5 DEF r
<1>3. CASE r.phase # "present"
  BY <1>3, Beginnings, SupervisionAssumption DEF AfterFinalize
<1>4. QED
  BY <1>2, <1>3

(* A finalization that found the token spent, or that has removed the body.*)
LEMMA Finishes ==
  ASSUME ZombieInv, NEW t \in Threads, Only(t, AfterFinalize(t)), UNCHANGED <<table, tombs>>,
         thread[t].pc \in {"spendToken", "removeBody"}, thread[t].dying \notin table,
         slot' = IF thread[t].pc = "removeBody" THEN [slot EXCEPT ![thread[t].dying] = "gone"] ELSE slot
  PROVE  ZombieInv'
<1> USE SupervisionAssumption DEF Threads
<1> DEFINE r == thread[t]
           st == AfterFinalize(t)
<1>0. /\ r.pid \in Pids /\ r.pc \in CleanSteps
      /\ r.phase = "present" \/ r.dying = r.pid
  BY DEF ZombieInv, ThreadInv, ThreadOk, CleanSteps
<1>1. /\ Whole(st) /\ Only(t, st)
      /\ \/ /\ r.phase = "present" /\ st.pid = r.pid
            /\ \/ st.pc = "signal" /\ st.dying = r.dying
               \/ st.pc = "spendToken" /\ st.dying = r.pid
         \/ /\ r.phase # "present" /\ st.pid = None /\ st.dying = None
            /\ \/ t \in Pids /\ r.pid # t /\ st.pc = "run"
               \/ ~(t \in Pids /\ r.pid # t) /\ st.pc = "idle"
  BY Finalized DEF ZombieInv
<1> HIDE DEF st
<1>2. /\ slot' \in [Pids -> {"unborn", "present", "executing", "gone"}]
      /\ \A p \in Pids : slot'[p] = IF r.pc = "removeBody" /\ p = r.dying THEN "gone" ELSE slot[p]
  BY DEF ZombieInv, SlotInv
<1>3. \A p \in Pids : slot[p] = "unborn" => slot'[p] = "unborn" /\ p # r.dying /\ p # r.pid /\ p # t
  BY <1>0, <1>2 DEF ZombieInv, SpawnInv, CleanSteps
<1>4. ThreadInv'
  <2>1. ThreadOk(st) /\ st.pc # "removeBody"
    BY <1>0, <1>1 DEF ThreadOk, Steps, SliceSteps, CleanSteps
  <2>2. t = Host => st.pc \in CleanSteps \cup {"idle"}
    BY <1>1 DEF CleanSteps
  <2>3. QED
    BY <1>1, <2>1, <2>2 DEF ZombieInv, ThreadInv, Only
<1>5. SlotInv'
  <2> SUFFICES ASSUME NEW p \in Pids
               PROVE  (Away(p) => Away(p)') /\ (Back(p) => Back(p)')
    BY <1>2 DEF ZombieInv, SlotInv
  <2>1. CASE p = t
    BY <1>0, <1>1, <2>1 DEF Away, Back, Only, SliceSteps, CleanSteps
  <2>2. CASE p # t
    BY <1>1, <2>2 DEF Away, Back, Only
  <2>3. QED
    BY <2>1, <2>2
<1>6. SpawnInv'
  <2>1. ASSUME NEW p \in Pids, slot'[p] = "unborn"
        PROVE  /\ thread'[p].pc = "idle" /\ tombs'[p] = None
               /\ \A u \in Threads : thread'[u].pid # p /\ thread'[u].dying # p
               /\ p \in table => \E u \in Pids : thread'[u].pc = "spawning" /\ thread'[u].peer = p
    <3>1. slot[p] = "unborn"
      BY <1>2, <2>1
    <3>2. /\ thread[p].pc = "idle" /\ tombs[p] = None
          /\ \A u \in Threads : thread[u].pid # p /\ thread[u].dying # p
          /\ p \in table => \E u \in Pids : thread[u].pc = "spawning" /\ thread[u].peer = p
      BY <3>1 DEF ZombieInv, SpawnInv
    <3>3. p # t /\ st.pid # p /\ st.dying # p
      BY <1>1, <1>3, <3>1
    <3>4. QED
      BY <1>0, <1>1, <3>2, <3>3 DEF Only, CleanSteps
  <2>2. \A u \in Pids : thread'[u].pc = "spawning" => u # t /\ thread'[u] = thread[u]
    BY <1>1 DEF Only
  <2>3. QED
    BY <1>3, <2>1, <2>2 DEF ZombieInv, SpawnInv
<1>7. TokenInv'
  <2> SUFFICES ASSUME NEW p \in Pids, p \notin table, slot'[p] \in {"present", "executing"}
               PROVE  \E u \in Threads : thread'[u].pc = "removeBody" /\ thread'[u].dying = p
    BY DEF TokenInv
  <2>1. PICK u \in Threads : thread[u].pc = "removeBody" /\ thread[u].dying = p
    BY <1>2 DEF ZombieInv, TokenInv
  <2>2. u # t
    BY <1>2, <2>1
  <2>3. QED
    BY <1>1, <2>1, <2>2 DEF Only
<1>8. TombInv'
  <2> SUFFICES ASSUME NEW p \in Pids, tombs[p] # None, p \in table, thread'[p].pc = "idle"
               PROVE  \E u \in Threads : Concerned(u, p)'
    BY DEF ZombieInv, TombInv
  <2>1. p # t
    BY <1>0, <1>1 DEF Only
  <2>2. thread[p].pc = "idle"
    BY <1>1, <2>1 DEF Only
  <2>3. PICK u \in Threads : Concerned(u, p)
    BY <2>2 DEF ZombieInv, TombInv
  <2>4. CASE u = t
    <3>1. r.pid = p /\ r.phase = "present"
      BY <1>0, <2>3, <2>4 DEF Concerned
    <3>2. Concerned(t, p)'
      BY <1>1, <3>1 DEF Concerned, Only
    <3>3. QED
      BY <3>2
  <2>5. CASE u # t
    BY <1>1, <2>3, <2>5 DEF Concerned, Only
  <2>6. QED
    BY <2>4, <2>5
<1>9. QED
  BY <1>4, <1>5, <1>6, <1>7, <1>8 DEF ZombieInv

(* The finalizer that gets the token. *)
LEMMA TakesToken ==
  ASSUME ZombieInv, NEW t \in Threads, Only(t, [thread[t] EXCEPT !.pc = "removeBody"]),
         UNCHANGED <<slot, tombs>>, thread[t].pc = "spendToken",
         thread[t].dying \in table, table' = table \ {thread[t].dying}
  PROVE  ZombieInv'
<1> USE SupervisionAssumption DEF Threads
<1> DEFINE r == thread[t]
           st == [thread[t] EXCEPT !.pc = "removeBody"]
<1>0. /\ Whole(r) /\ r.pid \in Pids
      /\ r.phase = "present" \/ r.dying = r.pid
  BY DEF ZombieInv, ThreadInv, ThreadOk, CleanSteps
<1>1. Put(r, st, "pc", "removeBody") /\ Only(t, st)
  BY <1>0, Fields
<1> HIDE DEF st
<1>2. /\ Whole(st) /\ st.pc = "removeBody" /\ st.pid = r.pid /\ st.dying = r.dying
      /\ st.phase = r.phase
  BY <1>1 DEF Put
<1>3. ThreadInv'
  <2>1. ThreadOk(st)
    BY <1>0, <1>2 DEF ThreadOk, Steps, SliceSteps, CleanSteps
  <2>2. QED
    BY <1>1, <1>2, <2>1 DEF ZombieInv, ThreadInv, Only, CleanSteps
<1>4. SlotInv'
  <2> SUFFICES ASSUME NEW p \in Pids
               PROVE  (Away(p) => Away(p)') /\ (Back(p) => Back(p)')
    BY DEF ZombieInv, SlotInv
  <2>1. CASE p = t
    BY <1>1, <1>2, <2>1 DEF Away, Back, Only, SliceSteps, CleanSteps
  <2>2. CASE p # t
    BY <1>1, <2>2 DEF Away, Back, Only
  <2>3. QED
    BY <2>1, <2>2
<1>5. SpawnInv'
  <2>1. ASSUME NEW p \in Pids, slot[p] = "unborn"
        PROVE  /\ thread'[p].pc = "idle" /\ tombs[p] = None
               /\ \A u \in Threads : thread'[u].pid # p /\ thread'[u].dying # p
               /\ p \in table => \E u \in Pids : thread'[u].pc = "spawning" /\ thread'[u].peer = p
    <3>1. /\ thread[p].pc = "idle" /\ tombs[p] = None
          /\ \A u \in Threads : thread[u].pid # p /\ thread[u].dying # p
          /\ p \in table => \E u \in Pids : thread[u].pc = "spawning" /\ thread[u].peer = p
      BY <2>1 DEF ZombieInv, SpawnInv
    <3>2. QED
      BY <1>1, <1>2, <3>1 DEF Only
  <2>2. \A u \in Pids : thread'[u].pc = "spawning" => u # t /\ thread'[u] = thread[u]
    BY <1>1, <1>2 DEF Only
  <2>3. \A p \in Pids : slot[p] = "unborn" => (p \in table' <=> p \in table)
    BY DEF ZombieInv, SpawnInv
  <2>4. QED
    BY <2>1, <2>2, <2>3 DEF ZombieInv, SpawnInv
<1>6. TokenInv'
  <2> SUFFICES ASSUME NEW p \in Pids, p \notin table', slot[p] \in {"present", "executing"}
               PROVE  \E u \in Threads : thread'[u].pc = "removeBody" /\ thread'[u].dying = p
    BY DEF TokenInv
  <2>1. CASE p = r.dying
    BY <1>1, <1>2, <2>1 DEF Only
  <2>2. CASE p # r.dying
    BY <1>1, <2>2 DEF ZombieInv, TokenInv, Only
  <2>3. QED
    BY <2>1, <2>2
<1>7. TombInv'
  <2> SUFFICES ASSUME NEW p \in Pids, tombs[p] # None, p \in table', thread'[p].pc = "idle"
               PROVE  \E u \in Threads : Concerned(u, p)'
    BY DEF ZombieInv, TombInv
  <2>1. thread[p].pc = "idle" /\ p \in table /\ p # r.dying
    BY <1>1, <1>2 DEF Only
  <2>2. PICK u \in Threads : Concerned(u, p)
    BY <2>1 DEF ZombieInv, TombInv
  <2>3. Concerned(u, p)'
    BY <1>1, <1>2, <2>1, <2>2 DEF Concerned, Only
  <2>4. QED
    BY <2>3
<1>8. QED
  BY <1>3, <1>4, <1>5, <1>6, <1>7 DEF ZombieInv

-----------------------------------------------------------------------------
(* Slices: bodies are checked out, stored back and published *)

LEMMA TakeKeeps ==
  ASSUME ZombieInv, NEW p \in Pids, TakeRunnable(p)
  PROVE  ZombieInv'
<1> USE SupervisionAssumption DEF Threads
<1> DEFINE st == [Resting EXCEPT !.pc = "run"]
<1>1. Whole(st) /\ st.pc = "run" /\ st.pid = None /\ st.dying = None
  <2>1. st = Return(p)
    BY DEF Return
  <2>2. QED
    BY <2>1, Beginnings
<1>2. Only(p, st) /\ thread[p].pc = "idle" /\ slot[p] = "present" /\ UNCHANGED <<table, tombs>>
  BY Goes DEF TakeRunnable, At, ZombieInv, graves
<1> HIDE DEF st
<1>3. /\ slot' \in [Pids -> {"unborn", "present", "executing", "gone"}]
      /\ \A q \in Pids : slot'[q] = IF q = p THEN "executing" ELSE slot[q]
  BY DEF TakeRunnable, ZombieInv, SlotInv
<1>4. thread[p].pid = None /\ thread[p].dying = None
  BY <1>2 DEF ZombieInv, ThreadInv, ThreadOk, CleanSteps
<1>5. ThreadInv'
  <2>1. ThreadOk(st)
    BY <1>1 DEF ThreadOk, Steps, SliceSteps, CleanSteps
  <2>2. QED
    BY <1>1, <1>2, <2>1 DEF ZombieInv, ThreadInv, Only
<1>6. SlotInv'
  <2>1. Away(p)'
    BY <1>1, <1>2 DEF Away, Only, SliceSteps
  <2>2. \A q \in Pids : q # p => (Away(q) => Away(q)') /\ (Back(q) => Back(q)')
    BY <1>2 DEF Away, Back, Only
  <2>3. QED
    BY <1>2, <1>3, <2>1, <2>2 DEF ZombieInv, SlotInv
<1>7. SpawnInv'
  <2>1. \A q \in Pids : slot'[q] = "unborn" => slot[q] = "unborn" /\ q # p
    BY <1>3
  <2>2. \A u \in Pids : (thread'[u].pc = "spawning") = (thread[u].pc = "spawning")
    BY <1>1, <1>2 DEF Only
  <2>3. \A u \in Pids : thread[u].pc = "spawning" => u # p /\ thread'[u] = thread[u]
    BY <1>1, <1>2 DEF Only
  <2>4. \A u \in Threads : thread'[u].pid = thread[u].pid /\ thread'[u].dying = thread[u].dying
    BY <1>1, <1>2, <1>4 DEF Only
  <2>5. \A q \in Pids : slot[q] = "unborn" => slot'[q] = "unborn" /\ thread'[q] = thread[q]
    BY <1>2, <1>3 DEF Only
  <2>6. QED
    BY <1>2, <2>1, <2>2, <2>3, <2>4, <2>5 DEF ZombieInv, SpawnInv
<1>8. TokenInv'
  BY <1>1, <1>2, <1>3 DEF ZombieInv, TokenInv, Only
<1>9. TombInv'
  <2> SUFFICES ASSUME NEW q \in Pids, tombs[q] # None, q \in table, thread'[q].pc = "idle"
               PROVE  \E u \in Threads : Concerned(u, q)'
    BY <1>2 DEF ZombieInv, TombInv
  <2>1. thread[q].pc = "idle"
    BY <1>1, <1>2 DEF Only
  <2>2. PICK u \in Threads : Concerned(u, q)
    BY <2>1 DEF ZombieInv, TombInv
  <2>3. u # p
    BY <1>4, <2>2 DEF Concerned
  <2>4. QED
    BY <1>2, <2>2, <2>3 DEF Concerned, Only
<1>10. QED
  BY <1>5, <1>6, <1>7, <1>8, <1>9 DEF ZombieInv

(* A body that comes back: its worker is about to look at the tombstone or *)
(* cleans up after it.                                                     *)
LEMMA Stores ==
  ASSUME ZombieInv, NEW p \in Pids, NEW st, Only(p, st), UNCHANGED <<table, tombs>>, Whole(st),
         thread[p].pc \in {"store", "storeDead"},
         \/ st.pc = "stored" /\ st.pid = None /\ st.dying = None
         \/ st.pc = "tomb" /\ st.pid = p /\ st.dying = p,
         slot' = IF slot[p] = "executing" THEN [slot EXCEPT ![p] = "present"] ELSE slot
  PROVE  ZombieInv'
<1> USE SupervisionAssumption DEF Threads
<1>1. thread[p].pid = None /\ thread[p].dying = None
  BY DEF ZombieInv, ThreadInv, ThreadOk, CleanSteps
<1>2. slot[p] \in {"executing", "gone"}
  <2>1. slot[p] # "unborn" /\ ~Back(p)
    BY DEF ZombieInv, SpawnInv, Back, CleanSteps
  <2>2. QED
    BY <2>1 DEF ZombieInv, SlotInv
<1>3. /\ slot' \in [Pids -> {"unborn", "present", "executing", "gone"}]
      /\ \A q \in Pids : q # p => slot'[q] = slot[q]
      /\ slot'[p] = IF slot[p] = "executing" THEN "present" ELSE "gone"
  BY <1>2 DEF ZombieInv, SlotInv
<1>4. ThreadInv'
  <2>1. ThreadOk(st)
    BY DEF ThreadOk, Steps, SliceSteps, CleanSteps
  <2>2. QED
    BY <2>1 DEF ZombieInv, ThreadInv, Only
<1>5. SlotInv'
  <2>1. Back(p)'
    BY DEF Back, Only, CleanSteps
  <2>2. \A q \in Pids : q # p => (Away(q) => Away(q)') /\ (Back(q) => Back(q)')
    BY DEF Away, Back, Only
  <2>3. QED
    BY <1>2, <1>3, <2>1, <2>2 DEF ZombieInv, SlotInv
<1>6. SpawnInv'
  <2>1. \A q \in Pids : slot'[q] = "unborn" => slot[q] = "unborn" /\ q # p
    BY <1>3
  <2>2. \A u \in Pids : (thread'[u].pc = "spawning") = (thread[u].pc = "spawning")
    BY DEF Only
  <2>3. \A u \in Pids : thread[u].pc = "spawning" => u # p /\ thread'[u] = thread[u]
    BY DEF Only
  <2>4. \A u \in Threads, q \in Pids :
          /\ thread'[u].pid = q => thread[u].pid = q \/ q = p
          /\ thread'[u].dying = q => thread[u].dying = q \/ q = p
    BY <1>1 DEF Only
  <2>5. \A q \in Pids : slot[q] = "unborn" => slot'[q] = "unborn" /\ thread'[q] = thread[q]
    BY <1>2, <1>3 DEF Only
  <2>6. QED
    BY <2>1, <2>2, <2>3, <2>4, <2>5 DEF ZombieInv, SpawnInv
<1>7. TokenInv'
  BY <1>3 DEF ZombieInv, TokenInv, Only
<1>8. TombInv'
  <2> SUFFICES ASSUME NEW q \in Pids, tombs[q] # None, q \in table, thread'[q].pc = "idle"
               PROVE  \E u \in Threads : Concerned(u, q)'
    BY DEF ZombieInv, TombInv
  <2>1. thread[q].pc = "idle"
    BY DEF Only
  <2>2. PICK u \in Threads : Concerned(u, q)
    BY <2>1 DEF ZombieInv, TombInv
  <2>3. u # p
    BY <1>1, <2>2 DEF Concerned
  <2>4. QED
    BY <2>2, <2>3 DEF Concerned, Only
<1>9. QED
  BY <1>4, <1>5, <1>6, <1>7, <1>8 DEF ZombieInv

(* The tombstone is not there: the process goes back to the queues. *)
LEMMA Rests ==
  ASSUME ZombieInv, NEW p \in Pids, Only(p, Resting), UNCHANGED <<table, slot, tombs>>,
         thread[p].pc = "stored", tombs[p] = None
  PROVE  ZombieInv'
<1> USE SupervisionAssumption, Beginnings DEF Threads
<1>1. thread[p].pid = None /\ thread[p].dying = None
  BY DEF ZombieInv, ThreadInv, ThreadOk, CleanSteps
<1>2. ThreadInv'
  <2>1. ThreadOk(Resting)
    BY DEF ThreadOk, Steps, SliceSteps, CleanSteps
  <2>2. QED
    BY <2>1 DEF ZombieInv, ThreadInv, Only
<1>3. SlotInv'
  <2>1. \A q \in Pids : (Away(q) => Away(q)') /\ (Back(q) => Back(q)')
    BY DEF Away, Back, Only, SliceSteps, CleanSteps
  <2>2. QED
    BY <2>1 DEF ZombieInv, SlotInv
<1>4. SpawnInv'
  <2>1. \A u \in Pids : (thread'[u].pc = "spawning") = (thread[u].pc = "spawning")
    BY DEF Only
  <2>2. \A u \in Pids : thread[u].pc = "spawning" => u # p /\ thread'[u] = thread[u]
    BY DEF Only
  <2>3. \A u \in Threads : thread'[u].pid = thread[u].pid /\ thread'[u].dying = thread[u].dying
    BY <1>1 DEF Only
  <2>4. \A q \in Pids : thread[q].pc = "idle" => thread'[q].pc = "idle"
    BY DEF Only
  <2>5. QED
    BY <2>1, <2>2, <2>3, <2>4 DEF ZombieInv, SpawnInv
<1>5. TokenInv'
  BY DEF ZombieInv, TokenInv, Only
<1>6. TombInv'
  <2> SUFFICES ASSUME NEW q \in Pids, tombs[q] # None, q \in table, thread'[q].pc = "idle"
               PROVE  \E u \in Threads : Concerned(u, q)'
    BY DEF ZombieInv, TombInv
  <2>1. thread[q].pc = "idle"
    BY DEF Only
  <2>2. PICK u \in Threads : Concerned(u, q)
    BY <2>1 DEF ZombieInv, TombInv
  <2>3. u # p
    BY <1>1, <2>2 DEF Concerned
  <2>4. QED
    BY <2>2, <2>3 DEF Concerned, Only
<1>7. QED
  BY <1>2, <1>3, <1>4, <1>5, <1>6 DEF ZombieInv

LEMMA SpawnKeeps ==
  ASSUME ZombieInv, NEW p \in Pids, NEW q \in Pids, SpawnLink(p, q)
  PROVE  ZombieInv'
<1> USE SupervisionAssumption DEF Threads
<1> DEFINE r == [thread[p] EXCEPT !.pc = "spawning"]
           st == [r EXCEPT !.peer = q]
<1>1. /\ thread[p].pc = "run" /\ slot[q] = "unborn" /\ q \notin table
      /\ table' = table \cup {q} /\ UNCHANGED <<slot, tombs>> /\ Only(p, st)
  BY Goes DEF SpawnLink, Calls, MayCall, At, ZombieInv, graves
<1>2. /\ thread[p].pid = None /\ thread[p].dying = None
      /\ Put(thread[p], r, "pc", "spawning")
  BY <1>1, Fields DEF ZombieInv, ThreadInv, ThreadOk, CleanSteps
<1> HIDE DEF r
<1>3. Put(r, st, "peer", q)
  BY <1>2, PutWhole, Fields
<1> HIDE DEF st
<1>4. /\ Whole(st) /\ st.pc = "spawning" /\ st.peer = q /\ st.pid = None /\ st.dying = None
  BY <1>2, <1>3 DEF Put
<1>5. /\ thread[q].pc = "idle" /\ tombs[q] = None
      /\ \A u \in Threads : thread[u].pid # q /\ thread[u].dying # q
  BY <1>1 DEF ZombieInv, SpawnInv
<1>6. ThreadInv'
  <2>1. ThreadOk(st)
    BY <1>4 DEF ThreadOk, Steps, SliceSteps, CleanSteps
  <2>2. QED
    BY <1>1, <1>4, <1>5, <2>1 DEF ZombieInv, ThreadInv, Only
<1>7. SlotInv'
  <2>1. \A x \in Pids : (Away(x) => Away(x)') /\ (Back(x) => Back(x)')
    BY <1>1, <1>4 DEF Away, Back, Only, SliceSteps, CleanSteps
  <2>2. QED
    BY <1>1, <2>1 DEF ZombieInv, SlotInv
<1>8. SpawnInv'
  <2>1. ASSUME NEW x \in Pids, slot[x] = "unborn"
        PROVE  /\ thread'[x].pc = "idle" /\ tombs'[x] = None
               /\ \A u \in Threads : thread'[u].pid # x /\ thread'[u].dying # x
               /\ x \in table' => \E u \in Pids : thread'[u].pc = "spawning" /\ thread'[u].peer = x
    <3>1. /\ thread[x].pc = "idle" /\ tombs[x] = None
          /\ \A u \in Threads : thread[u].pid # x /\ thread[u].dying # x
          /\ x \in table => \E u \in Pids : thread[u].pc = "spawning" /\ thread[u].peer = x
      BY <2>1 DEF ZombieInv, SpawnInv
    <3>2. CASE x = q
      BY <1>1, <1>4, <3>1, <3>2 DEF Only
    <3>3. CASE x # q
      BY <1>1, <1>4, <3>1, <3>3 DEF Only
    <3>4. QED
      BY <3>2, <3>3
  <2>2. \A u \in Pids : thread'[u].pc = "spawning" =>
          \/ u = p /\ thread'[u].peer = q
          \/ thread[u].pc = "spawning" /\ thread'[u] = thread[u] /\ thread[u].peer # q
    BY <1>1, <1>4 DEF ZombieInv, SpawnInv, Only
  <2>3. \A u \in Pids : thread'[u].pc = "spawning" =>
          /\ thread'[u].peer \in Pids /\ slot[thread'[u].peer] = "unborn" /\ thread'[u].peer \in table'
    BY <1>1, <2>2 DEF ZombieInv, SpawnInv
  <2>4. \A t, u \in Pids : thread'[t].pc = "spawning" /\ thread'[u].pc = "spawning" /\ u # t =>
          thread'[u].peer # thread'[t].peer
    BY <2>2 DEF ZombieInv, SpawnInv
  <2>5. QED
    BY <1>1, <2>1, <2>3, <2>4 DEF SpawnInv
<1>9. TokenInv'
  BY <1>1, <1>4 DEF ZombieInv, TokenInv, Only
<1>10. TombInv'
  <2> SUFFICES ASSUME NEW x \in Pids, tombs[x] # None, x \in table', thread'[x].pc = "idle"
               PROVE  \E u \in Threads : Concerned(u, x)'
    BY <1>1 DEF ZombieInv, TombInv
  <2>1. thread[x].pc = "idle" /\ x \in table
    BY <1>1, <1>4, <1>5 DEF Only
  <2>2. PICK u \in Threads : Concerned(u, x)
    BY <2>1 DEF ZombieInv, TombInv
  <2>3. u # p
    BY <1>2, <2>2 DEF Concerned
  <2>4. QED
    BY <1>1, <2>2, <2>3 DEF Concerned, Only
<1>11. QED
  BY <1>6, <1>7, <1>8, <1>9, <1>10 DEF ZombieInv

LEMMA PublishKeeps ==
  ASSUME ZombieInv, NEW p \in Pids, SpawnPublish(p)
  PROVE  ZombieInv'
<1> USE SupervisionAssumption DEF Threads
<1> DEFINE st == Return(p)
           q == thread[p].peer
<1>1. Whole(st) /\ st.pc = "run" /\ st.pid = None /\ st.dying = None
  BY Beginnings
<1>2. /\ thread[p].pc = "spawning" /\ slot' = [slot EXCEPT ![q] = "present"]
      /\ UNCHANGED <<table, tombs>> /\ Only(p, st)
  BY Goes DEF SpawnPublish, At, ZombieInv, graves
<1>3. /\ q \in Pids /\ slot[q] = "unborn" /\ q \in table
      /\ \A u \in Pids : thread[u].pc = "spawning" /\ u # p => thread[u].peer # q
  BY <1>2 DEF ZombieInv, SpawnInv
<1> HIDE DEF st, q
<1>4. /\ slot' \in [Pids -> {"unborn", "present", "executing", "gone"}]
      /\ slot'[q] = "present" /\ \A x \in Pids : x # q => slot'[x] = slot[x]
  BY <1>2, <1>3 DEF ZombieInv, SlotInv
<1>5. thread[p].pid = None /\ thread[p].dying = None /\ thread[q].pc = "idle"
  BY <1>2, <1>3 DEF ZombieInv, ThreadInv, ThreadOk, SpawnInv, CleanSteps
<1>6. ThreadInv'
  <2>1. ThreadOk(st)
    BY <1>1 DEF ThreadOk, Steps, SliceSteps, CleanSteps
  <2>2. QED
    BY <1>1, <1>2, <2>1 DEF ZombieInv, ThreadInv, Only
<1>7. SlotInv'
  <2>1. \A x \in Pids : (Away(x) => Away(x)') /\ (Back(x) => Back(x)')
    BY <1>1, <1>2 DEF Away, Back, Only, SliceSteps, CleanSteps
  <2>2. ASSUME NEW x \in Pids, x = q
        PROVE  Back(x)'
    BY <1>2, <1>3, <1>5, <2>2 DEF Back, Only
  <2>3. QED
    BY <1>2, <1>4, <2>1, <2>2 DEF ZombieInv, SlotInv
<1>8. SpawnInv'
  <2>1. ASSUME NEW x \in Pids, slot'[x] = "unborn"
        PROVE  /\ thread'[x].pc = "idle" /\ tombs'[x] = None
               /\ \A u \in Threads : thread'[u].pid # x /\ thread'[u].dying # x
               /\ x \in table' => \E u \in Pids : thread'[u].pc = "spawning" /\ thread'[u].peer = x
    <3>1. /\ x # q
          /\ thread[x].pc = "idle" /\ tombs[x] = None
          /\ \A u \in Threads : thread[u].pid # x /\ thread[u].dying # x
          /\ x \in table => \E u \in Pids : thread[u].pc = "spawning" /\ thread[u].peer = x
      BY <1>4, <2>1 DEF ZombieInv, SpawnInv
    <3>2. QED
      BY <1>1, <1>2, <3>1 DEF Only, q
  <2>2. \A u \in Pids : thread'[u].pc = "spawning" => u # p /\ thread'[u] = thread[u]
    BY <1>1, <1>2 DEF Only
  <2>3. \A u \in Pids : thread'[u].pc = "spawning" =>
          thread'[u].peer \in Pids /\ slot'[thread'[u].peer] = "unborn" /\ thread'[u].peer \in table'
    BY <1>2, <1>3, <1>4, <2>2 DEF ZombieInv, SpawnInv
  <2>4. \A t, u \in Pids : thread'[t].pc = "spawning" /\ thread'[u].pc = "spawning" /\ u # t =>
          thread'[u].peer # thread'[t].peer
    BY <2>2 DEF ZombieInv, SpawnInv
  <2>5. QED
    BY <2>1, <2>3, <2>4 DEF SpawnInv
<1>9. TokenInv'
  BY <1>1, <1>2, <1>3, <1>4 DEF ZombieInv, TokenInv, Only
<1>10. TombInv'
  <2> SUFFICES ASSUME NEW x \in Pids, tombs[x] # None, x \in table, thread'[x].pc = "idle"
               PROVE  \E u \in Threads : Concerned(u, x)'
    BY <1>2 DEF ZombieInv, TombInv
  <2>1. thread[x].pc = "idle"
    BY <1>1, <1>2 DEF Only
  <2>2. PICK u \in Threads : Concerned(u, x)
    BY <2>1 DEF ZombieInv, TombInv
  <2>3. u # p
    BY <1>5, <2>2 DEF Concerned
  <2>4. QED
    BY <1>2, <2>2, <2>3 DEF Concerned, Only
<1>11. QED
  BY <1>6, <1>7, <1>8, <1>9, <1>10 DEF ZombieInv

LEMMA StoreKeeps ==
  ASSUME ZombieInv, NEW p \in Pids, StoreRunnable(p)
  PROVE  ZombieInv'
<1>1. /\ thread[p].pc \in {"store", "storeDead"} /\ UNCHANGED <<table, tombs>>
      /\ slot' = IF slot[p] = "executing" THEN [slot EXCEPT ![p] = "present"] ELSE slot
  BY DEF StoreRunnable, graves
<1>2. Whole(thread[p]) /\ thread[p].pid = None /\ thread[p].dying = None /\ ThreadInv /\ p \in Threads
  BY <1>1 DEF ZombieInv, ThreadInv, ThreadOk, CleanSteps, Threads
<1>3. CASE At(p, "storeDead")
  <2> DEFINE st == Cleanup(p, thread[p].reason)
  <2>1. Goto(p, st)
    BY <1>3 DEF StoreRunnable
  <2>2. Only(p, st)
    BY <1>2, <2>1, Goes
  <2>3. Whole(st) /\ st.pc = "tomb" /\ st.pid = p /\ st.dying = p
    BY Beginnings
  <2> HIDE DEF st
  <2>4. QED
    BY <1>1, <2>2, <2>3, Stores
<1>4. CASE ~At(p, "storeDead")
  <2> DEFINE st == [thread[p] EXCEPT !.pc = "stored"]
  <2>1. Goto(p, st)
    BY <1>4 DEF StoreRunnable, Jump
  <2>2. Only(p, st)
    BY <1>2, <2>1, Goes
  <2>3. Put(thread[p], st, "pc", "stored")
    BY <1>2, Fields
  <2> HIDE DEF st
  <2>4. Whole(st) /\ st.pc = "stored" /\ st.pid = None /\ st.dying = None
    BY <1>2, <2>3 DEF Put
  <2>5. QED
    BY <1>1, <2>2, <2>4, Stores
<1>5. QED
  BY <1>3, <1>4

LEMMA CheckKeeps ==
  ASSUME ZombieInv, NEW p \in Pids, CheckAfterStore(p)
  PROVE  ZombieInv'
<1>1. /\ thread[p].pc = "stored" /\ UNCHANGED <<table, slot, tombs>>
      /\ Only(p, IF tombs[p] # None THEN Cleanup(p, tombs[p]) ELSE Resting)
      /\ p \in Threads /\ slot[p] # "unborn"
  BY Goes DEF CheckAfterStore, At, ZombieInv, SpawnInv, graves, body, Threads
<1>2. CASE tombs[p] # None
  BY <1>1, <1>2, Begins
<1>3. CASE tombs[p] = None
  BY <1>1, <1>3, Rests
<1>4. QED
  BY <1>2, <1>3

-----------------------------------------------------------------------------
(* The calls of a slice and of the host *)

(* A thread that may call is at a call site. *)
LEMMA Callable ==
  ASSUME ZombieInv, NEW t \in Threads, MayCall(t)
  PROVE  /\ \/ t = Host /\ thread[t].pc = "idle"
            \/ t \in Pids /\ thread[t].pc = "run"
         /\ Whole(thread[t]) /\ thread[t].pid = None /\ thread[t].dying = None
BY SupervisionAssumption DEF MayCall, At, ZombieInv, ThreadInv, ThreadOk, CleanSteps, Threads

LEMMA CallsTo ==
  ASSUME ZombieInv, NEW t \in Threads, NEW pc, NEW peer, Calls(t, pc, peer)
  PROVE  \E st : /\ Only(t, st) /\ Whole(st) /\ st.pc = pc /\ st.peer = peer
                 /\ st.pid = None /\ st.dying = None /\ Carries(st, thread[t])
                 /\ \/ t = Host /\ thread[t].pc = "idle"
                    \/ t \in Pids /\ thread[t].pc = "run"
<1> DEFINE r == [thread[t] EXCEPT !.pc = pc]
           st == [r EXCEPT !.peer = peer]
<1>1. MayCall(t) /\ Goto(t, st)
  BY DEF Calls
<1>2. Only(t, st)
  BY <1>1, Goes DEF ZombieInv
<1>3. /\ \/ t = Host /\ thread[t].pc = "idle"
         \/ t \in Pids /\ thread[t].pc = "run"
      /\ Whole(thread[t]) /\ thread[t].pid = None /\ thread[t].dying = None
  BY <1>1, Callable
<1>4. Put(thread[t], r, "pc", pc)
  BY <1>3, Fields
<1> HIDE DEF r
<1>5. Put(r, st, "peer", peer)
  BY <1>4, PutWhole, Fields
<1> HIDE DEF st
<1>6. /\ Whole(st) /\ st.pc = pc /\ st.peer = peer /\ st.pid = None /\ st.dying = None
      /\ Carries(st, thread[t])
  BY <1>3, <1>4, <1>5 DEF Put, Carries
<1>7. QED
  BY <1>2, <1>3, <1>6

(* A call that goes on inside the slice, and may leave a tombstone on a    *)
(* process that is checked out.                                            *)
LEMMA CallKeeps ==
  ASSUME ZombieInv, NEW t \in Threads, NEW pc, NEW peer, Calls(t, pc, peer),
         UNCHANGED <<table, slot>>,
         t = Host => pc = "idle", t # Host => pc \in SliceSteps \ {"spawning"},
         tombs' = [p \in Pids |-> tombs'[p]],
         \A p \in Pids : tombs'[p] = tombs[p] \/ slot[p] = "executing"
  PROVE  ZombieInv'
<1>1. PICK st : /\ Only(t, st) /\ Whole(st) /\ st.pc = pc
                /\ st.pid = None /\ st.dying = None
                /\ \/ t = Host /\ thread[t].pc = "idle"
                   \/ t \in Pids /\ thread[t].pc = "run"
  BY CallsTo
<1>2. \/ t = Host /\ thread[t].pc = "idle" /\ st.pc = "idle"
      \/ /\ t \in Pids /\ thread[t].pc \in SliceSteps \ {"spawning"}
         /\ st.pc \in (SliceSteps \ {"spawning"}) \cup {"store", "storeDead"}
  BY <1>1, SupervisionAssumption DEF SliceSteps
<1>3. QED
  BY <1>1, <1>2, Quiet

(* The step after a call comes back to the slice. *)
LEMMA ReturnKeeps ==
  ASSUME ZombieInv, NEW t \in Threads, Goto(t, Return(t)), UNCHANGED <<table, slot, tombs>>,
         thread[t].pc \in SliceSteps \ {"spawning"}
  PROVE  ZombieInv'
<1>1. t \in Pids /\ t # Host
  BY SupervisionAssumption DEF ZombieInv, ThreadInv, SliceSteps, CleanSteps, Threads
<1>2. Only(t, Return(t))
  BY Goes DEF ZombieInv
<1>3. /\ Whole(Return(t)) /\ Return(t).pc = "run" /\ Return(t).pid = None
      /\ Return(t).dying = None
  BY <1>1, Beginnings
<1>4. Return(t).pc \in (SliceSteps \ {"spawning"}) \cup {"store", "storeDead"}
  BY <1>3 DEF SliceSteps
<1>5. tombs' = [p \in Pids |-> tombs'[p]]
  BY DEF ZombieInv, TombInv
<1>6. QED
  BY <1>1, <1>2, <1>3, <1>4, <1>5, Quiet

(* Nothing of what the invariant is about changes. *)
LEMMA StaysPut ==
  ASSUME ZombieInv, UNCHANGED <<table, slot, tombs, thread>>
  PROVE  ZombieInv'
<1>1. ThreadInv' /\ TokenInv'
  BY DEF ZombieInv, ThreadInv, TokenInv
<1>2. SlotInv'
  BY DEF ZombieInv, SlotInv, Away, Back
<1>3. SpawnInv'
  BY DEF ZombieInv, SpawnInv
<1>4. TombInv'
  BY DEF ZombieInv, TombInv, Concerned
<1>5. QED
  BY <1>1, <1>2, <1>3, <1>4 DEF ZombieInv

LEMMA SliceEndKeeps ==
  ASSUME ZombieInv, NEW p \in Pids, NEW outcome, SliceEnds(p, outcome)
  PROVE  ZombieInv'
<1> DEFINE pc == IF tombs[p] # None \/ outcome # "park" THEN "storeDead" ELSE "store"
           reason == IF tombs[p] # None THEN tombs[p] ELSE outcome
           r == [Resting EXCEPT !.pc = pc]
           st == [r EXCEPT !.reason = reason]
<1>1. thread[p].pc = "run" /\ UNCHANGED <<table, slot, tombs>> /\ Goto(p, st) /\ p \in Threads
  BY DEF SliceEnds, At, graves, Threads
<1> HIDE DEF reason
<1>2. Only(p, st)
  BY <1>1, Goes DEF ZombieInv
<1>3. pc \in {"store", "storeDead"}
  OBVIOUS
<1> HIDE DEF pc
<1>4. Put(Resting, r, "pc", pc)
  BY Beginnings, Fields
<1> HIDE DEF r
<1>5. Put(r, st, "reason", reason)
  BY <1>4, PutWhole, Fields
<1> HIDE DEF st
<1>6. Whole(st) /\ st.pc = pc /\ st.pid = None /\ st.dying = None
  BY <1>4, <1>5, Beginnings DEF Put
<1>7. thread[p].pc \in SliceSteps \ {"spawning"}
  BY <1>1 DEF SliceSteps
<1>8. tombs' = [q \in Pids |-> tombs'[q]]
  BY <1>1 DEF ZombieInv, TombInv
<1>9. QED
  BY <1>1, <1>2, <1>3, <1>6, <1>7, <1>8, Quiet

(* The calls. *)
LEMMA BuryWrites ==
  ASSUME TombInv, NEW q, NEW reason, Bury(q, reason)
  PROVE  /\ tombs' = [p \in Pids |-> tombs'[p]]
         /\ \A p \in Pids : p # q => tombs'[p] = tombs[p]
BY DEF TombInv, Bury

LEMMA TombsKept ==
  ASSUME TombInv, UNCHANGED tombs
  PROVE  tombs' = [p \in Pids |-> tombs'[p]]
BY DEF TombInv

LEMMA SliceCallKeeps ==
  ASSUME ZombieInv, NEW p \in Pids, NEW q \in Pids,
         LinkChecks(p, q) \/ UnlinkCaller(p, q) \/ Monitor(p, q)
  PROVE  ZombieInv'
<1> USE SupervisionAssumption DEF Threads
<1>1. UNCHANGED <<table, slot, tombs>>
  BY DEF LinkChecks, UnlinkCaller, Monitor, body, graves
<1>2. tombs' = [x \in Pids |-> tombs'[x]]
  BY <1>1, TombsKept DEF ZombieInv
<1>3. CASE Calls(p, "linkCaller", q)
  BY <1>1, <1>2, <1>3, CallKeeps DEF SliceSteps
<1>4. CASE Calls(p, "unlinkTarget", q)
  BY <1>1, <1>2, <1>4, CallKeeps DEF SliceSteps
<1>5. CASE Calls(p, "run", None)
  BY <1>1, <1>2, <1>5, CallKeeps DEF SliceSteps
<1>6. ASSUME NEW m, MayCall(p), Goto(p, [Resting EXCEPT !.pc = "downNow", !.downs = {m}])
      PROVE  ZombieInv'
  <2> DEFINE d == {m}
             r == [Resting EXCEPT !.pc = "downNow"]
             st == [r EXCEPT !.downs = d]
  <2>1. Goto(p, st)
    BY <1>6
  <2> HIDE DEF d
  <2>2. Only(p, st)
    BY <2>1, Goes DEF ZombieInv
  <2>3. Put(Resting, r, "pc", "downNow")
    BY Beginnings, Fields
  <2> HIDE DEF r
  <2>4. Put(r, st, "downs", d)
    BY <2>3, PutWhole, Fields
  <2> HIDE DEF st
  <2>5. Whole(st) /\ st.pc = "downNow" /\ st.pid = None /\ st.dying = None
    BY <2>3, <2>4, Beginnings DEF Put
  <2>6. thread[p].pc = "run"
    BY <1>6, Callable
  <2>7. /\ thread[p].pc \in SliceSteps \ {"spawning"}
        /\ st.pc \in (SliceSteps \ {"spawning"}) \cup {"store", "storeDead"}
    BY <2>5, <2>6 DEF SliceSteps
  <2>8. QED
    BY <1>1, <1>2, <2>2, <2>5, <2>7, Quiet
<1>7. \/ Calls(p, "linkCaller", q) \/ Calls(p, "unlinkTarget", q) \/ Calls(p, "run", None)
      \/ \E m : MayCall(p) /\ Goto(p, [Resting EXCEPT !.pc = "downNow", !.downs = {m}])
  <2>1. CASE LinkChecks(p, q) \/ UnlinkCaller(p, q)
    BY <2>1 DEF LinkChecks, UnlinkCaller
  <2>2. CASE Monitor(p, q)
    BY <2>2, Zenon DEF Monitor
  <2>3. QED
    BY <2>1, <2>2
<1>8. QED
  BY <1>3, <1>4, <1>5, <1>6, <1>7

LEMMA ExitCallKeeps ==
  ASSUME ZombieInv, NEW p \in Pids, NEW q \in Pids, NEW reason,
         ExitSignalPresent(p, q, reason) \/ ExitSignalExecuting(p, q, reason)
  PROVE  ZombieInv'
<1> USE SupervisionAssumption DEF Threads
<1>1. CASE ExitSignalPresent(p, q, reason) /\ UNCHANGED thread
  BY <1>1, StaysPut DEF ExitSignalPresent, graves
<1>2. CASE ExitSignalPresent(p, q, reason) /\ Goto(p, Cleanup(q, TerminalReason(reason)))
  <2>1. /\ MayCall(p) /\ slot[q] = "present" /\ UNCHANGED <<table, slot, tombs>>
        /\ Only(p, Cleanup(q, TerminalReason(reason)))
    BY <1>2, Goes DEF ExitSignalPresent, graves, ZombieInv
  <2>2. thread[p].pc = "run"
    BY <2>1, Callable
  <2>3. q # p
    BY <2>1, <2>2 DEF ZombieInv, SlotInv, Back, CleanSteps
  <2>4. QED
    BY <2>1, <2>2, <2>3, Begins
<1>3. CASE ExitSignalExecuting(p, q, reason)
  <2>1. Calls(p, "run", None) /\ slot[q] = "executing" /\ UNCHANGED <<table, slot>>
    BY <1>3 DEF ExitSignalExecuting, body
  <2>2. Bury(q, TerminalReason(reason)) \/ UNCHANGED tombs
    BY <1>3 DEF ExitSignalExecuting, graves
  <2>3. /\ tombs' = [x \in Pids |-> tombs'[x]]
        /\ \A x \in Pids : tombs'[x] = tombs[x] \/ slot[x] = "executing"
    BY <2>1, <2>2, BuryWrites, TombsKept DEF ZombieInv
  <2>4. QED
    BY <2>1, <2>3, CallKeeps DEF SliceSteps
<1>4. ExitSignalPresent(p, q, reason) =>
        UNCHANGED thread \/ Goto(p, Cleanup(q, TerminalReason(reason)))
  BY DEF ExitSignalPresent
<1>5. QED
  BY <1>1, <1>2, <1>3, <1>4

LEMMA HostKeeps ==
  ASSUME ZombieInv, NEW q \in Pids, TerminateProcess(q) \/ SetTrapExit(q)
  PROVE  ZombieInv'
<1> USE SupervisionAssumption DEF Threads
<1>1. CASE TerminateProcess(q)
  <2>1. /\ MayCall(Host) /\ slot[q] # "unborn" /\ UNCHANGED <<table, slot, tombs>>
        /\ Only(Host, Cleanup(q, "error"))
    BY <1>1, Goes DEF TerminateProcess, body, graves, ZombieInv
  <2>2. thread[Host].pc = "idle"
    BY <2>1, Callable
  <2>3. QED
    BY <2>1, <2>2, Begins
<1>2. CASE SetTrapExit(q)
  <2>1. Calls(Host, "idle", None) /\ UNCHANGED <<table, slot, tombs>>
    BY <1>2 DEF SetTrapExit, graves
  <2>2. tombs' = [x \in Pids |-> tombs'[x]]
    BY <2>1, TombsKept DEF ZombieInv
  <2>3. QED
    BY <2>1, <2>2, CallKeeps
<1>3. QED
  BY <1>1, <1>2

LEMMA LinkStepsKeep ==
  ASSUME ZombieInv, NEW p \in Pids, LinkCaller(p) \/ LinkTarget(p) \/ UnlinkTarget(p)
  PROVE  ZombieInv'
<1> USE SupervisionAssumption DEF Threads
<1>1. /\ UNCHANGED <<table, slot, tombs>>
      /\ thread[p].pc \in {"linkCaller", "linkTarget", "unlinkTarget"}
      /\ Goto(p, Return(p)) \/ Jump(p, "linkTarget")
  BY DEF LinkCaller, LinkTarget, UnlinkTarget, At, graves
<1>2. thread[p].pc \in SliceSteps \ {"spawning"}
  BY <1>1 DEF SliceSteps
<1>3. CASE Goto(p, Return(p))
  BY <1>1, <1>2, <1>3, ReturnKeeps
<1>4. CASE Jump(p, "linkTarget")
  <2> DEFINE st == [thread[p] EXCEPT !.pc = "linkTarget"]
  <2>1. Only(p, st)
    BY <1>4, Goes DEF Jump, ZombieInv
  <2>2. Whole(thread[p]) /\ thread[p].pid = None /\ thread[p].dying = None
    BY <1>1 DEF ZombieInv, ThreadInv, ThreadOk, CleanSteps
  <2>3. Put(thread[p], st, "pc", "linkTarget")
    BY <2>2, Fields
  <2> HIDE DEF st
  <2>4. Whole(st) /\ st.pc = "linkTarget" /\ st.pid = None /\ st.dying = None
    BY <2>2, <2>3 DEF Put
  <2>5. st.pc \in (SliceSteps \ {"spawning"}) \cup {"store", "storeDead"}
    BY <2>4 DEF SliceSteps
  <2>6. tombs' = [x \in Pids |-> tombs'[x]]
    BY <1>1, TombsKept DEF ZombieInv
  <2>7. QED
    BY <1>1, <1>2, <2>1, <2>4, <2>5, <2>6, Quiet
<1>5. QED
  BY <1>1, <1>3, <1>4

-----------------------------------------------------------------------------
(* The steps of a clean-up *)

(* What a thread in a clean-up knows of its record. *)
LEMMA CleanFacts ==
  ASSUME ZombieInv, NEW t \in Threads, thread[t].pc \in CleanSteps
  PROVE  /\ Whole(thread[t]) /\ thread[t].pid \in Pids /\ slot[thread[t].pid] # "unborn"
         /\ \A p \in Pids : thread[t].dying = p => slot[p] # "unborn"
BY DEF ZombieInv, ThreadInv, ThreadOk, SpawnInv

(* A step that leaves the tombstones alone and goes through Advance. *)
LEMMA AdvanceKeeps ==
  ASSUME ZombieInv, NEW t \in Threads, NEW r, Goto(t, Advance(r)), UNCHANGED <<table, slot, tombs>>,
         Whole(r), r.pid = thread[t].pid, r.dying = thread[t].dying, r.phase = thread[t].phase,
         \/ thread[t].pc \in {"collect", "downs"} /\ r.pc = "downs"
         \/ thread[t].pc = "signal" /\ r.pc = "signal"
  PROVE  ZombieInv'
<1> DEFINE st == Advance(r)
<1>1. Only(t, st)
  BY Goes DEF ZombieInv
<1>2. /\ Whole(st) /\ st.pid = r.pid
      /\ \/ st.pc = "spendToken" /\ st.dying = r.pid /\ st.phase = "last"
                                 /\ (r.pc = "signal" \/ r.phase # "present")
         \/ st.pc = "signal" /\ (r.pc = "signal" \/ r.phase # "present")
                             /\ st.dying = r.dying /\ st.phase = r.phase
         \/ st.pc = "downs" /\ r.pc = "downs" /\ st.dying = r.dying /\ st.phase = r.phase
         \/ st.pc = "spendToken" /\ r.pc = "downs" /\ r.phase = "present" /\ st.dying = r.dying
                                 /\ st.phase = r.phase
  BY AdvanceStands
<1> HIDE DEF st
<1>3. /\ thread[t].pc \in CleanSteps \ {"spendToken", "removeBody"}
      /\ st.pc \in CleanSteps \ {"removeBody"}
  BY <1>2 DEF CleanSteps
<1>4. \A p \in Pids : st.dying = p => slot[p] # "unborn"
  BY <1>2, <1>3, CleanFacts
<1>5. tombs' = [x \in Pids |-> tombs'[x]]
  BY TombsKept DEF ZombieInv
<1>6. QED
  BY <1>1, <1>2, <1>3, <1>4, <1>5, Cleans

LEMMA TombstoneKeeps ==
  ASSUME ZombieInv, NEW t \in Threads, InsertTombstone(t)
  PROVE  ZombieInv'
<1> DEFINE st == [thread[t] EXCEPT !.pc = "takeLinks"]
<1>1. /\ thread[t].pc = "tomb" /\ UNCHANGED <<table, slot>> /\ Goto(t, st)
      /\ Bury(thread[t].pid, TerminalReason(thread[t].reason))
  BY DEF InsertTombstone, At, Jump, body
<1>2. Only(t, st)
  BY <1>1, Goes DEF ZombieInv
<1>3. /\ Whole(thread[t]) /\ thread[t].pid \in Pids
      /\ \A p \in Pids : thread[t].dying = p => slot[p] # "unborn"
  BY <1>1, CleanFacts DEF CleanSteps
<1>4. Put(thread[t], st, "pc", "takeLinks")
  BY <1>3, Fields
<1> HIDE DEF st
<1>5. Whole(st) /\ st.pc = "takeLinks" /\ st.pid = thread[t].pid /\ st.dying = thread[t].dying
  BY <1>4 DEF Put
<1>6. /\ tombs' = [p \in Pids |-> tombs'[p]]
      /\ \A p \in Pids : tombs'[p] = tombs[p] \/ st.pid = p
  BY <1>1, <1>5, BuryWrites DEF ZombieInv
<1>7. /\ thread[t].pc \in CleanSteps \ {"spendToken", "removeBody"}
      /\ st.pc \in CleanSteps \ {"removeBody"}
  BY <1>1, <1>5 DEF CleanSteps
<1>8. QED
  BY <1>1, <1>2, <1>3, <1>5, <1>6, <1>7, Cleans

LEMMA TakeLinksKeeps ==
  ASSUME ZombieInv, NEW t \in Threads, TakeLinks(t)
  PROVE  ZombieInv'
<1>1. PICK w : /\ thread[t].pc = "takeLinks" /\ UNCHANGED <<table, slot, tombs>>
               /\ Goto(t, [thread[t] EXCEPT !.pc = "collect", !.work = w])
  BY Zenon DEF TakeLinks, At, graves
<1> DEFINE r == [thread[t] EXCEPT !.pc = "collect"]
           st == [r EXCEPT !.work = w]
<1>2. Goto(t, st)
  BY <1>1
<1>3. Only(t, st)
  BY <1>2, Goes DEF ZombieInv
<1>4. /\ Whole(thread[t]) /\ thread[t].pid \in Pids
      /\ \A p \in Pids : thread[t].dying = p => slot[p] # "unborn"
  BY <1>1, CleanFacts DEF CleanSteps
<1>5. Put(thread[t], r, "pc", "collect")
  BY <1>4, Fields
<1> HIDE DEF r
<1>6. Put(r, st, "work", w)
  BY <1>5, PutWhole, Fields
<1> HIDE DEF st
<1>7. Whole(st) /\ st.pc = "collect" /\ st.pid = thread[t].pid /\ st.dying = thread[t].dying
  BY <1>5, <1>6 DEF Put
<1>8. tombs' = [x \in Pids |-> tombs'[x]]
  BY <1>1, TombsKept DEF ZombieInv
<1>9. /\ thread[t].pc \in CleanSteps \ {"spendToken", "removeBody"}
      /\ st.pc \in CleanSteps \ {"removeBody"}
  BY <1>1, <1>7 DEF CleanSteps
<1>10. QED
  BY <1>1, <1>3, <1>4, <1>7, <1>8, <1>9, Cleans

LEMMA CollectKeeps ==
  ASSUME ZombieInv, NEW t \in Threads, CollectWatchers(t)
  PROVE  ZombieInv'
<1>1. PICK d : /\ thread[t].pc = "collect" /\ UNCHANGED <<table, slot, tombs>>
               /\ Goto(t, Advance([thread[t] EXCEPT !.pc = "downs", !.downs = d]))
  BY Zenon DEF CollectWatchers, At, body, graves
<1> DEFINE s == [thread[t] EXCEPT !.pc = "downs"]
           r == [s EXCEPT !.downs = d]
<1>2. Goto(t, Advance(r))
  BY <1>1
<1>3. Whole(thread[t])
  BY <1>1, CleanFacts DEF CleanSteps
<1>4. Put(thread[t], s, "pc", "downs")
  BY <1>3, Fields
<1> HIDE DEF s
<1>5. Put(s, r, "downs", d)
  BY <1>4, PutWhole, Fields
<1> HIDE DEF r
<1>6. /\ Whole(r) /\ r.pc = "downs" /\ r.pid = thread[t].pid /\ r.dying = thread[t].dying
      /\ r.phase = thread[t].phase
  BY <1>4, <1>5 DEF Put
<1>7. QED
  BY <1>1, <1>2, <1>6, AdvanceKeeps

LEMMA DownKeeps ==
  ASSUME ZombieInv, NEW t \in Threads, DeliverDown(t)
  PROVE  ZombieInv'
<1>1. PICK d : /\ thread[t].pc \in {"downs", "downNow"} /\ UNCHANGED <<table, slot, tombs>>
               /\ Goto(t, IF At(t, "downNow") THEN Return(t)
                          ELSE Advance([thread[t] EXCEPT !.downs = d]))
  BY Zenon DEF DeliverDown, body, graves
<1> DEFINE r == [thread[t] EXCEPT !.downs = d]
<1>2. CASE thread[t].pc = "downNow"
  BY <1>1, <1>2, ReturnKeeps DEF At, SliceSteps
<1>3. CASE thread[t].pc = "downs"
  <2>1. Whole(thread[t])
    BY <1>3, CleanFacts DEF CleanSteps
  <2>2. Put(thread[t], r, "downs", d)
    BY <2>1, Fields
  <2>3. Goto(t, Advance(r))
    BY <1>1, <1>3 DEF At
  <2> HIDE DEF r
  <2>4. /\ Whole(r) /\ r.pc = "downs" /\ r.pid = thread[t].pid /\ r.dying = thread[t].dying
        /\ r.phase = thread[t].phase
    BY <1>3, <2>2 DEF Put
  <2>5. QED
    BY <1>1, <1>3, <2>3, <2>4, AdvanceKeeps
<1>4. QED
  BY <1>1, <1>2, <1>3

(* A signal that leaves its target alive. *)
LEMMA PoppedKeeps ==
  ASSUME ZombieInv, NEW t \in Threads, Goto(t, Advance(Popped(t))),
         UNCHANGED <<table, slot, tombs>>,
         thread[t].pc = "signal"
  PROVE  ZombieInv'
<1>1. Whole(thread[t])
  BY CleanFacts DEF CleanSteps
<1>2. Put(thread[t], Popped(t), "work", Tail(thread[t].work))
  BY <1>1, VictimStands
<1>3. /\ Whole(Popped(t)) /\ Popped(t).pc = "signal" /\ Popped(t).pid = thread[t].pid
      /\ Popped(t).dying = thread[t].dying /\ Popped(t).phase = thread[t].phase
  BY <1>2 DEF Put
<1>4. QED
  BY <1>3, AdvanceKeeps

(* A signal that kills its target. *)
LEMMA VictimKeeps ==
  ASSUME ZombieInv, NEW t \in Threads, NEW s, NEW phase, NEW rest, NEW reason,
         Goto(t, Victim(t, s, phase, rest)), UNCHANGED <<table, slot>>,
         thread[t].pc = "signal", Bury(s.to, reason),
         \/ slot[s.to] = "executing"
         \/ slot[s.to] = "present" /\ phase = "present"
  PROVE  ZombieInv'
<1> DEFINE st == Victim(t, s, phase, rest)
<1>1. Only(t, st)
  BY Goes DEF ZombieInv
<1>2. Whole(thread[t]) /\ thread[t].pid \in Pids
  BY CleanFacts DEF CleanSteps
<1>3. Whole(st) /\ st.pc = "collect" /\ st.pid = thread[t].pid /\ st.dying = s.to /\ st.phase = phase
  BY <1>2, VictimStands
<1> HIDE DEF st
<1>4. /\ tombs' = [p \in Pids |-> tombs'[p]]
      /\ \A p \in Pids : p # s.to => tombs'[p] = tombs[p]
  BY BuryWrites DEF ZombieInv
<1>5. /\ thread[t].pc \in CleanSteps \ {"spendToken", "removeBody"}
      /\ st.pc \in CleanSteps \ {"removeBody"}
  BY <1>3 DEF CleanSteps
<1>6. QED
  BY <1>1, <1>2, <1>3, <1>4, <1>5, Cleans

LEMMA SignalKeeps ==
  ASSUME ZombieInv, NEW t \in Threads, SignalIgnored(t) \/ SignalPresent(t) \/ SignalExecuting(t)
  PROVE  ZombieInv'
<1> DEFINE s == Head(thread[t].work)
<1>1. thread[t].pc = "signal" /\ UNCHANGED <<table, slot>>
  BY DEF SignalIgnored, SignalPresent, SignalExecuting, At, body
<1>2. CASE Goto(t, Advance(Popped(t))) /\ UNCHANGED tombs
  BY <1>1, <1>2, PoppedKeeps
<1>3. CASE /\ slot[s.to] = "present" /\ Bury(s.to, TerminalReason(s.reason))
           /\ Goto(t, Victim(t, s, "present", links[s.to]))
  <2> HIDE DEF s
  <2>1. QED
    BY <1>1, <1>3, VictimKeeps
<1>4. CASE /\ slot[s.to] = "executing" /\ Bury(s.to, TerminalReason(s.reason))
           /\ Goto(t, Victim(t, s, "executing", shadow[s.to]))
  <2> HIDE DEF s
  <2>1. QED
    BY <1>1, <1>4, VictimKeeps
<1>5. CASE SignalIgnored(t)
  BY <1>2, <1>5 DEF SignalIgnored, graves
<1>6. CASE SignalPresent(t)
  BY <1>2, <1>3, <1>6 DEF SignalPresent, graves
<1>7. CASE SignalExecuting(t)
  BY <1>2, <1>4, <1>7 DEF SignalExecuting, graves
<1>8. QED
  BY <1>5, <1>6, <1>7

LEMMA FinalizeKeeps ==
  ASSUME ZombieInv, NEW t \in Threads, SpendToken(t) \/ RemoveBody(t)
  PROVE  ZombieInv'
<1>1. CASE SpendToken(t) /\ thread[t].dying \in table
  <2>1. /\ thread[t].pc = "spendToken" /\ UNCHANGED <<slot, tombs>>
        /\ table' = table \ {thread[t].dying}
        /\ Only(t, [thread[t] EXCEPT !.pc = "removeBody"])
    BY <1>1, Goes DEF SpendToken, At, Jump, graves, ZombieInv
  <2>2. QED
    BY <1>1, <2>1, TakesToken
<1>2. CASE SpendToken(t) /\ thread[t].dying \notin table
  <2>1. /\ thread[t].pc = "spendToken" /\ UNCHANGED <<slot, tombs>> /\ table' = table
        /\ Only(t, AfterFinalize(t))
    BY <1>2, Goes DEF SpendToken, At, graves, ZombieInv
  <2>2. QED
    BY <1>2, <2>1, Finishes
<1>3. CASE RemoveBody(t)
  <2>1. /\ thread[t].pc = "removeBody" /\ UNCHANGED <<table, tombs>>
        /\ slot' = [slot EXCEPT ![thread[t].dying] = "gone"] /\ Only(t, AfterFinalize(t))
    BY <1>3, Goes DEF RemoveBody, At, graves, ZombieInv
  <2>2. thread[t].dying \notin table
    BY <2>1 DEF ZombieInv, ThreadInv
  <2>3. QED
    BY <2>1, <2>2, Finishes
<1>4. QED
  BY <1>1, <1>2, <1>3

-----------------------------------------------------------------------------
(* The theorem *)

LEMMA InitWhole == Init => ZombieInv
<1> SUFFICES ASSUME Init
             PROVE  ZombieInv
  OBVIOUS
<1> USE SupervisionAssumption DEF Threads
<1>1. /\ \A t \in Threads : thread[t] = Resting
      /\ \A p \in Pids : slot[p] = IF p \in Unborn THEN "unborn" ELSE "present"
      /\ \A p \in Pids : tombs[p] = None
      /\ table = Pids \ Unborn
  BY DEF Init
<1>2. ThreadInv
  <2>1. ThreadOk(Resting)
    BY Beginnings DEF ThreadOk, Steps, CleanSteps, SliceSteps
  <2>2. thread = [t \in Threads |-> thread[t]]
    BY DEF Init
  <2>3. QED
    BY <1>1, <2>1, <2>2, Beginnings DEF ThreadInv
<1>3. SlotInv
  <2>1. slot \in [Pids -> {"unborn", "present", "executing", "gone"}]
    BY DEF Init
  <2>2. \A p \in Pids : Back(p)
    BY <1>1, Beginnings DEF Back
  <2>3. QED
    BY <1>1, <2>1, <2>2 DEF SlotInv
<1>4. SpawnInv
  BY <1>1, Beginnings DEF SpawnInv
<1>5. TokenInv
  BY <1>1 DEF TokenInv
<1>6. TombInv
  BY <1>1 DEF Init, TombInv
<1>7. QED
  BY <1>2, <1>3, <1>4, <1>5, <1>6 DEF ZombieInv

LEMMA NextWhole == ZombieInv /\ [Next]_vars => ZombieInv'
<1> SUFFICES ASSUME ZombieInv, [Next]_vars
             PROVE  ZombieInv'
  OBVIOUS
<1>1. CASE UNCHANGED vars
  BY <1>1, StaysPut DEF vars, body, graves
<1>2. ASSUME NEW t \in Threads, Continues(t)
      PROVE  ZombieInv'
  BY <1>2, TombstoneKeeps, TakeLinksKeeps, CollectKeeps, DownKeeps, SignalKeeps, FinalizeKeeps
     DEF Continues
<1>3. ASSUME NEW p \in Pids, SliceContinues(p)
      PROVE  ZombieInv'
  BY <1>3, StoreKeeps, CheckKeeps, LinkStepsKeep, PublishKeeps DEF SliceContinues
<1>4. ASSUME NEW p \in Pids, Slice(p)
      PROVE  ZombieInv'
  <2>1. CASE TakeRunnable(p)
    BY <2>1, TakeKeeps
  <2>2. CASE \E outcome \in {"park", "normal", "error"} : SliceEnds(p, outcome)
    BY <2>2, SliceEndKeeps
  <2>3. CASE \E q \in Pids : \/ LinkChecks(p, q) \/ UnlinkCaller(p, q)
                             \/ Monitor(p, q) \/ SpawnLink(p, q)
    BY <2>3, SliceCallKeeps, SpawnKeeps
  <2>4. CASE \E m \in told : Demonitor(p, m)
    BY <2>4, StaysPut DEF Demonitor, body, graves
  <2>5. CASE \E q \in Pids, reason \in Signals :
               ExitSignalPresent(p, q, reason) \/ ExitSignalExecuting(p, q, reason)
    BY <2>5, ExitCallKeeps
  <2>6. QED
    BY <1>4, <2>1, <2>2, <2>3, <2>4, <2>5 DEF Slice
<1>5. CASE HostCalls
  BY <1>5, HostKeeps DEF HostCalls
<1>6. QED
  BY <1>1, <1>2, <1>3, <1>4, <1>5 DEF Next

(* At rest the invariant leaves a process whole or gone. *)
LEMMA WholeOrGone == ZombieInv => NoZombie
<1> SUFFICES ASSUME ZombieInv, Quiescent, NEW p \in Pids
             PROVE  /\ tombs[p] # None => p \notin table /\ slot[p] = "gone"
                    /\ slot[p] = "present" <=> p \in table
  BY DEF NoZombie
<1> USE DEF Threads
<1>1. \A t \in Threads : thread[t].pc = "idle" /\ thread[t].pid = None /\ thread[t].dying = None
  BY DEF Quiescent, At, ZombieInv, ThreadInv, ThreadOk, CleanSteps
<1>2. slot[p] # "executing"
  BY <1>1 DEF ZombieInv, SlotInv, Away, SliceSteps, CleanSteps
<1>3. slot[p] = "unborn" => p \notin table /\ tombs[p] = None
  BY <1>1 DEF ZombieInv, SpawnInv
<1>4. p \notin table => slot[p] # "present"
  BY <1>1 DEF ZombieInv, TokenInv
<1>5. tombs[p] # None => p \notin table
  BY <1>1, SupervisionAssumption DEF ZombieInv, TombInv, Concerned
<1>6. slot[p] = "gone" => p \notin table
  BY DEF ZombieInv, SlotInv
<1>7. slot[p] \in {"unborn", "present", "executing", "gone"}
  BY DEF ZombieInv, SlotInv
<1>8. QED
  BY <1>2, <1>3, <1>4, <1>5, <1>6, <1>7

(* Whoever kills, terminates, cascades to or cleans up a process, and      *)
(* wherever its body was at the time: once every thread has come to rest a *)
(* tombstone means that the process left the table and its body is gone,   *)
(* and a process in the table has its body in the slot                     *)
(* (finalize_exited_process, store_runnable_process and                    *)
(* cleanup_if_tombstoned_after_store together).                            *)
THEOREM DeadAreGone == Spec => []NoZombie
<1>1. Init => ZombieInv
  BY InitWhole
<1>2. ZombieInv /\ [Next]_vars => ZombieInv'
  BY NextWhole
<1>3. ZombieInv => NoZombie
  BY WholeOrGone
<1>4. QED
  BY <1>1, <1>2, <1>3, PTL DEF Spec

-----------------------------------------------------------------------------
(* Monitors: where the DOWN of a monitor is *)

Monitors == [ref : Nat, watcher : Pids, target : Pids]

ExitSignals == [from : Pids, to : Pids, reason : Deaths]

CallSteps == {"linkCaller", "linkTarget", "unlinkTarget", "spawning"}

(* What a thread carries: signals and DOWNs to be sent, the process it is  *)
(* at, and the reason of the death it is about to record.                  *)
Fit(r) ==
  /\ r.work \in Seq(ExitSignals) /\ r.cascade \in Seq(ExitSignals)
  /\ r.downs \subseteq Monitors
  /\ r.pc \notin {"downs", "downNow"} => r.downs = {}
  /\ r.pc = "downNow" => \E m : r.downs = {m}
  /\ r.pc \in CallSteps => r.peer \in Pids
  /\ r.pc \in {"storeDead", "tomb", "takeLinks"} => r.reason \in Deaths
  /\ r.pc \in CleanSteps => r.dying \in Pids
  /\ r.pc \in {"tomb", "takeLinks"} => r.phase = "top"
  /\ r.pc \in CleanSteps /\ r.phase = "top" => r.dying = r.pid

(* Past its first step a clean-up has left the tombstones of the process   *)
(* it began with and of the one it is at.                                  *)
Buried(r) ==
  r.pc \in CleanSteps \ {"tomb"} => tombs[r.pid] # None /\ tombs[r.dying] # None

MarkInv ==
  /\ links \in [Pids -> Seq(Pids)] /\ shadow \in [Pids -> Seq(Pids)]
  /\ tombs \in [Pids -> Deaths \cup {None}]
  /\ \A t \in Threads : Fit(thread[t]) /\ Buried(thread[t])
  /\ \A p \in Pids : slot[p] = "gone" => tombs[p] # None

Letters == [kind : {"EXIT", "DOWN"}, from : Pids, what : Nat \cup Deaths \cup Signals]

(* What a process has got, merged or not. *)
Box(p) == mailbox[p] \o pending[p]

MailInv ==
  /\ mailbox \in [Pids -> Seq(Letters)] /\ pending \in [Pids -> Seq(Letters)]
  /\ \A p \in Pids : slot[p] # "executing" => pending[p] = <<>>

Carried(m) == \E t \in Threads : m \in thread[t].downs

(* Who has collected the monitors on a process leaves none of it in M. *)
Clear(r, M) ==
  /\ (r.pc \in {"downs", "signal", "spendToken", "removeBody"} \/ (r.pc = "collect" /\ r.phase # "top"))
       => \A m \in M : m.target # r.pid
  /\ r.pc \in {"downs", "spendToken", "removeBody"} => \A m \in M : m.target # r.dying

Cleared(r) == Clear(r, monitors)

(* The DOWN of m is among letters. *)
Arrived(m, letters) == \E i \in DOMAIN letters : letters[i] = Down(m.ref, m.target)

(* A reference is given out once, and its DOWN is at one place. *)
RefInv ==
  /\ refs \in Nat /\ told \subseteq Monitors /\ monitors \subseteq told
  /\ \A m \in told : m.ref < refs /\ slot[m.watcher] # "unborn"
  /\ \A m : Carried(m) => m.ref < refs
  /\ \A m, n : (m \in told \/ Carried(m)) /\ (n \in told \/ Carried(n)) /\ m.ref = n.ref => m = n
  /\ \A t, u \in Threads : \A m : m \in thread[t].downs /\ m \in thread[u].downs => t = u
  /\ \A m \in monitors : ~Carried(m)

LetterInv ==
  \A p \in Pids : \A i \in DOMAIN Box(p) : Box(p)[i].kind = "DOWN" =>
    /\ Box(p)[i].what \in Nat /\ Box(p)[i].what < refs
    /\ \A m : m \in monitors \/ Carried(m) => m.ref # Box(p)[i].what
    /\ \A j \in DOMAIN Box(p) : Box(p)[j].kind = "DOWN" /\ Box(p)[j].what = Box(p)[i].what => i = j

(* It is somewhere as long as the watcher lives. *)
SomewhereInv ==
  \A m \in told : tombs[m.watcher] = None /\ m.watcher \notin exited =>
    m \in monitors \/ Carried(m) \/ Arrived(m, Box(m.watcher))

SetInv ==
  /\ \A m \in monitors : m.target \in table
  /\ \A t \in Threads : Cleared(thread[t])

WatchInv == RefInv /\ LetterInv /\ SomewhereInv /\ SetInv

-----------------------------------------------------------------------------
(* Links and signals *)

(* Places of a sequence taken in their order make a sequence of the same   *)
(* kind, with what is at those places in it.                               *)
LEMMA Placed ==
  ASSUME NEW S, NEW s \in Seq(S), NEW I, I \subseteq DOMAIN s
  PROVE  /\ AtPlaces(s, I) \in Seq(S)
         /\ \A i \in I : Contains(AtPlaces(s, I), s[i])
<1> DEFINE upTo(i) == {j \in I : j <= i}
           n == Cardinality(I)
           rank == [i \in I |-> Cardinality(upTo(i))]
<1>1. DOMAIN s = 1..Len(s) /\ Len(s) \in Nat /\ I \subseteq Nat
  OBVIOUS
<1>2. IsFiniteSet(I) /\ n \in Nat
  <2>1. IsFiniteSet(1..Len(s))
    BY <1>1, FS_Interval
  <2>2. I \in SUBSET (1..Len(s))
    BY <1>1
  <2>3. IsFiniteSet(I)
    BY <2>1, <2>2, FS_Subset
  <2>4. QED
    BY <2>3, FS_CardinalityType
<1>3. \A i \in I : /\ IsFiniteSet(upTo(i)) /\ Cardinality(upTo(i)) \in Nat
                   /\ Cardinality(upTo(i)) <= n /\ i \in upTo(i)
  <2> SUFFICES ASSUME NEW i \in I
               PROVE  /\ IsFiniteSet(upTo(i)) /\ Cardinality(upTo(i)) \in Nat
                      /\ Cardinality(upTo(i)) <= n /\ i \in upTo(i)
    OBVIOUS
  <2>1. upTo(i) \in SUBSET I /\ i \in upTo(i)
    BY <1>1
  <2> HIDE DEF upTo, n
  <2>2. IsFiniteSet(upTo(i)) /\ Cardinality(upTo(i)) <= n
    BY <1>2, <2>1, FS_Subset DEF n
  <2>3. QED
    BY <2>1, <2>2, FS_CardinalityType
<1>4. \A i \in I : Cardinality(upTo(i)) \in 1..n
  <2> SUFFICES ASSUME NEW i \in I
               PROVE  Cardinality(upTo(i)) \in 1..n
    OBVIOUS
  <2>1. Cardinality(upTo(i)) # 0
    <3> HIDE DEF upTo
    <3> QED BY <1>3, FS_EmptySet
  <2> HIDE DEF upTo, n
  <2>2. QED
    BY <1>2, <1>3, <2>1
<1>5. \A i, k \in I : rank[i] = rank[k] => i = k
  <2>1. ASSUME NEW i \in I, NEW k \in I, i < k, rank[i] = rank[k]
        PROVE  FALSE
    <3>1. upTo(i) \in SUBSET upTo(k) /\ k \notin upTo(i)
      BY <1>1, <2>1
    <3>2. Cardinality(upTo(i)) = Cardinality(upTo(k))
      BY <2>1
    <3> HIDE DEF upTo
    <3>3. upTo(k) = upTo(i)
      BY <1>3, <3>1, <3>2, FS_Subset
    <3>4. QED
      BY <1>3, <3>1, <3>3
  <2>2. QED
    BY <1>1, <2>1
<1>6. rank \in [I -> 1..n]
  BY <1>4
<1>7. rank \in Injection(I, 1..n)
  <2> HIDE DEF rank, n
  <2> QED BY <1>5, <1>6 DEF Injection, IsInjective
<1>8. IsFiniteSet(1..n) /\ Cardinality(1..n) = n
  BY <1>2, FS_Interval
<1>9. rank \in Surjection(I, 1..n)
  <2> HIDE DEF rank, n
  <2> QED BY <1>7, <1>8, FS_Injection DEF n
<1>10. \A k \in 1..n : \E i \in I : Cardinality(upTo(i)) = k
  BY <1>9 DEF Surjection
<1> DEFINE place(k) == CHOOSE i \in I : Cardinality({j \in I : j <= i}) = k
<1>11. \A k \in 1..n : place(k) \in I /\ Cardinality(upTo(place(k))) = k
  BY <1>10
<1>12. AtPlaces(s, I) = [k \in 1..n |-> s[place(k)]]
  BY DEF AtPlaces
<1>13. \A i \in I : rank[i] \in 1..n /\ place(rank[i]) = i
  <2> SUFFICES ASSUME NEW i \in I
               PROVE  rank[i] \in 1..n /\ place(rank[i]) = i
    OBVIOUS
  <2>1. rank[i] \in 1..n
    BY <1>6
  <2>2. place(rank[i]) \in I /\ rank[place(rank[i])] = rank[i]
    <3> HIDE DEF place, n
    <3> QED BY <1>11, <2>1
  <2> HIDE DEF place, rank, n
  <2>3. QED
    BY <1>5, <2>1, <2>2
<1> HIDE DEF n, place, rank, upTo
<1>14. \A k \in 1..n : s[place(k)] \in S
  BY <1>1, <1>11
<1>15. AtPlaces(s, I) \in Seq(S) /\ Len(AtPlaces(s, I)) = n
  BY <1>2, <1>12, <1>14
<1>16. QED
  BY <1>12, <1>13, <1>15 DEF Contains

LEMMA LinksRemoved ==
  ASSUME NEW S, NEW s \in Seq(S), NEW p
  PROVE  RemoveLink(s, p) \in Seq(S)
<1> DEFINE I == {i \in DOMAIN s : s[i] # p}
<1>1. I \subseteq DOMAIN s
  OBVIOUS
<1>2. RemoveLink(s, p) = AtPlaces(s, I)
  BY DEF RemoveLink
<1> HIDE DEF I
<1>3. QED
  BY <1>1, <1>2, Placed

LEMMA LinksAdded ==
  ASSUME NEW S, NEW s \in Seq(S), NEW more \in Seq(S), NEW p
  PROVE  AddLinks(s, more, p) \in Seq(S)
<1> DEFINE I == {i \in DOMAIN more : more[i] # p /\ ~Contains(s, more[i])}
<1>1. I \subseteq DOMAIN more
  OBVIOUS
<1>2. AddLinks(s, more, p) = s \o AtPlaces(more, I)
  BY DEF AddLinks
<1> HIDE DEF I
<1>3. AtPlaces(more, I) \in Seq(S)
  BY <1>1, Placed
<1>4. QED
  BY <1>2, <1>3

LEMMA LinkAdded ==
  ASSUME NEW S, NEW s \in Seq(S), NEW q \in S, NEW p
  PROVE  AddLink(s, q, p) \in Seq(S)
BY DEF AddLink

(* The signals of a death to those it is linked to. *)
LEMMA SignalsOf ==
  ASSUME NEW p \in Pids, NEW targets \in Seq(Pids), NEW reason \in Deaths
  PROVE  Signalled(p, targets, reason) \in Seq(ExitSignals)
<1>1. \A i \in 1..Len(targets) : [from |-> p, to |-> targets[i], reason |-> reason] \in ExitSignals
  BY DEF ExitSignals
<1>2. Signalled(p, targets, reason)
        = [i \in 1..Len(targets) |-> [from |-> p, to |-> targets[i], reason |-> reason]]
  BY DEF Signalled
<1>3. Len(targets) \in Nat
  OBVIOUS
<1>4. QED
  BY <1>1, <1>2, <1>3

LEMMA Terminal ==
  ASSUME NEW reason \in Deaths \cup Signals
  PROVE  TerminalReason(reason) \in Deaths /\ TerminalReason(reason) # None
BY DEF TerminalReason, Deaths, Signals, None

LEMMA StartLinks ==
  ASSUME NEW p \in Pids
  PROVE  Symmetric(p) \in Seq(Pids)
<1> DEFINE S == {q \in Pids : {p, q} \in Bonds}
           n == Cardinality(S)
<1>1. S \in SUBSET Pids
  OBVIOUS
<1>2. Symmetric(p) = SetToSeq(S)
  BY DEF Symmetric
<1> HIDE DEF S
<1>3. IsFiniteSet(S) /\ n \in Nat /\ ExistsBijection(1..n, S)
  BY <1>1, SupervisionAssumption, FS_Subset, FS_CardinalityType
<1>4. \E f \in [1..n -> S] : IsInjective(f)
  BY <1>3 DEF ExistsBijection, Bijection, Injection
<1>5. SetToSeq(S) \in [1..n -> S]
  BY <1>4 DEF SetToSeq
<1>6. QED
  BY <1>1, <1>2, <1>3, <1>5

-----------------------------------------------------------------------------
(* What the threads carry *)

LEMMA FitBeginnings ==
  /\ Fit(Resting) /\ \A t : Fit(Return(t))
  /\ \A p \in Pids, reason \in Deaths : Fit(Cleanup(p, reason))
<1>1. ASSUME NEW r, Blank(r), r.pc \in {"idle", "run"} PROVE Fit(r)
  BY <1>1 DEF Fit, Blank, CleanSteps, CallSteps
<1>2. ASSUME NEW p \in Pids, NEW reason \in Deaths, NEW r,
             Blank(r), r.pc = "tomb", r.pid = p, r.dying = p, r.phase = "top", r.reason = reason
      PROVE  Fit(r)
  BY <1>2 DEF Fit, Blank, CallSteps
<1>3. ASSUME NEW p \in Pids, NEW reason \in Deaths
      PROVE  Fit(Cleanup(p, reason))
  <2> DEFINE c == Cleanup(p, reason)
  <2>1. /\ Blank(c) /\ c.pc = "tomb" /\ c.pid = p /\ c.dying = p /\ c.phase = "top"
        /\ c.reason = reason
    BY Beginnings
  <2> HIDE DEF c
  <2>2. QED
    BY <1>2, <2>1 DEF c
<1>4. QED
  BY <1>1, <1>3, Beginnings

LEMMA FitLoad ==
  ASSUME NEW r, NEW s, Fit(r), Carries(s, r)
  PROVE  /\ s.work \in Seq(ExitSignals) /\ s.cascade \in Seq(ExitSignals)
         /\ s.downs = r.downs /\ s.downs \subseteq Monitors
<1> DEFINE w == r.work
           c == r.cascade
<1>1. w \in Seq(ExitSignals) /\ c \in Seq(ExitSignals) /\ r.downs \subseteq Monitors
  BY DEF Fit
<1>2. /\ s.downs = r.downs
      /\ \/ s.work = w /\ s.cascade = c
         \/ s.work = w \o c /\ s.cascade = <<>>
  BY DEF Carries
<1> HIDE DEF w, c
<1>3. w \o c \in Seq(ExitSignals) /\ <<>> \in Seq(ExitSignals)
  BY <1>1
<1>4. QED
  BY <1>1, <1>2, <1>3

LEMMA FitAdvance ==
  ASSUME NEW r, Whole(r), Fit(r), r.pid \in Pids, r.pc \in {"downs", "signal"}
  PROVE  Fit(Advance(r))
<1> DEFINE s == Advance(r)
<1>1. /\ s.pid = r.pid /\ Carries(s, r) /\ (s.pc # "downs" => r.downs = {} \/ r.pc = "signal")
      /\ \/ s.pc = "spendToken" /\ s.dying = r.pid /\ s.phase = "last"
         \/ s.pc = "signal" /\ s.dying = r.dying /\ s.phase = r.phase
         \/ s.pc = "downs" /\ s.dying = r.dying /\ s.phase = r.phase
         \/ s.pc = "spendToken" /\ s.dying = r.dying /\ s.phase = r.phase
  BY AdvanceStands
<1> HIDE DEF s
<1>2. s.work \in Seq(ExitSignals) /\ s.cascade \in Seq(ExitSignals)
  BY <1>1, FitLoad
<1>3. s.downs \subseteq Monitors /\ (s.pc # "downs" => s.downs = {})
  BY <1>1, FitLoad DEF Fit
<1>4. s.dying \in Pids /\ (s.phase = "top" => s.dying = s.pid)
  BY <1>1 DEF Fit, CleanSteps
<1>5. s.pc \in {"spendToken", "signal", "downs"}
  BY <1>1
<1>6. QED
  BY <1>2, <1>3, <1>4, <1>5 DEF Fit, s, CallSteps

(* A thread that moves without taking or giving up a DOWN. *)
Moves(t) ==
  \E st : /\ Only(t, st) /\ Fit(st) /\ st.downs = thread[t].downs /\ Cleared(st)
          /\ st.pc \in CleanSteps \ {"tomb"} => tombs'[st.pid] # None /\ tombs'[st.dying] # None

(* A thread that goes back to its slice or begins a clean-up. *)
LEMMA Restarts ==
  ASSUME ZombieInv, MarkInv, NEW t \in Threads, NEW st, Goto(t, st),
         \/ st = Resting \/ st = Return(t)
         \/ \E p \in Pids, reason \in Deaths : st = Cleanup(p, reason),
         thread[t].pc \notin {"downs", "downNow"}
  PROVE  Moves(t)
<1>1. Only(t, st)
  BY Goes DEF ZombieInv
<1>2. Fit(st)
  BY FitBeginnings
<1>3. st.pc \in {"idle", "run", "tomb"} /\ st.downs = {}
  BY Beginnings DEF Blank
<1>4. thread[t].downs = {}
  BY DEF MarkInv, Fit
<1>5. Cleared(st)
  BY <1>3 DEF Cleared, Clear
<1>6. QED
  BY <1>1, <1>2, <1>3, <1>4, <1>5 DEF Moves, CleanSteps

(* A thread that goes on in its slice. *)
LEMMA GoesOn ==
  ASSUME MarkInv, NEW t \in Threads, NEW st, Only(t, st), Carries(st, thread[t]),
         st.pc \in (SliceSteps \ {"downNow"}) \cup {"idle", "store", "stored"},
         st.pc \in CallSteps => st.peer \in Pids,
         thread[t].pc \notin {"downs", "downNow"}
  PROVE  Moves(t)
<1>1. thread[t].downs = {} /\ Fit(thread[t])
  BY DEF MarkInv, Fit
<1>2. st.work \in Seq(ExitSignals) /\ st.cascade \in Seq(ExitSignals) /\ st.downs = {}
  BY <1>1, FitLoad
<1>3. Fit(st)
  BY <1>2 DEF Fit, SliceSteps, CleanSteps
<1>4. Cleared(st) /\ st.pc \notin CleanSteps
  BY DEF Cleared, Clear, SliceSteps, CleanSteps
<1>5. QED
  BY <1>1, <1>2, <1>3, <1>4 DEF Moves

LEMMA CallMoves ==
  ASSUME ZombieInv, MarkInv, NEW t \in Threads, NEW pc, NEW peer, Calls(t, pc, peer),
         pc \in (SliceSteps \ {"downNow"}) \cup {"idle"}, pc \in CallSteps => peer \in Pids
  PROVE  Moves(t)
<1>1. PICK st : /\ Only(t, st) /\ Whole(st) /\ st.pc = pc /\ st.peer = peer
                /\ Carries(st, thread[t])
                /\ \/ t = Host /\ thread[t].pc = "idle"
                   \/ t \in Pids /\ thread[t].pc = "run"
  BY CallsTo
<1>2. QED
  BY <1>1, GoesOn

LEMMA JumpMoves ==
  ASSUME ZombieInv, MarkInv, NEW t \in Threads, NEW pc, Jump(t, pc),
         pc \in (SliceSteps \ {"downNow"}) \cup {"idle", "stored"},
         pc \in CallSteps => thread[t].peer \in Pids,
         thread[t].pc \notin {"downs", "downNow"}
  PROVE  Moves(t)
<1> DEFINE st == [thread[t] EXCEPT !.pc = pc]
<1>1. Only(t, st)
  BY Goes DEF Jump, ZombieInv
<1>2. Put(thread[t], st, "pc", pc)
  BY Fields DEF ZombieInv, ThreadInv, ThreadOk
<1> HIDE DEF st
<1>3. st.pc = pc /\ st.peer = thread[t].peer /\ Carries(st, thread[t])
  BY <1>2 DEF Put, Carries
<1>4. QED
  BY <1>1, <1>3, GoesOn

-----------------------------------------------------------------------------
(* Steps that leave the monitors alone *)

(* A tombstone stays, and a body goes only after one is set. *)
Steady ==
  /\ links' \in [Pids -> Seq(Pids)] /\ shadow' \in [Pids -> Seq(Pids)]
  /\ tombs' \in [Pids -> Deaths \cup {None}]
  /\ \A p \in Pids : tombs[p] # None => tombs'[p] # None
  /\ exited \subseteq exited'
  /\ \A p \in Pids : /\ slot'[p] = "gone" => slot[p] = "gone" \/ tombs'[p] # None
                     /\ slot'[p] = "unborn" => slot[p] = "unborn"

(* What a process has got may grow by an EXIT, or be dropped with it. *)
Posted ==
  \A p \in Pids : \/ Box(p)' = Box(p)
                  \/ \E l \in Letters : l.kind = "EXIT" /\ Box(p)' = Append(Box(p), l)
                  \/ Box(p)' = <<>> /\ tombs'[p] # None

DownInv == MarkInv /\ MailInv /\ WatchInv

LEMMA MarkKept ==
  ASSUME ZombieInv, MarkInv, NEW t \in Threads, NEW st, Only(t, st), Fit(st), Steady,
         st.pc \in CleanSteps \ {"tomb"} => tombs'[st.pid] # None /\ tombs'[st.dying] # None
  PROVE  MarkInv'
<1>1. ASSUME NEW u \in Threads
      PROVE  Fit(thread'[u])
  BY DEF MarkInv, Only
<1>2. ASSUME NEW u \in Threads, thread'[u].pc \in CleanSteps \ {"tomb"}
      PROVE  tombs'[thread'[u].pid] # None /\ tombs'[thread'[u].dying] # None
  <2>1. CASE u = t
    BY <1>2, <2>1 DEF Only
  <2>2. CASE u # t
    <3>1. thread'[u] = thread[u] /\ thread[u].pc \in CleanSteps \ {"tomb"}
      BY <1>2, <2>2 DEF Only
    <3>2. thread[u].pid \in Pids /\ thread[u].dying \in Pids
      BY <3>1 DEF ZombieInv, ThreadInv, ThreadOk, MarkInv, Fit
    <3>3. tombs[thread[u].pid] # None /\ tombs[thread[u].dying] # None
      BY <3>1 DEF MarkInv, Buried
    <3>4. QED
      BY <3>1, <3>2, <3>3 DEF Steady
  <2>3. QED
    BY <2>1, <2>2
<1>3. \A p \in Pids : slot'[p] = "gone" => tombs'[p] # None
  BY DEF Steady, MarkInv
<1>4. \A u \in Threads : Fit(thread[u])'
  BY <1>1
<1>5. \A u \in Threads : Buried(thread[u])'
  BY <1>2 DEF Buried
<1>6. QED
  BY <1>3, <1>4, <1>5 DEF Steady, MarkInv

(* What a process has got is a sequence of letters. *)
LEMMA BoxType ==
  ASSUME MailInv, NEW p \in Pids
  PROVE  Box(p) \in Seq(Letters)
<1>1. mailbox[p] \in Seq(Letters) /\ pending[p] \in Seq(Letters)
  BY DEF MailInv
<1>2. QED
  BY <1>1 DEF Box

LEMMA CalmKeeps ==
  ASSUME ZombieInv, DownInv, NEW t \in Threads, Moves(t), Steady, MailInv', Posted,
         UNCHANGED watch, \A m \in monitors : m.target \in table'
  PROVE  DownInv'
<1>1. PICK st : /\ Only(t, st) /\ Fit(st) /\ st.downs = thread[t].downs /\ Cleared(st)
                /\ st.pc \in CleanSteps \ {"tomb"} => tombs'[st.pid] # None /\ tombs'[st.dying] # None
  BY DEF Moves
<1>2. MarkInv'
  BY <1>1, MarkKept DEF DownInv
<1>3. UNCHANGED <<monitors, refs, told>>
  BY DEF watch
<1>4. \A u \in Threads : thread'[u].downs = thread[u].downs
  BY <1>1 DEF Only
<1>5. \A m : Carried(m)' <=> Carried(m)
  BY <1>4 DEF Carried
<1>6. RefInv'
  <2>1. \A m \in told : slot'[m.watcher] # "unborn"
    BY DEF Steady, DownInv, WatchInv, RefInv, Monitors
  <2>2. \A u, v \in Threads : \A m : m \in thread'[u].downs /\ m \in thread'[v].downs => u = v
    BY <1>4 DEF DownInv, WatchInv, RefInv
  <2>3. QED
    BY <1>3, <1>5, <2>1, <2>2 DEF DownInv, WatchInv, RefInv
<1>7. LetterInv'
  <2> SUFFICES ASSUME NEW p \in Pids, NEW i \in DOMAIN Box(p)', Box(p)'[i].kind = "DOWN"
               PROVE  /\ Box(p)'[i].what \in Nat /\ Box(p)'[i].what < refs'
                      /\ \A m : m \in monitors' \/ Carried(m)' => m.ref # Box(p)'[i].what
                      /\ \A j \in DOMAIN Box(p)' :
                           Box(p)'[j].kind = "DOWN" /\ Box(p)'[j].what = Box(p)'[i].what => i = j
    BY DEF LetterInv
  <2>1. Box(p) \in Seq(Letters)
    BY BoxType DEF DownInv
  <2>2. \A j \in DOMAIN Box(p)' : Box(p)'[j].kind = "DOWN" =>
          j \in DOMAIN Box(p) /\ Box(p)'[j] = Box(p)[j]
    <3>1. CASE Box(p)' = Box(p)
      BY <3>1
    <3>2. CASE Box(p)' = <<>>
      BY <3>2
    <3>3. ASSUME NEW l \in Letters, l.kind = "EXIT", Box(p)' = Append(Box(p), l)
          PROVE  \A j \in DOMAIN Box(p)' : Box(p)'[j].kind = "DOWN" =>
                   j \in DOMAIN Box(p) /\ Box(p)'[j] = Box(p)[j]
      BY <2>1, <3>3
    <3>4. QED
      BY <3>1, <3>2, <3>3 DEF Posted
  <2>3. /\ Box(p)[i].what \in Nat /\ Box(p)[i].what < refs
        /\ \A m : m \in monitors \/ Carried(m) => m.ref # Box(p)[i].what
        /\ \A j \in DOMAIN Box(p) :
             Box(p)[j].kind = "DOWN" /\ Box(p)[j].what = Box(p)[i].what => i = j
    BY <2>2 DEF DownInv, WatchInv, LetterInv
  <2>4. QED
    BY <1>3, <1>5, <2>2, <2>3
<1>8. SomewhereInv'
  <2> SUFFICES ASSUME NEW m \in told', tombs'[m.watcher] = None, m.watcher \notin exited'
               PROVE  m \in monitors' \/ Carried(m)' \/ Arrived(m, Box(m.watcher)')
    BY DEF SomewhereInv, Arrived
  <2>1. m \in told /\ m.watcher \in Pids
    BY <1>3 DEF DownInv, WatchInv, RefInv, Monitors
  <2>2. tombs[m.watcher] = None /\ m.watcher \notin exited
    BY <2>1 DEF Steady
  <2>3. m \in monitors \/ Carried(m) \/ Arrived(m, Box(m.watcher))
    BY <2>1, <2>2 DEF DownInv, WatchInv, SomewhereInv
  <2>4. Arrived(m, Box(m.watcher)) => Arrived(m, Box(m.watcher)')
    <3> DEFINE p == m.watcher
    <3>1. Box(p) \in Seq(Letters)
      BY <2>1, BoxType DEF DownInv
    <3>2. \/ Box(p)' = Box(p)
          \/ \E l \in Letters : Box(p)' = Append(Box(p), l)
      BY <2>1 DEF Posted
    <3> HIDE DEF p
    <3>3. QED
      BY <3>1, <3>2 DEF Arrived, p
  <2>5. QED
    BY <1>3, <1>5, <2>3, <2>4
<1>9. SetInv'
  <2>1. \A u \in Threads : Cleared(thread'[u])
    BY <1>1 DEF Only, DownInv, WatchInv, SetInv
  <2>2. \A u \in Threads : Cleared(thread[u])'
    BY <1>3, <2>1 DEF Cleared, Clear
  <2>3. QED
    BY <1>3, <2>2 DEF SetInv
<1>10. QED
  BY <1>2, <1>6, <1>7, <1>8, <1>9 DEF DownInv, WatchInv

-----------------------------------------------------------------------------
(* Mail *)

LEMMA LettersAre ==
  /\ \A p \in Pids, reason \in Deaths \cup Signals :
       Exit(p, reason) \in Letters /\ Exit(p, reason).kind = "EXIT"
  /\ \A p \in Pids, ref \in Nat :
       /\ Down(ref, p) \in Letters /\ Down(ref, p).kind = "DOWN" /\ Down(ref, p).what = ref
       /\ Down(ref, p).from = p
BY DEF Exit, Down, Letters

LEMMA MailSame ==
  ASSUME MailInv, UNCHANGED mail,
         \A p \in Pids : slot'[p] # "executing" => slot[p] # "executing"
  PROVE  MailInv' /\ Posted
BY DEF MailInv, mail, Posted, Box

LEMMA AppendLast ==
  ASSUME NEW S, NEW a \in Seq(S), NEW b \in Seq(S), NEW l \in S
  PROVE  a \o Append(b, l) = Append(a \o b, l)
<1>1. <<l>> \in Seq(S) /\ a \o b \in Seq(S)
  OBVIOUS
<1>2. Append(b, l) = b \o <<l>> /\ Append(a \o b, l) = (a \o b) \o <<l>>
  BY <1>1, AppendIsConcat
<1>3. QED
  BY <1>1, <1>2, ConcatAssociative

LEMMA Delivered ==
  ASSUME MailInv, NEW p \in Pids, NEW l \in Letters, Deliver(p, l), UNCHANGED slot,
         slot[p] \in {"present", "executing"}
  PROVE  /\ MailInv' /\ Box(p)' = Append(Box(p), l)
         /\ \A q \in Pids : q # p => Box(q)' = Box(q)
<1>1. mailbox[p] \in Seq(Letters) /\ pending[p] \in Seq(Letters)
  BY DEF MailInv
<1>2. CASE slot[p] = "present"
  <2>1. mailbox' = [mailbox EXCEPT ![p] = Append(@, l)] /\ pending' = pending
    BY <1>2 DEF Deliver
  <2>2. pending[p] = <<>>
    BY <1>2 DEF MailInv
  <2>3. mailbox'[p] = Append(mailbox[p], l) /\ \A q \in Pids : q # p => mailbox'[q] = mailbox[q]
    BY <2>1 DEF MailInv
  <2>4. MailInv'
    BY <1>1, <2>1 DEF MailInv
  <2>5. Box(p)' = Append(Box(p), l)
    BY <1>1, <2>1, <2>2, <2>3 DEF Box
  <2>6. QED
    BY <2>1, <2>3, <2>4, <2>5 DEF Box
<1>3. CASE slot[p] = "executing"
  <2>1. pending' = [pending EXCEPT ![p] = Append(@, l)] /\ mailbox' = mailbox
    BY <1>3 DEF Deliver
  <2>3. pending'[p] = Append(pending[p], l) /\ \A q \in Pids : q # p => pending'[q] = pending[q]
    BY <2>1 DEF MailInv
  <2>4. MailInv'
    BY <1>1, <1>3, <2>1, <2>3 DEF MailInv
  <2>5. Box(p)' = Append(Box(p), l)
    <3>1. Box(p)' = mailbox[p] \o Append(pending[p], l)
      BY <2>1, <2>3 DEF Box
    <3>2. Box(p) = mailbox[p] \o pending[p]
      BY DEF Box
    <3>3. mailbox[p] \o Append(pending[p], l) = Append(mailbox[p] \o pending[p], l)
      <4> DEFINE a == mailbox[p]
                 b == pending[p]
      <4>1. a \in Seq(Letters) /\ b \in Seq(Letters)
        BY <1>1
      <4> HIDE DEF a, b
      <4>2. a \o Append(b, l) = Append(a \o b, l)
        BY <4>1, AppendLast
      <4>3. QED
        BY <4>2 DEF a, b
    <3>4. QED
      BY <3>1, <3>2, <3>3, Zenon
  <2>6. QED
    BY <2>1, <2>3, <2>4, <2>5 DEF Box
<1>4. QED
  BY <1>2, <1>3

LEMMA ExitDelivered ==
  ASSUME MailInv, NEW p \in Pids, NEW q \in Pids, NEW reason \in Deaths \cup Signals,
         UNCHANGED slot,
         slot[q] \in {"present", "executing"}, Deliver(q, Exit(p, reason)) \/ UNCHANGED mail
  PROVE  MailInv' /\ Posted
<1>1. CASE UNCHANGED mail
  BY <1>1, MailSame
<1>2. CASE Deliver(q, Exit(p, reason))
  <2> DEFINE l == Exit(p, reason)
  <2>1. l \in Letters /\ l.kind = "EXIT"
    BY LettersAre
  <2> HIDE DEF l
  <2>2. /\ MailInv' /\ Box(q)' = Append(Box(q), l)
        /\ \A x \in Pids : x # q => Box(x)' = Box(x)
    BY <1>2, <2>1, Delivered DEF l
  <2>3. QED
    BY <2>1, <2>2 DEF Posted
<1>3. QED
  BY <1>1, <1>2

LEMMA Merged ==
  ASSUME MailInv, NEW p \in Pids, StoreRunnable(p), SlotInv
  PROVE  MailInv' /\ Posted
<1>1. CASE slot[p] = "executing"
  <2>1. /\ slot' = [slot EXCEPT ![p] = "present"]
        /\ mailbox' = [mailbox EXCEPT ![p] = @ \o pending[p]]
        /\ pending' = [pending EXCEPT ![p] = <<>>]
    BY <1>1 DEF StoreRunnable
  <2>2. mailbox[p] \in Seq(Letters) /\ pending[p] \in Seq(Letters)
    BY DEF MailInv
  <2>3. mailbox[p] \o pending[p] \in Seq(Letters)
    BY <2>2
  <2>4. MailInv'
    BY <2>1, <2>3 DEF MailInv, SlotInv
  <2>5. mailbox'[p] = mailbox[p] \o pending[p] /\ pending'[p] = <<>>
    BY <2>1 DEF MailInv
  <2>6. Box(p)' = Box(p)
    BY <2>3, <2>5 DEF Box
  <2>7. \A q \in Pids : q # p => Box(q)' = Box(q)
    BY <2>1 DEF MailInv, Box
  <2>8. QED
    BY <2>4, <2>6, <2>7 DEF Posted
<1>2. CASE slot[p] # "executing"
  <2>1. UNCHANGED slot /\ UNCHANGED mail
    BY <1>2 DEF StoreRunnable
  <2>2. QED
    BY <2>1, MailSame
<1>3. QED
  BY <1>1, <1>2

LEMMA Dropped ==
  ASSUME MailInv, SlotInv, NEW t \in Threads, RemoveBody(t), thread[t].dying \in Pids,
         tombs'[thread[t].dying] # None
  PROVE  MailInv' /\ Posted
<1>0. PICK p \in Pids : p = thread[t].dying
  OBVIOUS
<1>1. /\ slot' = [slot EXCEPT ![p] = "gone"]
      /\ mailbox' = [mailbox EXCEPT ![p] = <<>>]
      /\ pending' = [pending EXCEPT ![p] = <<>>]
  BY <1>0 DEF RemoveBody
<1>2. p \in Pids /\ tombs'[p] # None
  BY <1>0
<1>3. MailInv'
  BY <1>1, <1>2 DEF MailInv, SlotInv
<1>4. mailbox'[p] = <<>> /\ pending'[p] = <<>>
  BY <1>1, <1>2 DEF MailInv
<1>5. Box(p)' = <<>>
  <2>1. <<>> \o <<>> = <<>>
    OBVIOUS
  <2>2. QED
    BY <1>4, <2>1 DEF Box
<1>6. \A q \in Pids : q # p => Box(q)' = Box(q)
  BY <1>1 DEF MailInv, Box
<1>7. ASSUME NEW q \in Pids
      PROVE  \/ Box(q)' = Box(q)
             \/ Box(q)' = <<>> /\ tombs'[q] # None
  <2>1. CASE q = p
    BY <1>2, <1>5, <2>1
  <2>2. CASE q # p
    BY <1>6, <2>2
  <2>3. QED
    BY <2>1, <2>2
<1>8. QED
  BY <1>3, <1>7 DEF Posted

-----------------------------------------------------------------------------
(* Slices and calls *)

LEMMA BuryMarks ==
  ASSUME MarkInv, NEW q \in Pids, NEW reason \in Deaths, Bury(q, reason)
  PROVE  /\ tombs' \in [Pids -> Deaths \cup {None}] /\ tombs'[q] # None
         /\ \A p \in Pids : tombs[p] # None => tombs'[p] # None
BY DEF MarkInv, Bury, Deaths, None

LEMMA SteadyLinks ==
  ASSUME MarkInv, UNCHANGED <<tombs, slot>>, exited \subseteq exited',
         links' \in [Pids -> Seq(Pids)] /\ shadow' \in [Pids -> Seq(Pids)]
  PROVE  Steady
BY DEF Steady, MarkInv

LEMMA StandsStill ==
  ASSUME ZombieInv, DownInv, NEW t \in Threads, UNCHANGED thread,
         \A p \in Pids : tombs[p] # None => tombs'[p] # None
  PROVE  Moves(t)
<1> DEFINE st == thread[t]
<1>1. Only(t, st)
  BY DEF Only, ZombieInv, ThreadInv
<1>2. Fit(st) /\ Cleared(st) /\ Buried(st)
  BY DEF DownInv, MarkInv, WatchInv, SetInv
<1>3. st.pc \in CleanSteps => st.pid \in Pids /\ st.dying \in Pids
  BY <1>2 DEF ZombieInv, ThreadInv, ThreadOk, Fit
<1>4. QED
  BY <1>1, <1>2, <1>3 DEF Moves, Buried

(* What a step that leaves table, tombstones, slots, mail and monitors     *)
(* alone has to show.                                                      *)
LEMMA LinkStep ==
  ASSUME ZombieInv, DownInv, NEW t \in Threads, Moves(t), UNCHANGED <<table, tombs, slot>>,
         exited \subseteq exited', UNCHANGED <<mail, watch>>,
         links' \in [Pids -> Seq(Pids)] /\ shadow' \in [Pids -> Seq(Pids)]
  PROVE  DownInv'
<1>1. Steady
  BY SteadyLinks DEF DownInv
<1>2. MailInv' /\ Posted
  BY MailSame DEF DownInv
<1>3. QED
  BY <1>1, <1>2, CalmKeeps DEF DownInv, WatchInv, SetInv

LEMMA LinksSame ==
  ASSUME MarkInv, UNCHANGED <<links, shadow>>
  PROVE  links' \in [Pids -> Seq(Pids)] /\ shadow' \in [Pids -> Seq(Pids)]
BY DEF MarkInv

LEMMA SlotLinks ==
  ASSUME MarkInv, NEW p \in Pids, NEW q \in Pids, AddToSlot(p, q) \/ RemoveFromSlot(p, q)
  PROVE  links' \in [Pids -> Seq(Pids)] /\ shadow' \in [Pids -> Seq(Pids)]
<1>1. links[p] \in Seq(Pids) /\ shadow[p] \in Seq(Pids)
  BY DEF MarkInv
<1>2. /\ AddLink(links[p], q, p) \in Seq(Pids) /\ AddLink(shadow[p], q, p) \in Seq(Pids)
      /\ RemoveLink(links[p], q) \in Seq(Pids) /\ RemoveLink(shadow[p], q) \in Seq(Pids)
  BY <1>1, LinkAdded, LinksRemoved
<1>3. QED
  BY <1>2 DEF MarkInv, AddToSlot, RemoveFromSlot

LEMMA DownTakeRunnable ==
  ASSUME ZombieInv, DownInv, NEW p \in Pids, TakeRunnable(p)
  PROVE  DownInv'
<1>1. p \in Threads /\ p # Host
  BY SupervisionAssumption DEF Threads
<1>2. Return(p) = [Resting EXCEPT !.pc = "run"]
  BY <1>1 DEF Return
<1>3. Moves(p)
  BY <1>1, <1>2, Restarts DEF TakeRunnable, At, DownInv
<1>4. /\ slot[p] = "present" /\ slot' = [slot EXCEPT ![p] = "executing"]
      /\ shadow' = [shadow EXCEPT ![p] = links[p]]
      /\ UNCHANGED <<table, exited, tombs, links, mail, watch>>
  BY DEF TakeRunnable, graves
<1>5. Steady
  BY <1>4 DEF Steady, DownInv, MarkInv, ZombieInv, SlotInv
<1>6. MailInv' /\ Posted
  <2>1. \A q \in Pids : slot'[q] # "executing" => slot[q] # "executing"
    BY <1>4 DEF ZombieInv, SlotInv
  <2>2. QED
    BY <1>4, <2>1, MailSame DEF DownInv
<1>7. QED
  BY <1>1, <1>3, <1>4, <1>5, <1>6, CalmKeeps DEF DownInv, WatchInv, SetInv

LEMMA DownSliceEnds ==
  ASSUME ZombieInv, DownInv, NEW p \in Pids, NEW outcome \in {"park", "normal", "error"},
         SliceEnds(p, outcome)
  PROVE  DownInv'
<1> DEFINE pc == IF tombs[p] # None \/ outcome # "park" THEN "storeDead" ELSE "store"
           reason == IF tombs[p] # None THEN tombs[p] ELSE outcome
           r == [Resting EXCEPT !.pc = pc]
           st == [r EXCEPT !.reason = reason]
<1>1. /\ thread[p].pc = "run" /\ Goto(p, st) /\ p \in Threads /\ exited \subseteq exited'
      /\ UNCHANGED <<table, slot, tombs, links, shadow, mail, watch>>
  BY DEF SliceEnds, At, graves, Threads
<1>2. Only(p, st)
  BY <1>1, Goes DEF ZombieInv
<1>3. pc \in {"store", "storeDead"} /\ (pc = "storeDead" => reason \in Deaths)
  BY DEF DownInv, MarkInv, Deaths
<1> HIDE DEF pc, reason
<1>4. Put(Resting, r, "pc", pc)
  BY Beginnings, Fields
<1> HIDE DEF r
<1>5. Put(r, st, "reason", reason)
  BY <1>4, PutWhole, Fields
<1> HIDE DEF st
<1>6. st.pc = pc /\ st.reason = reason /\ Blank(st)
  BY <1>4, <1>5, Beginnings DEF Put, Blank
<1>7. Fit(st)
  BY <1>3, <1>6 DEF Fit, Blank, CleanSteps, CallSteps
<1>8. Cleared(st) /\ st.pc \notin CleanSteps
  BY <1>3, <1>6 DEF Cleared, Clear, CleanSteps
<1>9. thread[p].downs = {}
  BY <1>1 DEF DownInv, MarkInv, Fit
<1>10. Moves(p)
  BY <1>2, <1>6, <1>7, <1>8, <1>9 DEF Moves, Blank
<1>11. QED
  BY <1>1, <1>10, LinkStep, LinksSame DEF DownInv

LEMMA DownStore ==
  ASSUME ZombieInv, DownInv, NEW p \in Pids, StoreRunnable(p)
  PROVE  DownInv'
<1>1. /\ p \in Threads /\ thread[p].pc \in {"store", "storeDead"}
      /\ UNCHANGED <<table, exited, tombs, watch>>
  BY DEF StoreRunnable, Threads, graves
<1>2. Moves(p)
  <2>1. CASE thread[p].pc = "storeDead"
    <3>1. Goto(p, Cleanup(p, thread[p].reason)) /\ thread[p].reason \in Deaths
      BY <1>1, <2>1 DEF StoreRunnable, At, DownInv, MarkInv, Fit
    <3>2. QED
      BY <1>1, <3>1, Restarts DEF DownInv
  <2>2. CASE thread[p].pc = "store"
    <3>1. Jump(p, "stored")
      BY <2>2 DEF StoreRunnable, At
    <3>2. QED
      BY <1>1, <3>1, JumpMoves DEF DownInv, CallSteps
  <2>3. QED
    BY <1>1, <2>1, <2>2
<1>3. MailInv' /\ Posted
  BY Merged DEF DownInv, ZombieInv
<1>4. links' \in [Pids -> Seq(Pids)] /\ shadow' \in [Pids -> Seq(Pids)]
  <2>1. CASE slot[p] = "executing"
    <3>1. links[p] \in Seq(Pids) /\ shadow[p] \in Seq(Pids)
      BY DEF DownInv, MarkInv
    <3>2. AddLinks(links[p], shadow[p], p) \in Seq(Pids)
      BY <3>1, LinksAdded
    <3>3. /\ links' = [links EXCEPT ![p] = AddLinks(@, shadow[p], p)]
          /\ shadow' = [shadow EXCEPT ![p] = <<>>]
      BY <2>1 DEF StoreRunnable
    <3>4. QED
      BY <3>2, <3>3 DEF DownInv, MarkInv
  <2>2. CASE slot[p] # "executing"
    <3>1. UNCHANGED <<links, shadow>>
      BY <2>2 DEF StoreRunnable
    <3>2. QED
      BY <3>1, LinksSame DEF DownInv
  <2>3. QED
    BY <2>1, <2>2
<1>5. slot' = slot \/ slot' = [slot EXCEPT ![p] = "present"]
  BY DEF StoreRunnable
<1>6. Steady
  BY <1>1, <1>4, <1>5 DEF Steady, DownInv, MarkInv, ZombieInv, SlotInv
<1>7. QED
  BY <1>1, <1>2, <1>3, <1>6, CalmKeeps DEF DownInv, WatchInv, SetInv

LEMMA DownCheck ==
  ASSUME ZombieInv, DownInv, NEW p \in Pids, CheckAfterStore(p)
  PROVE  DownInv'
<1>1. /\ p \in Threads /\ thread[p].pc = "stored"
      /\ UNCHANGED <<table, exited, tombs, slot, links, shadow, mail, watch>>
  BY DEF CheckAfterStore, Threads, graves, body, At
<1>2. Moves(p)
  <2>1. CASE tombs[p] # None
    <3>1. Goto(p, Cleanup(p, tombs[p])) /\ tombs[p] \in Deaths
      BY <2>1 DEF CheckAfterStore, DownInv, MarkInv
    <3>2. QED
      BY <1>1, <3>1, Restarts DEF DownInv
  <2>2. CASE tombs[p] = None
    BY <1>1, <2>2, Restarts DEF CheckAfterStore, DownInv
  <2>3. QED
    BY <2>1, <2>2
<1>3. QED
  BY <1>1, <1>2, LinkStep, LinksSame DEF DownInv

LEMMA DownLinkSteps ==
  ASSUME ZombieInv, DownInv, NEW p \in Pids, LinkCaller(p) \/ LinkTarget(p) \/ UnlinkTarget(p)
  PROVE  DownInv'
<1>1. /\ p \in Threads /\ thread[p].pc \in {"linkCaller", "linkTarget", "unlinkTarget"}
      /\ UNCHANGED <<table, exited, tombs, slot, mail, watch>>
      /\ Goto(p, Return(p)) \/ Jump(p, "linkTarget")
  BY DEF LinkCaller, LinkTarget, UnlinkTarget, Threads, At, graves
<1>2. thread[p].peer \in Pids
  BY <1>1 DEF DownInv, MarkInv, Fit, CallSteps
<1>3. Moves(p)
  <2>1. CASE Goto(p, Return(p))
    BY <1>1, <2>1, Restarts DEF DownInv
  <2>2. CASE Jump(p, "linkTarget")
    BY <1>1, <1>2, <2>2, JumpMoves DEF DownInv, SliceSteps
  <2>3. QED
    BY <1>1, <2>1, <2>2
<1>4. links' \in [Pids -> Seq(Pids)] /\ shadow' \in [Pids -> Seq(Pids)]
  BY <1>2, SlotLinks DEF DownInv, LinkCaller, LinkTarget, UnlinkTarget
<1>5. QED
  BY <1>1, <1>3, <1>4, LinkStep

LEMMA DownLinkCalls ==
  ASSUME ZombieInv, DownInv, NEW p \in Pids, NEW q \in Pids, LinkChecks(p, q) \/ UnlinkCaller(p, q)
  PROVE  DownInv'
<1>1. /\ p \in Threads /\ UNCHANGED <<table, exited, tombs, slot, mail, watch>>
      /\ Calls(p, "linkCaller", q) \/ Calls(p, "unlinkTarget", q)
  BY DEF LinkChecks, UnlinkCaller, Threads, graves, body
<1>2. Moves(p)
  BY <1>1, CallMoves DEF DownInv, SliceSteps
<1>3. links' \in [Pids -> Seq(Pids)] /\ shadow' \in [Pids -> Seq(Pids)]
  <2>1. CASE LinkChecks(p, q)
    BY <2>1, LinksSame DEF DownInv, LinkChecks, body
  <2>2. CASE UnlinkCaller(p, q)
    BY <2>2, SlotLinks DEF DownInv, UnlinkCaller
  <2>3. QED
    BY <2>1, <2>2
<1>4. QED
  BY <1>1, <1>2, <1>3, LinkStep

LEMMA DownSpawn ==
  ASSUME ZombieInv, DownInv, NEW p \in Pids, NEW q \in Pids, SpawnLink(p, q)
  PROVE  DownInv'
<1>1. /\ p \in Threads /\ UNCHANGED <<exited, tombs, slot, mail, watch>>
      /\ Calls(p, "spawning", q) /\ table' = table \cup {q}
      /\ links' = [links EXCEPT ![q] = <<p>>]
      /\ \/ shadow' = shadow
         \/ shadow' = [shadow EXCEPT ![p] = AddLink(@, q, p)]
  BY DEF SpawnLink, Threads, graves
<1>2. Moves(p)
  BY <1>1, CallMoves DEF DownInv, SliceSteps
<1>3. links' \in [Pids -> Seq(Pids)] /\ shadow' \in [Pids -> Seq(Pids)]
  <2>1. shadow[p] \in Seq(Pids) /\ <<p>> \in Seq(Pids)
    BY DEF DownInv, MarkInv
  <2>2. AddLink(shadow[p], q, p) \in Seq(Pids)
    BY <2>1, LinkAdded
  <2>3. QED
    BY <1>1, <2>1, <2>2 DEF DownInv, MarkInv
<1>4. Steady
  BY <1>1, <1>3, SteadyLinks DEF DownInv
<1>5. MailInv' /\ Posted
  BY <1>1, MailSame DEF DownInv
<1>6. QED
  BY <1>1, <1>2, <1>4, <1>5, CalmKeeps DEF DownInv, WatchInv, SetInv

LEMMA DownPublish ==
  ASSUME ZombieInv, DownInv, NEW p \in Pids, SpawnPublish(p)
  PROVE  DownInv'
<1>1. /\ p \in Threads /\ UNCHANGED <<table, exited, tombs, links, shadow, mail, watch>>
      /\ thread[p].pc = "spawning" /\ Goto(p, Return(p))
      /\ slot' = [slot EXCEPT ![thread[p].peer] = "present"]
  BY DEF SpawnPublish, Threads, graves, At
<1>2. Moves(p)
  BY <1>1, Restarts DEF DownInv
<1>3. slot[thread[p].peer] = "unborn" /\ thread[p].peer \in Pids
  BY <1>1 DEF ZombieInv, SpawnInv
<1>4. Steady
  BY <1>1, <1>3 DEF Steady, DownInv, MarkInv, ZombieInv, SlotInv
<1>5. MailInv' /\ Posted
  <2>1. \A q \in Pids : slot'[q] # "executing" => slot[q] # "executing"
    BY <1>1, <1>3 DEF ZombieInv, SlotInv
  <2>2. QED
    BY <1>1, <2>1, MailSame DEF DownInv
<1>6. QED
  BY <1>1, <1>2, <1>4, <1>5, CalmKeeps DEF DownInv, WatchInv, SetInv

LEMMA DownExitCalls ==
  ASSUME ZombieInv, DownInv, NEW p \in Pids, NEW q \in Pids, NEW reason \in Signals,
         ExitSignalPresent(p, q, reason) \/ ExitSignalExecuting(p, q, reason)
  PROVE  DownInv'
<1>1. p \in Threads /\ TerminalReason(reason) \in Deaths
  BY Terminal DEF Threads
<1>2. CASE ExitSignalPresent(p, q, reason) /\ ShouldDie(q, reason)
  <2>1. /\ MayCall(p) /\ Goto(p, Cleanup(q, TerminalReason(reason))) /\ exited \subseteq exited'
        /\ UNCHANGED <<table, slot, tombs, links, shadow, mail, watch>>
    BY <1>2 DEF ExitSignalPresent, graves
  <2>2. thread[p].pc \notin {"downs", "downNow"}
    BY <1>1, <2>1, Callable
  <2>3. Moves(p)
    BY <1>1, <2>1, <2>2, Restarts DEF DownInv
  <2>4. QED
    BY <1>1, <2>1, <2>3, LinkStep, LinksSame DEF DownInv
<1>3. CASE ExitSignalPresent(p, q, reason) /\ ~ShouldDie(q, reason)
  <2>1. /\ slot[q] = "present" /\ UNCHANGED <<table, slot, exited, thread, tombs, links, shadow, watch>>
        /\ Deliver(q, Exit(p, reason)) \/ UNCHANGED mail
    BY <1>3 DEF ExitSignalPresent, graves
  <2>2. Moves(p)
    BY <1>1, <2>1, StandsStill
  <2>3. Steady
    BY <2>1, SteadyLinks, LinksSame DEF DownInv
  <2>4. MailInv' /\ Posted
    BY <2>1, ExitDelivered DEF DownInv
  <2>5. QED
    BY <1>1, <2>1, <2>2, <2>3, <2>4, CalmKeeps DEF DownInv, WatchInv, SetInv
<1>4. CASE ExitSignalExecuting(p, q, reason)
  <2>1. /\ slot[q] = "executing" /\ Calls(p, "run", None)
        /\ UNCHANGED <<table, slot, exited, links, shadow, watch>>
        /\ \/ Bury(q, TerminalReason(reason)) /\ UNCHANGED mail
           \/ UNCHANGED tombs /\ (Deliver(q, Exit(p, reason)) \/ UNCHANGED mail)
    BY <1>4 DEF ExitSignalExecuting, graves, body
  <2>2. Moves(p)
    BY <1>1, <2>1, CallMoves DEF DownInv, SliceSteps, CallSteps
  <2>3. /\ tombs' \in [Pids -> Deaths \cup {None}]
        /\ \A x \in Pids : tombs[x] # None => tombs'[x] # None
    <3>1. CASE UNCHANGED tombs
      BY <3>1 DEF DownInv, MarkInv
    <3>2. CASE Bury(q, TerminalReason(reason))
      BY <1>1, <3>2, BuryMarks DEF DownInv
    <3>3. QED
      BY <2>1, <3>1, <3>2
  <2>4. Steady
    BY <2>1, <2>3 DEF Steady, DownInv, MarkInv
  <2>5. MailInv' /\ Posted
    BY <2>1, ExitDelivered DEF DownInv
  <2>6. QED
    BY <1>1, <2>1, <2>2, <2>4, <2>5, CalmKeeps DEF DownInv, WatchInv, SetInv
<1>5. QED
  BY <1>2, <1>3, <1>4

LEMMA DownHost ==
  ASSUME ZombieInv, DownInv, NEW q \in Pids, TerminateProcess(q) \/ SetTrapExit(q)
  PROVE  DownInv'
<1>1. Host \in Threads /\ "error" \in Deaths
  BY DEF Threads, Deaths
<1>2. UNCHANGED <<table, slot, exited, tombs, links, shadow, mail, watch>>
  BY DEF TerminateProcess, SetTrapExit, body, graves
<1>3. CASE TerminateProcess(q)
  <2>1. MayCall(Host) /\ Goto(Host, Cleanup(q, "error"))
    BY <1>3 DEF TerminateProcess
  <2>2. thread[Host].pc \notin {"downs", "downNow"}
    BY <1>1, <2>1, Callable, SupervisionAssumption
  <2>3. Moves(Host)
    BY <1>1, <2>1, <2>2, Restarts DEF DownInv
  <2>4. QED
    BY <1>1, <1>2, <2>3, LinkStep, LinksSame DEF DownInv
<1>4. CASE SetTrapExit(q)
  <2>1. Calls(Host, "idle", None)
    BY <1>4 DEF SetTrapExit
  <2>2. Moves(Host)
    BY <1>1, <2>1, CallMoves DEF DownInv, CallSteps
  <2>3. QED
    BY <1>1, <1>2, <2>2, LinkStep, LinksSame DEF DownInv
<1>5. QED
  BY <1>3, <1>4

-----------------------------------------------------------------------------
(* The steps of a clean-up *)

LEMMA CleanFit ==
  ASSUME ZombieInv, DownInv, NEW t \in Threads, thread[t].pc \in CleanSteps
  PROVE  /\ Whole(thread[t]) /\ Fit(thread[t]) /\ Clear(thread[t], monitors)
         /\ thread[t].pid \in Pids /\ thread[t].dying \in Pids
         /\ thread[t].pc # "tomb" => tombs[thread[t].pid] # None /\ tombs[thread[t].dying] # None
         /\ thread[t].pc # "downs" => thread[t].downs = {}
<1>1. Whole(thread[t]) /\ thread[t].pid \in Pids
  BY DEF ZombieInv, ThreadInv, ThreadOk
<1>2. Fit(thread[t]) /\ Buried(thread[t]) /\ Clear(thread[t], monitors)
  BY DEF DownInv, MarkInv, WatchInv, SetInv, Cleared
<1>3. QED
  BY <1>1, <1>2 DEF Fit, Buried, CleanSteps

(* Where Advance leads, the monitors it has to answer for are collected. *)
LEMMA AdvanceClears ==
  ASSUME NEW r, NEW M, Whole(r), r.pc \in {"downs", "signal"}, Clear(r, M)
  PROVE  LET s == Advance(r)
         IN  /\ Clear(s, M) /\ s.pid = r.pid /\ s.dying \in {r.pid, r.dying} /\ s.downs = r.downs
             /\ s.pc \in {"downs", "signal", "spendToken"}
<1> DEFINE s == Advance(r)
<1>1. /\ s.pid = r.pid /\ Carries(s, r)
      /\ \/ s.pc = "spendToken" /\ s.dying = r.pid
         \/ s.pc = "signal" /\ s.dying = r.dying
         \/ s.pc = "downs" /\ r.pc = "downs" /\ s.dying = r.dying
         \/ s.pc = "spendToken" /\ r.pc = "downs" /\ s.dying = r.dying
  BY AdvanceStands
<1> HIDE DEF s
<1>2. QED
  BY <1>1 DEF Clear, Carries, s

LEMMA DownTombstone ==
  ASSUME ZombieInv, DownInv, NEW t \in Threads, InsertTombstone(t)
  PROVE  DownInv'
<1> DEFINE r == thread[t]
           st == [r EXCEPT !.pc = "takeLinks"]
<1>1. /\ r.pc = "tomb" /\ Goto(t, st) /\ Bury(r.pid, TerminalReason(r.reason))
      /\ UNCHANGED <<table, slot, exited, links, shadow, mail, watch>>
  BY DEF InsertTombstone, At, Jump, body
<1>2. Only(t, st)
  BY <1>1, Goes DEF ZombieInv
<1>3. Whole(r) /\ Fit(r) /\ r.pid \in Pids /\ r.downs = {}
  BY <1>1, CleanFit DEF CleanSteps
<1>4. Put(r, st, "pc", "takeLinks")
  BY <1>3, Fields
<1> HIDE DEF st, r
<1>5. /\ st.pc = "takeLinks" /\ st.pid = r.pid /\ st.dying = r.pid /\ st.phase = "top" /\ st.downs = {}
      /\ st.reason = r.reason /\ st.work = r.work /\ st.cascade = r.cascade /\ r.reason \in Deaths
  BY <1>1, <1>3, <1>4 DEF Put, Fit, CleanSteps
<1>6. Fit(st)
  BY <1>3, <1>5 DEF Fit, CallSteps, CleanSteps
<1>7. /\ tombs' \in [Pids -> Deaths \cup {None}] /\ tombs'[r.pid] # None
      /\ \A p \in Pids : tombs[p] # None => tombs'[p] # None
  <2>1. TerminalReason(r.reason) \in Deaths
    BY <1>5, Terminal
  <2>2. QED
    BY <1>1, <1>3, <2>1, BuryMarks DEF DownInv
<1>8. Moves(t)
  <2>1. Cleared(st)
    BY <1>5 DEF Cleared, Clear
  <2>2. st.downs = thread[t].downs
    BY <1>3, <1>5 DEF r
  <2>3. QED
    BY <1>2, <1>5, <1>6, <1>7, <2>1, <2>2 DEF Moves
<1>9. Steady
  BY <1>1, <1>7 DEF Steady, DownInv, MarkInv
<1>10. MailInv' /\ Posted
  BY <1>1, MailSame DEF DownInv
<1>11. QED
  BY <1>1, <1>8, <1>9, <1>10, CalmKeeps DEF DownInv, WatchInv, SetInv

LEMMA DownTakeLinks ==
  ASSUME ZombieInv, DownInv, NEW t \in Threads, TakeLinks(t)
  PROVE  DownInv'
<1> DEFINE r == thread[t]
           p == r.pid
           found == CASE slot[p] = "present"   -> links[p]
                      [] slot[p] = "executing" -> shadow[p]
                      [] OTHER                 -> <<>>
           w == Signalled(p, found, TerminalReason(r.reason))
           s == [r EXCEPT !.pc = "collect"]
           st == [s EXCEPT !.work = w]
<1>1. /\ r.pc = "takeLinks" /\ Goto(t, st)
      /\ links' = IF slot[p] = "present" THEN [links EXCEPT ![p] = <<>>] ELSE links
      /\ UNCHANGED <<table, slot, exited, tombs, shadow, mail, watch>>
  BY DEF TakeLinks, At, graves
<1>2. Only(t, st)
  BY <1>1, Goes DEF ZombieInv
<1>3. /\ Whole(r) /\ Fit(r) /\ r.pid \in Pids /\ r.downs = {}
      /\ tombs[r.pid] # None /\ tombs[r.dying] # None
  BY <1>1, CleanFit DEF CleanSteps
<1>4. found \in Seq(Pids)
  BY <1>3 DEF DownInv, MarkInv
<1>5. w \in Seq(ExitSignals)
  <2>1. TerminalReason(r.reason) \in Deaths
    BY <1>1, <1>3, Terminal DEF Fit
  <2> HIDE DEF found, p, r
  <2>2. QED
    BY <1>3, <1>4, <2>1, SignalsOf DEF p
<1> HIDE DEF w
<1>6. Put(r, s, "pc", "collect")
  BY <1>3, Fields
<1> HIDE DEF s
<1>7. Put(s, st, "work", w)
  BY <1>6, PutWhole, Fields
<1> HIDE DEF st
<1>8. /\ st.pc = "collect" /\ st.pid = r.pid /\ st.dying = r.dying /\ st.phase = "top" /\ st.downs = {}
      /\ st.work = w /\ st.cascade = r.cascade /\ r.dying = r.pid
  <2> HIDE DEF r
  <2> QED BY <1>1, <1>3, <1>6, <1>7 DEF Put, Fit, CleanSteps
<1>9. Fit(st)
  <2> HIDE DEF r
  <2> QED BY <1>3, <1>5, <1>8 DEF Fit, CallSteps, CleanSteps
<1>10. Moves(t)
  <2>1. Cleared(st)
    BY <1>8 DEF Cleared, Clear
  <2>2. QED
    BY <1>1, <1>2, <1>3, <1>8, <1>9, <2>1 DEF Moves
<1>11. links' \in [Pids -> Seq(Pids)] /\ shadow' \in [Pids -> Seq(Pids)]
  <2>1. <<>> \in Seq(Pids)
    OBVIOUS
  <2>2. links' = [links EXCEPT ![p] = <<>>] \/ links' = links
    BY <1>1
  <2> HIDE DEF p
  <2>3. QED
    BY <1>1, <2>1, <2>2 DEF DownInv, MarkInv
<1>12. QED
  BY <1>1, <1>10, <1>11, LinkStep

(* A signal that leaves its target alive. *)
LEMMA PoppedMoves ==
  ASSUME ZombieInv, DownInv, NEW t \in Threads, Goto(t, Advance(Popped(t))), UNCHANGED tombs,
         thread[t].pc = "signal", thread[t].work # <<>>
  PROVE  Moves(t)
<1> DEFINE r == thread[t]
           w == Tail(r.work)
           q == Popped(t)
           st == Advance(q)
<1>1. Only(t, st)
  BY Goes DEF ZombieInv
<1>2. /\ Whole(r) /\ Fit(r) /\ Clear(r, monitors) /\ r.pid \in Pids /\ r.dying \in Pids /\ r.downs = {}
      /\ tombs[r.pid] # None /\ tombs[r.dying] # None
  BY CleanFit DEF CleanSteps
<1>3. w \in Seq(ExitSignals)
  BY <1>2 DEF Fit
<1>4. Put(r, q, "work", w)
  BY <1>2, VictimStands
<1> HIDE DEF q, w
<1>5. /\ Whole(q) /\ q.pc = "signal" /\ q.pid = r.pid /\ q.dying = r.dying /\ q.phase = r.phase
      /\ q.downs = {} /\ q.work = w /\ q.cascade = r.cascade
  <2>1. r.pc = "signal"
    OBVIOUS
  <2> HIDE DEF r
  <2> QED BY <1>2, <1>4, <2>1 DEF Put
<1>6. Fit(q) /\ Clear(q, monitors)
  <2>1. r.pc = "signal"
    OBVIOUS
  <2> HIDE DEF r
  <2> QED BY <1>2, <1>3, <1>5, <2>1 DEF Fit, Clear, CallSteps, CleanSteps
<1>7. /\ Fit(st) /\ Clear(st, monitors) /\ st.pid = q.pid /\ st.dying \in {q.pid, q.dying}
      /\ st.downs = q.downs
  <2>1. q.pid \in Pids
    BY <1>2, <1>5
  <2>2. QED
    BY <1>5, <1>6, <2>1, FitAdvance, AdvanceClears
<1> HIDE DEF st
<1>8. QED
  BY <1>1, <1>2, <1>5, <1>7 DEF Moves, Cleared

(* A signal that kills its target. *)
LEMMA VictimMoves ==
  ASSUME ZombieInv, DownInv, NEW t \in Threads, NEW s \in ExitSignals,
         NEW phase \in {"present", "executing"},
         NEW rest \in Seq(Pids), Goto(t, Victim(t, s, phase, rest)),
         thread[t].pc = "signal", thread[t].work # <<>>, tombs'[s.to] # None,
         \A p \in Pids : tombs[p] # None => tombs'[p] # None
  PROVE  Moves(t)
<1> DEFINE r == thread[t]
           w == Tail(r.work)
           c == Signalled(s.to, RemoveLink(rest, s.from), TerminalReason(s.reason))
           st == Victim(t, s, phase, rest)
<1>1. Only(t, st)
  BY Goes DEF ZombieInv
<1>2. /\ Whole(r) /\ Fit(r) /\ Clear(r, monitors) /\ r.pid \in Pids /\ r.downs = {}
      /\ tombs[r.pid] # None
  BY CleanFit DEF CleanSteps
<1>3. w \in Seq(ExitSignals)
  BY <1>2 DEF Fit
<1>4. s.to \in Pids /\ c \in Seq(ExitSignals)
  <2>1. s.to \in Pids /\ s.reason \in Deaths
    BY DEF ExitSignals
  <2>2. RemoveLink(rest, s.from) \in Seq(Pids) /\ TerminalReason(s.reason) \in Deaths
    BY <2>1, LinksRemoved, Terminal
  <2>3. QED
    BY <2>1, <2>2, SignalsOf
<1>5. /\ st.pc = "collect" /\ st.pid = r.pid /\ st.dying = s.to /\ st.phase = phase
      /\ st.downs = r.downs /\ st.work = w /\ st.cascade = c
  BY <1>2, VictimStands
<1> HIDE DEF st, w, c
<1>6. r.pc = "signal"
  OBVIOUS
<1>7. Fit(st) /\ Clear(st, monitors)
  <2> HIDE DEF r
  <2> QED BY <1>2, <1>3, <1>4, <1>5, <1>6 DEF Fit, Clear, CallSteps, CleanSteps
<1>8. QED
  BY <1>1, <1>2, <1>5, <1>7 DEF Moves, Cleared

LEMMA DownSignal ==
  ASSUME ZombieInv, DownInv, NEW t \in Threads,
         SignalIgnored(t) \/ SignalPresent(t) \/ SignalExecuting(t)
  PROVE  DownInv'
<1>1. /\ thread[t].pc = "signal" /\ thread[t].work # <<>> /\ UNCHANGED <<table, slot, watch>>
      /\ exited \subseteq exited'
  BY DEF SignalIgnored, SignalPresent, SignalExecuting, At, body
<1>2. PICK s \in ExitSignals : s = Head(thread[t].work)
  <2>1. thread[t].work \in Seq(ExitSignals)
    BY DEF DownInv, MarkInv, Fit
  <2>2. Head(thread[t].work) \in ExitSignals
    BY <1>1, <2>1
  <2>3. QED
    BY <2>2
<1>3. s.to \in Pids /\ s.from \in Pids /\ s.reason \in Deaths /\ TerminalReason(s.reason) \in Deaths
  BY Terminal DEF ExitSignals
<1>4. links[s.to] \in Seq(Pids) /\ shadow[s.to] \in Seq(Pids) /\ <<>> \in Seq(Pids)
  BY <1>3 DEF DownInv, MarkInv
<1>5. RemoveLink(links[s.to], s.from) \in Seq(Pids) /\ RemoveLink(shadow[s.to], s.from) \in Seq(Pids)
  BY <1>4, LinksRemoved
<1>6. links' \in [Pids -> Seq(Pids)] /\ shadow' \in [Pids -> Seq(Pids)]
  <2>1. /\ \/ links' = links
           \/ links' = [links EXCEPT ![s.to] = <<>>]
           \/ links' = [links EXCEPT ![s.to] = RemoveLink(@, s.from)]
        /\ \/ shadow' = shadow
           \/ shadow' = [shadow EXCEPT ![s.to] = RemoveLink(@, s.from)]
    <3>1. CASE SignalIgnored(t)
      BY <3>1 DEF SignalIgnored, body
    <3>2. CASE SignalPresent(t)
      BY <1>2, <3>2 DEF SignalPresent
    <3>3. CASE SignalExecuting(t)
      BY <1>2, <3>3 DEF SignalExecuting
    <3>4. QED
      BY <3>1, <3>2, <3>3
  <2>2. QED
    BY <1>4, <1>5, <2>1 DEF DownInv, MarkInv
<1>7. CASE /\ Goto(t, Advance(Popped(t))) /\ UNCHANGED tombs
           /\ \/ UNCHANGED mail
              \/ slot[s.to] \in {"present", "executing"} /\ Deliver(s.to, Exit(s.from, s.reason))
  <2>1. Moves(t)
    BY <1>1, <1>7, PoppedMoves
  <2>2. Steady
    BY <1>1, <1>6, <1>7, SteadyLinks DEF DownInv
  <2>3. MailInv' /\ Posted
    <3>1. CASE UNCHANGED mail
      BY <1>1, <3>1, MailSame DEF DownInv
    <3>2. CASE slot[s.to] \in {"present", "executing"} /\ Deliver(s.to, Exit(s.from, s.reason))
      BY <1>1, <1>3, <3>2, ExitDelivered DEF DownInv
    <3>3. QED
      BY <1>7, <3>1, <3>2
  <2>4. QED
    BY <1>1, <2>1, <2>2, <2>3, CalmKeeps DEF DownInv, WatchInv, SetInv
<1>8. ASSUME NEW phase \in {"present", "executing"}, NEW rest \in Seq(Pids),
             Goto(t, Victim(t, s, phase, rest)), Bury(s.to, TerminalReason(s.reason)), UNCHANGED mail
      PROVE  DownInv'
  <2>1. /\ tombs' \in [Pids -> Deaths \cup {None}] /\ tombs'[s.to] # None
        /\ \A p \in Pids : tombs[p] # None => tombs'[p] # None
    BY <1>3, <1>8, BuryMarks DEF DownInv
  <2>2. Moves(t)
    BY <1>1, <1>8, <2>1, VictimMoves
  <2>3. Steady
    BY <1>1, <1>6, <2>1 DEF Steady, DownInv, MarkInv
  <2>4. MailInv' /\ Posted
    BY <1>1, <1>8, MailSame DEF DownInv
  <2>5. QED
    BY <1>1, <2>2, <2>3, <2>4, CalmKeeps DEF DownInv, WatchInv, SetInv
<1>9. CASE SignalIgnored(t)
  BY <1>7, <1>9 DEF SignalIgnored, graves
<1>10. CASE SignalPresent(t)
  <2>1. CASE ShouldDie(s.to, s.reason)
    <3>1. /\ Goto(t, Victim(t, s, "present", links[s.to])) /\ Bury(s.to, TerminalReason(s.reason))
          /\ UNCHANGED mail
      BY <1>2, <1>10, <2>1 DEF SignalPresent
    <3>2. QED
      BY <1>4, <1>8, <3>1
  <2>2. CASE ~ShouldDie(s.to, s.reason)
    <3>1. /\ Goto(t, Advance(Popped(t))) /\ UNCHANGED tombs /\ slot[s.to] = "present"
          /\ UNCHANGED mail \/ Deliver(s.to, Exit(s.from, s.reason))
      BY <1>2, <1>10, <2>2 DEF SignalPresent, graves
    <3>2. QED
      BY <1>7, <3>1
  <2>3. QED
    BY <2>1, <2>2
<1>11. CASE SignalExecuting(t)
  <2>1. CASE ShouldDie(s.to, s.reason)
    <3>1. /\ Goto(t, Victim(t, s, "executing", shadow[s.to])) /\ Bury(s.to, TerminalReason(s.reason))
          /\ UNCHANGED mail
      BY <1>2, <1>11, <2>1 DEF SignalExecuting
    <3>2. QED
      BY <1>4, <1>8, <3>1
  <2>2. CASE ~ShouldDie(s.to, s.reason)
    <3>1. /\ Goto(t, Advance(Popped(t))) /\ UNCHANGED tombs /\ slot[s.to] = "executing"
          /\ UNCHANGED mail \/ Deliver(s.to, Exit(s.from, s.reason))
      BY <1>2, <1>11, <2>2 DEF SignalExecuting, graves
    <3>2. QED
      BY <1>7, <3>1
  <2>3. QED
    BY <2>1, <2>2
<1>12. QED
  BY <1>9, <1>10, <1>11

LEMMA FinalizeMoves ==
  ASSUME ZombieInv, DownInv, NEW t \in Threads, Goto(t, AfterFinalize(t)), UNCHANGED tombs,
         thread[t].pc \in {"spendToken", "removeBody"}
  PROVE  Moves(t)
<1> DEFINE r == thread[t]
           st == AfterFinalize(t)
<1>1. Only(t, st)
  BY Goes DEF ZombieInv
<1>2. /\ Fit(r) /\ Clear(r, monitors) /\ r.pid \in Pids /\ r.dying \in Pids /\ r.downs = {}
      /\ tombs[r.pid] # None /\ tombs[r.dying] # None
  BY CleanFit DEF CleanSteps
<1>3. \/ /\ st.pid = r.pid /\ Carries(st, r)
         /\ \/ st.pc = "signal" /\ st.dying = r.dying /\ st.phase = r.phase
            \/ st.pc = "spendToken" /\ st.dying = r.pid
      \/ st.pc \in {"run", "idle"} /\ Blank(st)
  BY Finalized DEF ZombieInv
<1>4. r.pc \in {"spendToken", "removeBody"}
  OBVIOUS
<1> HIDE DEF st, r
<1>5. Carries(st, r) => st.work \in Seq(ExitSignals) /\ st.cascade \in Seq(ExitSignals) /\ st.downs = {}
  BY <1>2, FitLoad
<1>6. Fit(st) /\ Clear(st, monitors) /\ st.downs = {}
  <2>1. CASE st.pc \in {"run", "idle"} /\ Blank(st)
    BY <2>1 DEF Fit, Clear, Blank, CallSteps, CleanSteps
  <2>2. CASE st.pid = r.pid /\ Carries(st, r) /\ st.pc = "signal" /\ st.dying = r.dying /\ st.phase = r.phase
    BY <1>2, <1>4, <1>5, <2>2 DEF Fit, Clear, CallSteps, CleanSteps
  <2>3. CASE st.pid = r.pid /\ Carries(st, r) /\ st.pc = "spendToken" /\ st.dying = r.pid
    BY <1>2, <1>4, <1>5, <2>3 DEF Fit, Clear, CallSteps, CleanSteps
  <2>4. QED
    BY <1>3, <2>1, <2>2, <2>3
<1>7. st.pc \in CleanSteps => tombs'[st.pid] # None /\ tombs'[st.dying] # None
  BY <1>2, <1>3 DEF CleanSteps
<1>8. st.downs = thread[t].downs
  BY <1>2, <1>6 DEF r
<1>9. QED
  BY <1>1, <1>6, <1>7, <1>8 DEF Moves, Cleared

LEMMA DownFinalize ==
  ASSUME ZombieInv, DownInv, NEW t \in Threads, SpendToken(t) \/ RemoveBody(t)
  PROVE  DownInv'
<1>1. /\ thread[t].pc \in {"spendToken", "removeBody"} /\ UNCHANGED <<exited, tombs, watch>>
  BY DEF SpendToken, RemoveBody, At, graves
<1>2. /\ Whole(thread[t]) /\ Fit(thread[t]) /\ Clear(thread[t], monitors)
      /\ thread[t].pid \in Pids /\ thread[t].dying \in Pids
      /\ tombs[thread[t].pid] # None /\ tombs[thread[t].dying] # None /\ thread[t].downs = {}
  BY <1>1, CleanFit DEF CleanSteps
<1>3. \A m \in monitors : m.target # thread[t].dying /\ m.target \in table
  BY <1>1, <1>2 DEF Clear, DownInv, WatchInv, SetInv
<1>4. CASE SpendToken(t)
  <2>1. /\ table' = table \ {thread[t].dying} /\ UNCHANGED <<slot, links, shadow, mail>>
        /\ Jump(t, "removeBody") \/ Goto(t, AfterFinalize(t))
    BY <1>4 DEF SpendToken, At
  <2>2. ASSUME Jump(t, "removeBody")
        PROVE  Moves(t)
    <3> DEFINE r == thread[t]
               st == [r EXCEPT !.pc = "removeBody"]
    <3>1. Only(t, st)
      BY <2>2, Goes DEF Jump, ZombieInv
    <3>2. Put(r, st, "pc", "removeBody")
      BY <1>2, Fields
    <3>3. r.pc = "spendToken"
      BY <1>4 DEF SpendToken, At
    <3> HIDE DEF st
    <3>4. /\ st.pc = "removeBody" /\ st.pid = r.pid /\ st.dying = r.dying /\ st.phase = r.phase
          /\ st.downs = r.downs /\ st.work = r.work /\ st.cascade = r.cascade
      <4> HIDE DEF r
      <4> QED BY <3>2 DEF Put
    <3>5. Fit(st) /\ Clear(st, monitors)
      <4>1. Fit(r) /\ Clear(r, monitors) /\ r.downs = {}
        BY <1>2
      <4> HIDE DEF r
      <4> QED BY <3>3, <3>4, <4>1 DEF Fit, Clear, CallSteps, CleanSteps
    <3>6. QED
      BY <1>1, <1>2, <3>1, <3>4, <3>5 DEF Moves, Cleared
  <2>3. Moves(t)
    BY <1>1, <2>1, <2>2, FinalizeMoves
  <2>4. Steady
    BY <1>1, <2>1, SteadyLinks, LinksSame DEF DownInv
  <2>5. MailInv' /\ Posted
    BY <2>1, MailSame DEF DownInv
  <2>6. QED
    BY <1>1, <1>3, <2>1, <2>3, <2>4, <2>5, CalmKeeps
<1>5. CASE RemoveBody(t)
  <2>1. /\ UNCHANGED table /\ Goto(t, AfterFinalize(t))
        /\ slot' = [slot EXCEPT ![thread[t].dying] = "gone"]
        /\ links' = [links EXCEPT ![thread[t].dying] = <<>>]
        /\ shadow' = [shadow EXCEPT ![thread[t].dying] = <<>>]
    BY <1>5 DEF RemoveBody
  <2>2. Moves(t)
    BY <1>1, <2>1, FinalizeMoves
  <2>3. links' \in [Pids -> Seq(Pids)] /\ shadow' \in [Pids -> Seq(Pids)]
    <3>1. <<>> \in Seq(Pids)
      OBVIOUS
    <3>2. QED
      BY <1>2, <2>1, <3>1 DEF DownInv, MarkInv
  <2>4. Steady
    BY <1>1, <1>2, <2>1, <2>3 DEF Steady, DownInv, MarkInv, ZombieInv, SlotInv
  <2>5. MailInv' /\ Posted
    BY <1>1, <1>2, <1>5, Dropped DEF DownInv, ZombieInv
  <2>6. QED
    BY <1>1, <1>3, <2>1, <2>2, <2>4, <2>5, CalmKeeps
<1>6. QED
  BY <1>4, <1>5

-----------------------------------------------------------------------------
(* Monitors are put in, taken back, collected and told *)

LEMMA BoxSame ==
  ASSUME UNCHANGED mail
  PROVE  \A p \in Pids : Box(p)' = Box(p)
BY DEF mail, Box

(* A monitor with a new reference, in the set or with its DOWN on the way. *)
LEMMA NewMonitor ==
  ASSUME MarkInv, WatchInv, UNCHANGED <<body, mail, graves>>, NEW m \in Monitors, m.ref = refs,
         slot[m.watcher] # "unborn", refs' = refs + 1, told' = told \cup {m},
         monitors \subseteq monitors', monitors' \subseteq monitors \cup {m},
         \A x : Carried(x) => Carried(x)',
         \A x : Carried(x)' => Carried(x) \/ x = m,
         m \in monitors' \/ Carried(m)', ~(m \in monitors' /\ Carried(m)'),
         m \in monitors' => m.target \in table,
         \A u, v \in Threads : \A x : x \in thread'[u].downs /\ x \in thread'[v].downs => u = v,
         \A u \in Threads : Clear(thread'[u], monitors')
  PROVE  WatchInv'
<1>1. UNCHANGED <<table, slot, exited, tombs>>
  BY DEF body, graves
<1>2. refs \in Nat /\ m \notin told /\ ~Carried(m)
  BY DEF WatchInv, RefInv
<1>3. RefInv'
  <2>1. refs' \in Nat /\ told' \subseteq Monitors /\ monitors' \subseteq told'
    BY <1>2 DEF WatchInv, RefInv
  <2>2. \A x : x \in told' \/ Carried(x)' => (x \in told \/ Carried(x)) \/ x = m
    OBVIOUS
  <2>3. \A x : x \in told \/ Carried(x) => x.ref < refs
    BY DEF WatchInv, RefInv
  <2>4. \A x : x \in told \/ Carried(x) => x.ref \in Nat /\ x.ref < refs /\ x.ref # refs
    <3>1. \A x : x \in told \/ Carried(x) => x \in Monitors
      BY DEF WatchInv, RefInv, MarkInv, Fit, Carried
    <3> QED BY <2>3, <1>2, <3>1 DEF Monitors
  <2>5. \A x : x \in told' \/ Carried(x)' => x.ref < refs'
    BY <1>2, <2>2, <2>4
  <2>6. \A x \in told' : slot'[x.watcher] # "unborn"
    BY <1>1 DEF WatchInv, RefInv
  <2>7. \A x, y : (x \in told' \/ Carried(x)') /\ (y \in told' \/ Carried(y)') /\ x.ref = y.ref => x = y
    BY <2>2, <2>4 DEF WatchInv, RefInv
  <2>8. \A x \in monitors' : ~Carried(x)'
    BY <1>2 DEF WatchInv, RefInv
  <2>9. QED
    BY <2>1, <2>5, <2>6, <2>7, <2>8 DEF RefInv
<1>4. LetterInv'
  <2>1. \A p \in Pids : Box(p)' = Box(p)
    BY BoxSame
  <2> SUFFICES ASSUME NEW p \in Pids, NEW i \in DOMAIN Box(p), Box(p)[i].kind = "DOWN"
               PROVE  /\ Box(p)[i].what \in Nat /\ Box(p)[i].what < refs'
                      /\ \A x : x \in monitors' \/ Carried(x)' => x.ref # Box(p)[i].what
                      /\ \A j \in DOMAIN Box(p) :
                           Box(p)[j].kind = "DOWN" /\ Box(p)[j].what = Box(p)[i].what => i = j
    BY <2>1 DEF LetterInv
  <2>2. /\ Box(p)[i].what \in Nat /\ Box(p)[i].what < refs
        /\ \A x : x \in monitors \/ Carried(x) => x.ref # Box(p)[i].what
        /\ \A j \in DOMAIN Box(p) :
             Box(p)[j].kind = "DOWN" /\ Box(p)[j].what = Box(p)[i].what => i = j
    BY DEF WatchInv, LetterInv
  <2>3. Box(p)[i].what < refs' /\ Box(p)[i].what # m.ref
    BY <1>2, <2>2
  <2>4. QED
    BY <2>2, <2>3
<1>5. SomewhereInv'
  <2>1. \A p \in Pids : Box(p)' = Box(p)
    BY BoxSame
  <2> SUFFICES ASSUME NEW x \in told', tombs'[x.watcher] = None, x.watcher \notin exited'
               PROVE  x \in monitors' \/ Carried(x)' \/ Arrived(x, Box(x.watcher)')
    BY DEF SomewhereInv, Arrived
  <2>2. CASE x = m
    BY <2>2
  <2>3. CASE x \in told
    <3>1. x.watcher \in Pids
      BY <2>3 DEF WatchInv, RefInv, Monitors
    <3>2. x \in monitors \/ Carried(x) \/ Arrived(x, Box(x.watcher))
      BY <1>1, <2>3 DEF WatchInv, SomewhereInv
    <3>3. QED
      BY <2>1, <3>1, <3>2
  <2>4. QED
    BY <2>2, <2>3
<1>6. SetInv'
  <2>1. \A u \in Threads : Cleared(thread[u])'
    BY DEF Cleared
  <2>2. \A x \in monitors' : x.target \in table'
    BY <1>1 DEF WatchInv, SetInv
  <2>3. QED
    BY <2>1, <2>2 DEF SetInv
<1>7. QED
  BY <1>3, <1>4, <1>5, <1>6 DEF WatchInv

LEMMA DownMonitor ==
  ASSUME ZombieInv, DownInv, NEW p \in Pids, NEW q \in Pids, Monitor(p, q)
  PROVE  DownInv'
<1>1. refs \in Nat
  BY DEF DownInv, WatchInv, RefInv
<1>2. PICK m \in Monitors : m = [ref |-> refs, watcher |-> p, target |-> q]
  BY <1>1 DEF Monitors
<1>3. /\ m.ref = refs /\ m.watcher = p /\ m.target = q
      /\ told' = told \cup {m} /\ refs' = refs + 1 /\ UNCHANGED <<body, mail, graves>>
      /\ p \in Threads
      /\ \/ /\ tombs[q] # None /\ MayCall(p) /\ UNCHANGED monitors
            /\ Goto(p, [Resting EXCEPT !.pc = "downNow", !.downs = {m}])
         \/ /\ tombs[q] = None /\ q \in table /\ Calls(p, "run", None)
            /\ monitors' = monitors \cup {m}
  <2>1. m.ref = refs /\ m.watcher = p /\ m.target = q
    BY <1>2
  <2>2. QED
    BY <1>2, <2>1 DEF Monitor, Threads
<1>4. MayCall(p)
  BY <1>3 DEF Calls
<1>5. thread[p].pc = "run" /\ slot[p] # "unborn" /\ thread[p].downs = {}
  <2>1. thread[p].pc = "run"
    BY <1>3, <1>4, Callable, SupervisionAssumption
  <2>2. slot[p] # "unborn"
    BY <2>1 DEF ZombieInv, SpawnInv
  <2>3. Fit(thread[p])
    BY <1>3 DEF DownInv, MarkInv
  <2>4. QED
    BY <2>1, <2>2, <2>3 DEF Fit
<1>6. UNCHANGED <<table, slot, exited, tombs, links, shadow>>
  BY <1>3 DEF body, graves
<1>7. Steady
  BY <1>6, SteadyLinks, LinksSame DEF DownInv
<1>8. MailInv'
  BY <1>3, <1>6, MailSame DEF DownInv
<1>9. ~Carried(m)
  BY <1>1, <1>3 DEF DownInv, WatchInv, RefInv
<1>10. \A u \in Threads : Clear(thread[u], monitors)
  BY DEF DownInv, WatchInv, SetInv, Cleared
<1>11. CASE /\ tombs[q] # None /\ UNCHANGED monitors
            /\ Goto(p, [Resting EXCEPT !.pc = "downNow", !.downs = {m}])
  <2> DEFINE d == {m}
             r == [Resting EXCEPT !.pc = "downNow"]
             st == [r EXCEPT !.downs = d]
  <2>1. Goto(p, st)
    BY <1>11
  <2>2. Only(p, st)
    BY <1>3, <2>1, Goes DEF ZombieInv
  <2>3. d = {m}
    OBVIOUS
  <2> HIDE DEF d
  <2>4. Put(Resting, r, "pc", "downNow")
    BY Beginnings, Fields
  <2> HIDE DEF r
  <2>5. Put(r, st, "downs", d)
    BY <2>4, PutWhole, Fields
  <2> HIDE DEF st
  <2>6. st.pc = "downNow" /\ st.downs = {m} /\ st.work = <<>> /\ st.cascade = <<>>
    BY <2>3, <2>4, <2>5, Beginnings DEF Put, Blank
  <2>7. Fit(st) /\ st.pc \notin CleanSteps /\ Clear(st, monitors)
    BY <2>6 DEF Fit, Clear, CleanSteps, CallSteps
  <2>8. MarkInv'
    BY <1>3, <1>7, <2>2, <2>7, MarkKept DEF DownInv
  <2>9. thread'[p].downs = {m} /\ \A u \in Threads : u # p => thread'[u] = thread[u]
    BY <2>2, <2>6 DEF Only
  <2>10. \A x : Carried(x)' <=> Carried(x) \/ x = m
    BY <1>3, <1>5, <2>9 DEF Carried
  <2>11. \A u, v \in Threads : \A x : x \in thread'[u].downs /\ x \in thread'[v].downs => u = v
    <3>1. \A u \in Threads : m \notin thread[u].downs
      BY <1>9 DEF Carried
    <3>2. \A u, v \in Threads : \A x : x \in thread[u].downs /\ x \in thread[v].downs => u = v
      BY DEF DownInv, WatchInv, RefInv
    <3>3. QED
      BY <2>9, <3>1, <3>2
  <2>12. \A u \in Threads : Clear(thread'[u], monitors')
    BY <1>10, <1>11, <2>2, <2>7 DEF Only
  <2>13. m \notin monitors
    BY <1>1, <1>3 DEF DownInv, WatchInv, RefInv
  <2>14. WatchInv'
    BY <1>3, <1>5, <1>11, <2>10, <2>11, <2>12, <2>13, NewMonitor DEF DownInv
  <2>15. QED
    BY <1>8, <2>8, <2>14 DEF DownInv
<1>12. CASE tombs[q] = None /\ q \in table /\ Calls(p, "run", None) /\ monitors' = monitors \cup {m}
  <2>1. Moves(p)
    BY <1>3, <1>12, CallMoves DEF DownInv, SliceSteps, CallSteps
  <2>2. PICK st : /\ Only(p, st) /\ Fit(st) /\ st.downs = thread[p].downs /\ Clear(st, monitors)
                  /\ st.pc \in CleanSteps \ {"tomb"} => tombs'[st.pid] # None /\ tombs'[st.dying] # None
    BY <2>1 DEF Moves, Cleared
  <2>3. MarkInv'
    BY <1>3, <1>7, <2>2, MarkKept DEF DownInv
  <2>4. \A u \in Threads : thread'[u].downs = thread[u].downs
    BY <2>2 DEF Only
  <2>5. \A x : Carried(x)' <=> Carried(x)
    BY <2>4 DEF Carried
  <2>6. \A u, v \in Threads : \A x : x \in thread'[u].downs /\ x \in thread'[v].downs => u = v
    BY <2>4 DEF DownInv, WatchInv, RefInv
  <2>7. ASSUME NEW u \in Threads
        PROVE  Clear(thread'[u], monitors')
    <3>1. Clear(thread'[u], monitors)
      BY <1>10, <2>2 DEF Only
    <3>2. thread'[u].pc \in CleanSteps \ {"tomb"} => thread'[u].pid # q /\ thread'[u].dying # q
      BY <1>6, <1>12, <2>3 DEF MarkInv, Buried
    <3>3. QED
      BY <1>3, <1>12, <3>1, <3>2 DEF Clear, CleanSteps
  <2>8. WatchInv'
    BY <1>3, <1>5, <1>9, <1>12, <2>5, <2>6, <2>7, NewMonitor DEF DownInv
  <2>9. QED
    BY <1>8, <2>3, <2>8 DEF DownInv
<1>13. QED
  BY <1>3, <1>11, <1>12

LEMMA DownDemonitor ==
  ASSUME ZombieInv, DownInv, NEW p \in Pids, NEW m \in told, Demonitor(p, m)
  PROVE  DownInv'
<1>1. /\ p \in Threads /\ UNCHANGED <<body, mail, graves, refs, thread>>
      /\ monitors' = monitors \ {m} /\ told' = told \ {m}
  BY DEF Demonitor, Threads
<1>2. UNCHANGED <<table, slot, exited, tombs, links, shadow>>
  BY <1>1 DEF body, graves
<1>3. MarkInv'
  BY <1>1, <1>2 DEF DownInv, MarkInv, Buried
<1>4. MailInv' /\ \A x \in Pids : Box(x)' = Box(x)
  BY <1>1, <1>2, MailSame, BoxSame DEF DownInv
<1>5. \A x : Carried(x)' <=> Carried(x)
  BY <1>1 DEF Carried
<1>6. RefInv'
  BY <1>1, <1>2, <1>5 DEF DownInv, WatchInv, RefInv
<1>7. LetterInv'
  BY <1>1, <1>4, <1>5 DEF DownInv, WatchInv, LetterInv
<1>8. SomewhereInv'
  <2> SUFFICES ASSUME NEW x \in told', tombs'[x.watcher] = None, x.watcher \notin exited'
               PROVE  x \in monitors' \/ Carried(x)' \/ Arrived(x, Box(x.watcher)')
    BY DEF SomewhereInv, Arrived
  <2>1. x \in told /\ x # m /\ x.watcher \in Pids
    BY <1>1 DEF DownInv, WatchInv, RefInv, Monitors
  <2>2. x \in monitors \/ Carried(x) \/ Arrived(x, Box(x.watcher))
    BY <1>2, <2>1 DEF DownInv, WatchInv, SomewhereInv
  <2>3. QED
    BY <1>1, <1>4, <1>5, <2>1, <2>2
<1>9. SetInv'
  <2>1. \A u \in Threads : Cleared(thread[u])'
    BY <1>1 DEF Cleared, Clear, DownInv, WatchInv, SetInv
  <2>2. QED
    BY <1>1, <1>2, <2>1 DEF DownInv, WatchInv, SetInv
<1>10. QED
  BY <1>3, <1>4, <1>6, <1>7, <1>8, <1>9 DEF DownInv, WatchInv

LEMMA DownCollect ==
  ASSUME ZombieInv, DownInv, NEW t \in Threads, CollectWatchers(t)
  PROVE  DownInv'
<1>1. PICK F : F = {m \in monitors : m.target = thread[t].dying}
  OBVIOUS
<1> DEFINE o == thread[t]
           s == [o EXCEPT !.pc = "downs"]
           r == [s EXCEPT !.downs = F]
           st == Advance(r)
<1>2. /\ o.pc = "collect" /\ Goto(t, st) /\ monitors' = monitors \ F
      /\ UNCHANGED <<body, mail, graves, refs, told>>
  BY <1>1 DEF CollectWatchers, At
<1>3. Only(t, st)
  BY <1>2, Goes DEF ZombieInv
<1>4. /\ Whole(o) /\ Fit(o) /\ Clear(o, monitors) /\ o.pid \in Pids /\ o.dying \in Pids
      /\ tombs[o.pid] # None /\ tombs[o.dying] # None /\ o.downs = {}
  BY <1>2, CleanFit DEF CleanSteps
<1>5. F \subseteq monitors /\ F \subseteq Monitors /\ \A m \in monitors' : m.target # o.dying
  BY <1>1, <1>2 DEF DownInv, WatchInv, RefInv
<1>6. Put(o, s, "pc", "downs")
  BY <1>4, Fields
<1> HIDE DEF s
<1>7. Put(s, r, "downs", F)
  BY <1>6, PutWhole, Fields
<1> HIDE DEF r, o
<1>8. /\ Whole(r) /\ r.pc = "downs" /\ r.pid = o.pid /\ r.dying = o.dying /\ r.phase = o.phase
      /\ r.downs = F /\ r.work = o.work /\ r.cascade = o.cascade
  BY <1>6, <1>7 DEF Put
<1>9. Fit(r)
  BY <1>2, <1>4, <1>5, <1>8 DEF Fit, CallSteps, CleanSteps
<1>10. Clear(r, monitors')
  <2>1. \A m \in monitors' : m.target # o.pid
    BY <1>2, <1>4, <1>5 DEF Clear, Fit, CleanSteps
  <2>2. QED
    BY <1>5, <1>8, <2>1 DEF Clear
<1>11. /\ Fit(st) /\ Clear(st, monitors') /\ st.pid = r.pid /\ st.dying \in {r.pid, r.dying}
       /\ st.downs = F
  <2>1. r.pid \in Pids
    BY <1>4, <1>8
  <2>2. Fit(st)
    BY <1>8, <1>9, <2>1, FitAdvance
  <2>3. PICK M : M = monitors'
    OBVIOUS
  <2>4. Clear(r, M)
    BY <1>10, <2>3
  <2>5. /\ Clear(st, M) /\ st.pid = r.pid /\ st.dying \in {r.pid, r.dying} /\ st.downs = r.downs
    BY <1>8, <2>4, AdvanceClears
  <2>6. QED
    BY <1>8, <2>2, <2>3, <2>5
<1> HIDE DEF st
<1>12. UNCHANGED <<table, slot, exited, tombs, links, shadow>>
  BY <1>2 DEF body, graves
<1>13. MarkInv'
  <2>1. Steady
    BY <1>12, SteadyLinks, LinksSame DEF DownInv
  <2>2. tombs'[st.pid] # None /\ tombs'[st.dying] # None
    BY <1>4, <1>8, <1>11, <1>12
  <2>3. QED
    BY <1>3, <1>11, <2>1, <2>2, MarkKept DEF DownInv
<1>14. MailInv' /\ \A p \in Pids : Box(p)' = Box(p)
  BY <1>2, <1>12, MailSame, BoxSame DEF DownInv
<1>15. thread'[t].downs = F /\ thread[t].downs = {} /\ \A u \in Threads : u # t => thread'[u] = thread[u]
  BY <1>3, <1>4, <1>11 DEF Only, o
<1>16. \A x : Carried(x)' <=> Carried(x) \/ x \in F
  BY <1>15 DEF Carried
<1>17. RefInv'
  <2>1. \A x : x \in told' \/ Carried(x)' <=> x \in told \/ Carried(x)
    BY <1>2, <1>5, <1>16 DEF DownInv, WatchInv, RefInv
  <2>2. \A x \in F : ~Carried(x)
    BY <1>5 DEF DownInv, WatchInv, RefInv
  <2>3. \A u, v \in Threads : \A x : x \in thread'[u].downs /\ x \in thread'[v].downs => u = v
    <3>1. \A u \in Threads : \A x \in F : x \notin thread[u].downs
      BY <2>2 DEF Carried
    <3>2. \A u, v \in Threads : \A x : x \in thread[u].downs /\ x \in thread[v].downs => u = v
      BY DEF DownInv, WatchInv, RefInv
    <3>3. QED
      BY <1>15, <3>1, <3>2
  <2>4. \A x \in monitors' : ~Carried(x)'
    BY <1>2, <1>16 DEF DownInv, WatchInv, RefInv
  <2>5. \A x : Carried(x)' => x.ref < refs'
    BY <1>2, <1>5, <1>16 DEF DownInv, WatchInv, RefInv
  <2>6. refs' \in Nat /\ told' \subseteq Monitors /\ monitors' \subseteq told'
    BY <1>2 DEF DownInv, WatchInv, RefInv
  <2>7. \A m \in told' : m.ref < refs' /\ slot'[m.watcher] # "unborn"
    BY <1>2, <1>12 DEF DownInv, WatchInv, RefInv
  <2>8. \A m, n : (m \in told' \/ Carried(m)') /\ (n \in told' \/ Carried(n)') /\ m.ref = n.ref => m = n
    BY <2>1 DEF DownInv, WatchInv, RefInv
  <2>9. QED
    BY <2>3, <2>4, <2>5, <2>6, <2>7, <2>8 DEF RefInv
<1>18. LetterInv'
  <2>1. \A x : x \in monitors' \/ Carried(x)' => x \in monitors \/ Carried(x)
    BY <1>2, <1>5, <1>16
  <2>2. QED
    BY <1>2, <1>14, <2>1 DEF DownInv, WatchInv, LetterInv
<1>19. SomewhereInv'
  <2> SUFFICES ASSUME NEW x \in told', tombs'[x.watcher] = None, x.watcher \notin exited'
               PROVE  x \in monitors' \/ Carried(x)' \/ Arrived(x, Box(x.watcher)')
    BY DEF SomewhereInv, Arrived
  <2>1. x \in told /\ x.watcher \in Pids
    BY <1>2 DEF DownInv, WatchInv, RefInv, Monitors
  <2>2. x \in monitors \/ Carried(x) \/ Arrived(x, Box(x.watcher))
    BY <1>12, <2>1 DEF DownInv, WatchInv, SomewhereInv
  <2>3. QED
    BY <1>2, <1>14, <1>16, <2>1, <2>2
<1>20. SetInv'
  <2>1. ASSUME NEW u \in Threads
        PROVE  Clear(thread'[u], monitors')
    <3>1. CASE u = t
      BY <1>3, <1>11, <3>1 DEF Only
    <3>2. CASE u # t
      <4>1. thread'[u] = thread[u] /\ Clear(thread[u], monitors)
        BY <1>15, <3>2 DEF DownInv, WatchInv, SetInv, Cleared
      <4>2. monitors' \subseteq monitors
        BY <1>2
      <4>3. QED
        BY <4>1, <4>2 DEF Clear
    <3>3. QED
      BY <3>1, <3>2
  <2>2. \A u \in Threads : Cleared(thread[u])'
    BY <2>1 DEF Cleared
  <2>3. QED
    BY <1>2, <1>12, <2>2 DEF DownInv, WatchInv, SetInv
<1>21. QED
  BY <1>13, <1>14, <1>17, <1>18, <1>19, <1>20 DEF DownInv, WatchInv

(* The DOWN of m leaves the thread that carries it, for the watcher or for *)
(* nobody.                                                                 *)
LEMMA HandsOver ==
  ASSUME ZombieInv, DownInv, NEW t \in Threads, NEW m, m \in thread[t].downs, NEW st, Only(t, st),
         Fit(st),
         Clear(st, monitors), st.downs = thread[t].downs \ {m},
         st.pc \in CleanSteps \ {"tomb"} => tombs[st.pid] # None /\ tombs[st.dying] # None,
         UNCHANGED <<body, graves, watch>>,
         IF slot[m.watcher] = "executing" \/ (slot[m.watcher] = "present" /\ m.watcher \notin exited)
         THEN Deliver(m.watcher, Down(m.ref, m.target))
         ELSE UNCHANGED mail
  PROVE  DownInv'
<1>1. UNCHANGED <<table, slot, exited, tombs, links, shadow>> /\ UNCHANGED <<monitors, refs, told>>
  BY DEF body, graves, watch
<1>2. MarkInv'
  <2>1. Steady
    BY <1>1, SteadyLinks, LinksSame DEF DownInv
  <2>2. QED
    BY <1>1, <2>1, MarkKept DEF DownInv
<1>3. /\ m \in Monitors /\ Carried(m) /\ m.ref < refs /\ m.ref \in Nat /\ m.target \in Pids
      /\ m.watcher \in Pids
  <2>1. m \in Monitors
    BY DEF DownInv, MarkInv, Fit
  <2>2. Carried(m)
    BY DEF Carried
  <2>3. QED
    BY <2>1, <2>2 DEF DownInv, WatchInv, RefInv, Monitors
<1>4. PICK l \in Letters : /\ l = Down(m.ref, m.target) /\ l.kind = "DOWN" /\ l.what = m.ref
  BY <1>3, LettersAre
<1>5. PICK p \in Pids : p = m.watcher
  BY <1>3
<1>6. /\ MailInv' /\ \A q \in Pids : q # p => Box(q)' = Box(q)
      /\ \/ Box(p)' = Append(Box(p), l)
         \/ Box(p)' = Box(p) /\ (slot[p] \notin {"present", "executing"} \/ p \in exited)
  <2>1. CASE slot[p] = "executing" \/ (slot[p] = "present" /\ p \notin exited)
    <3>1. Deliver(p, l) /\ slot[p] \in {"present", "executing"}
      BY <1>4, <1>5, <2>1
    <3>2. QED
      BY <1>1, <3>1, Delivered DEF DownInv
  <2>2. CASE ~(slot[p] = "executing" \/ (slot[p] = "present" /\ p \notin exited))
    <3>1. UNCHANGED mail
      BY <1>5, <2>2
    <3>2. QED
      BY <1>1, <2>2, <3>1, MailSame, BoxSame DEF DownInv
  <2>3. QED
    BY <2>1, <2>2
<1>7. thread'[t].downs = thread[t].downs \ {m} /\ \A u \in Threads : u # t => thread'[u] = thread[u]
  BY DEF Only
<1>8. \A u, v \in Threads : \A x : x \in thread[u].downs /\ x \in thread[v].downs => u = v
  BY DEF DownInv, WatchInv, RefInv
<1>9. \A x : Carried(x)' <=> Carried(x) /\ x # m
  BY <1>7, <1>8 DEF Carried
<1>10. RefInv'
  <2>1. \A u, v \in Threads : \A x : x \in thread'[u].downs /\ x \in thread'[v].downs => u = v
    BY <1>7, <1>8
  <2>2. QED
    BY <1>1, <1>9, <2>1 DEF DownInv, WatchInv, RefInv
<1>11. ASSUME NEW x, x \in monitors' \/ Carried(x)'
       PROVE  x \in monitors \/ Carried(x)
  BY <1>1, <1>9, <1>11
<1>12. ASSUME NEW x, x \in monitors' \/ Carried(x)'
       PROVE  x.ref # m.ref
  <2>1. x # m
    BY <1>1, <1>3, <1>9, <1>12 DEF DownInv, WatchInv, RefInv
  <2>2. x \in told \/ Carried(x)
    BY <1>11, <1>12 DEF DownInv, WatchInv, RefInv
  <2>3. QED
    BY <1>3, <2>1, <2>2 DEF DownInv, WatchInv, RefInv
<1>13. LetterInv'
  <2>1. ASSUME NEW q \in Pids, Box(q)' = Box(q)
        PROVE  \A i \in DOMAIN Box(q)' : Box(q)'[i].kind = "DOWN" =>
                 /\ Box(q)'[i].what \in Nat /\ Box(q)'[i].what < refs'
                 /\ \A x : x \in monitors' \/ Carried(x)' => x.ref # Box(q)'[i].what
                 /\ \A j \in DOMAIN Box(q)' :
                      Box(q)'[j].kind = "DOWN" /\ Box(q)'[j].what = Box(q)'[i].what => i = j
    BY <1>1, <1>11, <2>1 DEF DownInv, WatchInv, LetterInv
  <2>2. ASSUME Box(p)' = Append(Box(p), l)
        PROVE  \A i \in DOMAIN Box(p)' : Box(p)'[i].kind = "DOWN" =>
                 /\ Box(p)'[i].what \in Nat /\ Box(p)'[i].what < refs'
                 /\ \A x : x \in monitors' \/ Carried(x)' => x.ref # Box(p)'[i].what
                 /\ \A j \in DOMAIN Box(p)' :
                      Box(p)'[j].kind = "DOWN" /\ Box(p)'[j].what = Box(p)'[i].what => i = j
    <3>1. PICK b : b = Box(p) /\ b \in Seq(Letters)
      BY BoxType DEF DownInv
    <3>2. PICK c : c = Append(b, l) /\ c = Box(p)'
      BY <2>2, <3>1
    <3>3. /\ \A i \in DOMAIN c : \/ i \in DOMAIN b /\ c[i] = b[i]
                                 \/ i = Len(b) + 1 /\ c[i] = l
          /\ Len(b) + 1 \notin DOMAIN b
      <4>1. b \in Seq(Letters) /\ c = Append(b, l)
        BY <3>1, <3>2
      <4>2. DOMAIN b = 1..Len(b) /\ Len(b) \in Nat /\ DOMAIN c = 1..Len(b) + 1
        BY <4>1
      <4>3. (\A i \in 1..Len(b) : c[i] = b[i]) /\ c[Len(b) + 1] = l
        BY <4>1
      <4>4. PICK n \in Nat : n = Len(b)
        BY <4>2
      <4>5. \A i \in 1..n + 1 : i \in 1..n \/ i = n + 1
        OBVIOUS
      <4>6. n + 1 \notin 1..n
        OBVIOUS
      <4>7. QED
        BY <4>2, <4>3, <4>4, <4>5, <4>6
    <3>4. \A i \in DOMAIN b : b[i].kind = "DOWN" =>
            /\ b[i].what \in Nat /\ b[i].what < refs
            /\ \A x : x \in monitors \/ Carried(x) => x.ref # b[i].what
            /\ \A j \in DOMAIN b : b[j].kind = "DOWN" /\ b[j].what = b[i].what => i = j
      BY <3>1 DEF DownInv, WatchInv, LetterInv
    <3>5. \A i \in DOMAIN b : b[i].kind = "DOWN" => b[i].what # m.ref
      BY <1>3, <3>4
    <3>6. ASSUME NEW i \in DOMAIN c, c[i].kind = "DOWN"
          PROVE  /\ c[i].what \in Nat /\ c[i].what < refs'
                 /\ \A x : x \in monitors' \/ Carried(x)' => x.ref # c[i].what
                 /\ \A j \in DOMAIN c : c[j].kind = "DOWN" /\ c[j].what = c[i].what => i = j
      <4>1. CASE i \in DOMAIN b /\ c[i] = b[i]
        BY <1>1, <1>4, <1>11, <3>3, <3>4, <3>5, <3>6, <4>1
      <4>2. CASE i = Len(b) + 1 /\ c[i] = l
        BY <1>1, <1>3, <1>4, <1>12, <3>3, <3>5, <4>2
      <4>3. QED
        BY <3>3, <4>1, <4>2
    <3>7. QED
      BY <3>2, <3>6
  <2>3. QED
    BY <1>6, <2>1, <2>2 DEF LetterInv
<1>14. SomewhereInv'
  <2> SUFFICES ASSUME NEW x \in told', tombs'[x.watcher] = None, x.watcher \notin exited'
               PROVE  x \in monitors' \/ Carried(x)' \/ Arrived(x, Box(x.watcher)')
    BY DEF SomewhereInv, Arrived
  <2>1. x \in told /\ x.watcher \in Pids /\ tombs[x.watcher] = None /\ x.watcher \notin exited
    BY <1>1 DEF DownInv, WatchInv, RefInv, Monitors
  <2>2. PICK b : b = Box(p) /\ b \in Seq(Letters)
    BY BoxType DEF DownInv
  <2>3. CASE x = m
    <3>1. slot[p] # "unborn" /\ slot[p] # "gone"
      BY <1>5, <2>1, <2>3 DEF DownInv, WatchInv, RefInv, MarkInv
    <3>2. slot[p] \in {"present", "executing"}
      BY <3>1 DEF ZombieInv, SlotInv
    <3>3. Box(p)' = Append(b, l)
      BY <1>5, <1>6, <2>1, <2>2, <2>3, <3>2
    <3>4. Len(b) + 1 \in DOMAIN Append(b, l) /\ Append(b, l)[Len(b) + 1] = l
      BY <2>2
    <3>5. Arrived(m, Append(b, l))
      BY <1>4, <3>4 DEF Arrived
    <3>6. QED
      BY <1>5, <2>3, <3>3, <3>5
  <2>4. CASE x # m
    <3>1. x \in monitors \/ Carried(x) \/ Arrived(x, Box(x.watcher))
      BY <2>1 DEF DownInv, WatchInv, SomewhereInv
    <3>2. CASE Arrived(x, Box(x.watcher))
      <4>1. CASE x.watcher # p \/ Box(p)' = Box(p)
        BY <1>6, <2>1, <3>2, <4>1
      <4>2. CASE x.watcher = p /\ Box(p)' = Append(b, l)
        <5>1. \A i \in DOMAIN b : i \in DOMAIN Append(b, l) /\ Append(b, l)[i] = b[i]
          BY <2>2
        <5>2. Arrived(x, b)
          BY <2>2, <3>2, <4>2
        <5>3. Arrived(x, Append(b, l))
          BY <5>1, <5>2 DEF Arrived
        <5>4. QED
          BY <4>2, <5>3
      <4>3. QED
        BY <1>6, <2>2, <4>1, <4>2
    <3>3. QED
      BY <1>1, <1>9, <2>4, <3>1, <3>2
  <2>5. QED
    BY <2>3, <2>4
<1>15. SetInv'
  <2>1. \A u \in Threads : Clear(thread'[u], monitors)
    BY DEF Only, DownInv, WatchInv, SetInv, Cleared
  <2>2. \A u \in Threads : Cleared(thread[u])'
    BY <1>1, <2>1 DEF Cleared
  <2>3. QED
    BY <1>1, <2>2 DEF DownInv, WatchInv, SetInv
<1>16. QED
  BY <1>2, <1>6, <1>10, <1>13, <1>14, <1>15 DEF DownInv, WatchInv

LEMMA DownDeliver ==
  ASSUME ZombieInv, DownInv, NEW t \in Threads, DeliverDown(t)
  PROVE  DownInv'
<1>1. PICK m \in thread[t].downs :
        /\ IF slot[m.watcher] = "executing" \/ (slot[m.watcher] = "present" /\ m.watcher \notin exited)
           THEN Deliver(m.watcher, Down(m.ref, m.target))
           ELSE UNCHANGED mail
        /\ Goto(t, IF At(t, "downNow") THEN Return(t)
                   ELSE Advance([thread[t] EXCEPT !.downs = @ \ {m}]))
  BY Zenon DEF DeliverDown
<1>2. thread[t].pc \in {"downs", "downNow"} /\ UNCHANGED <<body, graves, watch>>
  BY DEF DeliverDown
<1>3. CASE thread[t].pc = "downNow"
  <2>1. Goto(t, Return(t))
    BY <1>1, <1>3 DEF At
  <2>2. PICK st : st = Return(t)
    OBVIOUS
  <2>3. Only(t, st) /\ Fit(st)
    BY <2>1, <2>2, Goes, FitBeginnings DEF ZombieInv
  <2>4. st.pc \in {"idle", "run"} /\ st.downs = {}
    BY <2>2, Beginnings DEF Blank
  <2>5. thread[t].downs \ {m} = {}
    BY <1>1, <1>3 DEF DownInv, MarkInv, Fit
  <2>6. Clear(st, monitors) /\ st.pc \notin CleanSteps
    BY <2>4 DEF Clear, CleanSteps
  <2>7. QED
    BY <1>1, <1>2, <2>3, <2>4, <2>5, <2>6, HandsOver
<1>4. CASE thread[t].pc = "downs"
  <2>1. PICK d : d = thread[t].downs \ {m}
    OBVIOUS
  <2> DEFINE o == thread[t]
             r == [o EXCEPT !.downs = d]
             st == Advance(r)
  <2>2. Goto(t, st)
    BY <1>1, <1>4, <2>1 DEF At
  <2>3. Only(t, st)
    BY <2>2, Goes DEF ZombieInv
  <2>4. /\ Whole(o) /\ Fit(o) /\ Clear(o, monitors) /\ o.pid \in Pids /\ o.dying \in Pids
        /\ tombs[o.pid] # None /\ tombs[o.dying] # None
    <3>1. o.pc \in CleanSteps \ {"tomb"}
      BY <1>4 DEF CleanSteps
    <3>2. Whole(o) /\ Fit(o) /\ Clear(o, monitors) /\ o.pid \in Pids
      BY <3>1 DEF DownInv, WatchInv, SetInv, Cleared, MarkInv, ZombieInv, ThreadInv, ThreadOk
    <3>3. QED
      BY <3>1, <3>2 DEF DownInv, MarkInv, Buried, Fit
  <2>5. o.pc = "downs" /\ d \subseteq o.downs
    BY <1>4, <2>1
  <2>6. Put(o, r, "downs", d)
    BY <2>4, Fields
  <2> HIDE DEF r, o
  <2>7. /\ Whole(r) /\ r.pc = "downs" /\ r.pid = o.pid /\ r.dying = o.dying /\ r.phase = o.phase
        /\ r.downs = d /\ r.work = o.work /\ r.cascade = o.cascade
    BY <2>5, <2>6 DEF Put
  <2>8. Fit(r) /\ Clear(r, monitors)
    BY <2>4, <2>5, <2>7 DEF Fit, Clear, CallSteps, CleanSteps
  <2>9. /\ Fit(st) /\ Clear(st, monitors) /\ st.pid = r.pid /\ st.dying \in {r.pid, r.dying}
        /\ st.downs = d
    <3>1. r.pid \in Pids
      BY <2>4, <2>7
    <3>2. QED
      BY <2>7, <2>8, <3>1, FitAdvance, AdvanceClears
  <2> HIDE DEF st
  <2>10. tombs[st.pid] # None /\ tombs[st.dying] # None
    BY <2>4, <2>7, <2>9
  <2>11. QED
    BY <1>1, <1>2, <2>1, <2>3, <2>9, <2>10, HandsOver
<1>5. QED
  BY <1>2, <1>3, <1>4

-----------------------------------------------------------------------------
(* The theorem about monitors *)

LEMMA InitDown == Init => DownInv
<1> SUFFICES ASSUME Init
             PROVE  DownInv
  OBVIOUS
<1>1. /\ \A t \in Threads : thread[t] = Resting
      /\ \A p \in Pids : tombs[p] = None /\ slot[p] # "gone"
      /\ \A p \in Pids : mailbox[p] = <<>> /\ pending[p] = <<>>
      /\ monitors = {} /\ told = {} /\ refs = 0
  BY DEF Init
<1>2. MarkInv
  <2>1. links \in [Pids -> Seq(Pids)]
    BY StartLinks DEF Init
  <2>2. shadow \in [Pids -> Seq(Pids)]
    <3>1. <<>> \in Seq(Pids)
      OBVIOUS
    <3>2. QED
      BY <3>1 DEF Init
  <2>3. tombs \in [Pids -> Deaths \cup {None}]
    BY DEF Init
  <2>4. Fit(Resting) /\ Buried(Resting)
    BY FitBeginnings, Beginnings DEF Buried, CleanSteps
  <2>5. QED
    BY <1>1, <2>1, <2>2, <2>3, <2>4 DEF MarkInv
<1>3. MailInv
  <2>1. <<>> \in Seq(Letters)
    OBVIOUS
  <2>2. QED
    BY <1>1, <2>1 DEF Init, MailInv
<1>4. \A m : ~Carried(m)
  BY <1>1, Beginnings DEF Carried, Blank
<1>5. RefInv
  BY <1>1, <1>4, Beginnings DEF RefInv, Blank
<1>6. LetterInv
  <2>1. \A p \in Pids : DOMAIN Box(p) = {}
    <3>1. <<>> \o <<>> = <<>> /\ DOMAIN <<>> = {}
      OBVIOUS
    <3>2. QED
      BY <1>1, <3>1 DEF Box
  <2>2. QED
    BY <2>1 DEF LetterInv
<1>7. SomewhereInv
  BY <1>1 DEF SomewhereInv
<1>8. SetInv
  BY <1>1, Beginnings DEF SetInv, Cleared, Clear
<1>9. QED
  BY <1>2, <1>3, <1>5, <1>6, <1>7, <1>8 DEF DownInv, WatchInv

LEMMA NextDown == ZombieInv /\ DownInv /\ [Next]_vars => DownInv'
<1> SUFFICES ASSUME ZombieInv, DownInv, [Next]_vars
             PROVE  DownInv'
  OBVIOUS
<1>1. CASE UNCHANGED vars
  <2>1. Host \in Threads /\ UNCHANGED <<table, tombs, slot, exited, links, shadow, thread, mail, watch>>
    BY <1>1 DEF vars, body, graves, Threads
  <2>2. Moves(Host)
    BY <2>1, StandsStill
  <2>3. QED
    BY <2>1, <2>2, LinkStep, LinksSame DEF DownInv
<1>2. ASSUME NEW t \in Threads, Continues(t)
      PROVE  DownInv'
  BY <1>2, DownTombstone, DownTakeLinks, DownCollect, DownDeliver, DownSignal, DownFinalize
     DEF Continues
<1>3. ASSUME NEW p \in Pids, SliceContinues(p)
      PROVE  DownInv'
  BY <1>3, DownStore, DownCheck, DownLinkSteps, DownPublish DEF SliceContinues
<1>4. ASSUME NEW p \in Pids, Slice(p)
      PROVE  DownInv'
  <2>1. CASE TakeRunnable(p)
    BY <2>1, DownTakeRunnable
  <2>2. CASE \E outcome \in {"park", "normal", "error"} : SliceEnds(p, outcome)
    BY <2>2, DownSliceEnds
  <2>3. CASE \E q \in Pids : \/ LinkChecks(p, q) \/ UnlinkCaller(p, q)
                             \/ Monitor(p, q) \/ SpawnLink(p, q)
    BY <2>3, DownLinkCalls, DownMonitor, DownSpawn
  <2>4. CASE \E m \in told : Demonitor(p, m)
    BY <2>4, DownDemonitor
  <2>5. CASE \E q \in Pids, reason \in Signals :
               ExitSignalPresent(p, q, reason) \/ ExitSignalExecuting(p, q, reason)
    BY <2>5, DownExitCalls
  <2>6. QED
    BY <1>4, <2>1, <2>2, <2>3, <2>4, <2>5 DEF Slice
<1>5. CASE HostCalls
  BY <1>5, DownHost DEF HostCalls
<1>6. QED
  BY <1>1, <1>2, <1>3, <1>4, <1>5 DEF Next

LEMMA AtMostOne ==
  ASSUME NEW S, \A x, y \in S : x = y
  PROVE  Cardinality(S) = IF S = {} THEN 0 ELSE 1
<1>1. CASE S = {}
  BY <1>1, FS_EmptySet
<1>2. CASE S # {}
  <2>1. PICK x : x \in S
    BY <1>2
  <2>2. S = {x}
    BY <2>1
  <2>3. QED
    BY <2>2, FS_Singleton
<1>3. QED
  BY <1>1, <1>2

(* Where the entries of two sequences are once they are joined. *)
LEMMA Joined ==
  ASSUME NEW S, NEW a \in Seq(S), NEW b \in Seq(S)
  PROVE  /\ \A i \in DOMAIN a : i \in DOMAIN (a \o b) /\ (a \o b)[i] = a[i]
         /\ \A i \in DOMAIN b : Len(a) + i \in DOMAIN (a \o b) /\ (a \o b)[Len(a) + i] = b[i]
         /\ \A i \in DOMAIN (a \o b) : \/ i \in DOMAIN a
                                       \/ \E j \in DOMAIN b : i = Len(a) + j
         /\ \A i \in DOMAIN a : \A j \in DOMAIN b : i # Len(a) + j
         /\ \A i, j \in DOMAIN b : Len(a) + i = Len(a) + j => i = j
<1>1. PICK k \in Nat, n \in Nat : k = Len(a) /\ n = Len(b)
  OBVIOUS
<1>2. DOMAIN a = 1..k /\ DOMAIN b = 1..n /\ a \o b \in Seq(S) /\ Len(a \o b) = k + n
  BY <1>1
<1>3. DOMAIN (a \o b) = 1..(k + n)
  BY <1>2
<1>4. /\ \A i \in 1..k : i \in 1..(k + n)
      /\ \A i \in 1..n : k + i \in 1..(k + n)
      /\ \A i \in 1..(k + n) : i \in 1..k \/ \E j \in 1..n : i = k + j
      /\ \A i \in 1..k : \A j \in 1..n : i # k + j
      /\ \A i, j \in 1..n : k + i = k + j => i = j
  <2>1. ASSUME NEW i \in 1..(k + n), i \notin 1..k
        PROVE  \E j \in 1..n : i = k + j
    <3>1. i - k \in 1..n /\ i = k + (i - k)
      BY <2>1
    <3>2. QED
      BY <3>1
  <2>2. QED
    BY <2>1
<1>5. \A i \in 1..k : (a \o b)[i] = a[i]
  BY <1>1, <1>2
<1>6. \A i \in 1..n : (a \o b)[k + i] = b[i]
  BY <1>1, <1>2
<1>7. PICK c : c = a \o b
  OBVIOUS
<1>8. /\ DOMAIN c = 1..(k + n)
      /\ \A i \in 1..k : c[i] = a[i]
      /\ \A i \in 1..n : c[k + i] = b[i]
  BY <1>3, <1>5, <1>6, <1>7
<1>9. /\ \A i \in 1..k : i \in DOMAIN c /\ c[i] = a[i]
      /\ \A i \in 1..n : k + i \in DOMAIN c /\ c[k + i] = b[i]
      /\ \A i \in DOMAIN c : i \in 1..k \/ \E j \in 1..n : i = k + j
      /\ \A i \in 1..k : \A j \in 1..n : i # k + j
      /\ \A i, j \in 1..n : k + i = k + j => i = j
  BY <1>4, <1>8
<1>10. DOMAIN a = 1..k /\ DOMAIN b = 1..n /\ Len(a) = k
  BY <1>1, <1>2
<1>11. QED
  BY <1>7, <1>9, <1>10, Zenon

(* One place at most, and one at least while the watcher lives. *)
LEMMA DownOnce == MarkInv /\ MailInv /\ WatchInv => DownExactlyOnce
<1> SUFFICES ASSUME MarkInv, MailInv, WatchInv, NEW m \in told
             PROVE  /\ Copies(m) <= 1
                    /\ tombs[m.watcher] = None /\ m.watcher \notin exited => Copies(m) = 1
                    /\ m.target \notin table => m \notin monitors
  BY DEF DownExactlyOnce
<1>1. m \in Monitors /\ m.watcher \in Pids /\ m.target \in Pids /\ m.ref \in Nat
  BY DEF WatchInv, RefInv, Monitors
<1>2. PICK p \in Pids : p = m.watcher
  BY <1>1
<1>3. PICK a \in Seq(Letters), b \in Seq(Letters) : a = mailbox[p] /\ b = pending[p]
  BY DEF MailInv
<1>4. PICK c \in Seq(Letters) : c = a \o b /\ c = Box(p)
  <2>1. a \o b \in Seq(Letters)
    OBVIOUS
  <2>2. QED
    BY <1>3, <2>1 DEF Box
<1>5. PICK l : l = Down(m.ref, m.target) /\ l.kind = "DOWN" /\ l.what = m.ref
  BY <1>1, LettersAre
<1> DEFINE A == monitors \cap {m}
           B == {t \in Threads : m \in thread[t].downs}
           C == {i \in DOMAIN a : a[i] = l}
           D == {i \in DOMAIN b : b[i] = l}
<1>6. Copies(m) = Cardinality(A) + Cardinality(B) + Cardinality(C) + Cardinality(D)
  BY <1>2, <1>3, <1>5 DEF Copies
<1>7. /\ \A i \in DOMAIN a : i \in DOMAIN c /\ c[i] = a[i]
      /\ \A i \in DOMAIN b : Len(a) + i \in DOMAIN c /\ c[Len(a) + i] = b[i]
      /\ \A i \in DOMAIN c : i \in DOMAIN a \/ \E j \in DOMAIN b : i = Len(a) + j
      /\ \A i \in DOMAIN a : \A j \in DOMAIN b : i # Len(a) + j
      /\ \A i, j \in DOMAIN b : Len(a) + i = Len(a) + j => i = j
  <2>1. c = a \o b
    BY <1>4
  <2>2. a \in Seq(Letters) /\ b \in Seq(Letters)
    OBVIOUS
  <2>3. /\ \A i \in DOMAIN a : i \in DOMAIN (a \o b) /\ (a \o b)[i] = a[i]
        /\ \A i \in DOMAIN b : Len(a) + i \in DOMAIN (a \o b) /\ (a \o b)[Len(a) + i] = b[i]
        /\ \A i \in DOMAIN (a \o b) : \/ i \in DOMAIN a
                                      \/ \E j \in DOMAIN b : i = Len(a) + j
        /\ \A i \in DOMAIN a : \A j \in DOMAIN b : i # Len(a) + j
        /\ \A i, j \in DOMAIN b : Len(a) + i = Len(a) + j => i = j
    BY <2>2, Joined, Zenon
  <2>4. QED
    BY <2>1, <2>3, Zenon
<1>8. /\ \A i, j \in DOMAIN c : c[i] = l /\ c[j] = l => i = j
      /\ (\E i \in DOMAIN c : c[i] = l) => m \notin monitors /\ ~Carried(m)
  BY <1>4, <1>5 DEF WatchInv, LetterInv
<1>9. m \in monitors => ~Carried(m)
  BY DEF WatchInv, RefInv
<1>10. /\ A # {} <=> m \in monitors
       /\ B # {} <=> Carried(m)
       /\ C # {} \/ D # {} <=> \E i \in DOMAIN c : c[i] = l
       /\ ~(C # {} /\ D # {})
  <2>1. (B # {}) <=> Carried(m)
    BY DEF Carried
  <2>2. (C # {} \/ D # {}) <=> \E i \in DOMAIN c : c[i] = l
    BY <1>7
  <2>3. ~(C # {} /\ D # {})
    BY <1>7, <1>8
  <2>4. QED
    BY <2>1, <2>2, <2>3
<1>11. /\ \A x, y \in A : x = y
       /\ \A x, y \in B : x = y
       /\ \A x, y \in C : x = y
       /\ \A x, y \in D : x = y
  <2>1. \A x, y \in B : x = y
    BY DEF WatchInv, RefInv
  <2>2. \A x, y \in C : x = y
    BY <1>7, <1>8
  <2>3. \A x, y \in D : x = y
    BY <1>7, <1>8
  <2>4. QED
    BY <2>1, <2>2, <2>3
<1> HIDE DEF A, B, C, D
<1>12. /\ Cardinality(A) = IF A = {} THEN 0 ELSE 1
       /\ Cardinality(B) = IF B = {} THEN 0 ELSE 1
       /\ Cardinality(C) = IF C = {} THEN 0 ELSE 1
       /\ Cardinality(D) = IF D = {} THEN 0 ELSE 1
  BY <1>11, AtMostOne
<1>13. Copies(m) <= 1
  BY <1>6, <1>8, <1>9, <1>10, <1>12
<1>14. ASSUME tombs[m.watcher] = None, m.watcher \notin exited
       PROVE  Copies(m) = 1
  <2>1. m \in monitors \/ Carried(m) \/ \E i \in DOMAIN c : c[i] = l
    BY <1>2, <1>4, <1>5, <1>14 DEF WatchInv, SomewhereInv, Arrived
  <2>2. QED
    BY <1>6, <1>8, <1>9, <1>10, <1>12, <2>1
<1>15. m.target \notin table => m \notin monitors
  BY DEF WatchInv, SetInv
<1>16. QED
  BY <1>13, <1>14, <1>15

(* Whatever the watcher and the target are doing, whoever cleans the       *)
(* target up and however often, before, during or after monitor/2: the     *)
(* DOWN of a monitor is at one place at most, in the monitor set, in the   *)
(* hands of one thread or with the watcher; while the watcher lives it is  *)
(* at one; and nothing is kept on a process that left the table            *)
(* (monitor, demonitor, collect_watchers_and_remove, deliver_single_down   *)
(* and the store-back together).                                           *)
THEOREM DownsComeOnce == Spec => []DownExactlyOnce
<1>1. Init => ZombieInv /\ DownInv
  BY InitWhole, InitDown
<1>2. (ZombieInv /\ DownInv) /\ [Next]_vars => (ZombieInv /\ DownInv)'
  BY NextWhole, NextDown
<1>3. ZombieInv /\ DownInv => DownExactlyOnce
  BY DownOnce DEF DownInv
<1>4. QED
  BY <1>1, <1>2, <1>3, PTL DEF Spec

-----------------------------------------------------------------------------
(* A death reaches those it is linked to *)

(* p has q among its links, wherever its body is. *)
Holds(p, q) ==
  \/ slot[p] = "present" /\ Contains(links[p], q)
  \/ slot[p] = "executing" /\ Contains(shadow[p], q)

(* A signal of the death of p to q, in a list and with a thread. *)
Listed(list, p, q) == \E i \in DOMAIN list : list[i].from = p /\ list[i].to = q
Sends(r, p, q) == Listed(r.work, p, q) \/ Listed(r.cascade, p, q)

Informed(p, q) == \E i \in DOMAIN Box(q) : Box(q)[i].kind = "EXIT" /\ Box(q)[i].from = p

(* The death of p has been seen to as far as q goes: q dies too, knows, or *)
(* will be told.                                                           *)
Reached(p, q) ==
  tombs[q] # None \/ q \in exited \/ Informed(p, q) \/ \E t \in Threads : Sends(thread[t], p, q)

(* Who has taken the links of p, with its body or as its victim. *)
Past(r, p) ==
  \/ r.pid = p /\ r.pc \in CleanSteps \ {"tomb", "takeLinks"}
  \/ r.dying = p /\ r.phase = "present" /\ r.pc \in CleanSteps

(* No signal is left when a clean-up ends, and none are overwritten. *)
Loaded(r) ==
  /\ r.pc \notin CleanSteps \ {"tomb", "takeLinks"} => r.work = <<>> /\ r.cascade = <<>>
  /\ r.pc = "signal" => r.cascade = <<>>
  /\ r.pc \in {"spendToken", "removeBody"} /\ r.phase # "present" => r.work = <<>> /\ r.cascade = <<>>

(* The reason of a signal is one its sender died of. *)
Reasoned(list, C) == \A i \in DOMAIN list : list[i].reason \in C[list[i].from]
Caused(r, C) ==
  /\ r.pc = "takeLinks" => r.reason \in C[r.pid]
  /\ Reasoned(r.work, C) /\ Reasoned(r.cascade, C)

(* Who has exited has a tombstone, or a thread is about to set it. *)
Owed(p) ==
  \/ tombs[p] # None \/ thread[p].pc = "storeDead"
  \/ \E t \in Threads : thread[t].pc = "tomb" /\ thread[t].pid = p

CauseInv ==
  /\ causes \in [Pids -> SUBSET Deaths]
  /\ \A p \in Pids : causes[p] # {} => tombs[p] # None
  /\ \A t \in Threads : Loaded(thread[t]) /\ Caused(thread[t], causes)
  /\ exited \subseteq Pids /\ \A p \in exited : Owed(p)

(* A bond is between two processes that exist; who unlinks has given it    *)
(* up, and who spawns has the link of the child already.                   *)
TieInv ==
  /\ \A b \in bonds : \E p, q \in Pids : b = {p, q} /\ slot[p] # "unborn" /\ slot[q] # "unborn"
  /\ \A p \in Pids : thread[p].pc = "unlinkTarget" => {p, thread[p].peer} \notin bonds
  /\ \A p \in Pids : thread[p].pc = "spawning" =>
       /\ Contains(links[thread[p].peer], p)
       /\ slot[p] = "executing" => Contains(shadow[p], thread[p].peer)

Bound(p, q) == p # q /\ {p, q} \in bonds /\ "normal" \notin causes[p]

BondInv ==
  \A p, q \in Pids : Bound(p, q) =>
    /\ Holds(p, q) \/ Reached(p, q)
    /\ (\E t \in Threads : Past(thread[t], p)) => Reached(p, q)

DeathInv == CauseInv /\ TieInv /\ BondInv

(* What lists of links and of signals hold after an update. *)
LEMMA LinkStays ==
  ASSUME NEW s \in Seq(Pids), NEW p, NEW q \in Pids, NEW x, Contains(s, x)
  PROVE  Contains(AddLink(s, q, p), x)
BY DEF Contains, AddLink

LEMMA LinkIsIn ==
  ASSUME NEW s \in Seq(Pids), NEW p, NEW q \in Pids, p # q
  PROVE  Contains(AddLink(s, q, p), q)
BY DEF Contains, AddLink

LEMMA OthersStay ==
  ASSUME NEW s \in Seq(Pids), NEW p, NEW x, x # p, Contains(s, x)
  PROVE  Contains(RemoveLink(s, p), x)
<1> DEFINE I == {i \in DOMAIN s : s[i] # p}
<1>1. PICK i \in I : s[i] = x
  BY DEF Contains
<1>2. RemoveLink(s, p) = AtPlaces(s, I) /\ I \subseteq DOMAIN s
  BY DEF RemoveLink
<1> HIDE DEF I
<1>3. \A j \in I : Contains(AtPlaces(s, I), s[j])
  BY <1>2, Placed
<1> QED BY <1>1, <1>2, <1>3

LEMMA BothContained ==
  ASSUME NEW S, NEW a \in Seq(S), NEW b \in Seq(S), NEW x, Contains(a, x) \/ Contains(b, x)
  PROVE  Contains(a \o b, x)
<1>1. CASE Contains(a, x)
  BY <1>1 DEF Contains
<1>2. CASE Contains(b, x)
  <2>1. PICK i \in 1..Len(b) : b[i] = x
    BY <1>2 DEF Contains
  <2>2. (a \o b)[Len(a) + i] = x /\ Len(a) + i \in 1..Len(a \o b)
    BY <2>1
  <2> QED BY <2>2 DEF Contains
<1> QED BY <1>1, <1>2

LEMMA LinksMerged ==
  ASSUME NEW s \in Seq(Pids), NEW more \in Seq(Pids), NEW p, NEW x, x # p,
         Contains(s, x) \/ Contains(more, x)
  PROVE  Contains(AddLinks(s, more, p), x)
<1> DEFINE I == {i \in DOMAIN more : more[i] # p /\ ~Contains(s, more[i])}
<1>1. Contains(s, x) \/ \E i \in I : more[i] = x
  BY DEF Contains
<1>2. AddLinks(s, more, p) = s \o AtPlaces(more, I) /\ I \subseteq DOMAIN more
  BY DEF AddLinks
<1> HIDE DEF I
<1>3. AtPlaces(more, I) \in Seq(Pids) /\ \A j \in I : Contains(AtPlaces(more, I), more[j])
  BY <1>2, Placed
<1> QED BY <1>1, <1>2, <1>3, BothContained

LEMMA StartBonds ==
  ASSUME NEW p \in Pids, NEW q \in Pids, {p, q} \in Bonds
  PROVE  Contains(Symmetric(p), q)
<1> DEFINE S == {x \in Pids : {p, x} \in Bonds}
           n == Cardinality(S)
           f == SetToSeq(S)
<1>1. S \in SUBSET Pids /\ q \in S
  OBVIOUS
<1>2. Symmetric(p) = f
  BY DEF Symmetric
<1> HIDE DEF S
<1>3. IsFiniteSet(S) /\ n \in Nat /\ ExistsBijection(1..n, S)
  BY <1>1, SupervisionAssumption, FS_Subset, FS_CardinalityType
<1>4. \E g \in [1..n -> S] : IsInjective(g)
  BY <1>3 DEF ExistsBijection, Bijection, Injection
<1>5. f \in [1..n -> S] /\ IsInjective(f)
  BY <1>4 DEF SetToSeq
<1> HIDE DEF f
<1>6. f \in Injection(1..n, S) /\ IsFiniteSet(1..n) /\ Cardinality(1..n) = n
  <2> HIDE DEF n
  <2> QED BY <1>3, <1>5, FS_Interval DEF Injection
<1>7. f \in Surjection(1..n, S)
  BY <1>3, <1>6, FS_Injection
<1>8. \E i \in 1..n : f[i] = q
  BY <1>1, <1>7 DEF Surjection
<1> HIDE DEF n
<1>9. f \in Seq(S) /\ Len(f) = n
  BY <1>3, <1>5
<1> QED BY <1>2, <1>8, <1>9 DEF Contains

LEMMA SignalListed ==
  ASSUME NEW p, NEW targets \in Seq(Pids), NEW reason, NEW q, Contains(targets, q)
  PROVE  Listed(Signalled(p, targets, reason), p, q)
<1>1. PICK i \in DOMAIN targets : targets[i] = q
  BY DEF Contains
<1>2. DOMAIN Signalled(p, targets, reason) = DOMAIN targets
      /\ Signalled(p, targets, reason)[i] = [from |-> p, to |-> targets[i], reason |-> reason]
  BY DEF Signalled
<1> QED BY <1>1, <1>2 DEF Listed

LEMMA SignalReasoned ==
  ASSUME NEW p, NEW targets, NEW reason, NEW C, reason \in C[p]
  PROVE  Reasoned(Signalled(p, targets, reason), C)
BY DEF Reasoned, Signalled

LEMMA JoinedLists ==
  ASSUME NEW a \in Seq(ExitSignals), NEW b \in Seq(ExitSignals)
  PROVE  /\ \A p, q : Listed(a, p, q) \/ Listed(b, p, q) => Listed(a \o b, p, q)
         /\ \A C : Reasoned(a, C) /\ Reasoned(b, C) => Reasoned(a \o b, C)
<1>1. ASSUME NEW p, NEW q, Listed(a, p, q) PROVE Listed(a \o b, p, q)
  BY <1>1 DEF Listed
<1>2. ASSUME NEW p, NEW q, Listed(b, p, q) PROVE Listed(a \o b, p, q)
  <2>1. PICK i \in 1..Len(b) : b[i].from = p /\ b[i].to = q
    BY <1>2 DEF Listed
  <2>2. (a \o b)[Len(a) + i] = b[i] /\ Len(a) + i \in DOMAIN (a \o b)
    BY <2>1
  <2> QED BY <2>1, <2>2 DEF Listed
<1>3. ASSUME NEW C, Reasoned(a, C), Reasoned(b, C), NEW i \in DOMAIN (a \o b)
      PROVE  (a \o b)[i].reason \in C[(a \o b)[i].from]
  <2>1. CASE i <= Len(a)
    BY <1>3, <2>1 DEF Reasoned
  <2>2. CASE i > Len(a)
    <3>1. i - Len(a) \in 1..Len(b) /\ (a \o b)[i] = b[i - Len(a)]
      BY <1>3, <2>2
    <3> QED BY <1>3, <3>1 DEF Reasoned
  <2> QED BY <1>3, <2>1, <2>2
<1> QED BY <1>1, <1>2, <1>3 DEF Reasoned

LEMMA RestOfList ==
  ASSUME NEW w \in Seq(ExitSignals), w # <<>>
  PROVE  /\ \A p, q : Listed(w, p, q) => Listed(Tail(w), p, q) \/ (Head(w).from = p /\ Head(w).to = q)
         /\ \A C : Reasoned(w, C) => Reasoned(Tail(w), C) /\ Head(w).reason \in C[Head(w).from]
<1>1. \A i \in 1..Len(w) : i = 1 \/ (i - 1 \in 1..Len(Tail(w)) /\ Tail(w)[i - 1] = w[i])
  OBVIOUS
<1>2. \A i \in 1..Len(Tail(w)) : i + 1 \in 1..Len(w) /\ Tail(w)[i] = w[i + 1]
  OBVIOUS
<1>3. Head(w) = w[1] /\ 1 \in 1..Len(w) /\ DOMAIN w = 1..Len(w) /\ DOMAIN Tail(w) = 1..Len(Tail(w))
  OBVIOUS
<1>4. ASSUME NEW p, NEW q, Listed(w, p, q)
      PROVE  Listed(Tail(w), p, q) \/ (Head(w).from = p /\ Head(w).to = q)
  BY <1>1, <1>3, <1>4 DEF Listed
<1>5. ASSUME NEW C, Reasoned(w, C)
      PROVE  Reasoned(Tail(w), C) /\ Head(w).reason \in C[Head(w).from]
  BY <1>2, <1>3, <1>5 DEF Reasoned
<1> QED BY <1>4, <1>5

(* What no step takes back. *)
Grows ==
  /\ \A p \in Pids : /\ tombs[p] # None => tombs'[p] # None
                     /\ causes[p] \subseteq causes'[p]
                     /\ causes'[p] # {} => tombs'[p] # None
                     /\ slot'[p] = "unborn" => slot[p] = "unborn"
  /\ causes' \in [Pids -> SUBSET Deaths]
  /\ exited \subseteq exited' /\ exited' \subseteq Pids
  /\ \A p, q \in Pids : Informed(p, q) => Informed(p, q)' \/ tombs'[q] # None

LEMMA LettersInform ==
  ASSUME MailInv, NEW p \in Pids, NEW q \in Pids, Informed(p, q),
         \/ Box(q)' = Box(q) \/ \E l \in Letters : Box(q)' = Append(Box(q), l)
         \/ tombs'[q] # None
  PROVE  Informed(p, q)' \/ tombs'[q] # None
<1>1. PICK i \in DOMAIN Box(q) : Box(q)[i].kind = "EXIT" /\ Box(q)[i].from = p
  BY DEF Informed
<1>2. Box(q) \in Seq(Letters)
  BY BoxType
<1>3. CASE Box(q)' = Box(q)
  BY <1>1, <1>3 DEF Informed
<1>4. ASSUME NEW l \in Letters, Box(q)' = Append(Box(q), l)
      PROVE  Informed(p, q)'
  <2> DEFINE b == Box(q)
             c == Box(q)'
  <2>1. b \in Seq(Letters) /\ i \in DOMAIN b /\ c = Append(b, l)
    BY <1>1, <1>2, <1>4
  <2>2. i \in DOMAIN c /\ c[i] = b[i]
    <3> HIDE DEF b, c
    <3> QED BY <2>1
  <2> QED BY <1>1, <2>2 DEF Informed
<1> QED BY <1>3, <1>4

LEMMA PostedInforms ==
  ASSUME MailInv, Posted, NEW p \in Pids, NEW q \in Pids, Informed(p, q)
  PROVE  Informed(p, q)' \/ tombs'[q] # None
BY LettersInform DEF Posted

(* The thread of a step, and what is left of the others' duties. *)
LEMMA CausesKept ==
  ASSUME MarkInv, CauseInv, Grows, NEW t \in Threads, NEW st, Only(t, st), Loaded(st),
         Caused(st, causes'),
         \A p \in exited' \ exited : Owed(p)',
         thread[t].pc = "storeDead" => Owed(t)',
         thread[t].pc = "tomb" => tombs'[thread[t].pid] # None
  PROVE  CauseInv'
<1>1. ASSUME NEW u \in Threads PROVE Loaded(thread'[u]) /\ Caused(thread'[u], causes')
  <2>1. CASE u = t
    BY <2>1 DEF Only
  <2>2. CASE u # t
    <3> DEFINE r == thread[u]
    <3>1. thread'[u] = r /\ Loaded(r) /\ Caused(r, causes) /\ Fit(r)
      BY <2>2 DEF Only, CauseInv, MarkInv
    <3>2. r.work \in Seq(ExitSignals) /\ r.cascade \in Seq(ExitSignals)
      BY <3>1 DEF Fit
    <3>3. r.pc = "takeLinks" => r.pid \in Pids
      BY <3>1 DEF Fit, CleanSteps
    <3>4. ASSUME NEW list \in Seq(ExitSignals), Reasoned(list, causes) PROVE Reasoned(list, causes')
      <4>1. \A i \in DOMAIN list : list[i] \in ExitSignals
        OBVIOUS
      <4>2. \A i \in DOMAIN list : list[i].from \in Pids
        BY <4>1 DEF ExitSignals
      <4> QED BY <3>4, <4>2 DEF Reasoned, Grows
    <3> HIDE DEF r
    <3> QED BY <3>1, <3>2, <3>3, <3>4 DEF Caused, Grows
  <2> QED BY <2>1, <2>2
<1>2. ASSUME NEW p \in exited' PROVE Owed(p)'
  <2>1. CASE p \in exited /\ p # t /\ thread[p].pc = "storeDead"
    <3>1. p \in Pids /\ p \in Threads
      BY <2>1 DEF CauseInv, Threads
    <3> QED BY <2>1, <3>1 DEF Owed, Only
  <2>2. CASE p \in exited /\ tombs[p] # None
    BY <2>2 DEF Owed, Grows, CauseInv
  <2>3. CASE p \in exited /\ \E u \in Threads : thread[u].pc = "tomb" /\ thread[u].pid = p
    BY <2>3 DEF Owed, Only
  <2> QED BY <1>2, <2>1, <2>2, <2>3 DEF CauseInv, Owed
<1> QED BY <1>1, <1>2 DEF CauseInv, Grows

LEMMA PairsKept ==
  ASSUME ZombieInv, TieInv, Grows, NEW t \in Threads, NEW st, Only(t, st), bonds' \subseteq bonds,
         st.pc = "unlinkTarget" => {t, st.peer} \notin bonds', st.pc # "spawning",
         \A p \in Pids : thread[p].pc = "spawning" /\ p # t =>
           /\ links'[thread[p].peer] = links[thread[p].peer]
           /\ slot'[p] = "executing" => /\ slot[p] = "executing"
                                        /\ Contains(shadow[p], thread[p].peer) => Contains(shadow'[p], thread[p].peer)
  PROVE  TieInv'
<1>1. \A p \in Pids : p \in Threads
  BY DEF Threads
<1>2. ASSUME NEW b \in bonds'
      PROVE  \E p, q \in Pids : b = {p, q} /\ slot'[p] # "unborn" /\ slot'[q] # "unborn"
  BY DEF TieInv, Grows
<1>3. ASSUME NEW p \in Pids, thread'[p].pc = "unlinkTarget" PROVE {p, thread'[p].peer} \notin bonds'
  <2>1. CASE p = t
    BY <1>3, <2>1 DEF Only
  <2>2. CASE p # t
    <3>1. thread'[p] = thread[p]
      BY <1>1, <2>2 DEF Only
    <3>2. {p, thread[p].peer} \notin bonds
      BY <1>3, <3>1 DEF TieInv
    <3> QED BY <3>1, <3>2
  <2> QED BY <2>1, <2>2
<1>4. ASSUME NEW p \in Pids, thread'[p].pc = "spawning"
      PROVE  /\ Contains(links'[thread'[p].peer], p)
             /\ slot'[p] = "executing" => Contains(shadow'[p], thread'[p].peer)
  <2>1. p # t /\ thread'[p] = thread[p]
    BY <1>1, <1>4 DEF Only
  <2> QED BY <1>4, <2>1 DEF TieInv
<1> QED BY <1>2, <1>3, <1>4 DEF TieInv

(* A death that has been seen to stays so. *)
LEMMA ReachLasts ==
  ASSUME Grows, NEW t \in Threads, NEW st, Only(t, st), NEW p \in Pids, NEW q \in Pids,
         Reached(p, q),
         Sends(thread[t], p, q) => Sends(st, p, q) \/ tombs'[q] # None \/ q \in exited' \/ Informed(p, q)'
  PROVE  Reached(p, q)'
<1>1. CASE tombs[q] # None \/ q \in exited \/ Informed(p, q)
  BY <1>1 DEF Reached, Grows
<1>2. ASSUME NEW u \in Threads, Sends(thread[u], p, q)
      PROVE  Reached(p, q)'
  <2>1. CASE u # t
    BY <1>2, <2>1 DEF Reached, Only, Sends
  <2>2. CASE u = t
    BY <1>2, <2>2 DEF Reached, Only, Sends
  <2> QED BY <2>1, <2>2
<1> QED BY <1>1, <1>2 DEF Reached

LEMMA BondKept ==
  ASSUME BondInv, Grows, NEW t \in Threads, NEW st, Only(t, st), NEW p \in Pids, NEW q \in Pids,
         Bound(p, q),
         Sends(thread[t], p, q) => Sends(st, p, q) \/ tombs'[q] # None \/ q \in exited' \/ Informed(p, q)',
         Holds(p, q) => Holds(p, q)' \/ Reached(p, q)',
         Past(st, p) /\ ~Past(thread[t], p) /\ Holds(p, q) => Reached(p, q)'
  PROVE  /\ Holds(p, q)' \/ Reached(p, q)'
         /\ (\E u \in Threads : Past(thread'[u], p)) => Reached(p, q)'
<1>1. Reached(p, q) => Reached(p, q)'
  BY ReachLasts
<1>2. Holds(p, q)' \/ Reached(p, q)'
  BY <1>1 DEF BondInv
<1>3. ASSUME NEW u \in Threads, Past(thread'[u], p) PROVE Reached(p, q)'
  <2>1. CASE Past(thread[u], p)
    BY <1>1, <2>1 DEF BondInv
  <2>2. CASE ~Past(thread[u], p)
    <3>1. u = t /\ thread'[u] = st
      BY <1>3, <2>2 DEF Only
    <3> QED BY <1>1, <1>3, <2>2, <3>1 DEF BondInv
  <2> QED BY <2>1, <2>2
<1> QED BY <1>2, <1>3

LEMMA BondsKept ==
  ASSUME BondInv, Grows, NEW t \in Threads, NEW st, Only(t, st), bonds' \subseteq bonds,
         \A p, q \in Pids : Bound(p, q)' /\ Sends(thread[t], p, q) =>
           Sends(st, p, q) \/ tombs'[q] # None \/ q \in exited' \/ Informed(p, q)',
         \A p, q \in Pids : Bound(p, q)' /\ Holds(p, q) => Holds(p, q)' \/ Reached(p, q)',
         \A p, q \in Pids : Bound(p, q)' /\ Past(st, p) /\ ~Past(thread[t], p) /\ Holds(p, q) => Reached(p, q)'
  PROVE  BondInv'
<1> SUFFICES ASSUME NEW p \in Pids, NEW q \in Pids, Bound(p, q)'
             PROVE  /\ Holds(p, q)' \/ Reached(p, q)'
                    /\ (\E u \in Threads : Past(thread'[u], p)) => Reached(p, q)'
  BY DEF BondInv, Past
<1>1. Bound(p, q)
  BY DEF Bound, Grows
<1> QED BY <1>1, BondKept

(* A step of a thread that has no signals and will have none. *)
LEMMA UnladenStep ==
  ASSUME ZombieInv, DownInv, DeathInv, DownInv', Grows, NEW t \in Threads, NEW st, Only(t, st),
         thread[t].pc \notin CleanSteps \ {"tomb", "takeLinks"},
         st.pc \notin CleanSteps \ {"tomb", "takeLinks"}, st.work = <<>>, st.cascade = <<>>,
         st.pc = "takeLinks" => st.reason \in causes'[st.pid],
         \A p \in exited' \ exited : Owed(p)',
         thread[t].pc = "storeDead" => Owed(t)',
         thread[t].pc = "tomb" => tombs'[thread[t].pid] # None,
         TieInv', bonds' \subseteq bonds,
         \A p, q \in Pids : Bound(p, q)' /\ Holds(p, q) => Holds(p, q)' \/ Reached(p, q)'
  PROVE  DeathInv'
<1>1. Loaded(st) /\ Caused(st, causes')
  BY DEF Loaded, Caused, Reasoned
<1>2. CauseInv'
  BY <1>1, CausesKept DEF DeathInv, DownInv
<1>3. \A p, q \in Pids : ~Sends(thread[t], p, q)
  <2>1. thread[t].work = <<>> /\ thread[t].cascade = <<>>
    BY DEF DeathInv, CauseInv, Loaded
  <2> QED BY <2>1 DEF Sends, Listed
<1>4. \A p \in Pids : ~Past(st, p)
  <2>1. Fit(st)
    BY DEF DownInv, MarkInv, Only
  <2> QED BY <2>1 DEF Past, Fit
<1>5. BondInv'
  BY <1>3, <1>4, BondsKept DEF DeathInv
<1> QED BY <1>2, <1>5 DEF DeathInv

LEMMA GrowsBy ==
  ASSUME DownInv, DeathInv, exited \subseteq exited', exited' \subseteq Pids,
         \A p \in Pids : slot'[p] = "unborn" => slot[p] = "unborn",
         \A p, q \in Pids : Informed(p, q) => Informed(p, q)' \/ tombs'[q] # None,
         UNCHANGED graves \/ \E q \in Pids, reason \in Deaths : Bury(q, reason)
  PROVE  Grows
<1>1. CASE UNCHANGED graves
  BY <1>1 DEF graves, Grows, DeathInv, CauseInv
<1>2. ASSUME NEW q \in Pids, NEW reason \in Deaths, Bury(q, reason)
      PROVE  Grows
  <2>1. causes \in [Pids -> SUBSET Deaths] /\ \A p \in Pids : causes[p] # {} => tombs[p] # None
    BY DEF DeathInv, CauseInv
  <2>2. causes' = [causes EXCEPT ![q] = @ \cup {reason}] /\ tombs' = [tombs EXCEPT ![q] = reason]
    BY <1>2 DEF Bury
  <2>3. causes' \in [Pids -> SUBSET Deaths] /\ \A p \in Pids : causes[p] \subseteq causes'[p]
    BY <2>1, <2>2
  <2>4. tombs'[q] # None /\ \A p \in Pids : tombs[p] # None => tombs'[p] # None
    BY <1>2, BuryMarks DEF DownInv
  <2>5. \A p \in Pids : causes'[p] # {} => tombs'[p] # None
    BY <2>1, <2>2, <2>4
  <2> QED BY <2>3, <2>4, <2>5 DEF Grows
<1> QED BY <1>1, <1>2

LEMMA SameMailInforms ==
  ASSUME UNCHANGED mail
  PROVE  \A p, q \in Pids : Informed(p, q) => Informed(p, q)' \/ tombs'[q] # None
BY DEF mail, Informed, Box

LEMMA BuryCauses ==
  ASSUME DeathInv, NEW q \in Pids, NEW reason \in Deaths, Bury(q, reason)
  PROVE  reason \in causes'[q]
BY DEF Bury, DeathInv, CauseInv

Unladen(pc) == pc \notin CleanSteps \ {"tomb", "takeLinks"}

LEMMA NothingToSend ==
  ASSUME DeathInv, NEW t \in Threads, Unladen(thread[t].pc)
  PROVE  /\ thread[t].work = <<>> /\ thread[t].cascade = <<>>
         /\ \A st : Carries(st, thread[t]) => st.work = <<>> /\ st.cascade = <<>>
<1>1. thread[t].work = <<>> /\ thread[t].cascade = <<>>
  BY DEF DeathInv, CauseInv, Loaded, Unladen
<1>2. <<>> \o <<>> = <<>>
  OBVIOUS
<1> QED BY <1>1, <1>2 DEF Carries

LEMMA SlicesAreUnladen ==
  \A pc \in SliceSteps \cup {"idle", "store", "storeDead", "stored", "tomb", "takeLinks"} : Unladen(pc)
BY DEF SliceSteps, Unladen, CleanSteps

(* A step that leaves bodies, links and bonds alone. *)
LEMMA StillStep ==
  ASSUME ZombieInv, DownInv, DeathInv, DownInv', Grows, NEW t \in Threads, NEW st, Only(t, st),
         Unladen(thread[t].pc), Unladen(st.pc), st.work = <<>>, st.cascade = <<>>,
         st.pc \notin {"unlinkTarget", "spawning"},
         st.pc = "takeLinks" => st.reason \in causes'[st.pid],
         \A p \in exited' \ exited : Owed(p)',
         thread[t].pc = "storeDead" => Owed(t)',
         thread[t].pc = "tomb" => tombs'[thread[t].pid] # None,
         UNCHANGED <<slot, links, shadow, bonds>>
  PROVE  DeathInv'
<1>1. TieInv'
  BY PairsKept DEF DeathInv
<1>2. \A p, q \in Pids : Holds(p, q) => Holds(p, q)'
  BY DEF Holds
<1> QED BY <1>1, <1>2, UnladenStep DEF Unladen

LEMMA DeathSliceEnds ==
  ASSUME ZombieInv, DownInv, DeathInv, DownInv', NEW p \in Pids,
         NEW outcome \in {"park", "normal", "error"}, SliceEnds(p, outcome)
  PROVE  DeathInv'
<1> DEFINE pc == IF tombs[p] # None \/ outcome # "park" THEN "storeDead" ELSE "store"
           reason == IF tombs[p] # None THEN tombs[p] ELSE outcome
           r == [Resting EXCEPT !.pc = pc]
           st == [r EXCEPT !.reason = reason]
<1>1. /\ thread[p].pc = "run" /\ Goto(p, st) /\ p \in Threads
      /\ exited' = IF outcome = "park" THEN exited ELSE exited \cup {p}
      /\ UNCHANGED <<slot, links, shadow, mail, graves, bonds>>
  BY DEF SliceEnds, At, Threads, ghost
<1>2. Only(p, st)
  BY <1>1, Goes DEF ZombieInv
<1>3. pc \in {"store", "storeDead"} /\ (outcome # "park" => pc = "storeDead")
  OBVIOUS
<1> HIDE DEF pc, reason
<1>4. Put(Resting, r, "pc", pc)
  BY Beginnings, Fields
<1> HIDE DEF r
<1>5. Put(r, st, "reason", reason)
  BY <1>4, PutWhole, Fields
<1> HIDE DEF st
<1>6. st.pc = pc /\ st.work = <<>> /\ st.cascade = <<>>
  BY <1>4, <1>5, Beginnings DEF Put, Blank
<1>7. Grows
  BY <1>1, GrowsBy, SameMailInforms DEF DeathInv, CauseInv
<1>8. \A x \in exited' \ exited : Owed(x)'
  BY <1>1, <1>2, <1>3, <1>6 DEF Owed, Only
<1>9. Unladen(thread[p].pc) /\ Unladen(st.pc)
  BY <1>1, <1>3, <1>6, SlicesAreUnladen DEF SliceSteps
<1> QED BY <1>1, <1>2, <1>3, <1>6, <1>7, <1>8, <1>9, StillStep

LEMMA DeathCheck ==
  ASSUME ZombieInv, DownInv, DeathInv, DownInv', NEW p \in Pids, CheckAfterStore(p)
  PROVE  DeathInv'
<1>1. /\ p \in Threads /\ thread[p].pc = "stored"
      /\ UNCHANGED <<exited, slot, links, shadow, mail, graves, bonds>>
  BY DEF CheckAfterStore, Threads, body, At, ghost
<1>2. PICK st : Goto(p, st) /\ (st = Resting \/ st = Cleanup(p, tombs[p]))
  BY DEF CheckAfterStore
<1>3. Only(p, st)
  BY <1>1, <1>2, Goes DEF ZombieInv
<1>4. st.pc \in {"idle", "tomb"} /\ st.work = <<>> /\ st.cascade = <<>>
  BY <1>2, Beginnings DEF Blank
<1>5. Grows
  BY <1>1, GrowsBy, SameMailInforms DEF DeathInv, CauseInv
<1>6. Unladen(thread[p].pc) /\ Unladen(st.pc)
  BY <1>1, <1>4, SlicesAreUnladen
<1> QED BY <1>1, <1>3, <1>4, <1>5, <1>6, StillStep

(* The calls that only read, write mail or set a tombstone. *)
LEMMA DeathCalls ==
  ASSUME ZombieInv, DownInv, DeathInv, DownInv', NEW t \in Threads,
         NEW pc \in {"run", "idle", "linkCaller"},
         NEW peer, Calls(t, pc, peer), Grows, UNCHANGED <<exited, slot, links, shadow, bonds>>
  PROVE  DeathInv'
<1>1. PICK st : /\ Only(t, st) /\ Whole(st) /\ st.pc = pc /\ Carries(st, thread[t])
                /\ thread[t].pc \in {"idle", "run"}
  BY CallsTo
<1>2. Unladen(thread[t].pc) /\ Unladen(st.pc)
  BY <1>1, SlicesAreUnladen DEF SliceSteps
<1>3. st.work = <<>> /\ st.cascade = <<>>
  BY <1>1, <1>2, NothingToSend
<1> QED BY <1>1, <1>2, <1>3, StillStep

LEMMA DeathLinkChecks ==
  ASSUME ZombieInv, DownInv, DeathInv, DownInv', NEW p \in Pids, NEW q \in Pids, LinkChecks(p, q)
  PROVE  DeathInv'
<1>1. p \in Threads /\ Calls(p, "linkCaller", q) /\ UNCHANGED <<exited, slot, links, shadow, mail, graves, bonds>>
  BY DEF LinkChecks, Threads, body, ghost
<1>2. Grows
  BY <1>1, GrowsBy, SameMailInforms DEF DeathInv, CauseInv
<1> QED BY <1>1, <1>2, DeathCalls

LEMMA DeathMonitor ==
  ASSUME ZombieInv, DownInv, DeathInv, DownInv', NEW p \in Pids, NEW q \in Pids, Monitor(p, q)
  PROVE  DeathInv'
<1>1. p \in Threads /\ UNCHANGED <<exited, slot, links, shadow, mail, graves, bonds>>
  BY DEF Monitor, Threads, body, ghost
<1>2. Grows
  BY <1>1, GrowsBy, SameMailInforms DEF DeathInv, CauseInv
<1>3. CASE tombs[q] # None
  <2>1. PICK m : MayCall(p) /\ Goto(p, [Resting EXCEPT !.pc = "downNow", !.downs = {m}])
    BY <1>3 DEF Monitor
  <2> DEFINE r == [Resting EXCEPT !.pc = "downNow"]
             st == [r EXCEPT !.downs = {m}]
  <2>2. Only(p, st)
    BY <1>1, <2>1, Goes DEF ZombieInv
  <2>3. Put(Resting, r, "pc", "downNow")
    BY Beginnings, Fields
  <2> HIDE DEF r
  <2>4. Put(r, st, "downs", {m})
    BY <2>3, PutWhole, Fields
  <2> HIDE DEF st
  <2>5. st.pc = "downNow" /\ st.work = <<>> /\ st.cascade = <<>>
    BY <2>3, <2>4, Beginnings DEF Put, Blank
  <2>6. thread[p].pc \in {"idle", "run"}
    BY <1>1, <2>1, Callable
  <2>7. Unladen(thread[p].pc) /\ Unladen(st.pc)
    BY <2>5, <2>6, SlicesAreUnladen DEF SliceSteps
  <2> QED BY <1>1, <1>2, <2>2, <2>5, <2>6, <2>7, StillStep
<1>4. CASE tombs[q] = None
  <2>1. Calls(p, "run", None)
    BY <1>4 DEF Monitor
  <2> QED BY <1>1, <1>2, <2>1, DeathCalls
<1> QED BY <1>3, <1>4

(* No thread moves. *)
LEMMA ThreadsStay ==
  ASSUME ZombieInv, DownInv, DeathInv, DownInv', Grows, NEW p \in Pids, thread[p].pc = "run",
         UNCHANGED thread,
         UNCHANGED <<exited, slot, links, shadow, bonds>>
  PROVE  DeathInv'
<1>1. p \in Threads
  BY DEF Threads
<1>2. Only(p, thread[p])
  BY DEF Only, ZombieInv, ThreadInv
<1>3. Unladen(thread[p].pc)
  BY SlicesAreUnladen DEF SliceSteps
<1> QED BY <1>1, <1>2, <1>3, NothingToSend, StillStep

LEMMA DeathDemonitor ==
  ASSUME ZombieInv, DownInv, DeathInv, DownInv', NEW p \in Pids, NEW m \in told, Demonitor(p, m)
  PROVE  DeathInv'
<1>1. thread[p].pc = "run" /\ UNCHANGED <<thread, exited, slot, links, shadow, mail, graves, bonds>>
  BY DEF Demonitor, At, body, ghost
<1>2. Grows
  BY <1>1, GrowsBy, SameMailInforms DEF DeathInv, CauseInv
<1> QED BY <1>1, <1>2, ThreadsStay

LEMMA DeathExitCalls ==
  ASSUME ZombieInv, DownInv, DeathInv, DownInv', NEW p \in Pids, NEW q \in Pids,
         NEW reason \in Signals,
         ExitSignalPresent(p, q, reason) \/ ExitSignalExecuting(p, q, reason)
  PROVE  DeathInv'
<1>1. p \in Threads /\ TerminalReason(reason) \in Deaths /\ p # Host
  BY Terminal, SupervisionAssumption DEF Threads
<1>2. ASSUME UNCHANGED slot, slot[q] \in {"present", "executing"}, Deliver(q, Exit(p, reason)) \/ UNCHANGED mail
      PROVE  \A x, y \in Pids : Informed(x, y) => Informed(x, y)' \/ tombs'[y] # None
  <2>1. Posted
    BY <1>2, ExitDelivered DEF DownInv
  <2> QED BY <2>1, PostedInforms DEF DownInv
<1>3. CASE ExitSignalPresent(p, q, reason) /\ ShouldDie(q, reason)
  <2> DEFINE st == Cleanup(q, TerminalReason(reason))
  <2>1. /\ MayCall(p) /\ Goto(p, st) /\ exited' = exited \cup {q}
        /\ UNCHANGED <<slot, links, shadow, mail, graves, bonds>>
    BY <1>3 DEF ExitSignalPresent, ghost
  <2>2. Only(p, st)
    BY <1>1, <2>1, Goes DEF ZombieInv
  <2>3. st.pc = "tomb" /\ st.pid = q /\ st.work = <<>> /\ st.cascade = <<>>
    BY Beginnings DEF Blank
  <2> HIDE DEF st
  <2>4. thread[p].pc \in {"idle", "run"}
    BY <1>1, <2>1, Callable
  <2>5. Unladen(thread[p].pc) /\ Unladen(st.pc)
    BY <2>3, <2>4, SlicesAreUnladen DEF SliceSteps
  <2>6. Grows
    BY <2>1, GrowsBy, SameMailInforms DEF DeathInv, CauseInv
  <2>7. \A x \in exited' \ exited : Owed(x)'
    BY <1>1, <2>1, <2>2, <2>3 DEF Owed, Only
  <2> QED BY <1>1, <2>1, <2>2, <2>3, <2>4, <2>5, <2>6, <2>7, StillStep
<1>4. CASE ExitSignalPresent(p, q, reason) /\ ~ShouldDie(q, reason)
  <2>1. /\ MayCall(p) /\ slot[q] = "present" /\ UNCHANGED <<thread, exited, slot, links, shadow, graves, bonds>>
        /\ Deliver(q, Exit(p, reason)) \/ UNCHANGED mail
    BY <1>4 DEF ExitSignalPresent, ghost
  <2>2. thread[p].pc = "run"
    BY <1>1, <2>1, Callable
  <2>3. Grows
    BY <1>2, <2>1, GrowsBy DEF DeathInv, CauseInv
  <2> QED BY <2>1, <2>2, <2>3, ThreadsStay
<1>5. CASE ExitSignalExecuting(p, q, reason)
  <2>1. /\ slot[q] = "executing" /\ Calls(p, "run", None) /\ UNCHANGED <<exited, slot, links, shadow, bonds>>
        /\ \/ Bury(q, TerminalReason(reason)) /\ UNCHANGED mail
           \/ UNCHANGED graves /\ (Deliver(q, Exit(p, reason)) \/ UNCHANGED mail)
    BY <1>5 DEF ExitSignalExecuting, body, ghost
  <2>2. Grows
    BY <1>1, <1>2, <2>1, GrowsBy DEF DeathInv, CauseInv
  <2> QED BY <1>1, <2>1, <2>2, DeathCalls
<1> QED BY <1>3, <1>4, <1>5

LEMMA DeathHost ==
  ASSUME ZombieInv, DownInv, DeathInv, DownInv', NEW q \in Pids,
         TerminateProcess(q) \/ SetTrapExit(q)
  PROVE  DeathInv'
<1>1. Host \in Threads
  BY DEF Threads
<1>2. UNCHANGED <<slot, exited, links, shadow, mail, graves, bonds>>
  BY DEF TerminateProcess, SetTrapExit, body, ghost
<1>3. Grows
  BY <1>2, GrowsBy, SameMailInforms DEF DeathInv, CauseInv
<1>4. CASE TerminateProcess(q)
  <2> DEFINE st == Cleanup(q, "error")
  <2>1. MayCall(Host) /\ Goto(Host, st)
    BY <1>4 DEF TerminateProcess
  <2>2. Only(Host, st)
    BY <1>1, <2>1, Goes DEF ZombieInv
  <2>3. st.pc = "tomb" /\ st.pid = q /\ st.work = <<>> /\ st.cascade = <<>>
    BY Beginnings DEF Blank
  <2> HIDE DEF st
  <2>4. thread[Host].pc \in {"idle", "run"}
    BY <1>1, <2>1, Callable
  <2>5. Unladen(thread[Host].pc) /\ Unladen(st.pc)
    BY <2>3, <2>4, SlicesAreUnladen DEF SliceSteps
  <2> QED BY <1>1, <1>2, <1>3, <2>2, <2>3, <2>4, <2>5, StillStep
<1>5. CASE SetTrapExit(q)
  BY <1>1, <1>2, <1>3, <1>5, DeathCalls DEF SetTrapExit
<1> QED BY <1>4, <1>5

LEMMA DeathTombstone ==
  ASSUME ZombieInv, DownInv, DeathInv, DownInv', NEW t \in Threads, InsertTombstone(t)
  PROVE  DeathInv'
<1> DEFINE r == thread[t]
           st == [r EXCEPT !.pc = "takeLinks"]
<1>1. /\ r.pc = "tomb" /\ Goto(t, st) /\ Bury(r.pid, TerminalReason(r.reason))
      /\ UNCHANGED <<slot, exited, links, shadow, mail, bonds>>
  BY DEF InsertTombstone, At, Jump, body, ghost
<1>2. Only(t, st)
  BY <1>1, Goes DEF ZombieInv
<1>3. Whole(r) /\ Fit(r) /\ r.pid \in Pids
  BY <1>1, CleanFit DEF CleanSteps
<1>4. Put(r, st, "pc", "takeLinks")
  BY <1>3, Fields
<1>5. Unladen(thread[t].pc) /\ thread[t].work = <<>> /\ thread[t].cascade = <<>>
  <2>1. Unladen(thread[t].pc)
    BY <1>1, SlicesAreUnladen
  <2> QED BY <2>1, NothingToSend
<1> HIDE DEF st
<1>6. /\ st.pc = "takeLinks" /\ st.pid = r.pid /\ st.reason = r.reason /\ st.work = <<>> /\ st.cascade = <<>>
  BY <1>4, <1>5 DEF Put
<1>7. r.reason \in Deaths /\ TerminalReason(r.reason) = r.reason
  BY <1>1, <1>3 DEF Fit, TerminalReason, Deaths
<1>8. r.reason \in causes'[r.pid] /\ tombs'[r.pid] # None
  BY <1>1, <1>3, <1>7, BuryCauses, BuryMarks DEF DownInv
<1>9. Grows
  BY <1>1, <1>3, <1>7, GrowsBy, SameMailInforms DEF DeathInv, CauseInv
<1>10. Unladen(st.pc)
  BY <1>6, SlicesAreUnladen
<1> QED BY <1>1, <1>2, <1>5, <1>6, <1>8, <1>9, <1>10, StillStep

LEMMA DeathTakeRunnable ==
  ASSUME ZombieInv, DownInv, DeathInv, DownInv', NEW p \in Pids, TakeRunnable(p)
  PROVE  DeathInv'
<1>1. p \in Threads /\ p # Host
  BY SupervisionAssumption DEF Threads
<1>2. /\ thread[p].pc = "idle" /\ slot[p] = "present" /\ slot' = [slot EXCEPT ![p] = "executing"]
      /\ shadow' = [shadow EXCEPT ![p] = links[p]] /\ Goto(p, Return(p))
      /\ UNCHANGED <<exited, links, mail, graves, bonds>>
  BY <1>1 DEF TakeRunnable, At, ghost, Return
<1>3. Only(p, Return(p))
  BY <1>1, <1>2, Goes DEF ZombieInv
<1>4. Return(p).pc = "run" /\ Return(p).work = <<>> /\ Return(p).cascade = <<>>
  BY <1>1, Beginnings DEF Blank
<1>5. /\ slot \in [Pids -> {"unborn", "present", "executing", "gone"}]
      /\ shadow \in [Pids -> Seq(Pids)]
  BY DEF ZombieInv, SlotInv, DownInv, MarkInv
<1>6. slot'[p] = "executing" /\ shadow'[p] = links[p]
      /\ \A x \in Pids : x # p => slot'[x] = slot[x] /\ shadow'[x] = shadow[x]
  BY <1>2, <1>5
<1>7. Grows
  BY <1>2, <1>6, GrowsBy, SameMailInforms DEF DeathInv, CauseInv
<1>8. TieInv'
  BY <1>1, <1>2, <1>3, <1>4, <1>6, <1>7, PairsKept DEF DeathInv
<1>9. \A x, y \in Pids : Holds(x, y) => Holds(x, y)'
  BY <1>2, <1>6 DEF Holds
<1>10. Unladen(thread[p].pc) /\ Unladen(Return(p).pc)
  BY <1>2, <1>4, SlicesAreUnladen DEF SliceSteps
<1> QED BY <1>1, <1>2, <1>3, <1>4, <1>7, <1>8, <1>9, <1>10, UnladenStep DEF Unladen

LEMMA DeathStore ==
  ASSUME ZombieInv, DownInv, DeathInv, DownInv', NEW p \in Pids, StoreRunnable(p)
  PROVE  DeathInv'
<1>1. /\ p \in Threads /\ thread[p].pc \in {"store", "storeDead"}
      /\ UNCHANGED <<exited, graves, bonds>>
  BY DEF StoreRunnable, Threads, ghost
<1>2. PICK st : /\ Only(p, st) /\ st.work = <<>> /\ st.cascade = <<>>
                /\ \/ st.pc = "tomb" /\ st.pid = p
                   \/ st.pc = "stored" /\ thread[p].pc = "store"
  <2>1. CASE thread[p].pc = "storeDead"
    <3>1. Goto(p, Cleanup(p, thread[p].reason))
      BY <2>1 DEF StoreRunnable, At
    <3> QED BY <1>1, <3>1, Goes, Beginnings DEF ZombieInv, Blank
  <2>2. CASE thread[p].pc = "store"
    <3> DEFINE st == [thread[p] EXCEPT !.pc = "stored"]
    <3>1. Goto(p, st)
      BY <2>2 DEF StoreRunnable, At, Jump
    <3>2. Put(thread[p], st, "pc", "stored")
      BY <1>1, Fields DEF ZombieInv, ThreadInv, ThreadOk
    <3>3. thread[p].work = <<>> /\ thread[p].cascade = <<>>
      BY <1>1, NothingToSend, SlicesAreUnladen
    <3>4. Only(p, st)
      BY <1>1, <3>1, Goes DEF ZombieInv
    <3> HIDE DEF st
    <3>5. st.pc = "stored" /\ st.work = <<>> /\ st.cascade = <<>>
      BY <3>2, <3>3 DEF Put
    <3> QED BY <2>2, <3>4, <3>5
  <2> QED BY <1>1, <2>1, <2>2
<1>3. /\ slot \in [Pids -> {"unborn", "present", "executing", "gone"}]
      /\ shadow \in [Pids -> Seq(Pids)] /\ links \in [Pids -> Seq(Pids)]
  BY DEF ZombieInv, SlotInv, DownInv, MarkInv
<1>4. \A x \in Pids : x # p => slot'[x] = slot[x] /\ shadow'[x] = shadow[x] /\ links'[x] = links[x]
  BY <1>3 DEF StoreRunnable
<1>5. \/ UNCHANGED <<slot, links, shadow>>
      \/ slot[p] = "executing" /\ slot'[p] = "present" /\ links'[p] = AddLinks(links[p], shadow[p], p)
  BY <1>3 DEF StoreRunnable
<1>6. Grows
  <2>1. Posted
    BY Merged DEF DownInv, ZombieInv
  <2>2. \A x, y \in Pids : Informed(x, y) => Informed(x, y)' \/ tombs'[y] # None
    BY <2>1, PostedInforms DEF DownInv
  <2> QED BY <1>1, <1>4, <1>5, <2>2, GrowsBy DEF DeathInv, CauseInv
<1>7. TieInv'
  <2>1. ASSUME NEW x \in Pids, thread[x].pc = "spawning", x # p
        PROVE  /\ links'[thread[x].peer] = links[thread[x].peer]
               /\ slot'[x] = slot[x] /\ shadow'[x] = shadow[x]
    <3>1. thread[x].peer \in Pids /\ slot[thread[x].peer] = "unborn"
      BY <2>1 DEF ZombieInv, SpawnInv
    <3> QED BY <1>4, <1>5, <2>1, <3>1
  <2> QED BY <1>1, <1>2, <1>6, <2>1, PairsKept DEF DeathInv
<1>8. ASSUME NEW x \in Pids, NEW y \in Pids, Holds(x, y), x # y PROVE Holds(x, y)'
  <2>1. CASE x # p \/ UNCHANGED <<slot, links, shadow>>
    BY <1>4, <1>8, <2>1 DEF Holds
  <2>2. CASE x = p /\ slot[p] = "executing" /\ slot'[p] = "present" /\ links'[p] = AddLinks(links[p], shadow[p], p)
    <3>1. Contains(shadow[p], y) /\ links[p] \in Seq(Pids) /\ shadow[p] \in Seq(Pids)
      BY <1>3, <1>8, <2>2 DEF Holds
    <3>2. Contains(links'[p], y)
      BY <1>8, <2>2, <3>1, LinksMerged
    <3> QED BY <2>2, <3>2 DEF Holds
  <2> QED BY <1>5, <2>1, <2>2
<1>9. Unladen(thread[p].pc) /\ Unladen(st.pc)
  BY <1>1, <1>2, SlicesAreUnladen
<1>10. thread[p].pc = "storeDead" => Owed(p)'
  BY <1>1, <1>2 DEF Owed, Only
<1> QED BY <1>1, <1>2, <1>6, <1>7, <1>8, <1>9, <1>10, UnladenStep DEF Unladen, Bound

(* add_link_to_slot and remove_link_from_slot change the links of a body   *)
(* in its slot or the shadow of one that is out.                           *)
LEMMA SlotChanges ==
  ASSUME DownInv, NEW a \in Pids, NEW b \in Pids, AddToSlot(a, b) \/ RemoveFromSlot(a, b),
         NEW x \in Pids
  PROVE  /\ slot[x] \notin {"present", "executing"} => links'[x] = links[x]
         /\ \A y : (AddToSlot(a, b) \/ x # a \/ y # b) =>
              /\ Contains(links[x], y) => Contains(links'[x], y)
              /\ Contains(shadow[x], y) => Contains(shadow'[x], y)
<1>1. links \in [Pids -> Seq(Pids)] /\ shadow \in [Pids -> Seq(Pids)]
  BY DEF DownInv, MarkInv
<1>2. CASE AddToSlot(a, b)
  <2>1. \/ UNCHANGED <<links, shadow>>
        \/ slot[a] = "present" /\ links' = [links EXCEPT ![a] = AddLink(@, b, a)] /\ shadow' = shadow
        \/ slot[a] = "executing" /\ shadow' = [shadow EXCEPT ![a] = AddLink(@, b, a)] /\ links' = links
    BY <1>2 DEF AddToSlot
  <2>2. /\ \A y : Contains(links[a], y) => Contains(AddLink(links[a], b, a), y)
        /\ \A y : Contains(shadow[a], y) => Contains(AddLink(shadow[a], b, a), y)
    BY <1>1, LinkStays
  <2>3. /\ \A y : Contains(links[x], y) => Contains(links'[x], y)
        /\ \A y : Contains(shadow[x], y) => Contains(shadow'[x], y)
    BY <1>1, <2>1, <2>2
  <2>4. slot[x] \notin {"present", "executing"} => links'[x] = links[x]
    BY <1>1, <2>1
  <2> QED BY <2>3, <2>4
<1>3. CASE RemoveFromSlot(a, b) /\ ~AddToSlot(a, b)
  <2>1. \/ UNCHANGED <<links, shadow>>
        \/ slot[a] = "present" /\ links' = [links EXCEPT ![a] = RemoveLink(@, b)] /\ shadow' = shadow
        \/ slot[a] = "executing" /\ shadow' = [shadow EXCEPT ![a] = RemoveLink(@, b)] /\ links' = links
    BY <1>3 DEF RemoveFromSlot
  <2>2. /\ \A y : y # b /\ Contains(links[a], y) => Contains(RemoveLink(links[a], b), y)
        /\ \A y : y # b /\ Contains(shadow[a], y) => Contains(RemoveLink(shadow[a], b), y)
    BY <1>1, OthersStay
  <2>3. /\ \A y : (x # a \/ y # b) /\ Contains(links[x], y) => Contains(links'[x], y)
        /\ \A y : (x # a \/ y # b) /\ Contains(shadow[x], y) => Contains(shadow'[x], y)
    BY <1>1, <2>1, <2>2
  <2>4. slot[x] \notin {"present", "executing"} => links'[x] = links[x]
    BY <1>1, <2>1
  <2> QED BY <1>3, <2>3, <2>4
<1> QED BY <1>2, <1>3

(* A step of p that adds a link, or removes one nobody is bound by. *)
LEMMA SlotStep ==
  ASSUME ZombieInv, DownInv, DeathInv, DownInv', NEW p \in Pids, NEW a \in Pids, NEW b \in Pids,
         AddToSlot(a, b) \/ RemoveFromSlot(a, b), UNCHANGED <<exited, slot, mail, graves>>,
         bonds' \subseteq bonds, NEW st, Only(p, st), st.work = <<>>, st.cascade = <<>>,
         thread[p].pc \in SliceSteps, st.pc \in SliceSteps \ {"spawning"},
         st.pc = "unlinkTarget" => {p, st.peer} \notin bonds',
         AddToSlot(a, b) \/ ({a, b} \notin bonds' /\ (a = p \/ b = p))
  PROVE  DeathInv'
<1>1. p \in Threads
  BY DEF Threads
<1>2. Grows
  BY GrowsBy, SameMailInforms DEF DeathInv, CauseInv
<1>3. slot[p] # "unborn"
  BY DEF ZombieInv, SpawnInv, SliceSteps
<1>4. TieInv'
  <2>1. ASSUME NEW x \in Pids, thread[x].pc = "spawning", x # p
        PROVE  /\ links'[thread[x].peer] = links[thread[x].peer]
               /\ Contains(shadow[x], thread[x].peer) => Contains(shadow'[x], thread[x].peer)
    <3>1. thread[x].peer \in Pids /\ slot[thread[x].peer] = "unborn"
      BY <2>1 DEF ZombieInv, SpawnInv
    <3>2. x # a \/ thread[x].peer # b \/ AddToSlot(a, b)
      BY <1>3, <2>1, <3>1
    <3>3. links'[thread[x].peer] = links[thread[x].peer]
      BY <3>1, SlotChanges
    <3>4. \A y : (AddToSlot(a, b) \/ x # a \/ y # b) => (Contains(shadow[x], y) => Contains(shadow'[x], y))
      BY SlotChanges
    <3> QED BY <3>2, <3>3, <3>4
  <2> QED BY <1>1, <1>2, <2>1, PairsKept DEF DeathInv
<1>5. ASSUME NEW x \in Pids, NEW y \in Pids, Holds(x, y), Bound(x, y)' PROVE Holds(x, y)'
  <2>1. {x, y} \in bonds'
    BY <1>5 DEF Bound
  <2>2. AddToSlot(a, b) \/ x # a \/ y # b
    BY <2>1
  <2> QED BY <1>5, <2>2, SlotChanges DEF Holds
<1>6. Unladen(thread[p].pc) /\ Unladen(st.pc) /\ thread[p].pc \notin {"storeDead", "tomb"} /\ st.pc # "takeLinks"
  BY SlicesAreUnladen DEF SliceSteps
<1> QED BY <1>1, <1>2, <1>4, <1>5, <1>6, UnladenStep DEF Unladen

LEMMA DeathLinkSteps ==
  ASSUME ZombieInv, DownInv, DeathInv, DownInv', NEW p \in Pids,
         LinkCaller(p) \/ LinkTarget(p) \/ UnlinkTarget(p)
  PROVE  DeathInv'
<1>1. /\ p \in Threads /\ p # Host /\ thread[p].pc \in {"linkCaller", "linkTarget", "unlinkTarget"}
      /\ UNCHANGED <<exited, slot, mail, graves, bonds>>
      /\ Goto(p, Return(p)) \/ Jump(p, "linkTarget")
  BY SupervisionAssumption DEF LinkCaller, LinkTarget, UnlinkTarget, Threads, At, ghost
<1>2. thread[p].peer \in Pids /\ thread[p].pc \in SliceSteps
  BY <1>1 DEF DownInv, MarkInv, Fit, CallSteps, SliceSteps
<1>3. thread[p].work = <<>> /\ thread[p].cascade = <<>>
  BY <1>1, <1>2, SlicesAreUnladen, NothingToSend
<1>4. PICK st : Only(p, st) /\ st.work = <<>> /\ st.cascade = <<>> /\ st.pc \in {"run", "linkTarget"}
  <2>1. CASE Goto(p, Return(p))
    BY <1>1, <2>1, Goes, Beginnings DEF ZombieInv, Blank
  <2>2. CASE Jump(p, "linkTarget")
    <3> DEFINE st == [thread[p] EXCEPT !.pc = "linkTarget"]
    <3>1. Only(p, st)
      BY <1>1, <2>2, Goes DEF ZombieInv, Jump
    <3>2. Put(thread[p], st, "pc", "linkTarget")
      BY <1>1, Fields DEF ZombieInv, ThreadInv, ThreadOk
    <3> HIDE DEF st
    <3> QED BY <1>3, <3>1, <3>2 DEF Put
  <2> QED BY <1>1, <2>1, <2>2
<1>5. CASE LinkCaller(p)
  <2>1. AddToSlot(p, thread[p].peer)
    BY <1>5 DEF LinkCaller
  <2> QED BY <1>1, <1>2, <1>4, <2>1, SlotStep DEF SliceSteps
<1>6. CASE LinkTarget(p)
  <2>1. AddToSlot(thread[p].peer, p)
    BY <1>6 DEF LinkTarget
  <2> QED BY <1>1, <1>2, <1>4, <2>1, SlotStep DEF SliceSteps
<1>7. CASE UnlinkTarget(p)
  <2>1. RemoveFromSlot(thread[p].peer, p) /\ thread[p].pc = "unlinkTarget"
    BY <1>7 DEF UnlinkTarget, At
  <2>2. {p, thread[p].peer} \notin bonds'
    BY <1>1, <2>1 DEF DeathInv, TieInv
  <2>3. {thread[p].peer, p} = {p, thread[p].peer}
    OBVIOUS
  <2> QED BY <1>1, <1>2, <1>4, <2>1, <2>2, <2>3, SlotStep DEF SliceSteps
<1> QED BY <1>5, <1>6, <1>7

LEMMA DeathUnlink ==
  ASSUME ZombieInv, DownInv, DeathInv, DownInv', NEW p \in Pids, NEW q \in Pids, UnlinkCaller(p, q)
  PROVE  DeathInv'
<1>1. /\ p \in Threads /\ p # Host /\ UNCHANGED <<exited, slot, mail, graves>>
      /\ bonds' = bonds \ {{p, q}} /\ Calls(p, "unlinkTarget", q) /\ RemoveFromSlot(p, q)
  BY SupervisionAssumption DEF UnlinkCaller, Threads
<1>2. PICK st : /\ Only(p, st) /\ st.pc = "unlinkTarget" /\ st.peer = q /\ Carries(st, thread[p])
                /\ thread[p].pc = "run"
  BY <1>1, CallsTo
<1>3. st.work = <<>> /\ st.cascade = <<>>
  BY <1>1, <1>2, SlicesAreUnladen, NothingToSend DEF SliceSteps
<1>4. bonds' \subseteq bonds /\ {p, q} \notin bonds'
  BY <1>1
<1> QED BY <1>1, <1>2, <1>3, <1>4, SlotStep DEF SliceSteps

LEMMA DeathSpawn ==
  ASSUME ZombieInv, DownInv, DeathInv, DownInv', NEW p \in Pids, NEW q \in Pids, SpawnLink(p, q)
  PROVE  DeathInv'
<1>1. /\ p \in Threads /\ p # Host /\ UNCHANGED <<exited, slot, mail, graves, bonds>>
      /\ slot[q] = "unborn" /\ q \notin table /\ Calls(p, "spawning", q)
      /\ links' = [links EXCEPT ![q] = <<p>>]
      /\ shadow' = IF slot[p] = "executing" THEN [shadow EXCEPT ![p] = AddLink(@, q, p)] ELSE shadow
  BY SupervisionAssumption DEF SpawnLink, Threads, ghost
<1>2. PICK st : /\ Only(p, st) /\ st.pc = "spawning" /\ st.peer = q /\ Carries(st, thread[p])
                /\ thread[p].pc = "run"
  BY <1>1, CallsTo
<1>3. st.work = <<>> /\ st.cascade = <<>>
  BY <1>1, <1>2, SlicesAreUnladen, NothingToSend DEF SliceSteps
<1>4. slot[p] # "unborn" /\ p # q
  BY <1>1, <1>2 DEF ZombieInv, SpawnInv
<1>5. links \in [Pids -> Seq(Pids)] /\ shadow \in [Pids -> Seq(Pids)]
  BY DEF DownInv, MarkInv
<1>6. /\ \A x \in Pids : x # q => links'[x] = links[x]
      /\ links'[q] = <<p>> /\ Contains(links'[q], p)
  BY <1>1, <1>5 DEF Contains
<1>7. /\ \A x \in Pids : \A y : Contains(shadow[x], y) => Contains(shadow'[x], y)
      /\ slot[p] = "executing" => Contains(shadow'[p], q)
  <2>1. shadow[p] \in Seq(Pids)
    BY <1>5
  <2>2. Contains(AddLink(shadow[p], q, p), q) /\ \A y : Contains(shadow[p], y) => Contains(AddLink(shadow[p], q, p), y)
    BY <1>4, <2>1, LinkIsIn, LinkStays
  <2> QED BY <1>1, <1>5, <2>2
<1>8. Grows
  BY <1>1, GrowsBy, SameMailInforms DEF DeathInv, CauseInv
<1>9. TieInv'
  <2>1. ASSUME NEW b \in bonds'
        PROVE  \E x, y \in Pids : b = {x, y} /\ slot'[x] # "unborn" /\ slot'[y] # "unborn"
    BY <1>1 DEF DeathInv, TieInv
  <2>2. \A x \in Pids : x # p => thread'[x] = thread[x]
    BY <1>2 DEF Only, Threads
  <2>3. ASSUME NEW x \in Pids, thread'[x].pc = "unlinkTarget" PROVE {x, thread'[x].peer} \notin bonds'
    <3>1. x # p
      BY <1>2, <2>3 DEF Only
    <3>2. thread'[x] = thread[x]
      BY <2>2, <3>1
    <3>3. {x, thread[x].peer} \notin bonds
      BY <2>3, <3>2 DEF DeathInv, TieInv
    <3> QED BY <1>1, <3>2, <3>3
  <2>4. ASSUME NEW x \in Pids, thread'[x].pc = "spawning"
        PROVE  /\ Contains(links'[thread'[x].peer], x)
               /\ slot'[x] = "executing" => Contains(shadow'[x], thread'[x].peer)
    <3>1. CASE x = p
      BY <1>1, <1>2, <1>6, <1>7, <3>1 DEF Only
    <3>2. CASE x # p
      <4>1. thread'[x] = thread[x]
        BY <2>2, <3>2
      <4>2. thread[x].peer \in table /\ thread[x].peer \in Pids
        BY <2>4, <4>1 DEF ZombieInv, SpawnInv
      <4>3. thread[x].peer # q
        BY <1>1, <4>2
      <4>4. Contains(links[thread[x].peer], x) /\ (slot[x] = "executing" => Contains(shadow[x], thread[x].peer))
        BY <2>4, <4>1 DEF DeathInv, TieInv
      <4> QED BY <1>1, <1>6, <1>7, <4>1, <4>2, <4>3, <4>4
    <3> QED BY <3>1, <3>2
  <2> QED BY <2>1, <2>3, <2>4 DEF TieInv
<1>10. \A x, y \in Pids : Holds(x, y) => Holds(x, y)'
  BY <1>1, <1>6, <1>7 DEF Holds
<1>11. Unladen(thread[p].pc) /\ Unladen(st.pc)
  BY <1>2, SlicesAreUnladen DEF SliceSteps
<1> QED BY <1>1, <1>2, <1>3, <1>8, <1>9, <1>10, <1>11, UnladenStep DEF Unladen

LEMMA DeathPublish ==
  ASSUME ZombieInv, DownInv, DeathInv, DownInv', NEW p \in Pids, SpawnPublish(p)
  PROVE  DeathInv'
<1>1. /\ p \in Threads /\ p # Host /\ UNCHANGED <<exited, links, shadow, mail, graves>>
      /\ thread[p].pc = "spawning" /\ Goto(p, Return(p))
  BY SupervisionAssumption DEF SpawnPublish, Threads, At
<1>2. PICK w \in Pids : w = thread[p].peer
  BY <1>1 DEF ZombieInv, SpawnInv
<1>3. slot' = [slot EXCEPT ![w] = "present"] /\ bonds' = IF tombs[p] = None THEN bonds \cup {{p, w}} ELSE bonds
  BY <1>2 DEF SpawnPublish
<1>4. slot[w] = "unborn" /\ tombs[w] = None /\ slot[p] # "unborn" /\ p # w
  BY <1>1, <1>2 DEF ZombieInv, SpawnInv
<1>5. Contains(links[w], p) /\ (slot[p] = "executing" => Contains(shadow[p], w))
  BY <1>1, <1>2 DEF DeathInv, TieInv
<1>6. tombs[p] = None => slot[p] = "executing"
  <2>1. slot[p] # "present"
    BY <1>1 DEF ZombieInv, SlotInv, Back, CleanSteps
  <2>2. slot[p] = "gone" => tombs[p] # None
    BY DEF DownInv, MarkInv
  <2>3. slot[p] \in {"unborn", "present", "executing", "gone"}
    BY DEF ZombieInv, SlotInv
  <2> QED BY <1>4, <2>1, <2>2, <2>3
<1>7. slot'[w] = "present" /\ \A x \in Pids : x # w => slot'[x] = slot[x]
  BY <1>3 DEF ZombieInv, SlotInv
<1>8. Only(p, Return(p))
  BY <1>1, Goes DEF ZombieInv
<1>9. Return(p).pc = "run" /\ Return(p).work = <<>> /\ Return(p).cascade = <<>>
  BY <1>1, Beginnings DEF Blank
<1>10. Grows
  BY <1>1, <1>7, GrowsBy, SameMailInforms DEF DeathInv, CauseInv
<1>11. CauseInv'
  <2>1. Loaded(Return(p)) /\ Caused(Return(p), causes')
    BY <1>9 DEF Loaded, Caused, Reasoned, CleanSteps
  <2> QED BY <1>1, <1>8, <1>10, <2>1, CausesKept DEF DeathInv, DownInv
<1>12. \A x \in Pids : x # p => thread'[x] = thread[x]
  BY <1>8 DEF Only, Threads
<1>13. TieInv'
  <2>1. ASSUME NEW b \in bonds'
        PROVE  \E x, y \in Pids : b = {x, y} /\ slot'[x] # "unborn" /\ slot'[y] # "unborn"
    <3>1. CASE b \in bonds
      BY <1>7, <3>1 DEF DeathInv, TieInv
    <3>2. CASE b = {p, w}
      BY <1>4, <1>7, <3>2
    <3> QED BY <1>3, <2>1, <3>1, <3>2
  <2>2. ASSUME NEW x \in Pids, thread'[x].pc = "unlinkTarget" PROVE {x, thread'[x].peer} \notin bonds'
    <3>1. x # p
      BY <1>8, <1>9, <2>2 DEF Only
    <3>2. thread'[x] = thread[x]
      BY <1>12, <3>1
    <3>3. {x, thread[x].peer} \notin bonds
      BY <2>2, <3>2 DEF DeathInv, TieInv
    <3>4. x # w
      BY <1>4, <2>2, <3>2 DEF ZombieInv, SpawnInv
    <3>5. {x, thread[x].peer} # {p, w}
      BY <3>1, <3>4
    <3> QED BY <1>3, <3>2, <3>3, <3>5
  <2>3. ASSUME NEW x \in Pids, thread'[x].pc = "spawning"
        PROVE  /\ Contains(links'[thread'[x].peer], x)
               /\ slot'[x] = "executing" => Contains(shadow'[x], thread'[x].peer)
    <3>1. x # p
      BY <1>8, <1>9, <2>3 DEF Only
    <3>2. thread'[x] = thread[x]
      BY <1>12, <3>1
    <3>3. x # w
      BY <1>4, <2>3, <3>2 DEF ZombieInv, SpawnInv
    <3> QED BY <1>1, <1>7, <2>3, <3>2, <3>3 DEF DeathInv, TieInv
  <2> QED BY <2>1, <2>2, <2>3 DEF TieInv
<1>14. ASSUME NEW x \in Pids, NEW y \in Pids, Bound(x, y)'
       PROVE  /\ Holds(x, y)' \/ Reached(x, y)'
              /\ (\E u \in Threads : Past(thread'[u], x)) => Reached(x, y)'
  <2>1. CASE {x, y} \in bonds
    <3>1. Bound(x, y)
      <4>1. x # y /\ "normal" \notin causes'[x] /\ causes' = causes
        BY <1>1, <1>14 DEF Bound, graves
      <4> QED BY <2>1, <4>1 DEF Bound
    <3>2. Holds(x, y) => Holds(x, y)'
      BY <1>1, <1>4, <1>7 DEF Holds
    <3>3. ~Sends(thread[p], x, y)
      <4>1. thread[p].work = <<>> /\ thread[p].cascade = <<>>
        BY <1>1, SlicesAreUnladen, NothingToSend DEF SliceSteps
      <4> QED BY <4>1 DEF Sends, Listed
    <3>4. ~Past(Return(p), x)
      BY <1>9 DEF Past, CleanSteps
    <3> QED BY <1>1, <1>8, <1>10, <3>1, <3>2, <3>3, <3>4, BondKept DEF DeathInv
  <2>2. CASE {x, y} \notin bonds
    <3>1. {x, y} = {p, w} /\ tombs[p] = None /\ x # y
      BY <1>3, <1>14, <2>2 DEF Bound
    <3>2. (x = p /\ y = w) \/ (x = w /\ y = p)
      BY <3>1
    <3>3. Holds(x, y)'
      BY <1>1, <1>4, <1>5, <1>6, <1>7, <3>1, <3>2 DEF Holds
    <3>4. tombs'[x] = None
      BY <1>1, <1>4, <3>1, <3>2 DEF graves
    <3>5. ASSUME NEW u \in Threads, Past(thread'[u], x) PROVE FALSE
      <4>1. Fit(thread'[u]) /\ Buried(thread[u])'
        BY DEF DownInv, MarkInv
      <4> QED BY <3>4, <3>5, <4>1 DEF Past, Fit, Buried
    <3> QED BY <3>3, <3>5
  <2> QED BY <2>1, <2>2
<1>15. BondInv'
  BY <1>14 DEF BondInv, Past
<1> QED BY <1>11, <1>13, <1>15 DEF DeathInv

(* A step of a clean-up that keeps its signals. *)
LEMMA LadenStep ==
  ASSUME ZombieInv, DownInv, DeathInv, DownInv', Grows, NEW t \in Threads, NEW st, Only(t, st),
         thread[t].pc \notin {"storeDead", "tomb"}, Loaded(st), Caused(st, causes'),
         st.pc \notin {"unlinkTarget", "spawning"},
         \A p \in exited' \ exited : Owed(p)', UNCHANGED bonds,
         \A p \in Pids : thread[p].pc = "spawning" /\ p # t =>
           /\ links'[thread[p].peer] = links[thread[p].peer]
           /\ slot'[p] = "executing" => /\ slot[p] = "executing"
                                        /\ Contains(shadow[p], thread[p].peer) => Contains(shadow'[p], thread[p].peer),
         \A p, q \in Pids : Bound(p, q)' /\ Sends(thread[t], p, q) =>
           Sends(st, p, q) \/ tombs'[q] # None \/ q \in exited' \/ Informed(p, q)',
         \A p, q \in Pids : Bound(p, q)' /\ Holds(p, q) => Holds(p, q)' \/ Reached(p, q)',
         \A p, q \in Pids : Bound(p, q)' /\ Past(st, p) /\ ~Past(thread[t], p) /\ Holds(p, q) => Reached(p, q)'
  PROVE  DeathInv'
<1>1. CauseInv'
  BY CausesKept DEF DeathInv, DownInv
<1>2. TieInv'
  BY PairsKept DEF DeathInv
<1>3. BondInv'
  BY BondsKept DEF DeathInv
<1> QED BY <1>1, <1>2, <1>3 DEF DeathInv

(* What a thread has to send it still has after Carries. *)
LEMMA StillSends ==
  ASSUME NEW r, NEW s, Fit(r), Carries(s, r)
  PROVE  /\ \A p, q : Sends(r, p, q) => Sends(s, p, q)
         /\ \A C : Reasoned(r.work, C) /\ Reasoned(r.cascade, C) => Reasoned(s.work, C) /\ Reasoned(s.cascade, C)
<1> DEFINE w == r.work
           c == r.cascade
<1>1. w \in Seq(ExitSignals) /\ c \in Seq(ExitSignals)
  BY DEF Fit
<1>2. \/ s.work = w /\ s.cascade = c
      \/ s.work = w \o c /\ s.cascade = <<>>
  BY DEF Carries
<1> HIDE DEF w, c
<1>3. /\ \A p, q : Listed(w, p, q) \/ Listed(c, p, q) => Listed(w \o c, p, q)
      /\ \A C : Reasoned(w, C) /\ Reasoned(c, C) => Reasoned(w \o c, C)
  BY <1>1, JoinedLists
<1>4. \A C : Reasoned(<<>>, C)
  BY DEF Reasoned
<1> QED BY <1>2, <1>3, <1>4 DEF Sends, w, c

LEMMA DrainedLoaded ==
  ASSUME NEW e, Whole(e), e.pc \in {"downs", "signal"}, e.pc = "signal" => e.cascade = <<>>
  PROVE  Loaded(Drained(e))
<1>1. CASE e.pc = "signal" /\ e.work = <<>>
  <2> DEFINE d == Drained(e)
  <2>1. d.work = e.work /\ d.cascade = e.cascade
    BY DrainedStands
  <2>2. d.work = <<>> /\ d.cascade = <<>>
    BY <1>1, <2>1
  <2> HIDE DEF d
  <2> QED BY <2>2 DEF Loaded, d
<1>2. CASE ~(e.pc = "signal" /\ e.work = <<>>)
  <2>1. Drained(e) = e
    BY <1>2 DEF Drained
  <2> QED BY <2>1 DEF Loaded, CleanSteps
<1> QED BY <1>1, <1>2

(* Where the next signal, the next DOWN or the end of a clean-up is. *)
LEMMA AdvanceLoaded ==
  ASSUME NEW r, Whole(r), Fit(r), r.pc \in {"downs", "signal"}, r.pc = "signal" => r.cascade = <<>>
  PROVE  Loaded(Advance(r)) /\ Carries(Advance(r), r) /\ Advance(r).pc \in {"downs", "signal", "spendToken"}
<1> DEFINE s == Advance(r)
<1>1. Carries(s, r) /\ s.pc \in {"downs", "signal", "spendToken"}
  BY AdvanceStands
<1>2. ASSUME NEW e, Whole(e), e.pc \in {"downs", "signal"}, e.pc = "signal" => e.cascade = <<>>
      PROVE  Loaded(Drained(e))
  BY <1>2, DrainedLoaded
<1>3. CASE r.pc = "downs" /\ r.downs = {} /\ r.phase = "present"
  <2>1. s = [r EXCEPT !.pc = "spendToken"]
    BY <1>3 DEF Advance
  <2>2. Put(r, [r EXCEPT !.pc = "spendToken"], "pc", "spendToken")
    BY Fields
  <2> HIDE DEF s
  <2>3. s.pc = "spendToken" /\ s.phase = "present"
    BY <1>3, <2>1, <2>2 DEF Put
  <2>4. Loaded(s)
    BY <2>3 DEF Loaded, CleanSteps
  <2> QED BY <1>1, <2>4 DEF s
<1>4. CASE r.pc = "downs" /\ r.downs = {} /\ r.phase # "present"
  <2>1. s = Drained(Extend(r))
    BY <1>4 DEF Advance
  <2>2. Whole(Extend(r)) /\ Extend(r).pc = "signal" /\ Extend(r).cascade = <<>>
    <3>1. Whole(Extend(r)) /\ Extend(r).pc = "signal"
      BY Extended
    <3>2. Extend(r).cascade = <<>>
      BY Extended
    <3> QED BY <3>1, <3>2
  <2>3. Loaded(s)
    <3> HIDE DEF s
    <3> QED BY <1>2, <2>1, <2>2
  <2> QED BY <1>1, <2>3
<1>5. CASE ~(r.pc = "downs" /\ r.downs = {})
  <2>1. s = Drained(r)
    BY <1>5 DEF Advance
  <2>2. Loaded(s)
    <3> HIDE DEF s
    <3> QED BY <1>2, <2>1
  <2> QED BY <1>1, <2>2
<1> QED BY <1>3, <1>4, <1>5

LEMMA AdvancePast ==
  ASSUME NEW r, Whole(r), r.pc \in {"downs", "signal"}, NEW p, Past(Advance(r), p)
  PROVE  Past(r, p)
<1> DEFINE s == Advance(r)
<1>1. /\ s.pid = r.pid
      /\ \/ s.pc = "spendToken" /\ s.dying = r.pid /\ s.phase = "last"
         \/ s.dying = r.dying /\ s.phase = r.phase
  BY AdvanceStands
<1> HIDE DEF s
<1>2. Past(s, p)
  BY DEF s
<1> QED BY <1>1, <1>2 DEF Past, CleanSteps

LEMMA DeathTakeLinks ==
  ASSUME ZombieInv, DownInv, DeathInv, DownInv', NEW t \in Threads, TakeLinks(t)
  PROVE  DeathInv'
<1> DEFINE r == thread[t]
<1>0. PICK p \in Pids : p = r.pid
  BY DEF TakeLinks, At, ZombieInv, ThreadInv, ThreadOk, CleanSteps
<1> DEFINE found == CASE slot[p] = "present"   -> links[p]
                      [] slot[p] = "executing" -> shadow[p]
                      [] OTHER                 -> <<>>
           w == Signalled(p, found, TerminalReason(r.reason))
           s == [r EXCEPT !.pc = "collect"]
           st == [s EXCEPT !.work = w]
<1>1. /\ r.pc = "takeLinks" /\ Goto(t, st)
      /\ links' = IF slot[p] = "present" THEN [links EXCEPT ![p] = <<>>] ELSE links
      /\ UNCHANGED <<slot, exited, shadow, mail, graves, bonds>>
  BY <1>0 DEF TakeLinks, At, ghost
<1>2. Only(t, st)
  BY <1>1, Goes DEF ZombieInv
<1>3. Whole(r) /\ Fit(r) /\ r.phase = "top" /\ slot[p] # "unborn"
  BY <1>0, <1>1, CleanFit, CleanFacts DEF CleanSteps, Fit
<1>4. links \in [Pids -> Seq(Pids)] /\ shadow \in [Pids -> Seq(Pids)]
  BY DEF DownInv, MarkInv
<1>5. found \in Seq(Pids) /\ \A q \in Pids : Holds(p, q) => Contains(found, q)
  BY <1>3, <1>4 DEF Holds
<1>6. TerminalReason(r.reason) \in causes[p]
  <2>1. r.reason \in Deaths
    BY <1>1, <1>3 DEF Fit
  <2>2. r.reason \in causes[p]
    BY <1>0, <1>1 DEF DeathInv, CauseInv, Caused
  <2> QED BY <2>1, <2>2 DEF TerminalReason, Deaths
<1>7. Unladen(r.pc) /\ r.work = <<>> /\ r.cascade = <<>>
  BY <1>1, SlicesAreUnladen, NothingToSend
<1> HIDE DEF found
<1>8. Reasoned(w, causes) /\ \A q \in Pids : Holds(p, q) => Listed(w, p, q)
  BY <1>3, <1>5, <1>6, SignalReasoned, SignalListed
<1>9. \A x \in Pids : x # p => links'[x] = links[x]
  BY <1>1, <1>4
<1> HIDE DEF w
<1>10. Put(r, s, "pc", "collect")
  BY <1>3, Fields
<1> HIDE DEF s
<1>11. Put(s, st, "work", w)
  BY <1>10, PutWhole, Fields
<1> HIDE DEF st
<1>12. st.pc = "collect" /\ st.pid = p /\ st.phase = "top" /\ st.work = w /\ st.cascade = <<>>
  BY <1>0, <1>3, <1>7, <1>10, <1>11 DEF Put
<1>13. Loaded(st) /\ Caused(st, causes')
  BY <1>1, <1>8, <1>12 DEF Loaded, Caused, Reasoned, graves, CleanSteps
<1>14. Grows
  BY <1>1, GrowsBy, SameMailInforms DEF DeathInv, CauseInv
<1>15. ASSUME NEW x \in Pids, thread[x].pc = "spawning"
       PROVE  links'[thread[x].peer] = links[thread[x].peer]
  <2>1. thread[x].peer \in Pids /\ slot[thread[x].peer] = "unborn"
    BY <1>15 DEF ZombieInv, SpawnInv
  <2> QED BY <1>3, <1>9, <2>1
<1>16. ASSUME NEW q \in Pids, Holds(p, q) PROVE Reached(p, q)'
  <2>1. Sends(st, p, q)
    BY <1>8, <1>12, <1>16 DEF Sends
  <2> QED BY <1>2, <2>1 DEF Reached, Only, Sends
<1>17. \A x, q \in Pids : Holds(x, q) => Holds(x, q)' \/ Reached(x, q)'
  <2>1. ASSUME NEW x \in Pids, NEW q \in Pids, Holds(x, q), x # p PROVE Holds(x, q)'
    BY <1>1, <1>9, <2>1 DEF Holds
  <2> QED BY <1>16, <2>1
<1>18. \A x \in Pids : Past(st, x) => x = p
  BY <1>12 DEF Past
<1>19. \A x, q \in Pids : ~Sends(thread[t], x, q)
  BY <1>7 DEF Sends, Listed
<1> HIDE DEF r
<1>20. thread[t].pc = "takeLinks"
  BY <1>1 DEF r
<1> QED BY <1>1, <1>2, <1>12, <1>13, <1>14, <1>15, <1>16, <1>17, <1>18, <1>19, <1>20, LadenStep

(* A clean-up that goes on with its DOWNs. *)
LEMMA DownsGoOn ==
  ASSUME ZombieInv, DownInv, DeathInv, DownInv', Grows, NEW t \in Threads,
         thread[t].pc \in {"collect", "downs"},
         NEW r, Whole(r), Fit(r), r.pc = "downs", r.pid = thread[t].pid, r.dying = thread[t].dying,
         r.phase = thread[t].phase, r.work = thread[t].work, r.cascade = thread[t].cascade,
         Goto(t, Advance(r)), UNCHANGED <<exited, slot, links, shadow, graves, bonds>>
  PROVE  DeathInv'
<1> DEFINE st == Advance(r)
<1>1. Only(t, st)
  BY Goes DEF ZombieInv
<1>2. Loaded(st) /\ Carries(st, r) /\ st.pc \in {"downs", "signal", "spendToken"}
  BY AdvanceLoaded
<1>3. \A p : Past(st, p) => Past(thread[t], p)
  <2>1. \A p : Past(st, p) => Past(r, p)
    BY AdvancePast
  <2> QED BY <2>1 DEF Past, CleanSteps
<1> HIDE DEF st
<1>4. Reasoned(thread[t].work, causes) /\ Reasoned(thread[t].cascade, causes)
  BY DEF DeathInv, CauseInv, Caused
<1>5. Reasoned(st.work, causes) /\ Reasoned(st.cascade, causes) /\ \A p, q : Sends(r, p, q) => Sends(st, p, q)
  BY <1>2, <1>4, StillSends
<1>6. Caused(st, causes')
  BY <1>2, <1>5 DEF Caused, Reasoned, graves
<1>7. \A p, q : Sends(thread[t], p, q) => Sends(st, p, q)
  BY <1>5 DEF Sends
<1>8. \A p, q \in Pids : Holds(p, q) => Holds(p, q)'
  BY DEF Holds
<1> QED BY <1>1, <1>2, <1>3, <1>6, <1>7, <1>8, LadenStep

LEMMA DeathCollect ==
  ASSUME ZombieInv, DownInv, DeathInv, DownInv', NEW t \in Threads, CollectWatchers(t)
  PROVE  DeathInv'
<1> DEFINE found == {m \in monitors : m.target = thread[t].dying}
           s == [thread[t] EXCEPT !.pc = "downs"]
           r == [s EXCEPT !.downs = found]
<1>1. /\ thread[t].pc = "collect" /\ Goto(t, Advance(r))
      /\ UNCHANGED <<exited, slot, links, shadow, mail, graves, bonds>>
  BY DEF CollectWatchers, At, body, ghost
<1>2. Whole(thread[t]) /\ Fit(thread[t])
  BY <1>1, CleanFit DEF CleanSteps
<1>3. found \subseteq Monitors
  BY DEF DownInv, WatchInv, RefInv
<1> HIDE DEF found
<1>4. Put(thread[t], s, "pc", "downs")
  BY <1>2, Fields
<1> HIDE DEF s
<1>5. Put(s, r, "downs", found)
  BY <1>4, PutWhole, Fields
<1> HIDE DEF r
<1>6. /\ Whole(r) /\ r.pc = "downs" /\ r.pid = thread[t].pid /\ r.dying = thread[t].dying
      /\ r.phase = thread[t].phase /\ r.work = thread[t].work /\ r.cascade = thread[t].cascade
      /\ r.downs = found
  BY <1>4, <1>5 DEF Put
<1>7. Fit(r)
  BY <1>1, <1>2, <1>3, <1>6 DEF Fit, CleanSteps, CallSteps
<1>8. Grows
  BY <1>1, GrowsBy, SameMailInforms DEF DeathInv, CauseInv
<1> QED BY <1>1, <1>6, <1>7, <1>8, DownsGoOn

LEMMA DeathDeliver ==
  ASSUME ZombieInv, DownInv, DeathInv, DownInv', NEW t \in Threads, DeliverDown(t)
  PROVE  DeathInv'
<1>1. /\ thread[t].pc \in {"downs", "downNow"} /\ UNCHANGED <<exited, slot, links, shadow, graves, bonds>>
  BY DEF DeliverDown, body, ghost
<1>2. PICK m \in thread[t].downs :
        /\ UNCHANGED mail \/ (slot[m.watcher] \in {"present", "executing"} /\ Deliver(m.watcher, Down(m.ref, m.target)))
        /\ Goto(t, IF thread[t].pc = "downNow" THEN Return(t) ELSE Advance([thread[t] EXCEPT !.downs = @ \ {m}]))
  BY DEF DeliverDown, At
<1>3. Whole(thread[t]) /\ Fit(thread[t])
  BY DEF ZombieInv, ThreadInv, ThreadOk, DownInv, MarkInv
<1>4. m.watcher \in Pids /\ m.target \in Pids /\ m.ref \in Nat
  BY <1>2, <1>3 DEF Fit, Monitors
<1>5. \A x, y \in Pids : Informed(x, y) => Informed(x, y)' \/ tombs'[y] # None
  <2>1. CASE UNCHANGED mail
    BY <2>1, SameMailInforms
  <2>2. CASE slot[m.watcher] \in {"present", "executing"} /\ Deliver(m.watcher, Down(m.ref, m.target))
    <3> DEFINE l == Down(m.ref, m.target)
    <3>1. l \in Letters
      BY <1>4, LettersAre
    <3> HIDE DEF l
    <3>2. Box(m.watcher)' = Append(Box(m.watcher), l) /\ \A y \in Pids : y # m.watcher => Box(y)' = Box(y)
      BY <1>1, <1>4, <2>2, <3>1, Delivered DEF DownInv, l
    <3>3. \A y \in Pids : Box(y)' = Box(y) \/ \E k \in Letters : Box(y)' = Append(Box(y), k)
      BY <3>1, <3>2
    <3> QED BY <3>3, LettersInform DEF DownInv
  <2> QED BY <1>2, <2>1, <2>2
<1>6. Grows
  BY <1>1, <1>5, GrowsBy DEF DeathInv, CauseInv
<1>7. CASE thread[t].pc = "downNow"
  <2>1. Only(t, Return(t))
    BY <1>2, <1>7, Goes DEF ZombieInv
  <2>2. Return(t).pc \in {"idle", "run"} /\ Return(t).work = <<>> /\ Return(t).cascade = <<>>
    BY Beginnings DEF Blank
  <2>3. Unladen(thread[t].pc) /\ Unladen(Return(t).pc)
    BY <1>7, <2>2, SlicesAreUnladen DEF SliceSteps
  <2> QED BY <1>1, <1>6, <1>7, <2>1, <2>2, <2>3, StillStep
<1>8. CASE thread[t].pc = "downs"
  <2> DEFINE left == thread[t].downs \ {m}
             r == [thread[t] EXCEPT !.downs = left]
  <2>1. Goto(t, Advance(r))
    BY <1>2, <1>8
  <2>2. Put(thread[t], r, "downs", left)
    <3> HIDE DEF left
    <3> QED BY <1>3, Fields
  <2> HIDE DEF r
  <2>3. /\ Whole(r) /\ r.pc = "downs" /\ r.pid = thread[t].pid /\ r.dying = thread[t].dying
        /\ r.phase = thread[t].phase /\ r.work = thread[t].work /\ r.cascade = thread[t].cascade
        /\ r.downs \subseteq thread[t].downs
    BY <1>8, <2>2 DEF Put
  <2>4. Fit(r)
    BY <1>3, <1>8, <2>3 DEF Fit, CleanSteps, CallSteps
  <2> QED BY <1>1, <1>6, <1>8, <2>1, <2>3, <2>4, DownsGoOn
<1> QED BY <1>1, <1>7, <1>8

(* The ends of a bond have been published. *)
LEMMA BoundAreBorn ==
  ASSUME DeathInv, NEW p \in Pids, NEW q \in Pids, {p, q} \in bonds
  PROVE  slot[p] # "unborn" /\ slot[q] # "unborn"
<1>1. PICK x, y \in Pids : {p, q} = {x, y} /\ slot[x] # "unborn" /\ slot[y] # "unborn"
  BY DEF DeathInv, TieInv
<1>2. (p = x \/ p = y) /\ (q = x \/ q = y)
  BY <1>1
<1> QED BY <1>1, <1>2

(* What a thread at its signals is about to send. *)
LEMMA NextSignal ==
  ASSUME ZombieInv, DownInv, DeathInv, NEW t \in Threads, thread[t].pc = "signal",
         thread[t].work # <<>>
  PROVE  LET s == Head(thread[t].work)
             w == Tail(thread[t].work)
         IN  /\ s \in ExitSignals /\ s.from \in Pids /\ s.to \in Pids /\ s.reason \in Deaths
             /\ TerminalReason(s.reason) = s.reason
             /\ s.reason \in causes[s.from] /\ tombs[s.from] # None /\ slot[s.from] # "unborn"
             /\ thread[t].cascade = <<>> /\ w \in Seq(ExitSignals) /\ Reasoned(w, causes)
             /\ Whole(thread[t]) /\ Fit(thread[t]) /\ thread[t].pid \in Pids
             /\ \A p, q : Sends(thread[t], p, q) => Listed(w, p, q) \/ (p = s.from /\ q = s.to)
<1> DEFINE s == Head(thread[t].work)
           w == Tail(thread[t].work)
<1>1. Whole(thread[t]) /\ Fit(thread[t]) /\ thread[t].pid \in Pids
  BY CleanFit DEF CleanSteps
<1>2. thread[t].work \in Seq(ExitSignals)
  BY <1>1 DEF Fit
<1>3. s \in ExitSignals /\ w \in Seq(ExitSignals)
  BY <1>2
<1>4. Reasoned(thread[t].work, causes) /\ thread[t].cascade = <<>>
  BY DEF DeathInv, CauseInv, Caused, Loaded
<1>5. /\ Reasoned(w, causes) /\ s.reason \in causes[s.from]
      /\ \A p, q : Listed(thread[t].work, p, q) => Listed(w, p, q) \/ (s.from = p /\ s.to = q)
  BY <1>2, <1>4, RestOfList
<1> HIDE DEF s, w
<1>6. s.from \in Pids /\ s.to \in Pids /\ s.reason \in Deaths
  BY <1>3 DEF ExitSignals
<1>7. tombs[s.from] # None /\ slot[s.from] # "unborn"
  <2>1. tombs[s.from] # None
    BY <1>5, <1>6 DEF DeathInv, CauseInv
  <2> QED BY <1>6, <2>1 DEF ZombieInv, SpawnInv
<1>8. TerminalReason(s.reason) = s.reason
  BY <1>6 DEF TerminalReason, Deaths
<1>9. \A p, q : ~Listed(<<>>, p, q)
  BY DEF Listed
<1>10. \A p, q : Sends(thread[t], p, q) => Listed(w, p, q) \/ (p = s.from /\ q = s.to)
  BY <1>4, <1>5, <1>9 DEF Sends
<1> QED BY <1>1, <1>3, <1>4, <1>5, <1>6, <1>7, <1>8, <1>10 DEF s, w

(* The links and shadows of the others, and of the target but for the      *)
(* sender, are left.                                                       *)
OtherLinks(s) ==
  \A x \in Pids :
    /\ slot[x] # "present" \/ x # s.to => links'[x] = links[x]
    /\ \A y \in Pids : x # s.to \/ y # s.from => (Contains(shadow[x], y) => Contains(shadow'[x], y))

LEMMA OtherLinksFrame ==
  ASSUME ZombieInv, DeathInv, NEW s, OtherLinks(s), s.to \in Pids, s.from \in Pids,
         slot[s.from] # "unborn",
         NEW p \in Pids, thread[p].pc = "spawning"
  PROVE  /\ links'[thread[p].peer] = links[thread[p].peer]
         /\ Contains(shadow[p], thread[p].peer) => Contains(shadow'[p], thread[p].peer)
<1>1. thread[p].peer \in Pids /\ slot[thread[p].peer] = "unborn"
  BY DEF ZombieInv, SpawnInv
<1> QED BY <1>1 DEF OtherLinks

(* A signal that leaves its target alive or finds it dead. *)
LEMMA PoppedStep ==
  ASSUME ZombieInv, DownInv, DeathInv, DownInv', Grows, NEW t \in Threads, thread[t].pc = "signal",
         thread[t].work # <<>>, Goto(t, Advance(Popped(t))),
         UNCHANGED <<exited, slot, graves, bonds>>,
         NEW s, s = Head(thread[t].work), OtherLinks(s),
         \A y \in Pids : Contains(links[s.to], y) /\ y # s.from => Contains(links'[s.to], y),
         Bound(s.from, s.to) => tombs'[s.to] # None \/ s.to \in exited' \/ Informed(s.from, s.to)'
  PROVE  DeathInv'
<1> DEFINE r == Popped(t)
           st == Advance(r)
           w == Tail(thread[t].work)
<1>1. /\ s.from \in Pids /\ s.to \in Pids /\ tombs[s.from] # None /\ slot[s.from] # "unborn"
      /\ thread[t].cascade = <<>> /\ w \in Seq(ExitSignals) /\ Reasoned(w, causes)
      /\ Whole(thread[t]) /\ Fit(thread[t])
      /\ \A p, q : Sends(thread[t], p, q) => Listed(w, p, q) \/ (p = s.from /\ q = s.to)
  BY NextSignal
<1>2. Only(t, st)
  BY Goes DEF ZombieInv
<1>3. Put(thread[t], r, "work", w)
  BY <1>1, VictimStands
<1> HIDE DEF r, w
<1>4. /\ Whole(r) /\ r.pc = "signal" /\ r.pid = thread[t].pid /\ r.dying = thread[t].dying
      /\ r.phase = thread[t].phase /\ r.work = w /\ r.cascade = <<>> /\ r.downs = thread[t].downs
  BY <1>1, <1>3 DEF Put
<1>5. Fit(r)
  BY <1>1, <1>4 DEF Fit, CleanSteps, CallSteps
<1>6. Loaded(st) /\ Carries(st, r) /\ st.pc \in {"downs", "signal", "spendToken"}
  BY <1>4, <1>5, AdvanceLoaded
<1>7. \A p : Past(st, p) => Past(thread[t], p)
  <2>1. \A p : Past(st, p) => Past(r, p)
    BY <1>4, AdvancePast
  <2> QED BY <1>4, <2>1 DEF Past, CleanSteps
<1> HIDE DEF st
<1>8. Reasoned(<<>>, causes)
  BY DEF Reasoned
<1>9. Reasoned(st.work, causes) /\ Reasoned(st.cascade, causes) /\ \A p, q : Sends(r, p, q) => Sends(st, p, q)
  BY <1>1, <1>4, <1>5, <1>6, <1>8, StillSends
<1>10. Caused(st, causes')
  BY <1>6, <1>9 DEF Caused, Reasoned, graves
<1>11. ASSUME NEW p \in Pids, NEW q \in Pids, Bound(p, q)', Sends(thread[t], p, q)
       PROVE  Sends(st, p, q) \/ tombs'[q] # None \/ q \in exited' \/ Informed(p, q)'
  <2>1. CASE Listed(w, p, q)
    BY <1>4, <1>9, <2>1 DEF Sends
  <2>2. CASE p = s.from /\ q = s.to
    <3>1. Bound(p, q)
      BY <1>11 DEF Bound, graves
    <3> QED BY <2>2, <3>1
  <2> QED BY <1>1, <1>11, <2>1, <2>2
<1>12. ASSUME NEW p \in Pids, NEW q \in Pids, Holds(p, q) PROVE Holds(p, q)' \/ Reached(p, q)'
  <2>1. CASE p # s.to \/ q # s.from
    BY <1>12, <2>1 DEF Holds, OtherLinks
  <2>2. CASE p = s.to /\ q = s.from
    BY <1>1, <2>2 DEF Reached, graves
  <2> QED BY <2>1, <2>2
<1>13. ASSUME NEW p \in Pids, thread[p].pc = "spawning"
       PROVE  /\ links'[thread[p].peer] = links[thread[p].peer]
              /\ Contains(shadow[p], thread[p].peer) => Contains(shadow'[p], thread[p].peer)
  BY <1>1, <1>13, OtherLinksFrame
<1> QED BY <1>2, <1>6, <1>7, <1>10, <1>11, <1>12, <1>13, LadenStep

(* A signal that kills its target. *)
LEMMA VictimStep ==
  ASSUME ZombieInv, DownInv, DeathInv, DownInv', Grows, NEW t \in Threads, thread[t].pc = "signal",
         thread[t].work # <<>>, UNCHANGED <<slot, bonds>>,
         exited' \subseteq exited \cup {Head(thread[t].work).to},
         NEW s, s = Head(thread[t].work), Bury(s.to, TerminalReason(s.reason)), OtherLinks(s),
         NEW phase \in {"present", "executing"}, slot[s.to] = phase, NEW rest \in Seq(Pids),
         Goto(t, Victim(t, s, phase, rest)),
         phase = "present" => rest = links[s.to]
  PROVE  DeathInv'
<1> DEFINE st == Victim(t, s, phase, rest)
           w == Tail(thread[t].work)
           c == Signalled(s.to, RemoveLink(rest, s.from), TerminalReason(s.reason))
<1>1. /\ s.from \in Pids /\ s.to \in Pids /\ tombs[s.from] # None /\ slot[s.from] # "unborn"
      /\ s.reason \in Deaths /\ TerminalReason(s.reason) = s.reason
      /\ thread[t].cascade = <<>> /\ w \in Seq(ExitSignals) /\ Reasoned(w, causes)
      /\ Whole(thread[t])
      /\ \A p, q : Sends(thread[t], p, q) => Listed(w, p, q) \/ (p = s.from /\ q = s.to)
  BY NextSignal
<1>2. Only(t, st)
  BY Goes DEF ZombieInv
<1>3. /\ st.pc = "collect" /\ st.pid = thread[t].pid /\ st.dying = s.to /\ st.phase = phase
      /\ st.work = w /\ st.cascade = c
  BY <1>1, VictimStands
<1>4. tombs'[s.to] # None /\ s.reason \in causes'[s.to]
  BY <1>1, BuryMarks, BuryCauses DEF DownInv
<1>5. RemoveLink(rest, s.from) \in Seq(Pids)
  BY LinksRemoved
<1>6. Reasoned(c, causes')
  BY <1>1, <1>4, SignalReasoned
<1>7. \A y : y # s.from /\ Contains(rest, y) => Listed(c, s.to, y)
  BY <1>5, OthersStay, SignalListed
<1>8. Reasoned(w, causes')
  <2>1. \A i \in DOMAIN w : w[i] \in ExitSignals
    BY <1>1
  <2> HIDE DEF w
  <2>2. \A i \in DOMAIN w : w[i].from \in Pids
    BY <2>1 DEF ExitSignals
  <2> QED BY <1>1, <2>2 DEF Reasoned, Grows
<1> HIDE DEF st, w, c
<1>9. Loaded(st) /\ Caused(st, causes')
  BY <1>3, <1>6, <1>8 DEF Loaded, Caused, CleanSteps
<1>10. ASSUME NEW p \in Pids, NEW q \in Pids, Sends(thread[t], p, q)
       PROVE  Sends(st, p, q) \/ tombs'[q] # None
  BY <1>1, <1>3, <1>4, <1>10 DEF Sends
<1>11. ASSUME NEW q \in Pids, Contains(rest, q) PROVE Reached(s.to, q)'
  <2>1. CASE q = s.from
    BY <1>1, <2>1 DEF Reached, Grows
  <2>2. CASE q # s.from
    <3>1. Sends(st, s.to, q)
      BY <1>3, <1>7, <1>11, <2>2 DEF Sends
    <3> QED BY <1>2, <3>1 DEF Reached, Only, Sends
  <2> QED BY <2>1, <2>2
<1>12. ASSUME NEW p \in Pids, NEW q \in Pids, Holds(p, q) PROVE Holds(p, q)' \/ Reached(p, q)'
  <2>1. CASE p # s.to
    BY <1>12, <2>1 DEF Holds, OtherLinks
  <2>2. CASE p = s.to /\ phase = "present"
    BY <1>11, <1>12, <2>2 DEF Holds
  <2>3. CASE p = s.to /\ q = s.from
    BY <1>1, <2>3 DEF Reached, Grows
  <2>4. CASE p = s.to /\ phase = "executing" /\ q # s.from
    BY <1>12, <2>4 DEF Holds, OtherLinks
  <2> QED BY <2>1, <2>2, <2>3, <2>4
<1>13. ASSUME NEW p \in Pids, NEW q \in Pids, Past(st, p), ~Past(thread[t], p), Holds(p, q) PROVE Reached(p, q)'
  <2>1. p = s.to /\ phase = "present"
    BY <1>3, <1>13 DEF Past, CleanSteps
  <2> QED BY <1>11, <1>13, <2>1 DEF Holds
<1>14. \A p \in exited' \ exited : Owed(p)'
  BY <1>4 DEF Owed
<1>15. ASSUME NEW p \in Pids, thread[p].pc = "spawning"
       PROVE  /\ links'[thread[p].peer] = links[thread[p].peer]
              /\ Contains(shadow[p], thread[p].peer) => Contains(shadow'[p], thread[p].peer)
  BY <1>1, <1>15, OtherLinksFrame
<1> QED BY <1>2, <1>3, <1>9, <1>10, <1>12, <1>13, <1>14, <1>15, LadenStep

LEMMA ExitInforms ==
  ASSUME MailInv, NEW p \in Pids, NEW q \in Pids, NEW reason \in Deaths, UNCHANGED slot,
         slot[q] \in {"present", "executing"}, Deliver(q, Exit(p, reason))
  PROVE  Informed(p, q)'
<1> DEFINE l == Exit(p, reason)
           b == Box(q)
           c == Box(q)'
<1>1. l \in Letters /\ l.kind = "EXIT" /\ l.from = p
  BY LettersAre DEF Exit
<1> HIDE DEF l
<1>2. c = Append(b, l) /\ b \in Seq(Letters)
  BY <1>1, Delivered, BoxType DEF l
<1> HIDE DEF b, c
<1>3. Len(c) \in DOMAIN c /\ c[Len(c)] = l
  BY <1>1, <1>2
<1>4. \E i \in DOMAIN c : c[i].kind = "EXIT" /\ c[i].from = p
  BY <1>1, <1>3
<1> QED BY <1>4 DEF Informed, c

LEMMA DeathSignal ==
  ASSUME ZombieInv, DownInv, DeathInv, DownInv', NEW t \in Threads,
         SignalIgnored(t) \/ SignalPresent(t) \/ SignalExecuting(t)
  PROVE  DeathInv'
<1>1. thread[t].pc = "signal" /\ thread[t].work # <<>> /\ UNCHANGED <<slot, bonds>>
  BY DEF SignalIgnored, SignalPresent, SignalExecuting, At, body, ghost
<1>2. PICK s : s = Head(thread[t].work)
  OBVIOUS
<1>3. /\ s.from \in Pids /\ s.to \in Pids /\ s.reason \in Deaths /\ TerminalReason(s.reason) = s.reason
      /\ s.reason \in causes[s.from]
  BY <1>1, <1>2, NextSignal
<1>4. /\ links \in [Pids -> Seq(Pids)] /\ shadow \in [Pids -> Seq(Pids)]
      /\ links[s.to] \in Seq(Pids) /\ shadow[s.to] \in Seq(Pids)
  BY <1>3 DEF DownInv, MarkInv
<1>5. exited \subseteq Pids
  BY DEF DeathInv, CauseInv
<1>6. CASE SignalIgnored(t)
  <2>1. /\ Goto(t, Advance(Popped(t))) /\ UNCHANGED <<exited, links, shadow, mail, graves>>
        /\ slot[s.to] \in {"unborn", "gone"} \/ s.to \in exited
    BY <1>2, <1>6 DEF SignalIgnored, body
  <2>2. Grows
    BY <1>1, <1>5, <2>1, GrowsBy, SameMailInforms
  <2>3. Bound(s.from, s.to) => tombs'[s.to] # None \/ s.to \in exited'
    <3>1. slot[s.to] = "gone" => tombs[s.to] # None
      BY <1>3 DEF DownInv, MarkInv
    <3>2. Bound(s.from, s.to) => slot[s.to] # "unborn"
      BY <1>3, BoundAreBorn DEF Bound
    <3> QED BY <2>1, <3>1, <3>2 DEF graves
  <2>4. OtherLinks(s)
    BY <2>1 DEF OtherLinks
  <2> QED BY <1>1, <1>2, <2>1, <2>2, <2>3, <2>4, PoppedStep
<1>7. ASSUME slot[s.to] \in {"present", "executing"}, ~ShouldDie(s.to, s.reason), UNCHANGED <<exited, graves>>,
             Goto(t, Advance(Popped(t))), OtherLinks(s),
             \A y \in Pids : Contains(links[s.to], y) /\ y # s.from => Contains(links'[s.to], y),
             IF s.to \in traps THEN Deliver(s.to, Exit(s.from, s.reason)) ELSE UNCHANGED mail
      PROVE  DeathInv'
  <2>1. Posted
    BY <1>1, <1>3, <1>7, ExitDelivered DEF DownInv
  <2>2. Grows
    <3>1. \A x, y \in Pids : Informed(x, y) => Informed(x, y)' \/ tombs'[y] # None
      BY <2>1, PostedInforms DEF DownInv
    <3> QED BY <1>1, <1>5, <1>7, <3>1, GrowsBy
  <2>3. Bound(s.from, s.to) => Informed(s.from, s.to)'
    <3>1. Bound(s.from, s.to) => s.to \in traps
      BY <1>3, <1>7 DEF Bound, ShouldDie
    <3>2. s.to \in traps => Informed(s.from, s.to)'
      BY <1>1, <1>3, <1>7, ExitInforms DEF DownInv
    <3> QED BY <3>1, <3>2
  <2> QED BY <1>1, <1>2, <1>7, <2>2, <2>3, PoppedStep
<1>8. ASSUME Bury(s.to, TerminalReason(s.reason)), UNCHANGED mail, exited \subseteq exited',
             exited' \subseteq exited \cup {s.to}
      PROVE  Grows
  <2>1. exited' \subseteq Pids
    BY <1>3, <1>5, <1>8
  <2> QED BY <1>1, <1>3, <1>8, <2>1, GrowsBy, SameMailInforms
<1>9. CASE SignalPresent(t)
  <2>1. slot[s.to] = "present" /\ shadow' = shadow
    BY <1>2, <1>9 DEF SignalPresent
  <2>2. CASE ShouldDie(s.to, s.reason)
    <3>1. /\ links' = [links EXCEPT ![s.to] = <<>>] /\ exited' = exited \cup {s.to}
          /\ Bury(s.to, TerminalReason(s.reason)) /\ Goto(t, Victim(t, s, "present", links[s.to]))
          /\ UNCHANGED mail
      BY <1>2, <1>9, <2>2 DEF SignalPresent
    <3>2. OtherLinks(s)
      BY <1>3, <1>4, <2>1, <3>1 DEF OtherLinks
    <3>3. Grows
      BY <1>8, <3>1
    <3>4. exited' \subseteq exited \cup {Head(thread[t].work).to}
      BY <1>2, <3>1
    <3> QED BY <1>1, <1>2, <1>4, <2>1, <3>1, <3>2, <3>3, <3>4, VictimStep
  <2>3. CASE ~ShouldDie(s.to, s.reason)
    <3>1. /\ links' = [links EXCEPT ![s.to] = RemoveLink(@, s.from)] /\ UNCHANGED <<exited, graves>>
          /\ Goto(t, Advance(Popped(t)))
          /\ IF s.to \in traps THEN Deliver(s.to, Exit(s.from, s.reason)) ELSE UNCHANGED mail
      BY <1>2, <1>9, <2>3 DEF SignalPresent
    <3>2. OtherLinks(s)
      BY <1>3, <1>4, <2>1, <3>1 DEF OtherLinks
    <3>3. links'[s.to] = RemoveLink(links[s.to], s.from)
      BY <1>3, <1>4, <3>1
    <3>4. \A y \in Pids : Contains(links[s.to], y) /\ y # s.from => Contains(links'[s.to], y)
      BY <1>4, <3>3, OthersStay
    <3> QED BY <1>7, <2>1, <2>3, <3>1, <3>2, <3>4
  <2> QED BY <2>2, <2>3
<1>10. CASE SignalExecuting(t)
  <2>1. /\ slot[s.to] = "executing" /\ links' = links /\ exited' = exited
        /\ shadow' = [shadow EXCEPT ![s.to] = RemoveLink(@, s.from)]
    BY <1>2, <1>10 DEF SignalExecuting
  <2>2. OtherLinks(s)
    <3>1. /\ shadow'[s.to] = RemoveLink(shadow[s.to], s.from)
          /\ \A x \in Pids : x # s.to => shadow'[x] = shadow[x]
      BY <1>3, <1>4, <2>1
    <3>2. \A y \in Pids : Contains(shadow[s.to], y) /\ y # s.from => Contains(shadow'[s.to], y)
      BY <1>4, <3>1, OthersStay
    <3> QED BY <2>1, <3>1, <3>2 DEF OtherLinks
  <2>3. CASE ShouldDie(s.to, s.reason)
    <3>1. /\ Bury(s.to, TerminalReason(s.reason)) /\ Goto(t, Victim(t, s, "executing", shadow[s.to]))
          /\ UNCHANGED mail
      BY <1>2, <1>10, <2>3 DEF SignalExecuting
    <3>2. Grows
      BY <1>8, <2>1, <3>1
    <3>3. exited' \subseteq exited \cup {Head(thread[t].work).to}
      BY <2>1
    <3> QED BY <1>1, <1>2, <1>4, <2>1, <2>2, <3>1, <3>2, <3>3, VictimStep
  <2>4. CASE ~ShouldDie(s.to, s.reason)
    <3>1. /\ UNCHANGED graves /\ Goto(t, Advance(Popped(t)))
          /\ IF s.to \in traps THEN Deliver(s.to, Exit(s.from, s.reason)) ELSE UNCHANGED mail
      BY <1>2, <1>10, <2>4 DEF SignalExecuting
    <3>2. \A y \in Pids : Contains(links[s.to], y) => Contains(links'[s.to], y)
      BY <2>1
    <3> QED BY <1>7, <2>1, <2>2, <2>4, <3>1, <3>2
  <2> QED BY <2>3, <2>4
<1> QED BY <1>6, <1>9, <1>10

(* Where a finalizer comes back to it has what it had to send. *)
LEMMA FinalizedLoaded ==
  ASSUME ZombieInv, DownInv, DeathInv, NEW t \in Threads,
         thread[t].pc \in {"spendToken", "removeBody"},
         NEW st, st = AfterFinalize(t)
  PROVE  /\ Loaded(st) /\ Caused(st, causes) /\ st.pc \notin {"unlinkTarget", "spawning"}
         /\ \A p, q : Sends(thread[t], p, q) => Sends(st, p, q)
         /\ \A p : Past(st, p) => Past(thread[t], p)
<1> DEFINE r == thread[t]
<1>1. Whole(r) /\ Fit(r)
  BY CleanFit DEF CleanSteps
<1>2. Reasoned(r.work, causes) /\ Reasoned(r.cascade, causes) /\ Loaded(r)
  BY DEF DeathInv, CauseInv, Caused
<1>3. CASE r.phase = "present"
  <2>1. /\ st.pid = r.pid /\ Carries(st, r)
        /\ \/ st.pc = "signal" /\ st.dying = r.dying /\ st.phase = r.phase
           \/ st.pc = "spendToken" /\ st.dying = r.pid
    BY <1>3, Finalized DEF ZombieInv
  <2>2. Loaded(st)
    <3>1. st = Drained(Extend(r))
      BY <1>3 DEF AfterFinalize
    <3>2. Whole(Extend(r)) /\ Extend(r).pc = "signal" /\ Extend(r).cascade = <<>>
      BY <1>1, Extended
    <3> HIDE DEF r
    <3> QED BY <3>1, <3>2, DrainedLoaded
  <2>3. /\ Reasoned(st.work, causes) /\ Reasoned(st.cascade, causes)
        /\ \A p, q : Sends(r, p, q) => Sends(st, p, q)
    BY <1>1, <1>2, <2>1, StillSends
  <2>4. \A p : Past(st, p) => Past(r, p)
    BY <2>1 DEF Past, CleanSteps
  <2> QED BY <2>1, <2>2, <2>3, <2>4 DEF Caused
<1>4. CASE r.phase # "present"
  <2>1. st.pc \in {"idle", "run"} /\ Blank(st)
    BY <1>4, Finalized DEF ZombieInv
  <2>2. r.work = <<>> /\ r.cascade = <<>>
    BY <1>2, <1>4 DEF Loaded
  <2>3. \A p, q : ~Sends(r, p, q)
    BY <2>2 DEF Sends, Listed
  <2>4. \A p : ~Past(st, p)
    BY <2>1 DEF Past, CleanSteps
  <2>5. Loaded(st) /\ Caused(st, causes)
    BY <2>1 DEF Loaded, Caused, Reasoned, Blank
  <2> QED BY <2>1, <2>3, <2>4, <2>5
<1> QED BY <1>3, <1>4

LEMMA DeathFinalize ==
  ASSUME ZombieInv, DownInv, DeathInv, DownInv', NEW t \in Threads, SpendToken(t) \/ RemoveBody(t)
  PROVE  DeathInv'
<1>1. thread[t].pc \in {"spendToken", "removeBody"} /\ UNCHANGED <<exited, graves, bonds>>
  BY DEF SpendToken, RemoveBody, At, ghost
<1>2. PICK st : /\ Only(t, st) /\ Loaded(st) /\ Caused(st, causes) /\ st.pc \notin {"unlinkTarget", "spawning"}
                /\ \A p, q : Sends(thread[t], p, q) => Sends(st, p, q)
                /\ \A p : Past(st, p) => Past(thread[t], p)
  <2>1. CASE Goto(t, AfterFinalize(t))
    BY <1>1, <2>1, FinalizedLoaded, Goes DEF ZombieInv
  <2>2. CASE thread[t].pc = "spendToken" /\ Jump(t, "removeBody")
    <3> DEFINE s == [thread[t] EXCEPT !.pc = "removeBody"]
    <3>1. Only(t, s)
      BY <2>2, Goes DEF ZombieInv, Jump
    <3>2. Put(thread[t], s, "pc", "removeBody")
      BY Fields DEF ZombieInv, ThreadInv, ThreadOk
    <3> HIDE DEF s
    <3>3. /\ s.pc = "removeBody" /\ s.pid = thread[t].pid /\ s.dying = thread[t].dying /\ s.phase = thread[t].phase
          /\ s.work = thread[t].work /\ s.cascade = thread[t].cascade
      BY <3>2 DEF Put
    <3>4. Loaded(thread[t]) /\ Caused(thread[t], causes)
      BY DEF DeathInv, CauseInv
    <3>5. Loaded(s) /\ Caused(s, causes)
      BY <2>2, <3>3, <3>4 DEF Loaded, Caused, CleanSteps
    <3>6. \A p : Past(s, p) => Past(thread[t], p)
      BY <2>2, <3>3 DEF Past, CleanSteps
    <3> QED BY <3>1, <3>3, <3>5, <3>6 DEF Sends
  <2> QED BY <2>1, <2>2 DEF SpendToken, RemoveBody, At
<1>3. Caused(st, causes')
  BY <1>1, <1>2 DEF graves
<1>4. CASE SpendToken(t)
  <2>1. UNCHANGED <<slot, links, shadow, mail>>
    BY <1>4 DEF SpendToken
  <2>2. Grows
    BY <1>1, <2>1, GrowsBy, SameMailInforms DEF DeathInv, CauseInv
  <2>3. \A p, q \in Pids : Holds(p, q) => Holds(p, q)'
    BY <2>1 DEF Holds
  <2> QED BY <1>1, <1>2, <1>3, <2>1, <2>2, <2>3, LadenStep
<1>5. CASE RemoveBody(t)
  <2>1. PICK d \in Pids : d = thread[t].dying
    BY <1>1, CleanFit DEF CleanSteps
  <2>2. tombs[d] # None /\ slot[d] # "unborn"
    BY <1>1, <2>1, CleanFit, CleanFacts DEF CleanSteps
  <2>3. /\ slot' = [slot EXCEPT ![d] = "gone"] /\ links' = [links EXCEPT ![d] = <<>>]
        /\ shadow' = [shadow EXCEPT ![d] = <<>>]
    BY <1>5, <2>1 DEF RemoveBody
  <2>4. slot'[d] = "gone" /\ \A x \in Pids : x # d => slot'[x] = slot[x] /\ links'[x] = links[x] /\ shadow'[x] = shadow[x]
    BY <2>3 DEF ZombieInv, SlotInv, DownInv, MarkInv
  <2>5. Grows
    <3>1. Posted
      BY <1>1, <1>5, <2>1, <2>2, Dropped DEF DownInv, ZombieInv, graves
    <3>2. \A x, y \in Pids : Informed(x, y) => Informed(x, y)' \/ tombs'[y] # None
      BY <3>1, PostedInforms DEF DownInv
    <3> QED BY <1>1, <2>4, <3>2, GrowsBy DEF DeathInv, CauseInv
  <2>6. Past(thread[t], d)
    <3>1. thread[t].phase = "present" \/ thread[t].dying = thread[t].pid
      BY <1>1 DEF ZombieInv, ThreadInv, ThreadOk
    <3> QED BY <1>1, <2>1, <3>1 DEF Past, CleanSteps
  <2>7. ASSUME NEW p \in Pids, NEW q \in Pids, Bound(p, q)', Holds(p, q) PROVE Holds(p, q)' \/ Reached(p, q)'
    <3>1. CASE p # d
      BY <2>4, <2>7, <3>1 DEF Holds
    <3>2. CASE p = d
      <4>1. Bound(p, q)
        BY <1>1, <2>7 DEF Bound, graves
      <4>2. Reached(p, q)
        BY <2>6, <3>2, <4>1 DEF DeathInv, BondInv
      <4> QED BY <1>2, <2>5, <4>2, ReachLasts
    <3> QED BY <3>1, <3>2
  <2>8. ASSUME NEW p \in Pids, thread[p].pc = "spawning"
        PROVE  /\ links'[thread[p].peer] = links[thread[p].peer]
               /\ slot'[p] = "executing" => slot[p] = "executing" /\ shadow'[p] = shadow[p]
    <3>1. thread[p].peer \in Pids /\ slot[thread[p].peer] = "unborn"
      BY <2>8 DEF ZombieInv, SpawnInv
    <3> QED BY <2>2, <2>4, <3>1
  <2> QED BY <1>1, <1>2, <1>3, <2>5, <2>7, <2>8, LadenStep
<1> QED BY <1>4, <1>5

-----------------------------------------------------------------------------
(* The theorem about links *)

LEMMA InitDeath == Init => DeathInv
<1> SUFFICES ASSUME Init
             PROVE  DeathInv
  OBVIOUS
<1>1. /\ \A t \in Threads : thread[t] = Resting
      /\ \A p \in Pids : slot[p] = IF p \in Unborn THEN "unborn" ELSE "present"
      /\ \A p \in Pids : causes[p] = {} /\ links[p] = Symmetric(p)
      /\ exited = {} /\ bonds = Bonds
  BY DEF Init
<1>2. Resting.pc = "idle" /\ Resting.work = <<>> /\ Resting.cascade = <<>>
  BY DEF Resting
<1>3. CauseInv
  <2>1. Loaded(Resting)
    BY <1>2 DEF Loaded
  <2>2. Caused(Resting, causes)
    BY <1>2 DEF Caused, Reasoned
  <2>3. causes \in [Pids -> SUBSET Deaths]
    BY DEF Init
  <2>4. QED
    BY <1>1, <2>1, <2>2, <2>3 DEF CauseInv
<1>4. TieInv
  <2>1. \A p \in Pids : thread[p].pc = "idle"
    BY <1>1, <1>2 DEF Threads
  <2>2. ASSUME NEW b \in bonds
        PROVE  \E p, q \in Pids : b = {p, q} /\ slot[p] # "unborn" /\ slot[q] # "unborn"
    BY <1>1, SupervisionAssumption
  <2>3. QED
    BY <2>1, <2>2 DEF TieInv
<1>5. ASSUME NEW p \in Pids, NEW q \in Pids, Bound(p, q)
      PROVE  Holds(p, q) /\ ~\E t \in Threads : Past(thread[t], p)
  <2>1. {p, q} \in Bonds
    BY <1>1, <1>5 DEF Bound
  <2>2. p \notin Unborn
    <3>1. PICK x, y \in Pids \ Unborn : {p, q} = {x, y}
      BY <2>1, SupervisionAssumption
    <3>2. QED
      BY <3>1
  <2>3. Holds(p, q)
    BY <1>1, <2>1, <2>2, StartBonds DEF Holds
  <2>4. QED
    BY <1>1, <1>2, <2>3 DEF Past, CleanSteps
<1>6. QED
  BY <1>3, <1>4, <1>5 DEF DeathInv, BondInv

LEMMA NextDeath == ZombieInv /\ DownInv /\ DeathInv /\ [Next]_vars => DeathInv'
<1> SUFFICES ASSUME ZombieInv, DownInv, DeathInv, [Next]_vars
             PROVE  DeathInv'
  OBVIOUS
<1>0. DownInv'
  BY NextDown
<1>1. CASE UNCHANGED vars
  <2>1. UNCHANGED <<thread, exited, slot, links, shadow, mailbox, pending, tombs, causes, bonds>>
    BY <1>1 DEF vars, body, mail, graves, ghost
  <2>2. CauseInv'
    <3>1. \A p \in Pids : Owed(p)' <=> Owed(p)
      BY <2>1 DEF Owed
    <3>2. QED
      BY <2>1, <3>1 DEF DeathInv, CauseInv
  <2>3. TieInv'
    BY <2>1 DEF DeathInv, TieInv
  <2>4. \A p, q \in Pids : /\ Holds(p, q)' <=> Holds(p, q)
                           /\ Reached(p, q)' <=> Reached(p, q)
                           /\ Bound(p, q)' <=> Bound(p, q)
    BY <2>1 DEF Holds, Reached, Informed, Box, Bound
  <2>5. BondInv'
    BY <2>1, <2>4 DEF DeathInv, BondInv
  <2>6. QED
    BY <2>2, <2>3, <2>5 DEF DeathInv
<1>2. ASSUME NEW t \in Threads, Continues(t)
      PROVE  DeathInv'
  BY <1>0, <1>2, DeathTombstone, DeathTakeLinks, DeathCollect, DeathDeliver, DeathSignal,
     DeathFinalize DEF Continues
<1>3. ASSUME NEW p \in Pids, SliceContinues(p)
      PROVE  DeathInv'
  BY <1>0, <1>3, DeathStore, DeathCheck, DeathLinkSteps, DeathPublish DEF SliceContinues
<1>4. ASSUME NEW p \in Pids, Slice(p)
      PROVE  DeathInv'
  <2>1. CASE TakeRunnable(p)
    BY <1>0, <2>1, DeathTakeRunnable
  <2>2. CASE \E outcome \in {"park", "normal", "error"} : SliceEnds(p, outcome)
    BY <1>0, <2>2, DeathSliceEnds
  <2>3. CASE \E q \in Pids : \/ LinkChecks(p, q) \/ UnlinkCaller(p, q)
                             \/ Monitor(p, q) \/ SpawnLink(p, q)
    BY <1>0, <2>3, DeathLinkChecks, DeathUnlink, DeathMonitor, DeathSpawn
  <2>4. CASE \E m \in told : Demonitor(p, m)
    BY <1>0, <2>4, DeathDemonitor
  <2>5. CASE \E q \in Pids, reason \in Signals :
               ExitSignalPresent(p, q, reason) \/ ExitSignalExecuting(p, q, reason)
    BY <1>0, <2>5, DeathExitCalls
  <2>6. QED
    BY <1>4, <2>1, <2>2, <2>3, <2>4, <2>5 DEF Slice
<1>5. CASE HostCalls
  BY <1>0, <1>5, DeathHost DEF HostCalls
<1>6. QED
  BY <1>1, <1>2, <1>3, <1>4, <1>5 DEF Next

(* At rest nothing is on its way, so who is reached is dead or informed. *)
LEMMA BondsReached == ZombieInv /\ DownInv /\ DeathInv => DeathReachesLinked
<1> SUFFICES ASSUME ZombieInv, DownInv, DeathInv, Quiescent, NEW b \in bonds,
                    NEW p \in b, NEW q \in b,
                    p # q, causes[p] # {}, "normal" \notin causes[p]
             PROVE  \/ tombs[q] # None
                    \/ \E i \in DOMAIN mailbox[q] :
                         mailbox[q][i].kind = "EXIT" /\ mailbox[q][i].from = p
  BY DEF DeathReachesLinked
<1>1. p \in Pids /\ q \in Pids /\ b = {p, q}
  <2>1. PICK x, y \in Pids : b = {x, y}
    BY DEF DeathInv, TieInv
  <2>2. QED
    BY <2>1
<1>2. Bound(p, q)
  BY <1>1 DEF Bound
<1>3. \A t \in Threads : thread[t].pc = "idle" /\ thread[t].work = <<>> /\ thread[t].cascade = <<>>
  BY NothingToSend, SlicesAreUnladen DEF Quiescent, At
<1>4. tombs[p] # None
  BY <1>1 DEF DeathInv, CauseInv
<1>5. slot[p] = "gone"
  BY <1>1, <1>4, WholeOrGone DEF NoZombie
<1>6. Reached(p, q)
  BY <1>1, <1>2, <1>5 DEF DeathInv, BondInv, Holds
<1>7. ~\E t \in Threads : Sends(thread[t], p, q)
  BY <1>3 DEF Sends, Listed
<1>8. q \in exited => tombs[q] # None
  BY <1>1, <1>3 DEF DeathInv, CauseInv, Owed, Threads
<1>9. Box(q) = mailbox[q]
  <2>1. slot[q] # "executing"
    BY <1>1, <1>3 DEF ZombieInv, SlotInv, Away, SliceSteps, CleanSteps, Threads
  <2>2. pending[q] = <<>> /\ mailbox[q] \in Seq(Letters)
    BY <1>1, <2>1 DEF DownInv, MailInv
  <2>3. QED
    BY <2>2 DEF Box
<1>10. QED
  BY <1>6, <1>7, <1>8, <1>9 DEF Reached, Informed

(* Whatever the two ends of a link are doing, whoever cleans up the dead   *)
(* one and however often: once every thread has come to rest, whoever was  *)
(* linked to a process that died abnormally, from the start or by a spawn, *)
(* and has not unlinked, is dead too or has the EXIT message in its mailbox*)
(* (propagate_exit, process_exit_signal, the cascade worklist and the      *)
(* store-back of a body that was checked out meanwhile).                   *)
THEOREM DeathReachesTheLinked == Spec => []DeathReachesLinked
<1>1. Init => ZombieInv /\ DownInv /\ DeathInv
  BY InitWhole, InitDown, InitDeath
<1>2. (ZombieInv /\ DownInv /\ DeathInv) /\ [Next]_vars => (ZombieInv /\ DownInv /\ DeathInv)'
  BY NextWhole, NextDown, NextDeath
<1>3. ZombieInv /\ DownInv /\ DeathInv => DeathReachesLinked
  BY BondsReached
<1>4. QED
  BY <1>1, <1>2, <1>3, PTL DEF Spec

-----------------------------------------------------------------------------
(* RemoteLinks: one exit signal for each time the link was entered *)

LinkTypes ==
  /\ half \in [LinkEnds -> BOOLEAN] /\ made \in [LinkEnds -> Nat] /\ signals \in [LinkEnds -> Nat]

LinkInv == LinkTypes /\ ExitOncePerLink

(* A step that only takes ends out of the link. *)
LEMMA LinkTakenOut ==
  ASSUME LinkInv, half' \in [LinkEnds -> BOOLEAN], \A n \in LinkEnds : half'[n] => half[n],
         UNCHANGED <<made, signals>>
  PROVE  LinkInv'
BY DEF LinkInv, LinkTypes, ExitOncePerLink

(* establish_remote_link counts an end that was not there. *)
LEMMA LinkEntered ==
  ASSUME LinkInv, NEW n \in LinkEnds, NEW g, Establish(n, g), UNCHANGED signals
  PROVE  LinkInv'
<1>1. half'[n] /\ made'[n] = IF half[n] THEN made[n] ELSE made[n] + 1
  BY DEF Establish, LinkInv, LinkTypes
<1>2. \A m \in LinkEnds : m # n => half'[m] = half[m] /\ made'[m] = made[m]
  BY DEF Establish, LinkInv, LinkTypes
<1>3. LinkTypes'
  BY DEF Establish, LinkInv, LinkTypes
<1>4. ExitOncePerLink'
  BY <1>1, <1>2 DEF LinkInv, LinkTypes, ExitOncePerLink
<1>5. QED
  BY <1>3, <1>4 DEF LinkInv

(* process_remote_exit_signal delivers what takes the entry out. *)
LEMMA LinkSignalled ==
  ASSUME LinkInv, NEW n \in LinkEnds, LinkExit(n), UNCHANGED made
  PROVE  LinkInv'
<1>1. CASE UNCHANGED <<half, signals>>
  BY <1>1 DEF LinkInv, LinkTypes, ExitOncePerLink
<1>2. CASE ~UNCHANGED <<half, signals>>
  <2>1. half[n] /\ ~half'[n] /\ signals'[n] = signals[n] + 1
    BY <1>2 DEF LinkExit, LinkInv, LinkTypes
  <2>2. \A m \in LinkEnds : m # n => half'[m] = half[m] /\ signals'[m] = signals[m]
    BY <1>2 DEF LinkExit, LinkInv, LinkTypes
  <2>3. LinkTypes'
    <3>1. half' = [half EXCEPT ![n] = FALSE] /\ signals' = [signals EXCEPT ![n] = signals[n] + 1]
      BY <1>2 DEF LinkExit
    <3>2. signals[n] + 1 \in Nat
      BY DEF LinkInv, LinkTypes
    <3>3. QED
      BY <3>1, <3>2 DEF LinkInv, LinkTypes
  <2>4. ExitOncePerLink'
    BY <2>1, <2>2 DEF LinkInv, LinkTypes, ExitOncePerLink
  <2>5. QED
    BY <2>3, <2>4 DEF LinkInv
<1>3. QED
  BY <1>1, <1>2

(* DC-4, exactly-once exit per link: however EXIT frames, the noconnection  *)
(* scan and the recheck of an inbound LINK race, over any number of         *)
(* sessions, an end is never told more often that its peer is gone than it  *)
(* entered the link (process_remote_exit_signal, establish_remote_link).    *)
THEOREM ExitSignalledOnce == RlSpec => []ExitOncePerLink
<1>1. RlInit => LinkInv
  BY DEF RlInit, LinkInv, LinkTypes, ExitOncePerLink
<1>2. LinkInv /\ [RlNext]_rlVars => LinkInv'
  <2> SUFFICES ASSUME LinkInv, [RlNext]_rlVars PROVE LinkInv'
    OBVIOUS
  <2> USE DEF ends, sessions, pipes, linkBudget
  <2>1. CASE UNCHANGED rlVars
    BY <2>1, LinkTakenOut DEF rlVars, LinkInv, LinkTypes
  <2>2. CASE OpenSession
    BY <2>2, LinkTakenOut DEF OpenSession, LinkInv, LinkTypes
  <2>3. ASSUME NEW n \in LinkEnds,
               \/ ProcessExits(n) \/ SendRemoteExit(n) \/ DrainLane(n) \/ Install(n) \/ SpawnReader(n)
               \/ LinkFails(n) \/ Reap(n) \/ CollectLinks(n)
        PROVE  LinkInv'
    <3>1. UNCHANGED <<half, made, signals>>
      BY <2>3 DEF ProcessExits, SendRemoteExit, DrainLane, Install, SpawnReader, LinkFails, Reap,
         CollectLinks
    <3>2. QED
      BY <3>1, LinkTakenOut DEF LinkInv, LinkTypes
  <2>4. ASSUME NEW n \in LinkEnds, LinkRemote(n)
        PROVE  LinkInv'
    BY <2>4, LinkEntered DEF LinkRemote
  <2>5. ASSUME NEW n \in LinkEnds, SendLink(n) \/ UnlinkRemote(n) \/ TakeRemoteLinks(n)
        PROVE  LinkInv'
    <3>1. UNCHANGED <<made, signals>>
      BY <2>5 DEF SendLink, UnlinkRemote, TakeRemoteLinks
    <3>2. PICK b \in BOOLEAN : half' = [half EXCEPT ![n] = b] /\ (b => half[n])
      <4>1. CASE SendLink(n)
        BY <4>1 DEF SendLink, LinkInv, LinkTypes
      <4>2. CASE UnlinkRemote(n) \/ TakeRemoteLinks(n)
        BY <4>2 DEF UnlinkRemote, TakeRemoteLinks
      <4>3. QED
        BY <2>5, <4>1, <4>2
    <3>3. half' \in [LinkEnds -> BOOLEAN] /\ \A m \in LinkEnds : half'[m] => half[m]
      BY <3>2 DEF LinkInv, LinkTypes
    <3>4. QED
      BY <3>1, <3>3, LinkTakenOut
  <2>6. ASSUME NEW n \in LinkEnds, DeliverNoConnection(n)
        PROVE  LinkInv'
    BY <2>6, LinkSignalled DEF DeliverNoConnection
  <2>7. ASSUME NEW n \in LinkEnds, NEW g \in SessionIds, ReadFrame(n, g) \/ ReaderEnds(n, g)
        PROVE  LinkInv'
    <3>1. UNCHANGED <<half, made, signals>>
      BY <2>7 DEF ReadFrame, ReaderEnds
    <3>2. QED
      BY <3>1, LinkTakenOut DEF LinkInv, LinkTypes
  <2>8. ASSUME NEW n \in LinkEnds, NEW g \in SessionIds, ApplyLink(n, g)
        PROVE  LinkInv'
    <3>1. CASE life[n] = "alive"
      BY <2>8, <3>1, LinkEntered DEF ApplyLink
    <3>2. CASE life[n] # "alive"
      BY <2>8, <3>2, LinkTakenOut DEF ApplyLink, LinkInv, LinkTypes
    <3>3. QED
      BY <3>1, <3>2
  <2>9. ASSUME NEW n \in LinkEnds, NEW g \in SessionIds, RecheckConnection(n, g)
        PROVE  LinkInv'
    <3>1. CASE LinkExit(n)
      BY <2>9, <3>1, LinkSignalled DEF RecheckConnection
    <3>2. CASE UNCHANGED <<half, signals>>
      BY <2>9, <3>2, LinkTakenOut DEF RecheckConnection, LinkInv, LinkTypes
    <3>3. QED
      BY <2>9, <3>1, <3>2 DEF RecheckConnection
  <2>10. ASSUME NEW n \in LinkEnds, NEW g \in SessionIds, ApplyUnlink(n, g)
         PROVE  LinkInv'
    <3>1. /\ UNCHANGED <<made, signals>> /\ half' \in [LinkEnds -> BOOLEAN]
          /\ \A m \in LinkEnds : half'[m] => half[m]
      BY <2>10 DEF ApplyUnlink, LinkInv, LinkTypes
    <3>2. QED
      BY <3>1, LinkTakenOut
  <2>11. ASSUME NEW n \in LinkEnds, NEW g \in SessionIds, ApplyLinkExit(n, g)
         PROVE  LinkInv'
    BY <2>11, LinkSignalled DEF ApplyLinkExit
  <2>12. QED
    BY <2>1, <2>2, <2>3, <2>4, <2>5, <2>6, <2>7, <2>8, <2>9, <2>10, <2>11 DEF RlNext
<1>3. LinkInv => ExitOncePerLink
  BY DEF LinkInv
<1>4. QED
  BY <1>1, <1>2, <1>3, PTL DEF RlSpec

-----------------------------------------------------------------------------
(* RemoteLinks: no half of a link is left behind *)

PipeTypes ==
  /\ life \in [LinkEnds -> {"alive", "exited", "taken", "dead"}] /\ half \in [LinkEnds -> BOOLEAN]
  /\ session \in [LinkEnds -> 0..MaxSessions] /\ installed \in [LinkEnds -> 0..MaxSessions]
  /\ flagged \in [LinkEnds -> SUBSET SessionIds] /\ reading \in [LinkEnds -> SUBSET SessionIds]
  /\ opened \in 0..MaxSessions
  /\ owed \in [LinkEnds -> Nat] /\ scan \in [LinkEnds -> {"idle", "collected"}]
  /\ lane \in [LinkEnds -> Seq(Frames \X SessionIds)]
  /\ sent \in [LinkEnds -> [SessionIds -> Seq(Frames)]]
  /\ hand \in [LinkEnds -> [SessionIds -> Frames \cup {"none", "recheck"}]]
  /\ caller \in [LinkEnds -> {"idle", "send"}]

(* A process that has the link lives or has still to give it up, and one    *)
(* that is in a call lives; the link of a process without a connection has  *)
(* somebody to undo it.                                                     *)
EndInv(n) ==
  /\ half[n] => life[n] \in {"alive", "exited"}
  /\ caller[n] = "send" => life[n] = "alive"
  /\ half[n] /\ session[n] = 0 /\ life[n] = "alive" =>
        \/ owed[n] > 0 \/ scan[n] = "collected" \/ caller[n] = "send"
        \/ \E g \in SessionIds : hand[n][g] = "recheck"

(* The first connection is up, or not there yet, at n. *)
Sound(n) == 1 \notin flagged[n]

(* While no second connection was opened: what a node does with the first   *)
(* one, and that it does nothing before that is there.                      *)
FirstInv(n) ==
  /\ installed[n] <= opened
  /\ session[n] # 0 => session[n] = installed[n]
  /\ Sound(n) => session[n] = installed[n] /\ owed[n] = 0 /\ scan[n] = "idle"
  /\ \A g \in reading[n] : g = 1 /\ installed[n] = 1
  /\ \A g \in SessionIds : hand[n][g] # "none" => g \in reading[n]
  /\ \A i \in 1..Len(lane[n]) : lane[n][i][2] = 1
  /\ installed[n] = 0 =>
       /\ lane[n] = <<>> /\ sent[n][1] = <<>> /\ Sound(n)
       /\ half[n] => caller[n] = "send"
       /\ life[n] # "taken"

(* The last frame under way from n to m. *)
Latest(n, m) ==
  IF lane[n] # <<>> THEN lane[n][Len(lane[n])][1]
  ELSE IF sent[n][1] # <<>> THEN sent[n][1][Len(sent[n][1])]
  ELSE IF hand[m][1] \in Frames THEN hand[m][1] ELSE "none"

(* A LINK is under way from n to m. *)
LinkUnderWay(n, m) ==
  \/ \E i \in 1..Len(lane[n]) : lane[n][i][1] = "LINK"
  \/ \E i \in 1..Len(sent[n][1]) : sent[n][1][i] = "LINK"
  \/ hand[m][1] = "LINK"

(* The end d, which does not call, sends nothing but EXIT, and that only    *)
(* once its process is gone; the link of c is not taken from it before.     *)
(* Before c is connected d knows of no link.                                *)
AnswerInv(c, d) ==
  /\ caller[d] = "idle" /\ hand[c][1] \in {"none", "EXIT"}
  /\ \A i \in 1..Len(lane[d]) : lane[d][i][1] = "EXIT"
  /\ \A i \in 1..Len(sent[d][1]) : sent[d][1][i] = "EXIT"
  /\ life[d] = "alive" => lane[d] = <<>> /\ sent[d][1] = <<>> /\ hand[c][1] = "none"
  /\ life[d] = "alive" /\ caller[c] = "send" => half[c]
  /\ installed[c] = 0 => ~half[d] /\ hand[d][1] = "none"

(* What the ends agree on once what is under way has arrived. *)
AgreeInv(c, d) ==
  life[d] = "alive" /\ caller[c] = "idle" /\ life[c] # "taken" =>
     IF Latest(c, d) = "none" THEN half[d] = half[c] ELSE Latest(c, d) = "LINK" <=> half[c]

(* A link to a process that is gone has an EXIT coming. *)
ComingInv(c, d) ==
  life[d] # "alive" /\ life[c] = "alive" /\ half[c] =>
     \/ caller[c] = "send" \/ LinkUnderWay(c, d)
     \/ Latest(d, c) # "none"
     \/ life[d] = "taken" \/ (life[d] = "exited" /\ half[d])

PairInv(c, d) == AnswerInv(c, d) /\ AgreeInv(c, d) /\ ComingInv(c, d)

FirstLinkInv ==
  opened <= 1 =>
    /\ \A n \in LinkEnds : FirstInv(n)
    /\ \A c \in LinkEnds :
          LinkCallers \subseteq {c} /\ Sound(c) /\ Sound(Other(c)) => PairInv(c, Other(c))

HalfInv == PipeTypes /\ (\A n \in LinkEnds : EndInv(n)) /\ FirstLinkInv

(* The two ends of a pair. *)
LEMMA EndsOfPair ==
  ASSUME NEW c \in LinkEnds
  PROVE  /\ Other(c) \in LinkEnds /\ Other(c) # c /\ Other(Other(c)) = c
         /\ \A n \in LinkEnds : n = c \/ n = Other(c)
BY DEF LinkEnds, Other

(* What has settled has nobody left that could undo a link. *)
LEMMA SettledAgree == HalfInv => NoDanglingHalf
<1> SUFFICES ASSUME HalfInv, Settled
             PROVE  /\ \A n \in LinkEnds : half[n] => session[n] # 0 /\ life[n] = "alive"
                    /\ opened <= 1 /\ Cardinality(LinkCallers) <= 1 => half["a"] = half["b"]
  BY DEF NoDanglingHalf
<1>1. \A n \in LinkEnds : half[n] => session[n] # 0 /\ life[n] = "alive"
  <2> SUFFICES ASSUME NEW n \in LinkEnds, half[n] PROVE session[n] # 0 /\ life[n] = "alive"
    OBVIOUS
  <2>1. life[n] = "alive"
    BY DEF HalfInv, EndInv, Settled
  <2>2. /\ owed[n] = 0 /\ scan[n] = "idle" /\ caller[n] = "idle"
        /\ \A g \in SessionIds : hand[n][g] = "none"
    BY DEF Settled
  <2> QED BY <2>1, <2>2 DEF HalfInv, EndInv
<1>2. ASSUME opened <= 1, Cardinality(LinkCallers) <= 1 PROVE half["a"] = half["b"]
  <2>1. PICK c \in LinkEnds : LinkCallers \subseteq {c}
    <3>1. IsFiniteSet(LinkEnds)
      <4>1. LinkEnds = {"a"} \cup {"b"}
        BY DEF LinkEnds
      <4> QED BY <4>1, FS_Singleton, FS_AddElement
    <3>2. IsFiniteSet(LinkCallers) /\ Cardinality(LinkCallers) \in Nat
      BY <3>1, RemoteLinksAssumption, FS_Subset, FS_CardinalityType
    <3>3. CASE Cardinality(LinkCallers) = 0
      BY <3>2, <3>3, FS_EmptySet DEF LinkEnds
    <3>4. CASE Cardinality(LinkCallers) = 1
      <4>1. PICK x : LinkCallers = {x}
        BY <3>2, <3>4, FS_Singleton
      <4> QED BY <4>1, RemoteLinksAssumption
    <3> QED BY <1>2, <3>2, <3>3, <3>4
  <2>2. PICK d \in LinkEnds : d = Other(c) /\ c = Other(d) /\ \A n \in LinkEnds : n = c \/ n = d
    BY EndsOfPair
  <2>3. 1 \in SessionIds
    BY RemoteLinksAssumption DEF SessionIds
  <2>4. FirstInv(c) /\ FirstInv(d)
    BY <1>2 DEF HalfInv, FirstLinkInv
  <2>5. SUFFICES half[c] = half[d]
    BY <2>2 DEF LinkEnds, Other
  <2>6. PipeTypes
    BY DEF HalfInv
  <2>7. CASE opened = 0
    <3>1. session[c] = 0 /\ session[d] = 0
      BY <2>4, <2>6, <2>7 DEF FirstInv, PipeTypes
    <3> QED BY <3>1, <1>1, <2>6 DEF PipeTypes
  <2>8. CASE opened = 1
    <3>1. installed[c] = 1 /\ installed[d] = 1
      BY <2>2, <2>8 DEF Settled, LinkEnds
    <3>2. CASE session[c] = 0 \/ session[d] = 0
      <4>1. ASSUME NEW n \in LinkEnds, NEW m \in LinkEnds, m = Other(n), n = Other(m),
                   session[n] = 0, installed[n] = 1, FirstInv(n), FirstInv(m)
            PROVE  session[m] = 0
        <5>1. 1 \in flagged[n]
          BY <4>1 DEF FirstInv, Sound
        <5>2. session[m] # 0 => session[m] = 1 /\ session[m] \in reading[m]
          BY <4>1 DEF Settled, FirstInv
        <5> QED BY <4>1, <5>1, <5>2, <2>3 DEF Settled
      <4>2. session[c] = 0 /\ session[d] = 0
        BY <3>1, <3>2, <2>2, <2>4, <4>1
      <4> QED BY <4>2, <1>1, <2>6 DEF PipeTypes
    <3>3. CASE session[c] # 0 /\ session[d] # 0
      <4>1. session[c] = 1 /\ session[d] = 1 /\ Sound(c) /\ Sound(d) /\ 1 \in reading[c] /\ 1 \in reading[d]
        BY <3>1, <3>3, <2>4 DEF Settled, FirstInv, Sound
      <4>2. PairInv(c, d)
        BY <4>1, <1>2, <2>1, <2>2 DEF HalfInv, FirstLinkInv
      <4>3. /\ lane[c] = <<>> /\ lane[d] = <<>> /\ hand[c][1] = "none" /\ hand[d][1] = "none"
            /\ sent[c][1] = <<>> /\ sent[d][1] = <<>> /\ caller[c] = "idle" /\ caller[d] = "idle"
        BY <4>1, <2>2, <2>3 DEF Settled
      <4>4. Latest(c, d) = "none" /\ Latest(d, c) = "none"
        BY <4>3 DEF Latest, Frames
      <4>5. ~LinkUnderWay(c, d)
        BY <4>3 DEF LinkUnderWay
      <4>6. CASE life[d] = "alive"
        BY <4>2, <4>3, <4>4, <4>6 DEF PairInv, AgreeInv, Settled
      <4>7. CASE life[d] # "alive"
        <5>1. ~half[d] /\ life[d] = "dead"
          BY <1>1, <4>7 DEF Settled
        <5>2. ~half[c]
          BY <5>1, <4>2, <4>3, <4>4, <4>5, <4>7, <1>1 DEF PairInv, ComingInv
        <5> QED BY <5>1, <5>2, <2>6 DEF PipeTypes
      <4> QED BY <4>6, <4>7
    <3> QED BY <3>2, <3>3
  <2> QED BY <1>2, <2>6, <2>7, <2>8 DEF PipeTypes
<1> QED BY <1>1, <1>2

-----------------------------------------------------------------------------
(* What the steps do to the types *)

(* enqueue_control: the frame goes to the end of the lane, unless there is  *)
(* no connection or it is marked down for want of room.                     *)
LEMMA EnqueueEffect ==
  ASSUME PipeTypes, NEW n \in LinkEnds, NEW f \in Frames, Enqueue(n, f)
  PROVE  /\ lane' \in [LinkEnds -> Seq(Frames \X SessionIds)] /\ flagged' \in [LinkEnds -> SUBSET SessionIds]
         /\ \A m \in LinkEnds : m # n => lane'[m] = lane[m] /\ flagged'[m] = flagged[m]
         /\ session[n] = 0 => lane'[n] = lane[n] /\ flagged'[n] = flagged[n]
         /\ \/ lane'[n] = lane[n] /\ flagged'[n] = flagged[n] /\ session[n] = 0
            \/ lane'[n] = Append(lane[n], <<f, session[n]>>) /\ flagged'[n] = flagged[n] /\ session[n] # 0
            \/ lane'[n] = lane[n] /\ flagged'[n] = flagged[n] \cup {session[n]} /\ session[n] # 0
<1>1. session[n] \in 0..MaxSessions /\ MaxSessions \in Nat
  BY RemoteLinksAssumption DEF PipeTypes
<1>2. CASE session[n] = 0
  BY <1>2 DEF Enqueue, PipeTypes
<1>3. CASE session[n] # 0 /\ Len(lane[n]) < LaneCap
  <2>1. session[n] \in SessionIds /\ <<f, session[n]>> \in Frames \X SessionIds
    BY <1>1, <1>3 DEF SessionIds
  <2>2. lane' = [lane EXCEPT ![n] = Append(lane[n], <<f, session[n]>>)] /\ flagged' = flagged
    BY <1>3 DEF Enqueue
  <2>3. Append(lane[n], <<f, session[n]>>) \in Seq(Frames \X SessionIds)
    BY <2>1 DEF PipeTypes
  <2>4. lane \in [LinkEnds -> Seq(Frames \X SessionIds)] /\ flagged \in [LinkEnds -> SUBSET SessionIds]
    BY DEF PipeTypes
  <2> QED BY <1>3, <2>2, <2>3, <2>4
<1>4. CASE session[n] # 0 /\ ~(Len(lane[n]) < LaneCap)
  <2>1. session[n] \in SessionIds
    BY <1>1, <1>4 DEF SessionIds
  <2>2. flagged' = [flagged EXCEPT ![n] = flagged[n] \cup {session[n]}] /\ lane' = lane
    BY <1>4 DEF Enqueue
  <2> QED BY <1>4, <2>1, <2>2 DEF PipeTypes
<1> QED BY <1>2, <1>3, <1>4

(* A signal that takes the link out, or finds it gone. *)
LEMMA LinkExitEffect ==
  ASSUME PipeTypes, NEW n \in LinkEnds, LinkExit(n)
  PROVE  /\ half' \in [LinkEnds -> BOOLEAN] /\ \A m \in LinkEnds : m # n => half'[m] = half[m]
         /\ life[n] = "alive" => ~half'[n]
         /\ life[n] # "alive" => half'[n] = half[n]
BY DEF LinkExit, PipeTypes

(* establish_remote_link. *)
LEMMA EstablishEffect ==
  ASSUME PipeTypes, NEW n \in LinkEnds, NEW g, Establish(n, g)
  PROVE  half' \in [LinkEnds -> BOOLEAN] /\ half'[n] /\ \A m \in LinkEnds : m # n => half'[m] = half[m]
BY DEF Establish, PipeTypes

(* The drain and the reader move the first frame. *)
LEMMA DrainEffect ==
  ASSUME PipeTypes, NEW n \in LinkEnds, DrainLane(n)
  PROVE  /\ lane' \in [LinkEnds -> Seq(Frames \X SessionIds)] /\ lane'[n] = Tail(lane[n]) /\ lane[n] # <<>>
         /\ \A m \in LinkEnds : m # n => lane'[m] = lane[m] /\ sent'[m] = sent[m]
         /\ sent' \in [LinkEnds -> [SessionIds -> Seq(Frames)]]
         /\ \A g \in SessionIds :
               \/ sent'[n][g] = sent[n][g] /\ (g # Head(lane[n])[2] \/ g \in flagged[n])
               \/ sent'[n][g] = Append(sent[n][g], Head(lane[n])[1]) /\ g = Head(lane[n])[2]
<1>1. lane[n] \in Seq(Frames \X SessionIds) /\ lane[n] # <<>>
  BY DEF DrainLane, PipeTypes
<1>2. PICK f \in Frames, g \in SessionIds : Head(lane[n]) = <<f, g>>
  <2>1. Head(lane[n]) \in Frames \X SessionIds
    BY <1>1
  <2> QED BY <2>1
<1>3. lane' = [lane EXCEPT ![n] = Tail(lane[n])] /\ Tail(lane[n]) \in Seq(Frames \X SessionIds)
  BY <1>1 DEF DrainLane
<1>4. /\ lane' \in [LinkEnds -> Seq(Frames \X SessionIds)] /\ lane'[n] = Tail(lane[n])
      /\ \A m \in LinkEnds : m # n => lane'[m] = lane[m]
  BY <1>3 DEF PipeTypes
<1>5. Head(lane[n])[1] = f /\ Head(lane[n])[2] = g
  BY <1>2
<1>6. sent' = IF g \in flagged[n] THEN sent ELSE [sent EXCEPT ![n][g] = Append(sent[n][g], f)]
  BY <1>5 DEF DrainLane
<1>7. sent \in [LinkEnds -> [SessionIds -> Seq(Frames)]]
  BY DEF PipeTypes
<1>8. CASE g \in flagged[n]
  BY <1>1, <1>4, <1>5, <1>6, <1>7, <1>8
<1>9. CASE g \notin flagged[n]
  <2>1. Append(sent[n][g], f) \in Seq(Frames)
    BY <1>7
  <2>2. sent' = [sent EXCEPT ![n][g] = Append(sent[n][g], f)]
    BY <1>6, <1>9
  <2>3. sent' \in [LinkEnds -> [SessionIds -> Seq(Frames)]]
    BY <1>7, <2>1, <2>2
  <2>4. /\ sent'[n][g] = Append(sent[n][g], f) /\ \A h \in SessionIds : h # g => sent'[n][h] = sent[n][h]
        /\ \A m \in LinkEnds : m # n => sent'[m] = sent[m]
    BY <1>7, <2>2
  <2> QED BY <1>1, <1>4, <1>5, <2>3, <2>4
<1> QED BY <1>8, <1>9

LEMMA ReadEffect ==
  ASSUME PipeTypes, NEW n \in LinkEnds, NEW g \in SessionIds, ReadFrame(n, g)
  PROVE  /\ sent[Other(n)][g] \in Seq(Frames) /\ sent[Other(n)][g] # <<>> /\ g \in reading[n] /\ hand[n][g] = "none"
         /\ hand' \in [LinkEnds -> [SessionIds -> Frames \cup {"none", "recheck"}]]
         /\ hand'[n][g] = Head(sent[Other(n)][g]) /\ \A h \in SessionIds : h # g => hand'[n][h] = hand[n][h]
         /\ hand'[Other(n)] = hand[Other(n)] /\ sent'[n] = sent[n]
         /\ sent' \in [LinkEnds -> [SessionIds -> Seq(Frames)]]
         /\ sent'[Other(n)][g] = Tail(sent[Other(n)][g])
         /\ \A h \in SessionIds : h # g => sent'[Other(n)][h] = sent[Other(n)][h]
<1>1. PICK m \in LinkEnds : m = Other(n) /\ m # n /\ \A k \in LinkEnds : k = n \/ k = m
  BY EndsOfPair
<1>2. /\ g \in reading[n] /\ hand[n][g] = "none" /\ sent[m][g] # <<>>
      /\ hand' = [hand EXCEPT ![n][g] = Head(sent[m][g])]
      /\ sent' = [sent EXCEPT ![m][g] = Tail(sent[m][g])]
  BY <1>1 DEF ReadFrame
<1>3. /\ sent \in [LinkEnds -> [SessionIds -> Seq(Frames)]]
      /\ hand \in [LinkEnds -> [SessionIds -> Frames \cup {"none", "recheck"}]]
  BY DEF PipeTypes
<1>4. sent[m][g] \in Seq(Frames)
  BY <1>3
<1>5. Head(sent[m][g]) \in Frames /\ Tail(sent[m][g]) \in Seq(Frames)
  BY <1>2, <1>4
<1>6. /\ sent' \in [LinkEnds -> [SessionIds -> Seq(Frames)]] /\ sent'[m][g] = Tail(sent[m][g]) /\ sent'[n] = sent[n]
      /\ \A h \in SessionIds : h # g => sent'[m][h] = sent[m][h]
  BY <1>1, <1>2, <1>3, <1>5
<1>7. /\ hand' \in [LinkEnds -> [SessionIds -> Frames \cup {"none", "recheck"}]] /\ hand'[n][g] = Head(sent[m][g])
      /\ hand'[m] = hand[m] /\ \A h \in SessionIds : h # g => hand'[n][h] = hand[n][h]
  BY <1>1, <1>2, <1>3, <1>5
<1> QED BY <1>1, <1>2, <1>4, <1>6, <1>7

(* A reader's hand is emptied, or holds the recheck. *)
LEMMA HandEffect ==
  ASSUME PipeTypes, NEW n \in LinkEnds, NEW g \in SessionIds, NEW x \in {"none", "recheck"},
         hand' = [hand EXCEPT ![n][g] = x]
  PROVE  /\ hand' \in [LinkEnds -> [SessionIds -> Frames \cup {"none", "recheck"}]]
         /\ hand'[n][g] = x /\ \A h \in SessionIds : h # g => hand'[n][h] = hand[n][h]
         /\ \A m \in LinkEnds : m # n => hand'[m] = hand[m]
BY DEF PipeTypes

(* Every step keeps the types. *)
LEMMA PipeTypesKept ==
  ASSUME PipeTypes, RlNext
  PROVE  PipeTypes'
<1> USE DEF ends, sessions, pipes, linkBudget
<1>1. CASE OpenSession
  <2>1. opened + 1 \in 0..MaxSessions
    BY <1>1, RemoteLinksAssumption DEF OpenSession, PipeTypes
  <2> QED BY <1>1, <2>1 DEF OpenSession, PipeTypes
<1>2. ASSUME NEW n \in LinkEnds, LinkRemote(n) PROVE PipeTypes'
  <2>1. half' \in [LinkEnds -> BOOLEAN]
    BY <1>2, EstablishEffect DEF LinkRemote
  <2> QED BY <1>2, <2>1 DEF LinkRemote, PipeTypes
<1>3. ASSUME NEW n \in LinkEnds, SendLink(n) PROVE PipeTypes'
  <2>1. lane' \in [LinkEnds -> Seq(Frames \X SessionIds)] /\ flagged' \in [LinkEnds -> SUBSET SessionIds]
    BY <1>3, EnqueueEffect DEF SendLink, Frames
  <2>2. half' \in [LinkEnds -> BOOLEAN]
    BY <1>3 DEF SendLink, PipeTypes
  <2> QED BY <1>3, <2>1, <2>2 DEF SendLink, PipeTypes
<1>4. ASSUME NEW n \in LinkEnds, UnlinkRemote(n) PROVE PipeTypes'
  <2>1. lane' \in [LinkEnds -> Seq(Frames \X SessionIds)] /\ flagged' \in [LinkEnds -> SUBSET SessionIds]
    BY <1>4, EnqueueEffect DEF UnlinkRemote, Frames
  <2> QED BY <1>4, <2>1 DEF UnlinkRemote, PipeTypes
<1>5. ASSUME NEW n \in LinkEnds, ProcessExits(n) \/ TakeRemoteLinks(n) PROVE PipeTypes'
  BY <1>5 DEF ProcessExits, TakeRemoteLinks, PipeTypes
<1>6. ASSUME NEW n \in LinkEnds, SendRemoteExit(n) PROVE PipeTypes'
  <2>1. lane' \in [LinkEnds -> Seq(Frames \X SessionIds)] /\ flagged' \in [LinkEnds -> SUBSET SessionIds]
    BY <1>6, EnqueueEffect DEF SendRemoteExit, Frames
  <2> QED BY <1>6, <2>1 DEF SendRemoteExit, PipeTypes
<1>7. ASSUME NEW n \in LinkEnds, DrainLane(n) PROVE PipeTypes'
  <2>1. /\ lane' \in [LinkEnds -> Seq(Frames \X SessionIds)]
        /\ sent' \in [LinkEnds -> [SessionIds -> Seq(Frames)]]
    BY <1>7, DrainEffect
  <2>2. UNCHANGED <<life, half, session, installed, flagged, reading, opened, owed, scan, hand,
                    caller>>
    BY <1>7 DEF DrainLane
  <2> QED BY <2>1, <2>2 DEF PipeTypes
<1>8. ASSUME NEW n \in LinkEnds, Install(n) PROVE PipeTypes'
  BY <1>8 DEF Install, PipeTypes
<1>9. ASSUME NEW n \in LinkEnds, SpawnReader(n) PROVE PipeTypes'
  <2>1. installed[n] \in SessionIds
    BY <1>9, RemoteLinksAssumption DEF SpawnReader, PipeTypes, SessionIds
  <2> QED BY <1>9, <2>1 DEF SpawnReader, PipeTypes
<1>10. ASSUME NEW n \in LinkEnds, LinkFails(n) PROVE PipeTypes'
  <2>1. session[n] \in SessionIds
    BY <1>10, RemoteLinksAssumption DEF LinkFails, PipeTypes, SessionIds
  <2> QED BY <1>10, <2>1 DEF LinkFails, PipeTypes
<1>11. ASSUME NEW n \in LinkEnds, Reap(n) PROVE PipeTypes'
  <2>1. 0 \in 0..MaxSessions /\ owed[n] + 1 \in Nat
    BY RemoteLinksAssumption DEF PipeTypes
  <2> QED BY <1>11, <2>1 DEF Reap, PipeTypes
<1>12. ASSUME NEW n \in LinkEnds, CollectLinks(n) PROVE PipeTypes'
  <2>1. owed[n] - 1 \in Nat
    BY <1>12 DEF CollectLinks, PipeTypes
  <2> QED BY <1>12, <2>1 DEF CollectLinks, PipeTypes
<1>13. ASSUME NEW n \in LinkEnds, DeliverNoConnection(n) PROVE PipeTypes'
  <2>1. half' \in [LinkEnds -> BOOLEAN]
    BY <1>13, LinkExitEffect DEF DeliverNoConnection
  <2> QED BY <1>13, <2>1 DEF DeliverNoConnection, PipeTypes
<1>14. ASSUME NEW n \in LinkEnds, NEW g \in SessionIds, ReadFrame(n, g) PROVE PipeTypes'
  <2>1. /\ hand' \in [LinkEnds -> [SessionIds -> Frames \cup {"none", "recheck"}]]
        /\ sent' \in [LinkEnds -> [SessionIds -> Seq(Frames)]]
    BY <1>14, ReadEffect
  <2>2. UNCHANGED <<life, half, session, installed, flagged, reading, opened, owed, scan, lane,
                    caller>>
    BY <1>14 DEF ReadFrame
  <2> QED BY <2>1, <2>2 DEF PipeTypes
<1>15. ASSUME NEW n \in LinkEnds, NEW g \in SessionIds, ApplyLink(n, g) PROVE PipeTypes'
  <2>1. UNCHANGED <<life, session, installed, reading, opened, owed, scan, sent, caller>>
    BY <1>15 DEF ApplyLink
  <2>2. CASE life[n] = "alive"
    <3>1. half' \in [LinkEnds -> BOOLEAN] /\ UNCHANGED <<lane, flagged>>
      BY <1>15, <2>2, EstablishEffect DEF ApplyLink
    <3>2. hand' \in [LinkEnds -> [SessionIds -> Frames \cup {"none", "recheck"}]]
      BY <1>15, <2>2, HandEffect DEF ApplyLink
    <3> QED BY <2>1, <3>1, <3>2 DEF PipeTypes
  <2>3. CASE life[n] # "alive"
    <3>1. lane' \in [LinkEnds -> Seq(Frames \X SessionIds)] /\ flagged' \in [LinkEnds -> SUBSET SessionIds]
      BY <1>15, <2>3, EnqueueEffect DEF ApplyLink, Frames
    <3>2. hand' \in [LinkEnds -> [SessionIds -> Frames \cup {"none", "recheck"}]] /\ half' = half
      BY <1>15, <2>3, HandEffect DEF ApplyLink
    <3> QED BY <2>1, <3>1, <3>2 DEF PipeTypes
  <2> QED BY <2>2, <2>3
<1>16. ASSUME NEW n \in LinkEnds, NEW g \in SessionIds,
              RecheckConnection(n, g) \/ ApplyUnlink(n, g) \/ ApplyLinkExit(n, g)
       PROVE PipeTypes'
  <2>1. UNCHANGED <<life, session, installed, flagged, reading, opened, owed, scan, lane, sent,
                    caller>>
    BY <1>16 DEF RecheckConnection, ApplyUnlink, ApplyLinkExit
  <2>2. hand' \in [LinkEnds -> [SessionIds -> Frames \cup {"none", "recheck"}]]
    BY <1>16, HandEffect DEF RecheckConnection, ApplyUnlink, ApplyLinkExit
  <2>3. half' \in [LinkEnds -> BOOLEAN]
    <3>1. CASE ApplyUnlink(n, g)
      BY <3>1 DEF ApplyUnlink, PipeTypes
    <3>2. CASE RecheckConnection(n, g) \/ ApplyLinkExit(n, g)
      BY <3>2, LinkExitEffect DEF RecheckConnection, ApplyLinkExit, PipeTypes
    <3> QED BY <1>16, <3>1, <3>2
  <2> QED BY <2>1, <2>2, <2>3 DEF PipeTypes
<1>17. ASSUME NEW n \in LinkEnds, NEW g \in SessionIds, ReaderEnds(n, g) PROVE PipeTypes'
  BY <1>17 DEF ReaderEnds, PipeTypes
<1> QED
  BY <1>1, <1>2, <1>3, <1>4, <1>5, <1>6, <1>7, <1>8, <1>9, <1>10, <1>11, <1>12, <1>13, <1>14, <1>15,
     <1>16, <1>17 DEF RlNext

-----------------------------------------------------------------------------
(* Who undoes a link *)

(* A step that leaves an end alone, or only takes it out of the link. *)
LEMMA EndKept ==
  ASSUME NEW m \in LinkEnds, EndInv(m), half'[m] => half[m], life'[m] = life[m],
         caller'[m] = caller[m],
         session'[m] = 0 => session[m] = 0, owed'[m] = owed[m], scan'[m] = scan[m],
         \A g \in SessionIds : hand[m][g] = "recheck" => hand'[m][g] = "recheck"
  PROVE  EndInv(m)'
BY DEF EndInv

LEMMA EndsKept ==
  ASSUME PipeTypes, \A n \in LinkEnds : EndInv(n), RlNext
  PROVE  (\A n \in LinkEnds : EndInv(n))'
<1> SUFFICES ASSUME NEW m \in LinkEnds PROVE EndInv(m)'
  OBVIOUS
<1>0. EndInv(m)
  OBVIOUS
<1> USE DEF ends, sessions, pipes, linkBudget
<1>1. CASE OpenSession
  BY <1>0, <1>1, EndKept DEF OpenSession
<1>2. ASSUME NEW n \in LinkEnds, LinkRemote(n) PROVE EndInv(m)'
  <2>1. half'[n] /\ \A k \in LinkEnds : k # n => half'[k] = half[k]
    BY <1>2, EstablishEffect DEF LinkRemote
  <2>2. /\ caller'[n] = "send" /\ (m # n => caller'[m] = caller[m]) /\ life[n] = "alive"
        /\ UNCHANGED <<life, session, owed, scan, hand>>
    BY <1>2 DEF LinkRemote, PipeTypes
  <2>3. CASE m = n
    BY <2>2, <2>3 DEF EndInv
  <2>4. CASE m # n
    BY <1>0, <2>1, <2>2, <2>4, EndKept
  <2> QED BY <2>3, <2>4
<1>3. ASSUME NEW n \in LinkEnds, SendLink(n) PROVE EndInv(m)'
  <2>1. /\ (half'[m] => half[m]) /\ (m = n => ~half'[m] \/ session[m] # 0)
        /\ (m # n => caller'[m] = caller[m]) /\ caller'[n] = "idle"
        /\ UNCHANGED <<life, session, owed, scan, hand>>
    BY <1>3 DEF SendLink, PipeTypes
  <2>2. CASE m = n
    BY <1>0, <2>1, <2>2 DEF EndInv
  <2>3. CASE m # n
    BY <1>0, <2>1, <2>3, EndKept
  <2> QED BY <2>2, <2>3
<1>4. ASSUME NEW n \in LinkEnds, UnlinkRemote(n) PROVE EndInv(m)'
  <2>1. /\ half'[m] => half[m]
        /\ UNCHANGED <<life, session, owed, scan, hand, caller>>
    BY <1>4 DEF UnlinkRemote, PipeTypes
  <2> QED BY <1>0, <2>1, EndKept
<1>5. ASSUME NEW n \in LinkEnds, ProcessExits(n) \/ TakeRemoteLinks(n) PROVE EndInv(m)'
  <2>1. /\ (half'[m] => half[m]) /\ UNCHANGED <<session, owed, scan, hand, caller>>
        /\ m # n => life'[m] = life[m]
    BY <1>5 DEF ProcessExits, TakeRemoteLinks, PipeTypes
  <2>2. CASE m # n
    BY <1>0, <2>1, <2>2, EndKept
  <2>3. CASE m = n
    <3>1. life'[m] # "alive" /\ (half'[m] => life'[m] = "exited") /\ caller'[m] # "send"
      BY <1>0, <1>5, <2>3 DEF ProcessExits, TakeRemoteLinks, PipeTypes, EndInv
    <3> QED BY <3>1 DEF EndInv
  <2> QED BY <2>2, <2>3
<1>6. ASSUME NEW n \in LinkEnds, SendRemoteExit(n) PROVE EndInv(m)'
  <2>1. /\ UNCHANGED <<half, session, owed, scan, hand, caller>>
        /\ (m # n => life'[m] = life[m]) /\ life[n] = "taken" /\ life'[n] = "dead"
    BY <1>6 DEF SendRemoteExit, PipeTypes
  <2>2. CASE m # n
    BY <1>0, <2>1, <2>2, EndKept
  <2>3. CASE m = n
    BY <1>0, <2>1, <2>3 DEF EndInv
  <2> QED BY <2>2, <2>3
<1>7. ASSUME NEW n \in LinkEnds, DrainLane(n) \/ SpawnReader(n) \/ LinkFails(n) PROVE EndInv(m)'
  <2>1. UNCHANGED <<half, life, session, owed, scan, hand, caller>>
    BY <1>7 DEF DrainLane, SpawnReader, LinkFails
  <2> QED BY <1>0, <2>1, EndKept
<1>8. ASSUME NEW n \in LinkEnds, Install(n) PROVE EndInv(m)'
  <2>1. /\ UNCHANGED <<half, life, scan, hand, caller>>
        /\ m # n => session'[m] = session[m] /\ owed'[m] = owed[m]
    BY <1>8 DEF Install, PipeTypes
  <2>2. session'[n] # 0
    BY <1>8 DEF Install, PipeTypes
  <2>3. CASE m # n
    BY <1>0, <2>1, <2>3, EndKept
  <2>4. CASE m = n
    BY <1>0, <2>1, <2>2, <2>4 DEF EndInv
  <2> QED BY <2>3, <2>4
<1>9. ASSUME NEW n \in LinkEnds, Reap(n) PROVE EndInv(m)'
  <2>1. /\ UNCHANGED <<half, life, scan, hand, caller>>
        /\ m # n => session'[m] = session[m] /\ owed'[m] = owed[m]
    BY <1>9 DEF Reap, PipeTypes
  <2>2. owed'[n] > 0
    BY <1>9 DEF Reap, PipeTypes
  <2>3. CASE m # n
    BY <1>0, <2>1, <2>3, EndKept
  <2>4. CASE m = n
    BY <1>0, <2>1, <2>2, <2>4 DEF EndInv
  <2> QED BY <2>3, <2>4
<1>10. ASSUME NEW n \in LinkEnds, CollectLinks(n) PROVE EndInv(m)'
  <2>1. /\ UNCHANGED <<half, life, session, hand, caller>>
        /\ (m # n => scan'[m] = scan[m] /\ owed'[m] = owed[m]) /\ (half[n] => scan'[n] = "collected")
    BY <1>10 DEF CollectLinks, PipeTypes
  <2>2. CASE m # n
    BY <1>0, <2>1, <2>2, EndKept
  <2>3. CASE m = n
    BY <1>0, <2>1, <2>3 DEF EndInv
  <2> QED BY <2>2, <2>3
<1>11. ASSUME NEW n \in LinkEnds, DeliverNoConnection(n) PROVE EndInv(m)'
  <2>1. /\ UNCHANGED <<life, session, owed, hand, caller>> /\ (m # n => scan'[m] = scan[m])
    BY <1>11 DEF DeliverNoConnection, PipeTypes
  <2>2. /\ life[n] = "alive" => ~half'[n]
        /\ life[n] # "alive" => half'[n] = half[n]
        /\ m # n => half'[m] = half[m]
    BY <1>11, LinkExitEffect DEF DeliverNoConnection
  <2>3. CASE m # n
    BY <1>0, <2>1, <2>2, <2>3, EndKept
  <2>4. CASE m = n
    BY <1>0, <2>1, <2>2, <2>4 DEF EndInv
  <2> QED BY <2>3, <2>4
<1>12. ASSUME NEW n \in LinkEnds, NEW g \in SessionIds, ReadFrame(n, g) PROVE EndInv(m)'
  <2>1. UNCHANGED <<half, life, session, owed, scan, caller>>
    BY <1>12 DEF ReadFrame
  <2>2. \A h \in SessionIds : hand[m][h] = "recheck" => hand'[m][h] = "recheck"
    <3>1. /\ hand[n][g] = "none" /\ hand'[Other(n)] = hand[Other(n)]
          /\ \A h \in SessionIds : h # g => hand'[n][h] = hand[n][h]
      BY <1>12, ReadEffect
    <3>2. m = n \/ m = Other(n)
      BY EndsOfPair
    <3>3. CASE m = n
      BY <3>1, <3>3
    <3>4. CASE m = Other(n)
      BY <3>1, <3>4
    <3> QED BY <3>2, <3>3, <3>4
  <2> QED BY <1>0, <2>1, <2>2, EndKept
<1>13. ASSUME NEW n \in LinkEnds, NEW g \in SessionIds, ApplyLink(n, g) PROVE EndInv(m)'
  <2>1. UNCHANGED <<life, session, owed, scan, caller>> /\ hand[n][g] = "LINK"
    BY <1>13 DEF ApplyLink
  <2>2. CASE life[n] = "alive"
    <3>1. half'[n] /\ \A k \in LinkEnds : k # n => half'[k] = half[k]
      BY <1>13, <2>2, EstablishEffect DEF ApplyLink
    <3>2. hand'[n][g] = "recheck" /\ (m # n => hand'[m] = hand[m])
      BY <1>13, <2>2, HandEffect DEF ApplyLink
    <3>3. CASE m # n
      BY <1>0, <2>1, <3>1, <3>2, <3>3, EndKept
    <3>4. CASE m = n
      BY <1>0, <2>1, <2>2, <3>2, <3>4 DEF EndInv
    <3> QED BY <3>3, <3>4
  <2>3. CASE life[n] # "alive"
    <3>1. half' = half /\ hand' = [hand EXCEPT ![n][g] = "none"]
      BY <1>13, <2>3 DEF ApplyLink
    <3>2. \A h \in SessionIds : hand[m][h] = "recheck" => hand'[m][h] = "recheck"
      BY <2>1, <3>1, HandEffect
    <3> QED BY <1>0, <2>1, <3>1, <3>2, EndKept
  <2> QED BY <2>2, <2>3
<1>14. ASSUME NEW n \in LinkEnds, NEW g \in SessionIds, RecheckConnection(n, g) PROVE EndInv(m)'
  <2>1. UNCHANGED <<life, session, owed, scan, caller>> /\ hand[n][g] = "recheck"
    BY <1>14 DEF RecheckConnection
  <2>2. m # n => hand'[m] = hand[m]
    BY <1>14, HandEffect DEF RecheckConnection
  <2>3. CASE session[n] = 0 \/ session[n] \in flagged[n]
    <3>1. /\ life[n] = "alive" => ~half'[n]
          /\ life[n] # "alive" => half'[n] = half[n]
          /\ m # n => half'[m] = half[m]
      BY <1>14, <2>3, LinkExitEffect DEF RecheckConnection
    <3>2. CASE m # n
      BY <1>0, <2>1, <2>2, <3>1, <3>2, EndKept
    <3>3. CASE m = n
      BY <1>0, <2>1, <3>1, <3>3 DEF EndInv
    <3> QED BY <3>2, <3>3
  <2>4. CASE ~(session[n] = 0 \/ session[n] \in flagged[n])
    <3>1. half' = half
      BY <1>14, <2>4 DEF RecheckConnection
    <3>2. CASE m # n
      BY <1>0, <2>1, <2>2, <3>1, <3>2, EndKept
    <3>3. CASE m = n
      BY <1>0, <2>1, <2>4, <3>1, <3>3 DEF EndInv
    <3> QED BY <3>2, <3>3
  <2> QED BY <2>3, <2>4
<1>15. ASSUME NEW n \in LinkEnds, NEW g \in SessionIds, ApplyUnlink(n, g) \/ ApplyLinkExit(n, g)
       PROVE EndInv(m)'
  <2>1. UNCHANGED <<life, session, owed, scan, caller>> /\ hand[n][g] # "recheck"
        /\ hand' = [hand EXCEPT ![n][g] = "none"]
    BY <1>15 DEF ApplyUnlink, ApplyLinkExit
  <2>2. \A h \in SessionIds : hand[m][h] = "recheck" => hand'[m][h] = "recheck"
    BY <2>1, HandEffect
  <2>3. half'[m] => half[m]
    <3>1. CASE ApplyUnlink(n, g)
      BY <3>1 DEF ApplyUnlink, PipeTypes
    <3>2. CASE ApplyLinkExit(n, g)
      BY <3>2, LinkExitEffect DEF ApplyLinkExit
    <3> QED BY <1>15, <3>1, <3>2
  <2> QED BY <1>0, <2>1, <2>2, <2>3, EndKept
<1>16. ASSUME NEW n \in LinkEnds, NEW g \in SessionIds, ReaderEnds(n, g) PROVE EndInv(m)'
  <2>1. UNCHANGED <<half, life, session, owed, scan, hand, caller>>
    BY <1>16 DEF ReaderEnds
  <2> QED BY <1>0, <2>1, EndKept
<1> QED
  BY <1>1, <1>2, <1>3, <1>4, <1>5, <1>6, <1>7, <1>8, <1>9, <1>10, <1>11, <1>12, <1>13, <1>14, <1>15,
     <1>16 DEF RlNext

-----------------------------------------------------------------------------
(* The first connection *)

(* A step that leaves a node's connection and lane alone, or marks the      *)
(* connection down.                                                         *)
LEMMA FirstKept ==
  ASSUME NEW m \in LinkEnds, FirstInv(m), PipeTypes, opened' = opened, installed'[m] = installed[m],
         session'[m] = session[m], owed'[m] = owed[m], scan'[m] = scan[m],
         flagged[m] \subseteq flagged'[m], installed[m] = 0 => flagged'[m] = flagged[m],
         reading'[m] = reading[m],
         \A g \in SessionIds : hand'[m][g] # "none" => hand[m][g] # "none",
         lane'[m] = lane[m], sent'[m][1] = sent[m][1], life'[m] = life[m],
         installed[m] = 0 /\ half'[m] => half[m] /\ caller'[m] = caller[m]
  PROVE  FirstInv(m)'
BY DEF FirstInv, Sound

(* A frame queued. *)
LEMMA FirstQueued ==
  ASSUME NEW m \in LinkEnds, FirstInv(m), PipeTypes, NEW f \in Frames, Enqueue(m, f), opened <= 1,
         UNCHANGED <<opened, installed, session, owed, scan, reading, sent>>,
         \A g \in SessionIds : hand'[m][g] # "none" => hand[m][g] # "none",
         life'[m] # "taken" \/ life'[m] = life[m],
         installed[m] = 0 /\ half'[m] => caller'[m] = "send"
  PROVE  FirstInv(m)'
<1>1. /\ session[m] = 0 => lane'[m] = lane[m] /\ flagged'[m] = flagged[m]
      /\ \/ lane'[m] = lane[m] /\ flagged[m] \subseteq flagged'[m]
         \/ lane'[m] = Append(lane[m], <<f, session[m]>>) /\ flagged'[m] = flagged[m] /\ session[m] # 0
  BY EnqueueEffect
<1>2. session[m] # 0 => session[m] = 1 /\ installed[m] = 1
  BY DEF FirstInv, PipeTypes
<1>3. \A i \in 1..Len(lane'[m]) : lane'[m][i][2] = 1
  <2>1. CASE lane'[m] = lane[m]
    BY <2>1 DEF FirstInv
  <2>2. CASE lane'[m] = Append(lane[m], <<f, session[m]>>) /\ session[m] # 0
    <3>1. lane[m] \in Seq(Frames \X SessionIds) /\ <<f, session[m]>> \in Frames \X SessionIds
      BY <1>2, <2>2, RemoteLinksAssumption DEF PipeTypes, SessionIds
    <3>2. /\ Len(lane'[m]) = Len(lane[m]) + 1 /\ lane'[m][Len(lane[m]) + 1] = <<f, session[m]>>
          /\ \A i \in 1..Len(lane[m]) : lane'[m][i] = lane[m][i]
      BY <2>2, <3>1
    <3>3. \A i \in 1..(Len(lane[m]) + 1) : i \in 1..Len(lane[m]) \/ i = Len(lane[m]) + 1
      BY <3>1
    <3> QED BY <1>2, <2>2, <3>2, <3>3 DEF FirstInv
  <2> QED BY <1>1, <2>1, <2>2
<1>4. installed[m] = 0 => lane'[m] = lane[m] /\ flagged'[m] = flagged[m]
  BY <1>1, <1>2
<1>5. flagged[m] \subseteq flagged'[m]
  BY <1>1
<1> QED BY <1>3, <1>4, <1>5 DEF FirstInv, Sound

(* Connections are only ever opened. *)
LEMMA OpenedGrows ==
  ASSUME PipeTypes, RlNext
  PROVE  opened' = opened \/ opened' = opened + 1
<1>1. ASSUME NEW n \in LinkEnds,
             \/ LinkRemote(n) \/ SendLink(n) \/ UnlinkRemote(n) \/ ProcessExits(n) \/ TakeRemoteLinks(n)
             \/ SendRemoteExit(n) \/ DrainLane(n) \/ Install(n) \/ SpawnReader(n) \/ LinkFails(n)
             \/ Reap(n) \/ CollectLinks(n) \/ DeliverNoConnection(n)
      PROVE  opened' = opened
  BY <1>1 DEF LinkRemote, SendLink, UnlinkRemote, ProcessExits, TakeRemoteLinks, SendRemoteExit,
     DrainLane,
              Install, SpawnReader, LinkFails, Reap, CollectLinks, DeliverNoConnection, sessions
<1>2. ASSUME NEW n \in LinkEnds, NEW g \in SessionIds,
             \/ ReadFrame(n, g) \/ ApplyLink(n, g) \/ RecheckConnection(n, g)
             \/ ApplyUnlink(n, g) \/ ApplyLinkExit(n, g) \/ ReaderEnds(n, g)
      PROVE  opened' = opened
  BY <1>2 DEF ReadFrame, ApplyLink, RecheckConnection, ApplyUnlink, ApplyLinkExit, ReaderEnds,
     sessions
<1> QED BY <1>1, <1>2 DEF RlNext, OpenSession

LEMMA FirstStepKept ==
  ASSUME PipeTypes, \A n \in LinkEnds : EndInv(n), RlNext, opened' <= 1,
         \A n \in LinkEnds : FirstInv(n), NEW m \in LinkEnds
  PROVE  FirstInv(m)'
<1>0. FirstInv(m) /\ EndInv(m)
  OBVIOUS
<1> USE DEF ends, sessions, pipes, linkBudget
<1>a. opened <= 1
  BY OpenedGrows DEF PipeTypes
<1>b. 1 \in SessionIds
  BY RemoteLinksAssumption DEF SessionIds
<1>1. CASE OpenSession
  <2>1. installed[m] <= opened + 1
    BY <1>0 DEF FirstInv, PipeTypes
  <2> QED BY <1>0, <1>1, <2>1 DEF OpenSession, FirstInv, Sound
<1>2. ASSUME NEW n \in LinkEnds, LinkRemote(n) PROVE FirstInv(m)'
  <2>1. \A k \in LinkEnds : k # n => half'[k] = half[k]
    BY <1>2, EstablishEffect DEF LinkRemote
  <2>2. caller'[n] = "send" /\ (m # n => caller'[m] = caller[m])
    BY <1>2 DEF LinkRemote, PipeTypes
  <2>3. CASE m # n
    BY <1>0, <1>2, <2>1, <2>2, <2>3, FirstKept DEF LinkRemote
  <2>4. CASE m = n
    BY <1>0, <1>2, <2>2, <2>4 DEF LinkRemote, FirstInv, Sound
  <2> QED BY <2>3, <2>4
<1>3. ASSUME NEW n \in LinkEnds, SendLink(n) PROVE FirstInv(m)'
  <2>1. /\ (half'[m] => half[m]) /\ (m = n => ~half'[m] \/ session[m] # 0) /\ (m # n => caller'[m] = caller[m])
    BY <1>3 DEF SendLink, PipeTypes
  <2>2. m # n => lane'[m] = lane[m] /\ flagged'[m] = flagged[m]
    BY <1>3, EnqueueEffect DEF SendLink, Frames
  <2>3. CASE m # n
    BY <1>0, <1>3, <2>1, <2>2, <2>3, FirstKept DEF SendLink
  <2>4. CASE m = n
    <3>1. installed[m] = 0 => session[m] = 0
      BY <1>0 DEF FirstInv
    <3> QED BY <1>0, <1>a, <1>3, <2>1, <2>4, <3>1, FirstQueued DEF SendLink, Frames
  <2> QED BY <2>3, <2>4
<1>4. ASSUME NEW n \in LinkEnds, UnlinkRemote(n) PROVE FirstInv(m)'
  <2>1. (half'[m] => half[m]) /\ (m = n => ~half'[m])
    BY <1>4 DEF UnlinkRemote, PipeTypes
  <2>2. m # n => lane'[m] = lane[m] /\ flagged'[m] = flagged[m]
    BY <1>4, EnqueueEffect DEF UnlinkRemote, Frames
  <2>3. CASE m # n
    BY <1>0, <1>4, <2>1, <2>2, <2>3, FirstKept DEF UnlinkRemote
  <2>4. CASE m = n
    BY <1>0, <1>a, <1>4, <2>1, <2>4, FirstQueued DEF UnlinkRemote, Frames
  <2> QED BY <2>3, <2>4
<1>5. ASSUME NEW n \in LinkEnds, ProcessExits(n) \/ TakeRemoteLinks(n) PROVE FirstInv(m)'
  <2>1. /\ (half'[m] => half[m]) /\ (m # n => life'[m] = life[m])
        /\ UNCHANGED <<sessions, pipes, caller>>
    BY <1>5 DEF ProcessExits, TakeRemoteLinks, PipeTypes
  <2>2. CASE m # n
    BY <1>0, <2>1, <2>2, FirstKept
  <2>3. CASE m = n
    <3>1. life'[m] = "taken" => half[m] /\ life[m] = "exited"
      BY <1>5, <2>3 DEF ProcessExits, TakeRemoteLinks, PipeTypes
    <3>2. installed[m] = 0 => life'[m] # "taken"
      BY <1>0, <3>1 DEF FirstInv, EndInv
    <3> QED BY <1>0, <2>1, <3>2 DEF FirstInv, Sound
  <2> QED BY <2>2, <2>3
<1>6. ASSUME NEW n \in LinkEnds, SendRemoteExit(n) PROVE FirstInv(m)'
  <2>1. (m # n => life'[m] = life[m]) /\ life[n] = "taken" /\ life'[n] = "dead" /\ half' = half /\ caller' = caller
    BY <1>6 DEF SendRemoteExit, PipeTypes
  <2>2. m # n => lane'[m] = lane[m] /\ flagged'[m] = flagged[m]
    BY <1>6, EnqueueEffect DEF SendRemoteExit, Frames
  <2>3. CASE m # n
    BY <1>0, <1>6, <2>1, <2>2, <2>3, FirstKept DEF SendRemoteExit
  <2>4. CASE m = n
    <3>1. installed[m] # 0
      BY <1>0, <2>1, <2>4 DEF FirstInv
    <3> QED BY <1>0, <1>a, <1>6, <2>1, <2>4, <3>1, FirstQueued DEF SendRemoteExit, Frames
  <2> QED BY <2>3, <2>4
<1>7. ASSUME NEW n \in LinkEnds, DrainLane(n) PROVE FirstInv(m)'
  <2>1. UNCHANGED <<life, half, session, installed, flagged, reading, opened, owed, scan, hand,
                    caller>>
    BY <1>7 DEF DrainLane
  <2>2. CASE m # n
    <3>1. lane'[m] = lane[m] /\ sent'[m] = sent[m]
      BY <1>7, <2>2, DrainEffect
    <3> QED BY <1>0, <2>1, <3>1, FirstKept
  <2>3. CASE m = n
    <3>1. lane[m] # <<>> /\ lane'[m] = Tail(lane[m]) /\ lane[m] \in Seq(Frames \X SessionIds)
      BY <1>7, <2>3, DrainEffect DEF PipeTypes
    <3>2. installed[m] # 0
      BY <1>0, <3>1 DEF FirstInv
    <3>3. \A i \in 1..Len(lane'[m]) : i + 1 \in 1..Len(lane[m]) /\ lane'[m][i] = lane[m][i + 1]
      BY <3>1
    <3>4. \A i \in 1..Len(lane[m]) : lane[m][i][2] = 1
      BY <1>0 DEF FirstInv
    <3>5. \A i \in 1..Len(lane'[m]) : lane'[m][i][2] = 1
      BY <3>3, <3>4
    <3> QED BY <1>0, <2>1, <3>2, <3>5 DEF FirstInv, Sound
  <2> QED BY <2>2, <2>3
<1>8. ASSUME NEW n \in LinkEnds, Install(n) PROVE FirstInv(m)'
  <2>1. CASE m # n
    BY <1>0, <1>8, <2>1, FirstKept DEF Install, PipeTypes
  <2>2. CASE m = n
    <3>1. installed[m] = 0 /\ opened = 1 /\ session[m] = 0
      BY <1>0, <1>a, <1>8, <2>2 DEF Install, FirstInv, PipeTypes
    <3>2. installed'[m] = 1 /\ session'[m] = 1 /\ owed'[m] = owed[m]
      BY <1>8, <2>2, <3>1 DEF Install, PipeTypes
    <3> QED BY <1>0, <1>8, <3>1, <3>2 DEF Install, FirstInv, Sound
  <2> QED BY <2>1, <2>2
<1>9. ASSUME NEW n \in LinkEnds, SpawnReader(n) PROVE FirstInv(m)'
  <2>1. CASE m # n
    BY <1>0, <1>9, <2>1, FirstKept DEF SpawnReader, PipeTypes
  <2>2. CASE m = n
    <3>1. installed[m] = 1 /\ reading'[m] = reading[m] \cup {1}
      <4>1. installed[m] # 0 /\ installed[m] \in Nat /\ opened \in Nat /\ installed[m] <= opened
        BY <1>0, <1>9, <2>2 DEF SpawnReader, FirstInv, PipeTypes
      <4>2. installed[m] = 1
        BY <1>a, <4>1
      <4>3. reading'[m] = reading[m] \cup {installed[m]}
        BY <1>9, <2>2 DEF SpawnReader, PipeTypes
      <4> QED BY <4>2, <4>3
    <3> QED BY <1>0, <1>9, <3>1 DEF SpawnReader, FirstInv, Sound
  <2> QED BY <2>1, <2>2
<1>10. ASSUME NEW n \in LinkEnds, LinkFails(n) PROVE FirstInv(m)'
  <2>1. flagged[m] \subseteq flagged'[m] /\ (m # n => flagged'[m] = flagged[m]) /\ session[n] # 0
    BY <1>10 DEF LinkFails, PipeTypes
  <2>2. installed[m] = 0 => flagged'[m] = flagged[m]
    BY <1>0, <2>1 DEF FirstInv
  <2> QED BY <1>0, <1>10, <2>1, <2>2, FirstKept DEF LinkFails
<1>11. ASSUME NEW n \in LinkEnds, Reap(n) PROVE FirstInv(m)'
  <2>1. CASE m # n
    BY <1>0, <1>11, <2>1, FirstKept DEF Reap, PipeTypes
  <2>2. CASE m = n
    <3>1. session[m] = 1 /\ installed[m] = 1 /\ ~Sound(m) /\ session'[m] = 0
      BY <1>0, <1>a, <1>11, <2>2 DEF Reap, FirstInv, PipeTypes, Sound
    <3> QED BY <1>0, <1>11, <3>1 DEF Reap, FirstInv, Sound
  <2> QED BY <2>1, <2>2
<1>12. ASSUME NEW n \in LinkEnds, CollectLinks(n) PROVE FirstInv(m)'
  <2>1. CASE m # n
    BY <1>0, <1>12, <2>1, FirstKept DEF CollectLinks, PipeTypes
  <2>2. CASE m = n
    <3>1. ~Sound(m) /\ installed[m] # 0
      BY <1>0, <1>12, <2>2 DEF CollectLinks, FirstInv, PipeTypes
    <3> QED BY <1>0, <1>12, <3>1 DEF CollectLinks, FirstInv, Sound
  <2> QED BY <2>1, <2>2
<1>13. ASSUME NEW n \in LinkEnds, DeliverNoConnection(n) PROVE FirstInv(m)'
  <2>1. half'[m] => half[m]
    BY <1>13, LinkExitEffect DEF DeliverNoConnection
  <2>2. CASE m # n
    BY <1>0, <1>13, <2>1, <2>2, FirstKept DEF DeliverNoConnection, PipeTypes
  <2>3. CASE m = n
    <3>1. ~Sound(m) /\ installed[m] # 0
      BY <1>0, <1>13, <2>3 DEF DeliverNoConnection, FirstInv
    <3> QED BY <1>0, <1>13, <3>1 DEF DeliverNoConnection, FirstInv, Sound
  <2> QED BY <2>2, <2>3
<1>14. ASSUME NEW n \in LinkEnds, NEW g \in SessionIds, ReadFrame(n, g) PROVE FirstInv(m)'
  <2>1. UNCHANGED <<life, half, session, installed, flagged, reading, opened, owed, scan, lane,
                    caller>>
    BY <1>14 DEF ReadFrame
  <2>2. PICK o \in LinkEnds : o = Other(n) /\ o # n /\ \A k \in LinkEnds : k = n \/ k = o
    BY EndsOfPair
  <2>3. /\ sent[o][g] # <<>> /\ g \in reading[n] /\ sent'[n] = sent[n] /\ hand'[o] = hand[o]
        /\ \A h \in SessionIds : h # g => hand'[n][h] = hand[n][h] /\ sent'[o][h] = sent[o][h]
    BY <1>14, <2>2, ReadEffect
  <2>4. \A h \in SessionIds : hand'[m][h] # "none" => h \in reading[m]
    BY <1>0, <2>2, <2>3 DEF FirstInv
  <2>5. installed[m] = 0 => sent'[m][1] = sent[m][1]
    <3>1. g = 1
      BY <2>3 DEF FirstInv
    <3>2. CASE m = n
      BY <2>3, <3>2
    <3>3. CASE m = o
      BY <1>0, <2>3, <3>1, <3>3 DEF FirstInv
    <3> QED BY <2>2, <3>2, <3>3
  <2> QED BY <1>0, <2>1, <2>4, <2>5 DEF FirstInv, Sound
<1>15. ASSUME NEW n \in LinkEnds, NEW g \in SessionIds, ApplyLink(n, g) PROVE FirstInv(m)'
  <2>1. UNCHANGED <<life, session, installed, reading, opened, owed, scan, sent,
                    caller>> /\ hand[n][g] = "LINK"
    BY <1>15 DEF ApplyLink
  <2>2. installed[n] # 0
    BY <2>1 DEF FirstInv
  <2>3. CASE life[n] = "alive"
    <3>1. \A k \in LinkEnds : k # n => half'[k] = half[k]
      BY <1>15, <2>3, EstablishEffect DEF ApplyLink
    <3>2. \A h \in SessionIds : hand'[m][h] # "none" => hand[m][h] # "none"
      BY <1>15, <2>1, <2>3, HandEffect DEF ApplyLink
    <3>3. UNCHANGED <<lane, flagged>>
      BY <1>15, <2>3 DEF ApplyLink
    <3>4. installed[m] = 0 /\ half'[m] => half[m]
      BY <2>2, <3>1
    <3> QED BY <1>0, <2>1, <3>2, <3>3, <3>4, FirstKept
  <2>4. CASE life[n] # "alive"
    <3>1. Enqueue(n, "EXIT") /\ half' = half
      BY <1>15, <2>4 DEF ApplyLink
    <3>2. \A h \in SessionIds : hand'[m][h] # "none" => hand[m][h] # "none"
      BY <1>15, <2>4, HandEffect DEF ApplyLink
    <3>3. CASE m = n
      BY <1>0, <1>a, <2>1, <2>2, <3>1, <3>2, <3>3, FirstQueued DEF Frames
    <3>4. CASE m # n
      <4>1. lane'[m] = lane[m] /\ flagged'[m] = flagged[m]
        BY <3>1, <3>4, EnqueueEffect DEF Frames
      <4> QED BY <1>0, <2>1, <3>1, <3>2, <4>1, FirstKept
    <3> QED BY <3>3, <3>4
  <2> QED BY <2>3, <2>4
<1>16. ASSUME NEW n \in LinkEnds, NEW g \in SessionIds,
              RecheckConnection(n, g) \/ ApplyUnlink(n, g) \/ ApplyLinkExit(n, g)
       PROVE FirstInv(m)'
  <2>1. UNCHANGED <<life, session, installed, flagged, reading, opened, owed, scan, lane, sent,
                    caller>>
        /\ hand' = [hand EXCEPT ![n][g] = "none"]
    BY <1>16 DEF RecheckConnection, ApplyUnlink, ApplyLinkExit
  <2>2. \A h \in SessionIds : hand'[m][h] # "none" => hand[m][h] # "none"
    BY <2>1, HandEffect
  <2>3. half'[m] => half[m]
    <3>1. CASE ApplyUnlink(n, g)
      BY <3>1 DEF ApplyUnlink, PipeTypes
    <3>2. CASE RecheckConnection(n, g) \/ ApplyLinkExit(n, g)
      BY <3>2, LinkExitEffect DEF RecheckConnection, ApplyLinkExit
    <3> QED BY <1>16, <3>1, <3>2
  <2> QED BY <1>0, <2>1, <2>2, <2>3, FirstKept
<1>17. ASSUME NEW n \in LinkEnds, NEW g \in SessionIds, ReaderEnds(n, g) PROVE FirstInv(m)'
  <2>1. UNCHANGED <<life, half, session, installed, opened, owed, scan, lane, sent, hand, caller>>
    BY <1>17 DEF ReaderEnds
  <2>2. /\ g \in reading[n] /\ hand[n][g] = "none" /\ (m # n => reading'[m] = reading[m] /\ flagged'[m] = flagged[m])
        /\ reading'[n] = reading[n] \ {g} /\ flagged'[n] = flagged[n] \cup {g}
    BY <1>17 DEF ReaderEnds, PipeTypes
  <2>3. CASE m # n
    BY <1>0, <2>1, <2>2, <2>3, FirstKept
  <2>4. CASE m = n
    BY <1>0, <2>1, <2>2, <2>4 DEF FirstInv, Sound
  <2> QED BY <2>3, <2>4
<1> QED
  BY <1>1, <1>2, <1>3, <1>4, <1>5, <1>6, <1>7, <1>8, <1>9, <1>10, <1>11, <1>12, <1>13, <1>14, <1>15,
     <1>16, <1>17 DEF RlNext

-----------------------------------------------------------------------------
(* The frames under way *)

(* The frames of a lane and of a socket. *)
LEMMA FrameTypes ==
  ASSUME PipeTypes, NEW n \in LinkEnds, NEW m \in LinkEnds
  PROVE  /\ 1 \in SessionIds
         /\ lane[n] \in Seq(Frames \X SessionIds) /\ sent[n][1] \in Seq(Frames)
         /\ hand[m][1] \in Frames \cup {"none", "recheck"}
         /\ lane[n] # <<>> => /\ Len(lane[n]) \in 1..Len(lane[n])
                              /\ lane[n][Len(lane[n])][1] \in Frames
         /\ sent[n][1] # <<>> => /\ Len(sent[n][1]) \in 1..Len(sent[n][1])
                                 /\ sent[n][1][Len(sent[n][1])] \in Frames
<1>1. 1 \in SessionIds
  BY RemoteLinksAssumption DEF SessionIds
<1>2. /\ lane[n] \in Seq(Frames \X SessionIds) /\ sent[n][1] \in Seq(Frames)
      /\ hand[m][1] \in Frames \cup {"none", "recheck"}
  BY <1>1 DEF PipeTypes
<1>3. lane[n] # <<>> => Len(lane[n]) \in 1..Len(lane[n]) /\ lane[n][Len(lane[n])] \in Frames \X SessionIds
  BY <1>2
<1>4. sent[n][1] # <<>> => Len(sent[n][1]) \in 1..Len(sent[n][1]) /\ sent[n][1][Len(sent[n][1])] \in Frames
  BY <1>2
<1> QED BY <1>1, <1>2, <1>3, <1>4

(* Nothing is under way when there is no last frame, and a LINK is when the *)
(* last frame is one.                                                       *)
LEMMA LatestFacts ==
  ASSUME PipeTypes, NEW n \in LinkEnds, NEW m \in LinkEnds
  PROVE  /\ Latest(n, m) = "none" <=> lane[n] = <<>> /\ sent[n][1] = <<>> /\ hand[m][1] \notin Frames
         /\ Latest(n, m) = "LINK" => LinkUnderWay(n, m)
<1>1. "none" \notin Frames
  BY DEF Frames
<1>2. Latest(n, m) = "none" <=> lane[n] = <<>> /\ sent[n][1] = <<>> /\ hand[m][1] \notin Frames
  BY <1>1, FrameTypes DEF Latest
<1>3. Latest(n, m) = "LINK" => LinkUnderWay(n, m)
  BY FrameTypes DEF Latest, LinkUnderWay
<1> QED BY <1>2, <1>3

(* Nothing moves. *)
LEMMA StreamKept ==
  ASSUME NEW n \in LinkEnds, NEW m \in LinkEnds,
         lane'[n] = lane[n], sent'[n][1] = sent[n][1], hand'[m][1] = hand[m][1]
  PROVE  Latest(n, m)' = Latest(n, m) /\ (LinkUnderWay(n, m) => LinkUnderWay(n, m)')
BY DEF Latest, LinkUnderWay

(* A frame is queued. *)
LEMMA StreamQueued ==
  ASSUME PipeTypes, NEW n \in LinkEnds, NEW m \in LinkEnds, NEW f \in Frames,
         lane'[n] = Append(lane[n], <<f, 1>>), sent'[n][1] = sent[n][1]
  PROVE  /\ Latest(n, m)' = f
         /\ f = "LINK" => LinkUnderWay(n, m)'
         /\ hand'[m][1] = hand[m][1] \/ hand[m][1] # "LINK" => (LinkUnderWay(n, m) => LinkUnderWay(n, m)')
         /\ (\A i \in 1..Len(lane[n]) : lane[n][i][1] = f) => \A i \in 1..Len(lane'[n]) : lane'[n][i][1] = f
<1>1. lane[n] \in Seq(Frames \X SessionIds) /\ <<f, 1>> \in Frames \X SessionIds
  BY FrameTypes
<1>2. /\ Len(lane[n]) \in Nat /\ Len(lane'[n]) = Len(lane[n]) + 1 /\ lane'[n][Len(lane[n]) + 1] = <<f, 1>>
      /\ \A i \in 1..Len(lane[n]) : lane'[n][i] = lane[n][i]
  BY <1>1
<1>3. lane'[n] # <<>> /\ Len(lane'[n]) \in 1..Len(lane'[n]) /\ lane'[n][Len(lane'[n])][1] = f
  BY <1>1, <1>2
<1>4. 1..Len(lane[n]) \subseteq 1..Len(lane'[n]) /\ \A i \in 1..Len(lane'[n]) : i \in 1..Len(lane[n]) \/ i = Len(lane'[n])
  BY <1>2
<1>5. Latest(n, m)' = f
  BY <1>3 DEF Latest
<1>6. f = "LINK" => LinkUnderWay(n, m)'
  BY <1>3 DEF LinkUnderWay
<1>7. ASSUME hand'[m][1] = hand[m][1] \/ hand[m][1] # "LINK", LinkUnderWay(n, m) PROVE LinkUnderWay(n, m)'
  <2>1. CASE \E i \in 1..Len(lane[n]) : lane[n][i][1] = "LINK"
    BY <1>2, <1>4, <2>1 DEF LinkUnderWay
  <2>2. CASE (\E i \in 1..Len(sent[n][1]) : sent[n][1][i] = "LINK") \/ hand[m][1] = "LINK"
    BY <1>7, <2>2 DEF LinkUnderWay
  <2> QED BY <1>7, <2>1, <2>2 DEF LinkUnderWay
<1>8. (\A i \in 1..Len(lane[n]) : lane[n][i][1] = f) => \A i \in 1..Len(lane'[n]) : lane'[n][i][1] = f
  BY <1>2, <1>3, <1>4
<1> QED BY <1>5, <1>6, <1>7, <1>8

(* What is left of a queue once its head is taken. *)
LEMMA RestOfQueue ==
  ASSUME NEW S, NEW s \in Seq(S), s # <<>>
  PROVE  /\ Len(s) \in Nat \ {0} /\ Head(s) = s[1] /\ s[1] \in S
         /\ Tail(s) = <<>> => s[Len(s)] = Head(s)
         /\ Tail(s) # <<>> => Tail(s)[Len(Tail(s))] = s[Len(s)]
         /\ \A i \in 1..Len(Tail(s)) : i + 1 \in 1..Len(s) /\ Tail(s)[i] = s[i + 1]
         /\ \A i \in 1..Len(s) : i = 1 \/ (i - 1 \in 1..Len(Tail(s)) /\ Tail(s)[i - 1] = s[i])
<1>1. PICK k \in Nat : k = Len(s)
  OBVIOUS
<1>2. k # 0
  BY <1>1
<1>3. Head(s) = s[1] /\ s[1] \in S
  BY <1>1, <1>2
<1>4. Tail(s) \in Seq(S) /\ Len(Tail(s)) = k - 1 /\ k - 1 \in Nat
  BY <1>1, <1>2
<1>5. \A i \in 1..(k - 1) : Tail(s)[i] = s[i + 1]
  BY <1>1, <1>2
<1>6. Tail(s) = <<>> <=> k = 1
  <2>1. \A t \in Seq(S) : t = <<>> <=> Len(t) = 0
    OBVIOUS
  <2>2. Tail(s) = <<>> <=> k - 1 = 0
    BY <1>4, <2>1
  <2> QED BY <2>2
<1>7. Tail(s) # <<>> => Tail(s)[Len(Tail(s))] = s[Len(s)]
  <2>1. k # 1 => k - 1 \in 1..(k - 1) /\ (k - 1) + 1 = k
    BY <1>2
  <2>2. k # 1 => Tail(s)[k - 1] = s[(k - 1) + 1]
    BY <2>1, <1>5
  <2>3. k # 1 => Tail(s)[k - 1] = s[k]
    BY <2>1, <2>2
  <2> QED BY <1>1, <1>4, <1>6, <2>3
<1>8. \A i \in 1..Len(Tail(s)) : i + 1 \in 1..Len(s) /\ Tail(s)[i] = s[i + 1]
  <2>1. \A i \in 1..(k - 1) : i + 1 \in 1..k
    BY <1>2
  <2> QED BY <1>1, <1>4, <1>5, <2>1
<1>9. \A i \in 1..Len(s) : i = 1 \/ (i - 1 \in 1..Len(Tail(s)) /\ Tail(s)[i - 1] = s[i])
  <2>1. \A i \in 1..k : i = 1 \/ (i - 1 \in 1..(k - 1) /\ (i - 1) + 1 = i)
    BY <1>2
  <2>2. \A i \in 1..k : i = 1 \/ (i - 1 \in 1..(k - 1) /\ Tail(s)[i - 1] = s[(i - 1) + 1])
    BY <1>5, <2>1
  <2>3. \A i \in 1..k : i = 1 \/ (i - 1 \in 1..(k - 1) /\ Tail(s)[i - 1] = s[i])
    BY <2>1, <2>2
  <2> QED BY <1>1, <1>4, <2>3
<1> QED BY <1>1, <1>2, <1>3, <1>6, <1>7, <1>8, <1>9

(* What a queue holds once a frame is added. *)
LEMMA LongerQueue ==
  ASSUME NEW S, NEW s \in Seq(S), NEW e \in S
  PROVE  /\ Append(s, e) # <<>> /\ Append(s, e)[Len(Append(s, e))] = e
         /\ Len(Append(s, e)) \in 1..Len(Append(s, e))
         /\ \A i \in 1..Len(s) : i \in 1..Len(Append(s, e)) /\ Append(s, e)[i] = s[i]
         /\ \A i \in 1..Len(Append(s, e)) : Append(s, e)[i] = e \/ (i \in 1..Len(s) /\ Append(s, e)[i] = s[i])
<1>1. PICK k \in Nat : k = Len(s)
  OBVIOUS
<1>2. Append(s, e) \in Seq(S) /\ Len(Append(s, e)) = k + 1 /\ Append(s, e)[k + 1] = e
  BY <1>1
<1>3. \A i \in 1..k : Append(s, e)[i] = s[i]
  BY <1>1
<1>4. \A i \in 1..(k + 1) : i = k + 1 \/ i \in 1..k
  OBVIOUS
<1>5. k + 1 \in 1..(k + 1) /\ \A i \in 1..k : i \in 1..(k + 1)
  OBVIOUS
<1>6. Append(s, e) # <<>>
  <2>1. \A t \in Seq(S) : t = <<>> => Len(t) = 0
    OBVIOUS
  <2>2. k + 1 # 0
    OBVIOUS
  <2> QED BY <1>2, <2>1, <2>2
<1> QED BY <1>1, <1>2, <1>3, <1>4, <1>5, <1>6

(* The drain moves a frame from the lane to the socket. *)
LEMMA StreamDrained ==
  ASSUME PipeTypes, NEW n \in LinkEnds, NEW m \in LinkEnds, DrainLane(n), Sound(n), FirstInv(n)
  PROVE  /\ Latest(n, m)' = Latest(n, m)
         /\ LinkUnderWay(n, m) => LinkUnderWay(n, m)'
         /\ lane[n] # <<>>
         /\ (\A i \in 1..Len(lane[n]) : lane[n][i][1] = "EXIT") /\ (\A i \in 1..Len(sent[n][1]) : sent[n][1][i] = "EXIT")
            => (\A i \in 1..Len(lane'[n]) : lane'[n][i][1] = "EXIT")
               /\ (\A i \in 1..Len(sent'[n][1]) : sent'[n][1][i] = "EXIT")
<1>1. /\ lane[n] \in Seq(Frames \X SessionIds) /\ lane[n] # <<>> /\ sent[n][1] \in Seq(Frames) /\ 1 \in SessionIds
  BY FrameTypes DEF DrainLane
<1>2. PICK l \in Seq(Frames \X SessionIds), s \in Seq(Frames), f \in Frames :
         l = lane[n] /\ s = sent[n][1] /\ f = l[1][1] /\ Head(l) = l[1] /\ l[1][2] = 1 /\ 1 \in 1..Len(l)
  <2>1. /\ Head(lane[n]) = lane[n][1] /\ lane[n][1] \in Frames \X SessionIds /\ 1 \in 1..Len(lane[n])
    BY <1>1
  <2>2. lane[n][1][2] = 1 /\ lane[n][1][1] \in Frames
    BY <2>1 DEF FirstInv
  <2> QED BY <1>1, <2>1, <2>2
<1>3. lane'[n] = Tail(l) /\ sent'[n][1] = Append(s, f) /\ l # <<>>
  <2>1. /\ lane'[n] = Tail(lane[n])
        /\ \/ sent'[n][1] = sent[n][1] /\ (1 # Head(lane[n])[2] \/ 1 \in flagged[n])
           \/ sent'[n][1] = Append(sent[n][1], Head(lane[n])[1]) /\ 1 = Head(lane[n])[2]
    BY <1>1, DrainEffect
  <2> QED BY <1>1, <1>2, <2>1 DEF Sound
<1>4. hand' = hand
  BY DEF DrainLane
<1>5. /\ Tail(l) = <<>> => l[Len(l)] = l[1]
      /\ Tail(l) # <<>> => Tail(l)[Len(Tail(l))] = l[Len(l)]
      /\ \A i \in 1..Len(Tail(l)) : i + 1 \in 1..Len(l) /\ Tail(l)[i] = l[i + 1]
      /\ \A i \in 1..Len(l) : i = 1 \/ (i - 1 \in 1..Len(Tail(l)) /\ Tail(l)[i - 1] = l[i])
  BY <1>2, <1>3, RestOfQueue
<1>6. /\ Append(s, f) # <<>> /\ Append(s, f)[Len(Append(s, f))] = f
      /\ Len(Append(s, f)) \in 1..Len(Append(s, f))
      /\ \A i \in 1..Len(s) : i \in 1..Len(Append(s, f)) /\ Append(s, f)[i] = s[i]
      /\ \A i \in 1..Len(Append(s, f)) : Append(s, f)[i] = f \/ (i \in 1..Len(s) /\ Append(s, f)[i] = s[i])
  BY LongerQueue
<1>7. PICK l2, s2 : l2 = Tail(l) /\ s2 = Append(s, f)
  OBVIOUS
<1>8. Latest(n, m)' = Latest(n, m)
  BY <1>2, <1>3, <1>5, <1>6 DEF Latest
<1>9. ASSUME LinkUnderWay(n, m) PROVE LinkUnderWay(n, m)'
  <2>1. CASE \E i \in 1..Len(l) : l[i][1] = "LINK"
    <3>1. PICK i \in 1..Len(l) : l[i][1] = "LINK"
      BY <2>1
    <3>2. CASE i = 1
      BY <3>1, <3>2, <1>2, <1>3, <1>6 DEF LinkUnderWay
    <3>3. CASE i # 1
      <4>1. i - 1 \in 1..Len(Tail(l)) /\ Tail(l)[i - 1][1] = "LINK"
        BY <3>1, <3>3, <1>5
      <4>2. \E j \in 1..Len(Tail(l)) : Tail(l)[j][1] = "LINK"
        BY <4>1
      <4> QED BY <4>2, <1>3 DEF LinkUnderWay
    <3> QED BY <3>2, <3>3
  <2>2. CASE \E i \in 1..Len(s) : s[i] = "LINK"
    BY <2>2, <1>3, <1>6 DEF LinkUnderWay
  <2>3. CASE hand[m][1] = "LINK"
    BY <2>3, <1>4 DEF LinkUnderWay
  <2> QED BY <1>2, <1>9, <2>1, <2>2, <2>3 DEF LinkUnderWay
<1>10. ASSUME \A i \in 1..Len(l) : l[i][1] = "EXIT", \A i \in 1..Len(s) : s[i] = "EXIT"
       PROVE  (\A i \in 1..Len(l2) : l2[i][1] = "EXIT") /\ (\A i \in 1..Len(s2) : s2[i] = "EXIT")
  <2>1. \A i \in 1..Len(l2) : l2[i][1] = "EXIT"
    BY <1>5, <1>7, <1>10
  <2>2. f = "EXIT"
    BY <1>2, <1>10
  <2>3. \A i \in 1..Len(s2) : s2[i] = "EXIT"
    BY <1>6, <1>7, <1>10, <2>2
  <2> QED BY <2>1, <2>3
<1>11. lane'[n] = l2 /\ sent'[n][1] = s2
  BY <1>3, <1>7
<1> QED BY <1>1, <1>2, <1>8, <1>9, <1>10, <1>11

(* The reader takes a frame off the socket. *)
LEMMA StreamRead ==
  ASSUME PipeTypes, NEW n \in LinkEnds, NEW m \in LinkEnds, n = Other(m), ReadFrame(m, 1)
  PROVE  /\ Latest(n, m)' = Latest(n, m)
         /\ LinkUnderWay(n, m) => LinkUnderWay(n, m)'
         /\ sent[n][1] # <<>>
         /\ (\A i \in 1..Len(sent[n][1]) : sent[n][1][i] = "EXIT")
            => hand'[m][1] = "EXIT" /\ (\A i \in 1..Len(sent'[n][1]) : sent'[n][1][i] = "EXIT")
<1>1. 1 \in SessionIds /\ sent[n][1] \in Seq(Frames)
  BY FrameTypes
<1>2. /\ sent[n][1] # <<>> /\ hand[m][1] = "none" /\ lane' = lane
  BY DEF ReadFrame
<1>3. hand'[m][1] = Head(sent[n][1]) /\ sent'[n][1] = Tail(sent[n][1])
  BY <1>1 DEF ReadFrame, PipeTypes
<1>4. PICK s \in Seq(Frames) : s = sent[n][1]
  BY <1>1
<1>5. /\ Len(s) \in Nat \ {0} /\ Head(s) = s[1] /\ s[1] \in Frames
      /\ Tail(s) = <<>> => s[Len(s)] = Head(s)
      /\ Tail(s) # <<>> => Tail(s)[Len(Tail(s))] = s[Len(s)]
      /\ \A i \in 1..Len(Tail(s)) : i + 1 \in 1..Len(s) /\ Tail(s)[i] = s[i + 1]
      /\ \A i \in 1..Len(s) : i = 1 \/ (i - 1 \in 1..Len(Tail(s)) /\ Tail(s)[i - 1] = s[i])
  BY <1>2, <1>4, RestOfQueue
<1>6. PICK s2 : s2 = Tail(s)
  OBVIOUS
<1>7. Latest(n, m)' = Latest(n, m)
  BY <1>2, <1>3, <1>4, <1>5 DEF Latest
<1>8. ASSUME LinkUnderWay(n, m) PROVE LinkUnderWay(n, m)'
  <2>1. CASE \E i \in 1..Len(lane[n]) : lane[n][i][1] = "LINK"
    BY <1>2, <2>1 DEF LinkUnderWay
  <2>2. CASE \E i \in 1..Len(s) : s[i] = "LINK"
    <3>1. PICK i \in 1..Len(s) : s[i] = "LINK"
      BY <2>2
    <3>2. CASE i = 1
      BY <3>1, <3>2, <1>3, <1>4, <1>5 DEF LinkUnderWay
    <3>3. CASE i # 1
      <4>1. i - 1 \in 1..Len(Tail(s)) /\ Tail(s)[i - 1] = "LINK"
        BY <3>1, <3>3, <1>5
      <4>2. \E j \in 1..Len(Tail(s)) : Tail(s)[j] = "LINK"
        BY <4>1
      <4> QED BY <4>2, <1>3, <1>4 DEF LinkUnderWay
    <3> QED BY <3>2, <3>3
  <2> QED BY <1>2, <1>4, <1>8, <2>1, <2>2 DEF LinkUnderWay
<1>9. ASSUME \A i \in 1..Len(s) : s[i] = "EXIT"
      PROVE  s[1] = "EXIT" /\ (\A i \in 1..Len(s2) : s2[i] = "EXIT")
  <2>1. 1 \in 1..Len(s)
    BY <1>5
  <2> QED BY <1>5, <1>6, <1>9, <2>1
<1>10. hand'[m][1] = s[1] /\ sent'[n][1] = s2
  BY <1>3, <1>4, <1>5, <1>6
<1> QED BY <1>2, <1>4, <1>7, <1>8, <1>9, <1>10

(* A frame in the reader's hand is applied. *)
LEMMA StreamApplied ==
  ASSUME PipeTypes, NEW n \in LinkEnds, NEW m \in LinkEnds, hand[m][1] \in Frames,
         hand'[m][1] \in {"none", "recheck"}, lane'[n] = lane[n], sent'[n][1] = sent[n][1]
  PROVE  /\ \/ Latest(n, m)' = "none" /\ Latest(n, m) = hand[m][1]
            \/ Latest(n, m)' = Latest(n, m) /\ Latest(n, m) # "none"
         /\ LinkUnderWay(n, m) /\ hand[m][1] # "LINK" => LinkUnderWay(n, m)'
<1>1. hand'[m][1] \notin Frames /\ "none" \notin Frames
  BY DEF Frames
<1>2. CASE lane[n] = <<>> /\ sent[n][1] = <<>>
  BY <1>1, <1>2 DEF Latest, LinkUnderWay
<1>3. CASE ~(lane[n] = <<>> /\ sent[n][1] = <<>>)
  <2>1. Latest(n, m) # "none"
    BY <1>3, LatestFacts
  <2>2. Latest(n, m)' = Latest(n, m)
    BY <1>3 DEF Latest
  <2> QED BY <2>1, <2>2 DEF LinkUnderWay
<1> QED BY <1>2, <1>3

-----------------------------------------------------------------------------
(* What the two ends know of each other *)

(* The end c, which may call, its peer d, and the first connection between  *)
(* them, which neither has marked down.                                     *)
Paired(c, d) ==
  /\ d = Other(c) /\ c = Other(d) /\ d # c /\ \A n \in LinkEnds : n = c \/ n = d
  /\ PipeTypes /\ opened <= 1 /\ LinkCallers \subseteq {c}
  /\ \A n \in LinkEnds : EndInv(n) /\ FirstInv(n) /\ Sound(n)
  /\ PairInv(c, d)

(* What an end that is not marked down has: no session before its first,    *)
(* and after that the first.                                                *)
LEMMA SoundEnd ==
  ASSUME NEW c, NEW d, Paired(c, d), NEW n \in LinkEnds
  PROVE  /\ session[n] = installed[n] /\ installed[n] \in {0, 1}
         /\ owed[n] = 0 /\ scan[n] = "idle"
         /\ installed[n] = 0 => lane[n] = <<>> /\ sent[n][1] = <<>> /\ life[n] # "taken"
         /\ \A g \in SessionIds : hand[n][g] # "none" => g = 1 /\ session[n] = 1
<1>1. FirstInv(n) /\ Sound(n) /\ opened <= 1 /\ opened \in Nat /\ installed[n] \in Nat
  BY DEF Paired, PipeTypes
<1>2. session[n] = installed[n] /\ owed[n] = 0 /\ scan[n] = "idle" /\ installed[n] <= 1
  BY <1>1 DEF FirstInv
<1>3. \A g \in SessionIds : hand[n][g] # "none" => g = 1 /\ installed[n] = 1
  BY <1>1 DEF FirstInv
<1>4. installed[n] = 0 => lane[n] = <<>> /\ sent[n][1] = <<>> /\ life[n] # "taken"
  BY <1>1 DEF FirstInv
<1> QED BY <1>1, <1>2, <1>3, <1>4

(* A frame is queued at an end with the connection, for the lane is not full. *)
LEMMA SoundQueue ==
  ASSUME NEW c, NEW d, Paired(c, d), NEW n \in LinkEnds, NEW f \in Frames, Enqueue(n, f),
         session[n] = 1,
         Sound(n)'
  PROVE  lane'[n] = Append(lane[n], <<f, 1>>) /\ \A m \in LinkEnds : m # n => lane'[m] = lane[m]
BY EnqueueEffect DEF Paired, Sound

(* A step that leaves alone what the two ends know. *)
LEMMA PairKept ==
  ASSUME NEW c \in LinkEnds, NEW d \in LinkEnds, PairInv(c, d),
         UNCHANGED <<life, half, lane, sent, hand, caller>>,
         installed'[c] = 0 => installed[c] = 0
  PROVE  PairInv(c, d)'
<1>1. /\ Latest(c, d)' = Latest(c, d) /\ Latest(d, c)' = Latest(d, c)
      /\ LinkUnderWay(c, d) => LinkUnderWay(c, d)'
  BY StreamKept
<1>2. AnswerInv(c, d)'
  BY DEF PairInv, AnswerInv
<1>3. AgreeInv(c, d)'
  BY <1>1 DEF PairInv, AgreeInv
<1>4. ComingInv(c, d)'
  BY <1>1 DEF PairInv, ComingInv
<1> QED BY <1>2, <1>3, <1>4 DEF PairInv

(* link/1 and unlink/1 are calls of c. *)
LEMMA PairCalls ==
  ASSUME NEW c \in LinkEnds, NEW d \in LinkEnds, Paired(c, d), Sound(c)', NEW n \in LinkEnds,
         LinkRemote(n) \/ SendLink(n) \/ UnlinkRemote(n)
  PROVE  PairInv(c, d)'
<1> USE DEF ends, sessions, pipes, linkBudget
<1>0. AnswerInv(c, d) /\ AgreeInv(c, d) /\ ComingInv(c, d) /\ d # c /\ PipeTypes /\ EndInv(c)
  BY DEF Paired, PairInv
<1>1. n = c
  BY <1>0 DEF Paired, AnswerInv, LinkRemote, SendLink, UnlinkRemote
<1>2. CASE LinkRemote(c)
  <2>1. /\ half'[c] /\ half'[d] = half[d] /\ caller'[c] = "send" /\ caller'[d] = caller[d]
        /\ UNCHANGED <<life, lane, sent, hand, installed>>
    BY <1>0, <1>2, EstablishEffect DEF LinkRemote, PipeTypes
  <2>2. AnswerInv(c, d)'
    BY <1>0, <2>1 DEF AnswerInv
  <2>3. AgreeInv(c, d)' /\ ComingInv(c, d)'
    BY <2>1 DEF AgreeInv, ComingInv
  <2> QED BY <2>2, <2>3 DEF PairInv
<1>3. CASE (SendLink(c) \/ UnlinkRemote(c)) /\ session[c] = 0
  <2>1. /\ ~half'[c] /\ half'[d] = half[d] /\ caller'[c] = "idle" /\ caller'[d] = caller[d]
        /\ UNCHANGED <<life, lane, sent, hand, installed>>
    BY <1>0, <1>3 DEF SendLink, UnlinkRemote, Enqueue, PipeTypes
  <2>2. installed[c] = 0 /\ lane[c] = <<>> /\ sent[c][1] = <<>> /\ ~half[d] /\ hand[d][1] = "none"
    BY <1>0, <1>3, SoundEnd DEF AnswerInv
  <2>3. AnswerInv(c, d)'
    BY <1>0, <2>1 DEF AnswerInv
  <2>4. Latest(c, d)' = "none"
    BY <2>1, <2>2 DEF Latest, Frames
  <2>5. half'[d] = half'[c]
    <3>1. half'[d] = FALSE /\ half'[c] = FALSE
      BY <1>0, <1>3, <2>1, <2>2, Zenon DEF PipeTypes, SendLink, UnlinkRemote
    <3> QED BY <3>1
  <2>6. AgreeInv(c, d)' /\ ComingInv(c, d)'
    BY <2>1, <2>4, <2>5 DEF AgreeInv, ComingInv
  <2> QED BY <2>3, <2>6 DEF PairInv
<1>4. CASE SendLink(c) /\ session[c] # 0
  <2>1. /\ half'[c] = half[c] /\ half'[d] = half[d] /\ caller[c] = "send" /\ caller'[c] = "idle"
        /\ caller'[d] = caller[d] /\ UNCHANGED <<life, sent, hand, installed>>
    BY <1>0, <1>4 DEF SendLink, PipeTypes
  <2>2. lane'[c] = Append(lane[c], <<"LINK", 1>>) /\ lane'[d] = lane[d]
    BY <1>0, <1>4, SoundEnd, SoundQueue DEF SendLink, Frames
  <2>3. Latest(c, d)' = "LINK" /\ LinkUnderWay(c, d)'
    BY <1>0, <2>1, <2>2, StreamQueued DEF Frames
  <2>4. AnswerInv(c, d)'
    BY <1>0, <2>1, <2>2 DEF AnswerInv
  <2>5. life[d] = "alive" => half'[c]
    BY <1>0, <2>1 DEF AnswerInv
  <2>6. AgreeInv(c, d)' /\ ComingInv(c, d)'
    BY <2>1, <2>3, <2>5 DEF AgreeInv, ComingInv
  <2> QED BY <2>4, <2>6 DEF PairInv
<1>5. CASE UnlinkRemote(c) /\ session[c] # 0
  <2>1. /\ ~half'[c] /\ half'[d] = half[d] /\ caller[c] = "idle" /\ UNCHANGED <<caller, life, sent, hand, installed>>
    BY <1>0, <1>5 DEF UnlinkRemote, PipeTypes
  <2>2. lane'[c] = Append(lane[c], <<"UNLINK", 1>>) /\ lane'[d] = lane[d]
    BY <1>0, <1>5, SoundEnd, SoundQueue DEF UnlinkRemote, Frames
  <2>3. Latest(c, d)' = "UNLINK"
    BY <1>0, <2>1, <2>2, StreamQueued DEF Frames
  <2>4. AnswerInv(c, d)'
    BY <1>0, <2>1, <2>2 DEF AnswerInv
  <2>5. AgreeInv(c, d)' /\ ComingInv(c, d)'
    BY <2>1, <2>3 DEF AgreeInv, ComingInv
  <2> QED BY <2>4, <2>5 DEF PairInv
<1> QED BY <1>1, <1>2, <1>3, <1>4, <1>5

(* A process exits and gives up the link. *)
LEMMA PairExits ==
  ASSUME NEW c \in LinkEnds, NEW d \in LinkEnds, Paired(c, d), Sound(c)', Sound(d)',
         NEW n \in LinkEnds,
         ProcessExits(n) \/ TakeRemoteLinks(n) \/ SendRemoteExit(n)
  PROVE  PairInv(c, d)'
<1> USE DEF ends, sessions, pipes, linkBudget
<1>0. /\ AnswerInv(c, d) /\ AgreeInv(c, d) /\ ComingInv(c, d) /\ d # c /\ PipeTypes
      /\ EndInv(c) /\ EndInv(d) /\ (n = c \/ n = d)
  BY DEF Paired, PairInv
<1>1. CASE (ProcessExits(n) \/ TakeRemoteLinks(n))
  <2>1. /\ UNCHANGED <<lane, sent, hand, installed, caller>> /\ \A m \in LinkEnds : m # n => life'[m] = life[m] /\ half'[m] = half[m]
        /\ life[n] \in {"alive", "exited"} /\ life'[n] # "alive"
        /\ half'[n] => half[n]
    BY <1>0, <1>1 DEF ProcessExits, TakeRemoteLinks, PipeTypes
  <2>2. /\ Latest(c, d)' = Latest(c, d) /\ Latest(d, c)' = Latest(d, c)
        /\ LinkUnderWay(c, d) => LinkUnderWay(c, d)'
    BY <2>1, StreamKept
  <2>3. CASE n = c
    <3>1. caller[c] = "idle"
      BY <1>0, <1>1, <2>3 DEF ProcessExits, TakeRemoteLinks, EndInv, PipeTypes
    <3>2. AnswerInv(c, d)'
      BY <1>0, <2>1, <2>3, <3>1 DEF AnswerInv
    <3>3. ComingInv(c, d)'
      BY <2>1, <2>3 DEF ComingInv
    <3>4. life'[c] # "taken" => half'[c] = half[c]
      <4>1. CASE ProcessExits(c)
        BY <4>1, Zenon DEF ProcessExits
      <4>2. CASE TakeRemoteLinks(c)
        <5>1. life'[c] # "taken" => ~half[c]
          BY <1>0, <4>2 DEF TakeRemoteLinks, PipeTypes
        <5>2. half'[c] = FALSE /\ half[c] \in BOOLEAN
          BY <1>0, <4>2 DEF TakeRemoteLinks, PipeTypes
        <5> QED BY <5>1, <5>2, Zenon
      <4> QED BY <1>1, <2>3, <4>1, <4>2
    <3>5. life[c] # "taken" /\ life'[d] = life[d] /\ half'[d] = half[d]
      BY <1>0, <2>1, <2>3
    <3>6. AgreeInv(c, d)'
      BY <1>0, <2>1, <2>2, <3>1, <3>4, <3>5 DEF AgreeInv
    <3> QED BY <3>2, <3>3, <3>6 DEF PairInv
  <2>4. CASE n = d
    <3>1. life'[c] = life[c] /\ half'[c] = half[c] /\ life'[d] # "alive"
      BY <1>0, <2>1, <2>4
    <3>2. AnswerInv(c, d)'
      BY <1>0, <2>1, <2>4, <3>1 DEF AnswerInv
    <3>3. AgreeInv(c, d)'
      BY <3>1 DEF AgreeInv
    <3>4. CASE ProcessExits(d)
      <4>1. life[d] = "alive" /\ life'[d] = "exited" /\ half' = half
        BY <3>4, <1>0 DEF ProcessExits, PipeTypes
      <4>2. ASSUME life[c] = "alive", half[c], caller[c] # "send" PROVE LinkUnderWay(c, d) \/ half[d]
        <5>1. caller[c] = "idle"
          BY <1>0, <4>2 DEF PipeTypes
        <5>2. CASE Latest(c, d) = "none"
          BY <1>0, <4>1, <4>2, <5>1, <5>2 DEF AgreeInv
        <5>3. CASE Latest(c, d) # "none"
          BY <1>0, <4>1, <4>2, <5>1, <5>3, LatestFacts DEF AgreeInv
        <5> QED BY <5>2, <5>3
      <4> QED BY <2>1, <2>2, <3>1, <3>2, <3>3, <4>1, <4>2 DEF ComingInv, PairInv
    <3>5. CASE TakeRemoteLinks(d)
      <4>1. life[d] = "exited" /\ (half[d] => life'[d] = "taken")
        BY <3>5, <1>0 DEF TakeRemoteLinks, PipeTypes
      <4>2. ComingInv(c, d)'
        BY <1>0, <2>1, <2>2, <3>1, <4>1 DEF ComingInv
      <4> QED BY <3>2, <3>3, <4>2 DEF PairInv
    <3> QED BY <1>1, <2>4, <3>4, <3>5
  <2> QED BY <1>0, <2>3, <2>4
<1>2. CASE SendRemoteExit(n)
  <2>1. /\ UNCHANGED <<half, sent, hand, installed, caller>> /\ \A m \in LinkEnds : m # n => life'[m] = life[m]
        /\ life[n] = "taken" /\ life'[n] = "dead" /\ Enqueue(n, "EXIT")
    BY <1>0, <1>2 DEF SendRemoteExit, PipeTypes
  <2>2. session[n] = 1
    BY <2>1, SoundEnd
  <2>3. "EXIT" \in Frames /\ Sound(n)'
    BY <1>0 DEF Frames
  <2>4. lane'[n] = Append(lane[n], <<"EXIT", 1>>) /\ \A m \in LinkEnds : m # n => lane'[m] = lane[m]
    BY <2>1, <2>2, <2>3, SoundQueue
  <2>5. CASE n = c
    <3>1. Latest(c, d)' = "EXIT"
      BY <1>0, <2>1, <2>3, <2>4, <2>5, StreamQueued
    <3>2. ~half[c] /\ caller[c] = "idle" /\ lane'[d] = lane[d] /\ life'[d] = life[d] /\ life'[c] = "dead"
      BY <1>0, <2>1, <2>4, <2>5 DEF EndInv, PipeTypes
    <3>3. AnswerInv(c, d)'
      BY <1>0, <2>1, <3>2 DEF AnswerInv
    <3>4. AgreeInv(c, d)' /\ ComingInv(c, d)'
      BY <2>1, <3>1, <3>2 DEF AgreeInv, ComingInv
    <3> QED BY <3>3, <3>4 DEF PairInv
  <2>6. CASE n = d
    <3>1. /\ Latest(d, c)' = "EXIT"
          /\ (\A i \in 1..Len(lane[d]) : lane[d][i][1] = "EXIT") => \A i \in 1..Len(lane'[d]) : lane'[d][i][1] = "EXIT"
      BY <1>0, <2>1, <2>3, <2>4, <2>6, StreamQueued
    <3>2. lane'[c] = lane[c] /\ life'[c] = life[c] /\ life'[d] = "dead"
      BY <1>0, <2>1, <2>4, <2>6
    <3>3. AnswerInv(c, d)'
      BY <1>0, <2>1, <3>1, <3>2 DEF AnswerInv
    <3>4. AgreeInv(c, d)' /\ ComingInv(c, d)'
      BY <3>1, <3>2 DEF AgreeInv, ComingInv
    <3> QED BY <3>3, <3>4 DEF PairInv
  <2> QED BY <1>0, <2>5, <2>6
<1> QED BY <1>1, <1>2

(* The drain and the reader move a frame. *)
LEMMA PairMoves ==
  ASSUME NEW c \in LinkEnds, NEW d \in LinkEnds, Paired(c, d), NEW n \in LinkEnds,
         NEW g \in SessionIds,
         DrainLane(n) \/ ReadFrame(n, g)
  PROVE  PairInv(c, d)'
<1> USE DEF ends, sessions, pipes, linkBudget
<1>0. /\ AnswerInv(c, d) /\ AgreeInv(c, d) /\ ComingInv(c, d) /\ d # c /\ PipeTypes
      /\ FirstInv(n) /\ Sound(n) /\ (n = c \/ n = d) /\ c = Other(d) /\ d = Other(c)
  BY DEF Paired, PairInv
<1>1. UNCHANGED <<life, half, caller, installed>>
  BY DEF DrainLane, ReadFrame
<1>2. CASE DrainLane(n) /\ n = c
  <2>1. Latest(c, d)' = Latest(c, d) /\ (LinkUnderWay(c, d) => LinkUnderWay(c, d)')
    BY <1>0, <1>2, StreamDrained
  <2>2. lane'[d] = lane[d] /\ sent'[d] = sent[d] /\ hand' = hand
    BY <1>0, <1>2, DrainEffect DEF DrainLane
  <2>3. Latest(d, c)' = Latest(d, c)
    BY <2>2, StreamKept
  <2>4. AnswerInv(c, d)'
    BY <1>0, <1>1, <2>2 DEF AnswerInv
  <2>5. AgreeInv(c, d)' /\ ComingInv(c, d)'
    BY <1>0, <1>1, <2>1, <2>3 DEF AgreeInv, ComingInv
  <2> QED BY <2>4, <2>5 DEF PairInv
<1>3. CASE DrainLane(n) /\ n = d
  <2>1. /\ Latest(d, c)' = Latest(d, c) /\ lane[d] # <<>>
        /\ (\A i \in 1..Len(lane[d]) : lane[d][i][1] = "EXIT") /\ (\A i \in 1..Len(sent[d][1]) : sent[d][1][i] = "EXIT")
            => (\A i \in 1..Len(lane'[d]) : lane'[d][i][1] = "EXIT")
               /\ (\A i \in 1..Len(sent'[d][1]) : sent'[d][1][i] = "EXIT")
    BY <1>0, <1>3, StreamDrained
  <2>2. lane'[c] = lane[c] /\ sent'[c] = sent[c] /\ hand' = hand
    BY <1>0, <1>3, DrainEffect DEF DrainLane
  <2>3. Latest(c, d)' = Latest(c, d) /\ (LinkUnderWay(c, d) => LinkUnderWay(c, d)')
    BY <2>2, StreamKept
  <2>4. AnswerInv(c, d)'
    BY <1>0, <1>1, <2>1, <2>2 DEF AnswerInv
  <2>5. AgreeInv(c, d)' /\ ComingInv(c, d)'
    BY <1>0, <1>1, <2>1, <2>3 DEF AgreeInv, ComingInv
  <2> QED BY <2>4, <2>5 DEF PairInv
<1>4. ASSUME ReadFrame(n, g) PROVE g = 1
  BY <1>0, <1>4 DEF FirstInv, ReadFrame
<1>5. CASE ReadFrame(n, g) /\ n = d
  <2>1. ReadFrame(d, 1) /\ 1 \in SessionIds
    BY <1>4, <1>5
  <2>2. /\ Latest(c, d)' = Latest(c, d) /\ (LinkUnderWay(c, d) => LinkUnderWay(c, d)') /\ sent[c][1] # <<>>
    BY <1>0, <2>1, StreamRead
  <2>3. hand'[c] = hand[c] /\ sent'[d] = sent[d] /\ lane' = lane
    <3>1. hand'[Other(d)] = hand[Other(d)] /\ sent'[d] = sent[d]
      BY <1>0, <2>1, ReadEffect
    <3> QED BY <1>0, <2>1, <3>1 DEF ReadFrame
  <2>4. Latest(d, c)' = Latest(d, c)
    BY <2>3, StreamKept
  <2>5. installed[c] # 0
    BY <2>2, SoundEnd
  <2>6. AnswerInv(c, d)'
    BY <1>0, <1>1, <2>3, <2>5 DEF AnswerInv
  <2>7. AgreeInv(c, d)' /\ ComingInv(c, d)'
    BY <1>0, <1>1, <2>2, <2>4 DEF AgreeInv, ComingInv
  <2> QED BY <2>6, <2>7 DEF PairInv
<1>6. CASE ReadFrame(n, g) /\ n = c
  <2>1. ReadFrame(c, 1) /\ 1 \in SessionIds
    BY <1>4, <1>6
  <2>2. /\ Latest(d, c)' = Latest(d, c) /\ sent[d][1] # <<>>
        /\ (\A i \in 1..Len(sent[d][1]) : sent[d][1][i] = "EXIT")
            => hand'[c][1] = "EXIT" /\ (\A i \in 1..Len(sent'[d][1]) : sent'[d][1][i] = "EXIT")
    BY <1>0, <2>1, StreamRead
  <2>3. hand'[d] = hand[d] /\ sent'[c] = sent[c] /\ lane' = lane
    <3>1. hand'[Other(c)] = hand[Other(c)] /\ sent'[c] = sent[c]
      BY <1>0, <2>1, ReadEffect
    <3> QED BY <1>0, <2>1, <3>1 DEF ReadFrame
  <2>4. Latest(c, d)' = Latest(c, d) /\ (LinkUnderWay(c, d) => LinkUnderWay(c, d)')
    BY <2>3, StreamKept
  <2>5. AnswerInv(c, d)'
    BY <1>0, <1>1, <2>2, <2>3 DEF AnswerInv
  <2>6. AgreeInv(c, d)' /\ ComingInv(c, d)'
    BY <1>0, <1>1, <2>2, <2>4 DEF AgreeInv, ComingInv
  <2> QED BY <2>5, <2>6 DEF PairInv
<1> QED BY <1>0, <1>2, <1>3, <1>5, <1>6

(* A frame in the hand of d's reader is applied, or looked at again: what   *)
(* then is under way.                                                       *)
LEMMA HandedOver ==
  ASSUME NEW c \in LinkEnds, NEW d \in LinkEnds, Paired(c, d), hand[d][1] # "none",
         hand'[d][1] \in {"none", "recheck"}, lane'[c] = lane[c], sent' = sent
  PROVE  /\ \/ Latest(c, d)' = "none" /\ Latest(c, d) = hand[d][1] /\ hand[d][1] # "recheck"
            \/ Latest(c, d)' = "none" /\ Latest(c, d) = "none" /\ hand[d][1] = "recheck"
            \/ Latest(c, d)' = Latest(c, d) /\ Latest(c, d) # "none"
         /\ LinkUnderWay(c, d) /\ hand[d][1] # "LINK" => LinkUnderWay(c, d)'
<1>1. PipeTypes
  BY DEF Paired
<1>2. CASE hand[d][1] \in Frames
  BY <1>1, <1>2, StreamApplied DEF Frames
<1>3. CASE hand[d][1] \notin Frames
  <2>1. hand[d][1] = "recheck"
    BY <1>1, <1>3, FrameTypes
  <2>2. hand'[d][1] \notin Frames
    BY DEF Frames
  <2>3. Latest(c, d)' = Latest(c, d)
    BY <1>3, <2>2 DEF Latest
  <2>4. LinkUnderWay(c, d) => LinkUnderWay(c, d)'
    BY <2>1 DEF LinkUnderWay
  <2> QED BY <2>1, <2>3, <2>4
<1> QED BY <1>2, <1>3

(* The frames of c, applied at d. *)
LEMMA PairAnswers ==
  ASSUME NEW c \in LinkEnds, NEW d \in LinkEnds, Paired(c, d), Sound(d)',
         ApplyLink(d, 1) \/ RecheckConnection(d, 1) \/ ApplyUnlink(d, 1) \/ ApplyLinkExit(d, 1)
  PROVE  PairInv(c, d)'
<1> USE DEF ends, sessions, pipes, linkBudget
<1>0. /\ AnswerInv(c, d) /\ AgreeInv(c, d) /\ ComingInv(c, d) /\ d # c /\ PipeTypes /\ 1 \in SessionIds
      /\ "EXIT" \in Frames
  BY FrameTypes DEF Paired, PairInv, Frames
<1>1. /\ UNCHANGED <<life, caller, installed, sent>> /\ hand[d][1] # "none"
  BY DEF ApplyLink, RecheckConnection, ApplyUnlink, ApplyLinkExit
<1>2. hand'[d][1] \in {"none", "recheck"} /\ hand'[c] = hand[c]
  BY <1>0, HandEffect DEF ApplyLink, RecheckConnection, ApplyUnlink, ApplyLinkExit
<1>3. session[d] = 1 /\ installed[c] # 0
  BY <1>0, <1>1, SoundEnd DEF AnswerInv
<1>4. half'[c] = half[c]
  BY <1>0, EstablishEffect, LinkExitEffect DEF ApplyLink, RecheckConnection, ApplyUnlink,
     ApplyLinkExit, PipeTypes
<1>5. CASE ApplyLink(d, 1) /\ life[d] # "alive"
  <2>1. Enqueue(d, "EXIT") /\ half' = half
    BY <1>5 DEF ApplyLink
  <2>2. lane'[d] = Append(lane[d], <<"EXIT", 1>>) /\ lane'[c] = lane[c]
    BY <1>0, <1>3, <2>1, SoundQueue
  <2>3. /\ Latest(d, c)' = "EXIT"
        /\ (\A i \in 1..Len(lane[d]) : lane[d][i][1] = "EXIT") => \A i \in 1..Len(lane'[d]) : lane'[d][i][1] = "EXIT"
    BY <1>0, <1>1, <2>2, StreamQueued
  <2>4. AnswerInv(c, d)'
    BY <1>0, <1>1, <1>2, <1>3, <1>5, <2>3 DEF AnswerInv
  <2>5. AgreeInv(c, d)' /\ ComingInv(c, d)'
    BY <1>1, <1>5, <2>3 DEF AgreeInv, ComingInv
  <2> QED BY <2>4, <2>5 DEF PairInv
<1>6. CASE ~(ApplyLink(d, 1) /\ life[d] # "alive")
  <2>1. UNCHANGED lane
    BY <1>6 DEF ApplyLink, RecheckConnection, ApplyUnlink, ApplyLinkExit
  <2>2. /\ \/ Latest(c, d)' = "none" /\ Latest(c, d) = hand[d][1] /\ hand[d][1] # "recheck"
           \/ Latest(c, d)' = "none" /\ Latest(c, d) = "none" /\ hand[d][1] = "recheck"
           \/ Latest(c, d)' = Latest(c, d) /\ Latest(c, d) # "none"
        /\ LinkUnderWay(c, d) /\ hand[d][1] # "LINK" => LinkUnderWay(c, d)'
    BY <1>1, <1>2, <2>1, HandedOver
  <2>3. Latest(d, c)' = Latest(d, c)
    BY <1>1, <1>2, <2>1, StreamKept
  <2>4. AnswerInv(c, d)'
    BY <1>0, <1>1, <1>2, <1>3, <1>4, <2>1 DEF AnswerInv
  <2>5. CASE life[d] # "alive"
    <3>1. hand[d][1] # "LINK" /\ half'[d] = half[d]
      <4>1. hand[d][1] # "LINK"
        BY <1>6, <2>5 DEF ApplyLink, RecheckConnection, ApplyUnlink, ApplyLinkExit
      <4>2. CASE ApplyUnlink(d, 1)
        BY <1>0, <2>5, <4>2 DEF ApplyUnlink, PipeTypes
      <4>3. CASE RecheckConnection(d, 1) \/ ApplyLinkExit(d, 1)
        BY <2>5, <4>3, Zenon DEF RecheckConnection, ApplyLinkExit, LinkExit
      <4> QED BY <4>1, <4>2, <4>3, <1>6, <2>5
    <3>2. ComingInv(c, d)'
      BY <1>0, <1>1, <1>4, <2>2, <2>3, <3>1 DEF ComingInv
    <3>3. AgreeInv(c, d)'
      BY <1>1, <2>5 DEF AgreeInv
    <3> QED BY <2>4, <3>2, <3>3 DEF PairInv
  <2>6. CASE life[d] = "alive"
    <3>1. ComingInv(c, d)'
      BY <1>1, <2>6 DEF ComingInv
    <3>2. CASE Latest(c, d)' = Latest(c, d) /\ Latest(c, d) # "none"
      <4>1. AgreeInv(c, d)'
        BY <1>0, <1>1, <1>4, <3>2 DEF AgreeInv
      <4> QED BY <2>4, <3>1, <4>1 DEF PairInv
    <3>3. CASE Latest(c, d)' = "none"
      <4>1. ASSUME caller[c] = "idle", life[c] # "taken" PROVE half'[d] = half[c]
        <5>0. half[c] \in BOOLEAN /\ half'[d] \in BOOLEAN
          BY <1>0, EstablishEffect, LinkExitEffect DEF ApplyLink, RecheckConnection, ApplyUnlink,
             ApplyLinkExit, PipeTypes
        <5>1. CASE ApplyLink(d, 1)
          <6>1. half'[d] /\ hand[d][1] = "LINK"
            BY <1>0, <2>6, <5>1, EstablishEffect DEF ApplyLink
          <6>2. half[c]
            BY <1>0, <2>2, <2>6, <3>3, <4>1, <6>1 DEF AgreeInv
          <6> QED BY <5>0, <6>1, <6>2, Zenon
        <5>2. CASE ApplyUnlink(d, 1) \/ ApplyLinkExit(d, 1)
          <6>1. ~half'[d]
            BY <1>0, <2>6, <5>2, LinkExitEffect DEF ApplyUnlink, ApplyLinkExit, PipeTypes
          <6>2. hand[d][1] \in {"UNLINK", "EXIT"}
            BY <5>2 DEF ApplyUnlink, ApplyLinkExit
          <6>3. ~half[c]
            BY <1>0, <2>2, <2>6, <3>3, <4>1, <6>2 DEF AgreeInv
          <6> QED BY <5>0, <6>1, <6>3, Zenon
        <5>3. CASE RecheckConnection(d, 1)
          <6>1. 1 \notin flagged[d] /\ session[d] # 0 /\ session[d] = 1
            BY <1>3 DEF Paired, Sound
          <6>2. half' = half
            BY <5>3, <6>1 DEF RecheckConnection
          <6>3. hand[d][1] = "recheck"
            BY <5>3 DEF RecheckConnection
          <6>4. Latest(c, d) = "none"
            BY <2>2, <3>3, <6>3
          <6>5. half[d] = half[c]
            BY <1>0, <2>6, <4>1, <6>4, Zenon DEF AgreeInv
          <6> QED BY <6>2, <6>5, Zenon
        <5> QED BY <5>1, <5>2, <5>3
      <4>2. AgreeInv(c, d)'
        BY <1>1, <1>4, <3>3, <4>1 DEF AgreeInv
      <4> QED BY <2>4, <3>1, <4>2 DEF PairInv
    <3> QED BY <2>2, <3>2, <3>3
  <2> QED BY <2>5, <2>6
<1> QED BY <1>5, <1>6

(* An EXIT of d reaches c. *)
LEMMA PairToldOfExit ==
  ASSUME NEW c \in LinkEnds, NEW d \in LinkEnds, Paired(c, d), ApplyLinkExit(c, 1)
  PROVE  PairInv(c, d)'
<1> USE DEF ends, sessions, pipes, linkBudget
<1>0. /\ AnswerInv(c, d) /\ AgreeInv(c, d) /\ ComingInv(c, d) /\ d # c /\ PipeTypes /\ 1 \in SessionIds
  BY FrameTypes DEF Paired, PairInv
<1>1. /\ UNCHANGED <<life, caller, installed, sent, lane>> /\ hand[c][1] = "EXIT" /\ LinkExit(c)
  BY DEF ApplyLinkExit
<1>2. hand'[c][1] = "none" /\ hand'[d] = hand[d]
  BY <1>0, HandEffect DEF ApplyLinkExit
<1>3. life[d] # "alive"
  BY <1>0, <1>1 DEF AnswerInv
<1>4. half'[d] = half[d] /\ (life[c] = "alive" => ~half'[c])
  BY <1>0, <1>1, LinkExitEffect
<1>5. AnswerInv(c, d)'
  BY <1>0, <1>1, <1>2, <1>3, <1>4 DEF AnswerInv
<1>6. AgreeInv(c, d)' /\ ComingInv(c, d)'
  BY <1>1, <1>3, <1>4 DEF AgreeInv, ComingInv
<1> QED BY <1>5, <1>6 DEF PairInv

(* Every step keeps what the two ends know of each other, while neither     *)
(* marks the first connection down and no second one is opened.             *)
LEMMA PairStepKept ==
  ASSUME NEW c \in LinkEnds, NEW d \in LinkEnds, Paired(c, d), RlNext, Sound(c)', Sound(d)'
  PROVE  PairInv(c, d)'
<1> USE DEF ends, sessions, pipes, linkBudget
<1>0. PairInv(c, d) /\ PipeTypes /\ \A n \in LinkEnds : n = c \/ n = d
  BY DEF Paired
<1>1. CASE OpenSession
  <2>1. UNCHANGED <<life, half, lane, sent, hand, caller, installed>>
    BY <1>1 DEF OpenSession
  <2> QED BY <1>0, <2>1, PairKept
<1>2. ASSUME NEW n \in LinkEnds, LinkRemote(n) \/ SendLink(n) \/ UnlinkRemote(n) PROVE PairInv(c, d)'
  BY <1>2, PairCalls
<1>3. ASSUME NEW n \in LinkEnds, ProcessExits(n) \/ TakeRemoteLinks(n) \/ SendRemoteExit(n) PROVE PairInv(c, d)'
  BY <1>3, PairExits
<1>4. ASSUME NEW n \in LinkEnds, DrainLane(n) PROVE PairInv(c, d)'
  <2>1. 1 \in SessionIds
    BY <1>0, FrameTypes
  <2> QED BY <1>4, <2>1, PairMoves
<1>5. ASSUME NEW n \in LinkEnds, Install(n) PROVE PairInv(c, d)'
  <2>1. UNCHANGED <<life, half, lane, sent, hand, caller>> /\ installed[n] < opened
    BY <1>5 DEF Install
  <2>2. installed' = [installed EXCEPT ![n] = opened] /\ installed[n] \in Nat /\ opened \in Nat
    BY <1>0, <1>5 DEF Install, PipeTypes
  <2>3. installed'[c] = 0 => installed[c] = 0
    <3>1. CASE c = n
      BY <2>1, <2>2, <3>1, <1>0 DEF PipeTypes
    <3>2. CASE c # n
      BY <2>2, <3>2, <1>0 DEF PipeTypes
    <3> QED BY <3>1, <3>2
  <2> QED BY <1>0, <2>1, <2>3, PairKept
<1>6. ASSUME NEW n \in LinkEnds, SpawnReader(n) \/ LinkFails(n) \/ Reap(n) \/ CollectLinks(n) PROVE PairInv(c, d)'
  <2>1. UNCHANGED <<life, half, lane, sent, hand, caller, installed>>
    BY <1>6 DEF SpawnReader, LinkFails, Reap, CollectLinks
  <2> QED BY <1>0, <2>1, PairKept
<1>7. ASSUME NEW n \in LinkEnds, DeliverNoConnection(n) PROVE PairInv(c, d)'
  BY <1>7, SoundEnd DEF DeliverNoConnection
<1>8. ASSUME NEW n \in LinkEnds, NEW g \in SessionIds, ReadFrame(n, g) PROVE PairInv(c, d)'
  BY <1>8, PairMoves
<1>9. ASSUME NEW n \in LinkEnds, NEW g \in SessionIds, ReaderEnds(n, g) PROVE PairInv(c, d)'
  <2>1. UNCHANGED <<life, half, lane, sent, hand, caller, installed>>
    BY <1>9 DEF ReaderEnds
  <2> QED BY <1>0, <2>1, PairKept
<1>10. ASSUME NEW n \in LinkEnds, NEW g \in SessionIds,
              ApplyLink(n, g) \/ RecheckConnection(n, g) \/ ApplyUnlink(n, g) \/ ApplyLinkExit(n, g)
       PROVE  PairInv(c, d)'
  <2>1. g = 1
    <3>1. hand[n][g] # "none"
      BY <1>10 DEF ApplyLink, RecheckConnection, ApplyUnlink, ApplyLinkExit
    <3> QED BY <3>1, SoundEnd
  <2>2. CASE n = d
    BY <1>10, <2>1, <2>2, PairAnswers
  <2>3. CASE n = c
    <3>1. ApplyLinkExit(c, 1)
      BY <1>0, <1>10, <2>1, <2>3
         DEF PairInv, AnswerInv, ApplyLink, RecheckConnection, ApplyUnlink
    <3> QED BY <3>1, PairToldOfExit
  <2> QED BY <1>0, <2>2, <2>3
<1> QED
  BY <1>1, <1>2, <1>3, <1>4, <1>5, <1>6, <1>7, <1>8, <1>9, <1>10 DEF RlNext

-----------------------------------------------------------------------------
(* The inductive invariant *)

LEMMA HalfInvInit ==
  ASSUME RlInit
  PROVE  HalfInv
<1>1. 1 \in SessionIds /\ 0 \in 0..MaxSessions
  BY RemoteLinksAssumption DEF SessionIds
<1>2. PipeTypes
  BY <1>1 DEF RlInit, PipeTypes
<1>3. \A n \in LinkEnds : EndInv(n)
  BY DEF RlInit, EndInv
<1>4. \A n \in LinkEnds : FirstInv(n)
  <2> SUFFICES ASSUME NEW n \in LinkEnds PROVE FirstInv(n)
    OBVIOUS
  <2>1. /\ installed[n] = 0 /\ session[n] = 0 /\ owed[n] = 0 /\ scan[n] = "idle" /\ reading[n] = {} /\ opened = 0
        /\ lane[n] = <<>> /\ sent[n][1] = <<>> /\ flagged[n] = {} /\ ~half[n] /\ life[n] = "alive"
        /\ \A g \in SessionIds : hand[n][g] = "none"
    BY <1>1 DEF RlInit
  <2>2. Len(lane[n]) = 0 /\ 1..0 = {}
    BY <2>1
  <2> QED BY <2>1, <2>2 DEF FirstInv, Sound
<1>5. ASSUME NEW c \in LinkEnds PROVE PairInv(c, Other(c))
  <2>1. PICK d \in LinkEnds : d = Other(c)
    BY EndsOfPair
  <2>2. /\ \A n \in LinkEnds : /\ lane[n] = <<>> /\ sent[n][1] = <<>> /\ half[n] = FALSE /\ life[n] = "alive"
                               /\ hand[n][1] = "none" /\ caller[n] = "idle"
    BY <1>1 DEF RlInit
  <2>3. Len(<<>>) = 0 /\ 1..0 = {}
    OBVIOUS
  <2>4. Latest(c, d) = "none"
    BY <2>2 DEF Latest, Frames
  <2>5. AnswerInv(c, d)
    BY <2>2, <2>3 DEF AnswerInv
  <2>6. half[d] = half[c]
    BY <2>2, Zenon
  <2>7. AgreeInv(c, d) /\ ComingInv(c, d)
    BY <2>2, <2>4, <2>6 DEF AgreeInv, ComingInv
  <2> QED BY <2>1, <2>5, <2>7 DEF PairInv
<1> QED BY <1>2, <1>3, <1>4, <1>5 DEF HalfInv, FirstLinkInv

(* A connection that was marked down stays marked. *)
LEMMA MarkedStays ==
  ASSUME PipeTypes, RlNext, NEW m \in LinkEnds, Sound(m)'
  PROVE  Sound(m)
<1> USE DEF sessions
<1>1. ASSUME NEW n \in LinkEnds, NEW f \in Frames, Enqueue(n, f) PROVE flagged[m] \subseteq flagged'[m]
  <2>1. m # n => flagged'[m] = flagged[m]
    BY <1>1, EnqueueEffect
  <2>2. flagged[n] \subseteq flagged'[n]
    BY <1>1, EnqueueEffect
  <2> QED BY <2>1, <2>2
<1>2. "LINK" \in Frames /\ "UNLINK" \in Frames /\ "EXIT" \in Frames
  BY DEF Frames
<1>3. ASSUME NEW n \in LinkEnds,
             \/ LinkRemote(n) \/ ProcessExits(n) \/ TakeRemoteLinks(n) \/ DrainLane(n) \/ Install(n)
             \/ SpawnReader(n) \/ Reap(n) \/ CollectLinks(n) \/ DeliverNoConnection(n)
      PROVE  flagged' = flagged
  BY <1>3 DEF LinkRemote, ProcessExits, TakeRemoteLinks, DrainLane, Install, SpawnReader, Reap,
     CollectLinks,
              DeliverNoConnection
<1>4. ASSUME NEW n \in LinkEnds, NEW g \in SessionIds,
             ReadFrame(n, g) \/ RecheckConnection(n, g) \/ ApplyUnlink(n, g) \/ ApplyLinkExit(n, g)
      PROVE  flagged' = flagged
  BY <1>4 DEF ReadFrame, RecheckConnection, ApplyUnlink, ApplyLinkExit
<1>5. ASSUME NEW n \in LinkEnds, SendLink(n) \/ UnlinkRemote(n) \/ SendRemoteExit(n)
      PROVE  flagged[m] \subseteq flagged'[m]
  BY <1>1, <1>2, <1>5 DEF SendLink, UnlinkRemote, SendRemoteExit
<1>6. ASSUME NEW n \in LinkEnds, NEW g \in SessionIds, ApplyLink(n, g) PROVE flagged[m] \subseteq flagged'[m]
  BY <1>1, <1>2, <1>6 DEF ApplyLink
<1>7. ASSUME NEW n \in LinkEnds, LinkFails(n) PROVE flagged[m] \subseteq flagged'[m]
  BY <1>7 DEF LinkFails, PipeTypes
<1>8. ASSUME NEW n \in LinkEnds, NEW g \in SessionIds, ReaderEnds(n, g) PROVE flagged[m] \subseteq flagged'[m]
  BY <1>8 DEF ReaderEnds, PipeTypes
<1>9. CASE OpenSession
  BY <1>9 DEF OpenSession, Sound
<1> QED BY <1>3, <1>4, <1>5, <1>6, <1>7, <1>8, <1>9 DEF RlNext, Sound

LEMMA HalfInvNext ==
  ASSUME HalfInv, RlNext
  PROVE  HalfInv'
<1>1. PipeTypes /\ (\A n \in LinkEnds : EndInv(n)) /\ FirstLinkInv
  BY DEF HalfInv
<1>2. PipeTypes'
  BY <1>1, PipeTypesKept
<1>3. (\A n \in LinkEnds : EndInv(n))'
  BY <1>1, EndsKept
<1>4. ASSUME opened' <= 1
      PROVE  /\ \A n \in LinkEnds : FirstInv(n)'
             /\ \A c \in LinkEnds :
                   LinkCallers \subseteq {c} /\ Sound(c)' /\ Sound(Other(c))' => PairInv(c, Other(c))'
  <2>1. opened <= 1
    BY <1>1, <1>4, OpenedGrows DEF PipeTypes
  <2>2. \A n \in LinkEnds : FirstInv(n)
    BY <1>1, <2>1 DEF FirstLinkInv
  <2>3. \A n \in LinkEnds : FirstInv(n)'
    BY <1>1, <1>4, <2>2, FirstStepKept
  <2>4. ASSUME NEW c \in LinkEnds, LinkCallers \subseteq {c}, Sound(c)', Sound(Other(c))'
        PROVE  PairInv(c, Other(c))'
    <3>1. PICK d \in LinkEnds : d = Other(c) /\ c = Other(d) /\ d # c /\ \A n \in LinkEnds : n = c \/ n = d
      BY EndsOfPair
    <3>2. Sound(d)'
      BY <2>4, <3>1 DEF Sound
    <3>3. Sound(c) /\ Sound(d)
      BY <1>1, <2>4, <3>2, MarkedStays
    <3>4. PairInv(c, d)
      BY <1>1, <2>1, <2>4, <3>1, <3>3 DEF FirstLinkInv
    <3>5. Paired(c, d)
      BY <1>1, <2>1, <2>2, <2>4, <3>1, <3>3, <3>4 DEF Paired
    <3>6. PairInv(c, d)'
      BY <2>4, <3>2, <3>5, PairStepKept
    <3> QED BY <3>1, <3>6
  <2> QED BY <2>3, <2>4
<1>5. FirstLinkInv'
  BY <1>4 DEF FirstLinkInv
<1> QED BY <1>2, <1>3, <1>5 DEF HalfInv

(* No half of a link outlives what it stands for (remote_supervision.rs):   *)
(* once everything has settled no process holds a link over a connection    *)
(* that is gone, and over the first connection of a pair the two ends       *)
(* agree, however LINK, UNLINK and EXIT, the scan for noconnection, the     *)
(* recheck and an overflow of the lane interleave.                          *)
THEOREM NoHalfIsLeft == RlSpec => []NoDanglingHalf
<1>1. RlInit => HalfInv
  BY HalfInvInit
<1>2. HalfInv /\ [RlNext]_rlVars => HalfInv'
  <2> SUFFICES ASSUME HalfInv, [RlNext]_rlVars PROVE HalfInv'
    OBVIOUS
  <2>1. CASE RlNext
    BY <2>1, HalfInvNext
  <2>2. CASE UNCHANGED rlVars
    <3>1. UNCHANGED <<life, half, session, flagged, installed, owed, scan, lane, sent, reading,
                      hand, caller, opened>>
      BY <2>2 DEF rlVars, ends, sessions, pipes
    <3>2. PipeTypes'
      BY <3>1 DEF HalfInv, PipeTypes
    <3>3. \A n \in LinkEnds : EndInv(n)'
      BY <3>1 DEF HalfInv, EndInv
    <3>4. \A n \in LinkEnds : FirstInv(n) => FirstInv(n)'
      BY <3>1 DEF FirstInv, Sound
    <3>5. \A c \in LinkEnds : PairInv(c, Other(c)) => PairInv(c, Other(c))'
      BY <3>1, EndsOfPair, PairKept
    <3>6. FirstLinkInv'
      BY <3>1, <3>4, <3>5 DEF HalfInv, FirstLinkInv, Sound
    <3> QED BY <3>2, <3>3, <3>6 DEF HalfInv
  <2> QED BY <2>1, <2>2
<1>3. HalfInv => NoDanglingHalf
  BY SettledAgree
<1> QED BY <1>1, <1>2, <1>3, PTL DEF RlSpec

=============================================================================

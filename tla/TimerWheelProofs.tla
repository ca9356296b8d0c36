-------------------------- MODULE TimerWheelProofs --------------------------
(***************************************************************************)
(* Proofs about TimerWheel, for any number of buckets, any resolution and  *)
(* any clock: its three indexes agree, a parked worker 0 sleeps past none  *)
(* of the timers, and the wheel implements the set of timers (TimerSet).   *)
(***************************************************************************)
EXTENDS TimerWheel, WellFoundedInduction, TLAPS

-----------------------------------------------------------------------------
(* Types *)

WheelEntries == [at : Nat, bucket : Buckets, slot : Nat]

TypeInv ==
  /\ clock \in Nat /\ start \in Nat /\ currentTick \in Nat /\ nextRef \in Nat
  /\ buckets \in [Buckets -> Seq(Refs)]
  /\ Pending \subseteq Refs /\ entries \in [Pending -> WheelEntries]
  /\ parkedUntil \in Nat
  /\ step \in 0 .. NumBuckets /\ slot \in Nat \ {0}
  /\ DOMAIN expired \subseteq Refs /\ expired \in [DOMAIN expired -> Nat]

-----------------------------------------------------------------------------
(* Where a timer is, and what a walk has seen *)

(* Nothing is armed before the wheel's start has met the clock, and no tick *)
(* is ahead of the clock.                                                  *)
Started ==
  /\ Pending # {} => start <= clock
  /\ currentTick <= TickFor(clock)

(* A timer is in the bucket of its tick, which no finished walk has passed. *)
Placed ==
  \A r \in Pending :
    /\ start <= entries[r].at
    /\ entries[r].bucket = TickFor(entries[r].at) % NumBuckets
    /\ currentTick <= TickFor(entries[r].at)

(* What a walk has found is due and gone; a due timer that is still there  *)
(* is ahead of the walk.                                                   *)
WalkInOrder ==
  /\ step = Idle => DOMAIN expired = {}
  /\ \A r \in DOMAIN expired : r \notin Pending /\ expired[r] <= clock
  /\ step # Idle =>
       /\ \A r \in Pending : entries[r].at <= clock =>
            /\ \A i \in 0 .. step - 1 : entries[r].bucket # (currentTick + i) % NumBuckets
            /\ entries[r].bucket = (currentTick + step) % NumBuckets => entries[r].slot >= slot

WheelInv == IndexesAgree /\ Started /\ Placed /\ WalkInOrder /\ ParkedUntilCoversAll

-----------------------------------------------------------------------------
(* Arithmetic *)

(* Division with remainder. *)
LEMMA DivMod ==
  ASSUME NEW N \in Nat \ {0}, NEW a \in Nat
  PROVE  a = N * (a \div N) + (a % N) /\ a % N \in 0 .. N - 1 /\ a \div N \in Nat
OBVIOUS

(* The remainder is determined. *)
LEMMA RemainderUnique ==
  ASSUME NEW N \in Nat \ {0}, NEW q \in Nat, NEW p \in Nat, NEW r \in 0 .. N - 1, NEW s \in 0 .. N - 1,
         N * q + r = N * p + s
  PROVE  r = s
<1>1. CASE q = p
  BY <1>1
<1>2. CASE q < p
  <2>1. N * q + N <= N * p
    BY <1>2
  <2>2. QED
    BY <2>1
<1>3. CASE p < q
  <2>1. N * p + N <= N * q
    BY <1>3
  <2>2. QED
    BY <2>1
<1>4. QED
  BY <1>1, <1>2, <1>3

(* Division is monotone. *)
LEMMA DivMonotone ==
  ASSUME NEW N \in Nat \ {0}, NEW a \in Nat, NEW b \in Nat, a <= b
  PROVE  a \div N <= b \div N
OBVIOUS

(* One lap over the buckets visits every tick from the first one on. *)
LEMMA LapVisits ==
  ASSUME NEW N \in Nat \ {0}, NEW c \in Nat, NEW t \in Nat, c <= t
  PROVE  \E i \in 0 .. N - 1 : (c + i) % N = t % N /\ i <= t - c
<1>0. PICK d \in Nat : d = t - c
  OBVIOUS
<1>1. PICK i \in 0 .. N - 1, q \in Nat : d = N * q + i
  BY DivMod
<1>2. PICK e \in Nat : e = c + i
  OBVIOUS
<1>3. t = N * (t \div N) + (t % N) /\ t % N \in 0 .. N - 1 /\ t \div N \in Nat
  BY DivMod
<1>4. PICK a \in Nat, u \in 0 .. N - 1 : e = N * a + u /\ u = e % N
  BY DivMod
<1>5. PICK b \in Nat, v \in 0 .. N - 1 : b = t \div N /\ v = t % N
  BY <1>3
<1>6. c + i = N * a + u /\ t = N * b + v /\ t = c + N * q + i
  BY <1>0, <1>1, <1>2, <1>3, <1>4, <1>5
<1>7. N * (a + q) + u = N * b + v
  <2>1. N * (a + q) = N * a + N * q
    BY <1>1
  <2>2. N * a \in Nat /\ N * q \in Nat /\ N * b \in Nat
    BY <1>1
  <2>3. QED
    BY <1>1, <1>6, <2>1, <2>2
<1>8. a + q \in Nat
  BY <1>1
<1>9. u = v
  BY <1>7, <1>8, RemainderUnique
<1>10. N * q \in Nat
  BY <1>1
<1>11. i <= t - c
  BY <1>0, <1>1, <1>10
<1>12. QED
  BY <1>1, <1>2, <1>4, <1>5, <1>9, <1>11

(* A nonempty set of numbers has a least one, and Min is it. *)
LEMMA MinIsLeast ==
  ASSUME NEW S, S \subseteq Nat, S # {}
  PROVE  Min(S) \in S /\ \A y \in S : Min(S) <= y
<1>1. IsWellFoundedOn(OpToRel(<, Nat), Nat)
  BY NatLessThanWellFounded
<1>2. PICK x \in S : \A y \in S : ~(<<y, x>> \in OpToRel(<, Nat))
  BY <1>1, WFMin
<1>3. \A y \in S : ~(y < x)
  BY <1>2 DEF OpToRel
<1>4. \A y \in S : x <= y
  BY <1>3
<1>5. QED
  BY <1>4 DEF Min

(* The ticks of later instants are not earlier. *)
LEMMA TickForMonotone ==
  ASSUME start \in Nat, NEW a \in Nat, NEW b \in Nat, a <= b
  PROVE  TickFor(a) \in Nat /\ TickFor(b) \in Nat /\ TickFor(a) <= TickFor(b)
<1> USE WheelAssumption
<1>1. CASE a < start
  <2>1. b >= start => (b - start) \div Resolution \in Nat
    BY DivMod
  <2>2. QED
    BY <1>1, <2>1 DEF TickFor
<1>2. CASE a >= start
  <2>1. a - start \in Nat /\ b - start \in Nat /\ a - start <= b - start
    BY <1>2
  <2>2. (a - start) \div Resolution \in Nat /\ (b - start) \div Resolution \in Nat
    BY <2>1, DivMod
  <2>3. (a - start) \div Resolution <= (b - start) \div Resolution
    BY <2>1, DivMonotone
  <2>4. QED
    BY <1>2, <2>2, <2>3 DEF TickFor
<1>3. QED
  BY <1>1, <1>2

-----------------------------------------------------------------------------
(* The indexes *)

(* What swap_remove leaves. *)
LEMMA SwapRemoveEffect ==
  ASSUME NEW S, NEW s \in Seq(S), NEW i \in 1 .. Len(s)
  PROVE  /\ SwapRemove(s, i) \in Seq(S) /\ Len(SwapRemove(s, i)) = Len(s) - 1
         /\ \A j \in 1 .. Len(s) - 1 : SwapRemove(s, i)[j] = IF j = i THEN s[Len(s)] ELSE s[j]
<1>1. Len(s) \in Nat /\ Len(s) \in 1 .. Len(s) /\ Len(s) - 1 \in Nat
  OBVIOUS
<1>2. \A j \in 1 .. Len(s) - 1 : (IF j = i THEN s[Len(s)] ELSE s[j]) \in S
  BY <1>1
<1>3. QED
  BY <1>1, <1>2 DEF SwapRemove

(* What an entry says of its reference. *)
LEMMA EntryFields ==
  ASSUME TypeInv, NEW r \in Pending
  PROVE  /\ r \in Refs /\ entries[r].at \in Nat /\ entries[r].bucket \in Buckets
         /\ entries[r].slot \in Nat /\ buckets[entries[r].bucket] \in Seq(Refs)
BY DEF TypeInv, WheelEntries

(* remove_entry takes out one reference, and the one that takes its place  *)
(* in the bucket is told.                                                  *)
LEMMA DetachEffect ==
  ASSUME TypeInv, IndexesAgree, NEW r \in Pending, Detach(r)
  PROVE  /\ Pending' = Pending \ {r}
         /\ buckets' \in [Buckets -> Seq(Refs)] /\ entries' \in [Pending' -> WheelEntries]
         /\ \A q \in Pending' :
              /\ entries'[q].at = entries[q].at /\ entries'[q].bucket = entries[q].bucket
              /\ \/ entries'[q].slot = entries[q].slot
                 \/ entries[q].bucket = entries[r].bucket /\ entries'[q].slot = entries[r].slot
         /\ IndexesAgree'
<1> DEFINE b == entries[r].bucket
           k == entries[r].slot
           s == buckets[b]
           last == s[Len(s)]
<1>1. b \in Buckets /\ s \in Seq(Refs) /\ k \in 1 .. Len(s) /\ s[k] = r /\ Len(s) \in Nat
  BY EntryFields DEF IndexesAgree
<1>2. last \in Pending /\ entries[last].bucket = b /\ entries[last].slot = Len(s)
  BY <1>1 DEF IndexesAgree
<1>3. /\ entries' = [q \in Pending \ {r} |->
                       IF q = last THEN [entries[q] EXCEPT !.slot = k] ELSE entries[q]]
      /\ deadlines' = deadlines \ {<<entries[r].at, r>>}
      /\ buckets' = [buckets EXCEPT ![b] = SwapRemove(s, k)]
  BY DEF Detach
<1>4. /\ SwapRemove(s, k) \in Seq(Refs) /\ Len(SwapRemove(s, k)) = Len(s) - 1
      /\ \A j \in 1 .. Len(s) - 1 : SwapRemove(s, k)[j] = IF j = k THEN last ELSE s[j]
  BY <1>1, SwapRemoveEffect
<1>5. /\ buckets' \in [Buckets -> Seq(Refs)]
      /\ buckets'[b] = SwapRemove(s, k)
      /\ \A c \in Buckets \ {b} : buckets'[c] = buckets[c]
  BY <1>1, <1>3, <1>4 DEF TypeInv
<1>6. Pending' = Pending \ {r}
  BY <1>3 DEF Pending
<1>7. \A q \in Pending' :
        /\ entries'[q].at = entries[q].at /\ entries'[q].bucket = entries[q].bucket
        /\ entries'[q].slot = IF q = last THEN k ELSE entries[q].slot
        /\ entries'[q] \in WheelEntries
  <2>1. k \in Nat
    BY <1>1
  <2>2. ASSUME NEW q \in Pending'
        PROVE  entries[q] \in WheelEntries
               /\ entries'[q] = IF q = last THEN [entries[q] EXCEPT !.slot = k] ELSE entries[q]
    BY <1>3, <1>6, <2>2 DEF TypeInv
  <2> HIDE DEF k, last
  <2>3. QED
    BY <2>1, <2>2 DEF WheelEntries
<1>8. entries' \in [Pending' -> WheelEntries]
  <2>1. entries' = [q \in Pending' |-> entries'[q]]
    BY <1>3, <1>6
  <2>2. QED
    BY <1>7, <2>1
<1>9. ASSUME NEW q \in Pending'
      PROVE  /\ entries'[q].slot \in 1 .. Len(buckets'[entries'[q].bucket])
             /\ buckets'[entries'[q].bucket][entries'[q].slot] = q
  <2>1. q \in Pending /\ q # r /\ entries[q].bucket \in Buckets
    BY <1>6, EntryFields
  <2>2. entries[q].slot \in 1 .. Len(buckets[entries[q].bucket])
        /\ buckets[entries[q].bucket][entries[q].slot] = q
    BY <2>1 DEF IndexesAgree
  <2>3. /\ entries'[q].bucket = entries[q].bucket
        /\ entries'[q].slot = IF q = last THEN k ELSE entries[q].slot
    BY <1>7
  <2>4. CASE entries[q].bucket # b
    BY <1>2, <1>5, <2>1, <2>2, <2>3, <2>4
  <2>5. CASE entries[q].bucket = b /\ q = last
    <3>1. k \in 1 .. Len(s) - 1
      BY <1>1, <2>1, <2>5
    <3>2. QED
      BY <1>4, <1>5, <2>3, <2>5, <3>1
  <2>6. CASE entries[q].bucket = b /\ q # last
    <3>1. entries[q].slot \in 1 .. Len(s) - 1 /\ entries[q].slot # k
      BY <1>1, <2>1, <2>2, <2>6
    <3>2. entries'[q].slot = entries[q].slot /\ entries'[q].bucket = b
      BY <2>3, <2>6
    <3>3. SwapRemove(s, k)[entries[q].slot] = q
      BY <1>4, <2>2, <2>6, <3>1
    <3>4. QED
      BY <1>4, <1>5, <3>1, <3>2, <3>3
  <2>7. QED
    BY <2>4, <2>5, <2>6
<1>10. ASSUME NEW c \in Buckets, NEW i \in 1 .. Len(buckets'[c])
       PROVE  /\ buckets'[c][i] \in Pending'
              /\ entries'[buckets'[c][i]].bucket = c /\ entries'[buckets'[c][i]].slot = i
  <2>1. CASE c # b
    <3>1. i \in 1 .. Len(buckets[c]) /\ buckets'[c] = buckets[c]
      BY <1>5, <1>10, <2>1
    <3>2. buckets[c][i] \in Pending /\ entries[buckets[c][i]].bucket = c /\ entries[buckets[c][i]].slot = i
      BY <3>1 DEF IndexesAgree
    <3>3. buckets[c][i] # r /\ buckets[c][i] # last
      BY <1>2, <2>1, <3>2
    <3>4. QED
      BY <1>6, <1>7, <3>1, <3>2, <3>3
  <2>2. CASE c = b /\ i = k
    <3>1. i \in 1 .. Len(s) - 1 /\ buckets'[c][i] = last
      BY <1>1, <1>4, <1>5, <1>10, <2>2
    <3>2. last # r
      BY <1>1, <1>2, <2>2, <3>1
    <3>3. QED
      BY <1>2, <1>6, <1>7, <2>2, <3>1, <3>2
  <2>3. CASE c = b /\ i # k
    <3>1. i \in 1 .. Len(s) - 1 /\ buckets'[c][i] = s[i]
      BY <1>1, <1>4, <1>5, <1>10, <2>3
    <3>2. s[i] \in Pending /\ entries[s[i]].bucket = b /\ entries[s[i]].slot = i
      BY <1>1, <3>1 DEF IndexesAgree
    <3>3. s[i] # r /\ s[i] # last
      BY <1>1, <1>2, <2>3, <3>1, <3>2
    <3>4. QED
      BY <1>6, <1>7, <2>3, <3>1, <3>2, <3>3
  <2>4. QED
    BY <2>1, <2>2, <2>3
<1>11. deadlines' = {<<entries'[q].at, q>> : q \in Pending'}
  <2>1. deadlines = {<<entries[q].at, q>> : q \in Pending}
    BY DEF IndexesAgree
  <2>2. QED
    BY <1>3, <1>6, <1>7, <2>1
<1>12. IndexesAgree'
  BY <1>9, <1>10, <1>11 DEF IndexesAgree
<1>13. QED
  BY <1>2, <1>5, <1>6, <1>7, <1>8, <1>12

(* A timer that is armed goes to the end of the bucket of its tick. *)
LEMMA ScheduleEffect ==
  ASSUME TypeInv, IndexesAgree, Started,
         NEW r \in Refs, NEW delay \in 0 .. MaxDelay, ScheduleReserved(r, delay)
  PROVE  /\ Pending' = Pending \cup {r} /\ r \notin Pending
         /\ start' \in Nat /\ start' <= clock
         /\ Pending # {} => start' = start /\ currentTick' = currentTick
         /\ currentTick' = (IF clock < start THEN 0 ELSE currentTick)
         /\ clock >= start => start' = start
         /\ buckets' \in [Buckets -> Seq(Refs)] /\ entries' \in [Pending' -> WheelEntries]
         /\ \A q \in Pending : entries'[q] = entries[q]
         /\ entries'[r].at = clock + delay
         /\ entries'[r].bucket = (((clock + delay) - start') \div Resolution) % NumBuckets
         /\ IndexesAgree'
<1> USE WheelAssumption
<1> DEFINE at == clock + delay
           bucket == ((at - start') \div Resolution) % NumBuckets
<1>1. clock \in Nat /\ start \in Nat /\ delay \in Nat /\ at \in Nat
  BY WheelBoundsAssumption DEF TypeInv
<1>2. start' = (IF clock < start THEN clock ELSE start) /\ r \notin Pending
  BY DEF ScheduleReserved
<1>3. start' \in Nat /\ start' <= clock /\ at - start' \in Nat
  BY <1>1, <1>2
<1>4. bucket \in Buckets
  <2>1. PICK d \in Nat : d = at - start'
    BY <1>3
  <2>2. PICK t \in Nat : t = d \div Resolution
    BY DivMod
  <2>3. t % NumBuckets \in 0 .. NumBuckets - 1
    BY DivMod
  <2>4. QED
    BY <2>1, <2>2, <2>3 DEF Buckets
<1>5. /\ entries' = [q \in Pending \cup {r} |->
                       IF q = r THEN [at |-> at, bucket |-> bucket, slot |-> Len(buckets[bucket]) + 1]
                       ELSE entries[q]]
      /\ buckets' = [buckets EXCEPT ![bucket] = Append(buckets[bucket], r)]
      /\ deadlines' = deadlines \cup {<<at, r>>}
  BY <1>2 DEF ScheduleReserved
<1> HIDE DEF at, bucket
<1>6. buckets[bucket] \in Seq(Refs) /\ Len(buckets[bucket]) \in Nat
  BY <1>4 DEF TypeInv
<1>7. /\ Append(buckets[bucket], r) \in Seq(Refs)
      /\ Len(Append(buckets[bucket], r)) = Len(buckets[bucket]) + 1
      /\ Append(buckets[bucket], r)[Len(buckets[bucket]) + 1] = r
      /\ \A i \in 1 .. Len(buckets[bucket]) : Append(buckets[bucket], r)[i] = buckets[bucket][i]
  <2>1. PICK s \in Seq(Refs) : s = buckets[bucket]
    BY <1>6
  <2>2. QED
    BY <2>1
<1>8. /\ buckets' \in [Buckets -> Seq(Refs)] /\ buckets'[bucket] = Append(buckets[bucket], r)
      /\ \A c \in Buckets \ {bucket} : buckets'[c] = buckets[c]
  BY <1>4, <1>5, <1>7 DEF TypeInv
<1>9. Pending' = Pending \cup {r}
  BY <1>5 DEF Pending
<1>10. /\ \A q \in Pending : entries'[q] = entries[q]
       /\ entries'[r] = [at |-> at, bucket |-> bucket, slot |-> Len(buckets[bucket]) + 1]
  BY <1>2, <1>5
<1>11. entries' \in [Pending' -> WheelEntries]
  <2>1. entries'[r] \in WheelEntries
    BY <1>1, <1>4, <1>6, <1>10 DEF WheelEntries
  <2>2. \A q \in Pending : entries'[q] \in WheelEntries
    BY <1>10 DEF TypeInv
  <2>3. entries' = [q \in Pending' |-> entries'[q]]
    BY <1>5, <1>9
  <2>4. QED
    BY <1>9, <2>1, <2>2, <2>3
<1>12. ASSUME NEW q \in Pending'
       PROVE  /\ entries'[q].slot \in 1 .. Len(buckets'[entries'[q].bucket])
              /\ buckets'[entries'[q].bucket][entries'[q].slot] = q
  <2>1. CASE q = r
    BY <1>6, <1>7, <1>8, <1>10, <2>1
  <2>2. CASE q # r
    <3>1. /\ q \in Pending /\ entries'[q] = entries[q] /\ entries[q].bucket \in Buckets
          /\ entries[q].slot \in 1 .. Len(buckets[entries[q].bucket])
          /\ buckets[entries[q].bucket][entries[q].slot] = q
      BY <1>9, <1>10, <2>2, EntryFields DEF IndexesAgree
    <3>2. CASE entries[q].bucket = bucket
      BY <1>6, <1>7, <1>8, <3>1, <3>2
    <3>3. CASE entries[q].bucket # bucket
      BY <1>8, <3>1, <3>3
    <3>4. QED
      BY <3>2, <3>3
  <2>3. QED
    BY <2>1, <2>2
<1>13. ASSUME NEW c \in Buckets, NEW i \in 1 .. Len(buckets'[c])
       PROVE  /\ buckets'[c][i] \in Pending'
              /\ entries'[buckets'[c][i]].bucket = c /\ entries'[buckets'[c][i]].slot = i
  <2>1. CASE c = bucket /\ i = Len(buckets[bucket]) + 1
    BY <1>7, <1>8, <1>9, <1>10, <2>1
  <2>2. CASE ~(c = bucket /\ i = Len(buckets[bucket]) + 1)
    <3>1. i \in 1 .. Len(buckets[c]) /\ buckets'[c][i] = buckets[c][i]
      BY <1>6, <1>7, <1>8, <1>13, <2>2
    <3>2. /\ buckets[c][i] \in Pending
          /\ entries[buckets[c][i]].bucket = c /\ entries[buckets[c][i]].slot = i
      BY <3>1 DEF IndexesAgree
    <3>3. QED
      BY <1>9, <1>10, <3>1, <3>2
  <2>3. QED
    BY <2>1, <2>2
<1>14. deadlines' = {<<entries'[q].at, q>> : q \in Pending'}
  <2>1. deadlines = {<<entries[q].at, q>> : q \in Pending}
    BY DEF IndexesAgree
  <2>2. QED
    BY <1>2, <1>5, <1>9, <1>10, <2>1
<1>15. IndexesAgree'
  BY <1>12, <1>13, <1>14 DEF IndexesAgree
<1>16. /\ currentTick' = (IF clock < start THEN 0 ELSE currentTick)
       /\ clock >= start => start' = start
       /\ Pending # {} => start' = start /\ currentTick' = currentTick
  BY <1>1, <1>2 DEF ScheduleReserved, Started
<1>17. QED
  BY <1>2, <1>3, <1>8, <1>9, <1>10, <1>11, <1>15, <1>16 DEF at, bucket

-----------------------------------------------------------------------------
(* The invariant of the wheel *)

(* A step that leaves the clock, the indexes and the walk alone keeps them. *)
LEMMA WheelFrame ==
  ASSUME TypeInv, IndexesAgree, Started, Placed, WalkInOrder, nextRef' \in Nat, parkedUntil' \in Nat,
         UNCHANGED <<clock, start, currentTick, indexVars, walkVars>>
  PROVE  TypeInv' /\ IndexesAgree' /\ Started' /\ Placed' /\ WalkInOrder'
<1> USE DEF indexVars, walkVars
<1>1. Pending' = Pending
  BY DEF Pending
<1>2. TypeInv' /\ IndexesAgree'
  BY <1>1 DEF TypeInv, IndexesAgree
<1>3. Started' /\ Placed'
  BY <1>1 DEF Started, Placed, TickFor
<1>4. WalkInOrder'
  BY <1>1 DEF WalkInOrder
<1>5. QED
  BY <1>2, <1>3, <1>4

(* An empty wheel has every invariant. *)
LEMMA InitWheel == Init => TypeInv /\ WheelInv
<1> SUFFICES ASSUME Init PROVE TypeInv /\ WheelInv
  OBVIOUS
<1> USE WheelAssumption, WheelBoundsAssumption DEF Init
<1>1. Pending = {} /\ DOMAIN expired = {} /\ entries \in [Pending -> WheelEntries]
      /\ expired \in [DOMAIN expired -> Nat]
  BY DEF Pending
<1>2. TypeInv
  BY <1>1 DEF TypeInv, Buckets, Idle, Never
<1>3. IndexesAgree
  BY <1>1 DEF IndexesAgree
<1>4. TickFor(clock) \in Nat
  BY <1>2, TickForMonotone DEF TypeInv
<1>5. Started /\ Placed /\ WalkInOrder /\ ParkedUntilCoversAll
  BY <1>1, <1>4 DEF Started, Placed, WalkInOrder, ParkedUntilCoversAll
<1>6. QED
  BY <1>2, <1>3, <1>5 DEF WheelInv

(* publish_park: the earliest deadline is no later than any of them. *)
LEMMA PublishCovers ==
  ASSUME TypeInv, IndexesAgree
  PROVE  EarliestDeadline \in Nat /\ \A r \in Pending : EarliestDeadline <= entries[r].at
<1> DEFINE S == {d[1] : d \in deadlines}
<1>1. ASSUME NEW r \in Pending PROVE entries[r].at \in S
  <2>1. <<entries[r].at, r>> \in deadlines
    BY DEF IndexesAgree
  <2>2. <<entries[r].at, r>>[1] \in S
    BY <2>1
  <2>3. QED
    BY <2>2
<1>2. S \subseteq Nat
  BY EntryFields DEF IndexesAgree
<1>3. CASE deadlines = {}
  BY <1>1, <1>3, WheelBoundsAssumption DEF EarliestDeadline, Never
<1>4. CASE deadlines # {}
  <2>1. S # {}
    BY <1>4
  <2>2. Min(S) \in S /\ \A y \in S : Min(S) <= y
    BY <1>2, <2>1, MinIsLeast
  <2>3. EarliestDeadline = Min(S)
    BY <1>4 DEF EarliestDeadline
  <2> HIDE DEF S
  <2>4. QED
    BY <1>1, <1>2, <2>2, <2>3
<1>5. QED
  BY <1>3, <1>4

(* Time passes between two operations. *)
LEMMA ClockKeeps ==
  ASSUME TypeInv, WheelInv, ClockAdvances
  PROVE  TypeInv' /\ WheelInv'
<1> USE DEF indexVars, walkVars, parkVars
<1>1. /\ UNCHANGED <<start, currentTick, indexVars, nextRef, parkVars, walkVars>>
      /\ clock' \in Nat /\ clock' > clock /\ step = Idle
  BY WheelBoundsAssumption DEF ClockAdvances, TypeInv
<1>2. Pending' = Pending
  BY <1>1 DEF Pending
<1>3. TypeInv' /\ IndexesAgree'
  BY <1>1, <1>2 DEF TypeInv, IndexesAgree, WheelInv
<1>4. TickFor(clock) \in Nat /\ TickFor(clock') \in Nat /\ TickFor(clock) <= TickFor(clock')
  BY <1>1, TickForMonotone DEF TypeInv
<1>5. Started'
  <2>1. currentTick' <= TickFor(clock)'
    <3>1. currentTick <= TickFor(clock')
      BY <1>4 DEF WheelInv, Started, TypeInv
    <3>2. QED
      BY <1>1, <3>1 DEF TickFor
  <2>2. Pending' # {} => start' <= clock'
    BY <1>1, <1>2 DEF WheelInv, Started, TypeInv
  <2>3. QED
    BY <2>1, <2>2 DEF Started
<1>6. Placed'
  BY <1>1, <1>2 DEF WheelInv, Placed, TickFor
<1>7. WalkInOrder'
  BY <1>1, <1>2 DEF WheelInv, WalkInOrder
<1>8. ParkedUntilCoversAll'
  BY <1>1, <1>2 DEF WheelInv, ParkedUntilCoversAll
<1>9. QED
  BY <1>3, <1>5, <1>6, <1>7, <1>8 DEF WheelInv

(* Removing a timer keeps what is known of the others. *)
LEMMA DetachKeeps ==
  ASSUME TypeInv, WheelInv, NEW r \in Pending, Detach(r),
         UNCHANGED <<clock, start, currentTick, parkVars>>
  PROVE  IndexesAgree' /\ Started' /\ Placed' /\ ParkedUntilCoversAll'
<1>1. /\ Pending' = Pending \ {r} /\ IndexesAgree'
      /\ \A q \in Pending' :
           entries'[q].at = entries[q].at /\ entries'[q].bucket = entries[q].bucket
  BY DetachEffect DEF WheelInv
<1>2. Started'
  BY <1>1 DEF WheelInv, Started, TickFor
<1>3. Placed'
  BY <1>1 DEF WheelInv, Placed, TickFor
<1>4. ParkedUntilCoversAll'
  BY <1>1 DEF WheelInv, ParkedUntilCoversAll, parkVars
<1>5. QED
  BY <1>1, <1>2, <1>3, <1>4

(* An arming. *)
LEMMA ScheduleKeeps ==
  ASSUME TypeInv, WheelInv, NEW r \in Refs, NEW delay \in 0 .. MaxDelay, ScheduleReserved(r, delay)
  PROVE  TypeInv' /\ WheelInv'
<1> USE WheelAssumption, WheelBoundsAssumption
<1>1. /\ Pending' = Pending \cup {r} /\ r \notin Pending
      /\ start' \in Nat /\ start' <= clock
      /\ Pending # {} => start' = start /\ currentTick' = currentTick
      /\ currentTick' = (IF clock < start THEN 0 ELSE currentTick)
      /\ clock >= start => start' = start
      /\ buckets' \in [Buckets -> Seq(Refs)] /\ entries' \in [Pending' -> WheelEntries]
      /\ \A q \in Pending : entries'[q] = entries[q]
      /\ entries'[r].at = clock + delay
      /\ entries'[r].bucket = (((clock + delay) - start') \div Resolution) % NumBuckets
      /\ IndexesAgree'
  BY ScheduleEffect DEF WheelInv
<1>2. /\ UNCHANGED <<clock, nextRef, step, slot, expired, parked>> /\ step = Idle
      /\ parkedUntil' = IF parked /\ clock + delay < parkedUntil THEN clock + delay ELSE parkedUntil
  BY DEF ScheduleReserved, WakeParkedWorker, walkVars
<1>3. clock \in Nat /\ delay \in Nat /\ clock + delay \in Nat /\ parkedUntil \in Nat
  BY DEF TypeInv
<1>4. TypeInv'
  BY <1>1, <1>2, <1>3 DEF TypeInv
<1>5. currentTick' <= TickFor(clock)' /\ TickFor(clock)' \in Nat /\ TickFor(clock + delay)' \in Nat
      /\ TickFor(clock)' <= TickFor(clock + delay)'
  <2>1. PICK s \in Nat : s = start' /\ s <= clock /\ s <= clock + delay
    BY <1>1, <1>3
  <2>2. PICK a \in Nat : a = clock - s
    <3>1. s <= clock
      BY <2>1
    <3>2. clock - s \in Nat
      BY <1>3, <3>1
    <3>3. QED
      BY <3>2
  <2>3. PICK b \in Nat : b = (clock + delay) - s
    <3>1. s <= clock + delay
      BY <2>1
    <3>2. (clock + delay) - s \in Nat
      BY <1>3, <3>1
    <3>3. QED
      BY <3>2
  <2>4. a <= b
    BY <1>3, <2>2, <2>3
  <2>5. a \div Resolution \in Nat /\ b \div Resolution \in Nat /\ a \div Resolution <= b \div Resolution
    BY <2>4, DivMod, DivMonotone
  <2>6. TickFor(clock)' = a \div Resolution /\ TickFor(clock + delay)' = b \div Resolution
    <3>1. clock' = clock
      BY <1>2
    <3>2. ~(clock < s) /\ ~(clock + delay < s)
      BY <1>3, <2>1
    <3>3. QED
      BY <2>1, <2>2, <2>3, <3>1, <3>2 DEF TickFor
  <2>7. currentTick' <= TickFor(clock)'
    <3>1. CASE clock < start
      BY <1>1, <2>5, <2>6, <3>1
    <3>2. CASE ~(clock < start)
      <4>1. start' = start /\ currentTick' = currentTick
        BY <1>1, <1>3, <3>2 DEF TypeInv
      <4>2. TickFor(clock)' = TickFor(clock)
        BY <1>2, <4>1 DEF TickFor
      <4>3. QED
        BY <4>1, <4>2 DEF WheelInv, Started
    <3>3. QED
      BY <3>1, <3>2
  <2>8. QED
    BY <2>5, <2>6, <2>7
<1>6. Started'
  BY <1>1, <1>2, <1>5 DEF Started
<1>7. Placed'
  <2>1. SUFFICES ASSUME NEW q \in Pending'
                 PROVE  /\ start' <= entries'[q].at
                        /\ entries'[q].bucket = TickFor(entries[q].at)' % NumBuckets
                        /\ currentTick' <= TickFor(entries[q].at)'
    BY DEF Placed
  <2>2. CASE q = r
    <3>1. TickFor(entries[q].at)' = TickFor(clock + delay)'
      BY <1>1, <1>2, <2>2 DEF TickFor
    <3>2. TickFor(clock + delay)' = ((clock + delay) - start') \div Resolution
      BY <1>1, <1>2, <1>3 DEF TickFor
    <3>3. currentTick' <= TickFor(clock + delay)'
      BY <1>1, <1>5 DEF TypeInv
    <3>4. QED
      BY <1>1, <1>3, <2>2, <3>1, <3>2, <3>3
  <2>3. CASE q # r
    BY <1>1, <2>3 DEF WheelInv, Placed, TickFor
  <2>4. QED
    BY <2>2, <2>3
<1>8. WalkInOrder'
  BY <1>1, <1>2 DEF WheelInv, WalkInOrder
<1>9. ParkedUntilCoversAll'
  <2>1. SUFFICES ASSUME parked', NEW q \in Pending' PROVE parkedUntil' <= entries'[q].at
    BY DEF ParkedUntilCoversAll
  <2>2. CASE q = r
    BY <1>1, <1>2, <1>3, <2>1, <2>2
  <2>3. CASE q # r
    <3>1. q \in Pending /\ entries'[q] = entries[q] /\ entries[q].at \in Nat
      BY <1>1, <2>3, EntryFields
    <3>2. parkedUntil <= entries[q].at
      BY <1>2, <2>1, <3>1 DEF WheelInv, ParkedUntilCoversAll
    <3>3. QED
      BY <1>2, <1>3, <3>1, <3>2
  <2>4. QED
    BY <2>2, <2>3
<1>10. QED
  BY <1>1, <1>4, <1>6, <1>7, <1>8, <1>9 DEF WheelInv

(* The bucket a walk is in. *)
LEMMA WalkedInBuckets ==
  ASSUME TypeInv
  PROVE  /\ (currentTick + step) % NumBuckets \in Buckets
         /\ WalkedBucket \in Seq(Refs) /\ Len(WalkedBucket) \in Nat
<1>1. PICK t \in Nat : t = currentTick + step
  BY WheelAssumption DEF TypeInv
<1>2. t % NumBuckets \in 0 .. NumBuckets - 1
  BY WheelAssumption, DivMod
<1>3. (currentTick + step) % NumBuckets \in Buckets
  BY <1>1, <1>2 DEF Buckets
<1>4. QED
  BY <1>3 DEF TypeInv, WalkedBucket

(* A cancellation. *)
LEMMA CancelKeeps ==
  ASSUME TypeInv, WheelInv, NEW r \in Refs, Cancel(r)
  PROVE  TypeInv' /\ WheelInv'
<1>1. /\ r \in Pending /\ Detach(r) /\ step = Idle
      /\ UNCHANGED <<clock, start, currentTick, nextRef, parkVars, walkVars>>
  BY DEF Cancel
<1>2. IndexesAgree' /\ Started' /\ Placed' /\ ParkedUntilCoversAll'
  BY <1>1, DetachKeeps
<1>3. /\ Pending' = Pending \ {r}
      /\ buckets' \in [Buckets -> Seq(Refs)] /\ entries' \in [Pending' -> WheelEntries]
  BY <1>1, DetachEffect DEF WheelInv
<1>4. TypeInv'
  BY <1>1, <1>3 DEF TypeInv, walkVars, parkVars
<1>5. WalkInOrder'
  BY <1>1, <1>3 DEF WheelInv, WalkInOrder, walkVars
<1>6. QED
  BY <1>2, <1>4, <1>5 DEF WheelInv

(* A tick begins: its walk has seen nothing yet. *)
LEMMA TickBeginsKeeps ==
  ASSUME TypeInv, WheelInv, TickBegins
  PROVE  TypeInv' /\ WheelInv'
<1>1. /\ UNCHANGED <<clock, start, currentTick, indexVars, nextRef, parkVars>>
      /\ step' = 0 /\ slot' = 1 /\ expired' = <<>>
  BY DEF TickBegins
<1>2. DOMAIN expired' = {} /\ expired' \in [{} -> Nat]
  BY <1>1
<1>3. Pending' = Pending
  BY <1>1 DEF Pending, indexVars
<1>4. TypeInv'
  BY <1>1, <1>2, <1>3, WheelAssumption DEF TypeInv, indexVars, parkVars
<1>5. IndexesAgree' /\ ParkedUntilCoversAll'
  BY <1>1, <1>3 DEF WheelInv, IndexesAgree, ParkedUntilCoversAll, indexVars, parkVars
<1>6. Started' /\ Placed'
  BY <1>1, <1>3 DEF WheelInv, Started, Placed, TickFor, indexVars
<1>7. WalkInOrder'
  <2>1. \A r \in Pending : entries[r].slot \in Nat /\ entries[r].slot >= 1
    BY EntryFields DEF WheelInv, IndexesAgree
  <2>2. QED
    BY <1>1, <1>2, <1>3, <2>1 DEF WalkInOrder, indexVars
<1>8. QED
  BY <1>4, <1>5, <1>6, <1>7 DEF WheelInv

(* A due timer is taken out; the one that takes its slot is looked at next. *)
LEMMA ExpireKeeps ==
  ASSUME TypeInv, WheelInv, ExpireSlot
  PROVE  TypeInv' /\ WheelInv'
<1> DEFINE r == WalkedBucket[slot]
           b == (currentTick + step) % NumBuckets
<1>1. /\ UNCHANGED <<clock, start, currentTick, nextRef, parkVars, step, slot>>
      /\ step # Idle /\ slot <= Len(WalkedBucket)
      /\ entries[r].at <= clock /\ Detach(r)
      /\ expired' = [q \in DOMAIN expired \cup {r} |-> IF q = r THEN entries[r].at ELSE expired[q]]
  BY DEF ExpireSlot
<1>2. slot \in 1 .. Len(buckets[b]) /\ b \in Buckets
  BY <1>1, WalkedInBuckets DEF TypeInv, WalkedBucket
<1>3. r \in Pending /\ entries[r].bucket = b /\ entries[r].slot = slot
  BY <1>2 DEF WheelInv, IndexesAgree, WalkedBucket
<1> HIDE DEF r, b
<1>4. IndexesAgree' /\ Started' /\ Placed' /\ ParkedUntilCoversAll'
  BY <1>1, <1>3, DetachKeeps
<1>5. /\ Pending' = Pending \ {r}
      /\ buckets' \in [Buckets -> Seq(Refs)] /\ entries' \in [Pending' -> WheelEntries]
      /\ \A q \in Pending' :
           /\ entries'[q].at = entries[q].at /\ entries'[q].bucket = entries[q].bucket
           /\ \/ entries'[q].slot = entries[q].slot
              \/ entries[q].bucket = entries[r].bucket /\ entries'[q].slot = entries[r].slot
  BY <1>1, <1>3, DetachEffect DEF WheelInv
<1>6. /\ DOMAIN expired' = DOMAIN expired \cup {r} /\ expired'[r] = entries[r].at
      /\ \A q \in DOMAIN expired \ {r} : expired'[q] = expired[q]
  BY <1>1
<1>7. entries[r].at \in Nat /\ r \in Refs
  BY <1>3, EntryFields
<1>8. expired' \in [DOMAIN expired' -> Nat]
  <2>1. expired' = [q \in DOMAIN expired' |-> expired'[q]]
    BY <1>1, <1>6
  <2>2. \A q \in DOMAIN expired' : expired'[q] \in Nat
    BY <1>6, <1>7 DEF TypeInv
  <2>3. QED
    BY <2>1, <2>2
<1>9. TypeInv'
  BY <1>1, <1>5, <1>6, <1>7, <1>8 DEF TypeInv, parkVars
<1>10. WalkInOrder'
  <2>1. \A q \in DOMAIN expired' : q \notin Pending' /\ expired'[q] <= clock'
    BY <1>1, <1>5, <1>6 DEF WheelInv, WalkInOrder
  <2>2. slot >= slot
    BY DEF TypeInv
  <2>3. ASSUME NEW q \in Pending', entries'[q].at <= clock'
        PROVE  /\ \A i \in 0 .. step - 1 : entries'[q].bucket # (currentTick + i) % NumBuckets
               /\ entries'[q].bucket = (currentTick + step) % NumBuckets => entries'[q].slot >= slot
    BY <1>1, <1>3, <1>5, <2>2, <2>3 DEF WheelInv, WalkInOrder
  <2>4. QED
    BY <1>1, <2>1, <2>3 DEF WalkInOrder
<1>11. QED
  BY <1>4, <1>9, <1>10 DEF WheelInv

(* A step of the walk that leaves the indexes alone. *)
LEMMA WalkFrame ==
  ASSUME TypeInv, WheelInv, UNCHANGED <<clock, start, currentTick, indexVars, nextRef, parkVars, expired>>,
         step' \in 0 .. NumBuckets, slot' \in Nat \ {0}
  PROVE  /\ TypeInv' /\ IndexesAgree' /\ Started' /\ Placed' /\ ParkedUntilCoversAll'
         /\ Pending' = Pending /\ entries' = entries
<1>1. Pending' = Pending
  BY DEF Pending, indexVars
<1>2. TypeInv'
  BY <1>1 DEF TypeInv, indexVars, parkVars
<1>3. IndexesAgree' /\ ParkedUntilCoversAll'
  BY <1>1 DEF WheelInv, IndexesAgree, ParkedUntilCoversAll, indexVars, parkVars
<1>4. Started' /\ Placed'
  BY <1>1 DEF WheelInv, Started, Placed, TickFor, indexVars
<1>5. QED
  BY <1>1, <1>2, <1>3, <1>4 DEF indexVars

(* A timer that is not due is passed. *)
LEMMA PassKeeps ==
  ASSUME TypeInv, WheelInv, PassSlot
  PROVE  TypeInv' /\ WheelInv'
<1>1. /\ UNCHANGED <<clock, start, currentTick, indexVars, nextRef, parkVars, step, expired>>
      /\ step # Idle /\ entries[WalkedBucket[slot]].at > clock /\ slot' = slot + 1
  BY DEF PassSlot
<1>2. /\ TypeInv' /\ IndexesAgree' /\ Started' /\ Placed' /\ ParkedUntilCoversAll'
      /\ Pending' = Pending /\ entries' = entries
  BY <1>1, WalkFrame DEF TypeInv
<1>3. ASSUME NEW q \in Pending, entries[q].at <= clock,
             entries[q].bucket = (currentTick + step) % NumBuckets
      PROVE  entries[q].slot >= slot + 1
  <2>1. entries[q].slot >= slot /\ entries[q].slot \in Nat /\ slot \in Nat /\ clock \in Nat
        /\ entries[q].at \in Nat
    BY <1>1, <1>3, EntryFields DEF WheelInv, WalkInOrder, TypeInv
  <2>2. entries[q].slot # slot
    <3>1. buckets[entries[q].bucket][entries[q].slot] = q
      BY DEF WheelInv, IndexesAgree
    <3>2. QED
      BY <1>1, <1>3, <2>1, <3>1 DEF WalkedBucket
  <2>3. QED
    BY <2>1, <2>2
<1>4. WalkInOrder'
  BY <1>1, <1>2, <1>3 DEF WheelInv, WalkInOrder
<1>5. QED
  BY <1>2, <1>4 DEF WheelInv

(* At the end of a bucket no due timer is left in it. *)
LEMMA BucketSeen ==
  ASSUME TypeInv, WheelInv, step # Idle, slot > Len(WalkedBucket),
         NEW q \in Pending, entries[q].at <= clock
  PROVE  \A i \in 0 .. step : entries[q].bucket # (currentTick + i) % NumBuckets
<1>1. entries[q].bucket # (currentTick + step) % NumBuckets
  <2>1. SUFFICES ASSUME entries[q].bucket = (currentTick + step) % NumBuckets PROVE FALSE
    OBVIOUS
  <2>2. entries[q].slot >= slot
    BY <2>1 DEF WheelInv, WalkInOrder
  <2>3. entries[q].slot \in 1 .. Len(WalkedBucket)
    BY <2>1 DEF WheelInv, IndexesAgree, WalkedBucket
  <2>4. QED
    BY <2>2, <2>3, WalkedInBuckets DEF TypeInv
<1>2. \A i \in 0 .. step - 1 : entries[q].bucket # (currentTick + i) % NumBuckets
  BY DEF WheelInv, WalkInOrder
<1>3. \A i \in 0 .. step : i = step \/ i \in 0 .. step - 1
  BY WheelAssumption DEF TypeInv
<1>4. QED
  BY <1>1, <1>2, <1>3

(* The walk goes on to the next bucket. *)
LEMMA NextBucketKeeps ==
  ASSUME TypeInv, WheelInv, NextBucket
  PROVE  TypeInv' /\ WheelInv'
<1>1. /\ UNCHANGED <<clock, start, currentTick, indexVars, nextRef, parkVars, expired>>
      /\ step # Idle /\ slot > Len(WalkedBucket) /\ step + 1 < Steps /\ step' = step + 1 /\ slot' = 1
  BY DEF NextBucket
<1>2. step' \in 0 .. NumBuckets /\ step' # Idle
  <2>1. step \in 0 .. NumBuckets /\ NumBuckets \in Nat
    BY WheelAssumption DEF TypeInv
  <2>2. TickFor(clock) \in Nat /\ currentTick \in Nat
    BY TickForMonotone DEF TypeInv
  <2>3. Steps <= NumBuckets /\ Steps \in Int
    BY <2>1, <2>2 DEF Steps
  <2>4. QED
    BY <1>1, <2>1, <2>3 DEF Idle
<1>3. /\ TypeInv' /\ IndexesAgree' /\ Started' /\ Placed' /\ ParkedUntilCoversAll'
      /\ Pending' = Pending /\ entries' = entries
  BY <1>1, <1>2, WalkFrame
<1>4. ASSUME NEW q \in Pending, entries[q].at <= clock
      PROVE  /\ \A i \in 0 .. step' - 1 : entries[q].bucket # (currentTick + i) % NumBuckets
             /\ entries[q].slot >= slot'
  <2>1. \A i \in 0 .. step : entries[q].bucket # (currentTick + i) % NumBuckets
    BY <1>1, <1>4, BucketSeen
  <2>2. step' - 1 = step
    BY <1>1 DEF TypeInv
  <2>3. entries[q].slot >= 1
    BY EntryFields DEF WheelInv, IndexesAgree
  <2>4. QED
    BY <1>1, <2>1, <2>2, <2>3
<1>5. WalkInOrder'
  BY <1>1, <1>2, <1>3, <1>4 DEF WheelInv, WalkInOrder
<1>6. QED
  BY <1>3, <1>5 DEF WheelInv

(* When the walk ends no due timer is left anywhere: it walked as many     *)
(* buckets as ticks have passed, or a whole lap.                           *)
LEMMA NoneLeftBehind ==
  ASSUME TypeInv, WheelInv, TickEnds, NEW q \in Pending
  PROVE  entries[q].at > clock
<1>1. step # Idle /\ slot > Len(WalkedBucket) /\ step + 1 >= Steps
  BY DEF TickEnds
<1>2. /\ entries[q].at \in Nat /\ clock \in Nat /\ currentTick \in Nat /\ step \in 0 .. NumBuckets
      /\ NumBuckets \in Nat \ {0}
  BY EntryFields, WheelAssumption DEF TypeInv
<1>3. SUFFICES ASSUME entries[q].at <= clock PROVE FALSE
  BY <1>2
<1>4. \A i \in 0 .. step : entries[q].bucket # (currentTick + i) % NumBuckets
  BY <1>1, <1>3, BucketSeen
<1>5. PICK t \in Nat : t = TickFor(entries[q].at) /\ t <= TickFor(clock)
  BY <1>2, <1>3, TickForMonotone DEF TypeInv
<1>6. currentTick <= t /\ entries[q].bucket = t % NumBuckets
  BY <1>5 DEF WheelInv, Placed
<1>7. PICK i \in 0 .. NumBuckets - 1 : (currentTick + i) % NumBuckets = t % NumBuckets /\ i <= t - currentTick
  BY <1>2, <1>6, LapVisits
<1>8. i \in 0 .. step
  <2>1. TickFor(clock) \in Nat
    BY TickForMonotone DEF TypeInv
  <2>2. Steps = TickFor(clock) - currentTick + 1 \/ Steps = NumBuckets
    BY DEF Steps
  <2>3. i <= TickFor(clock) - currentTick
    BY <1>2, <1>5, <1>7, <2>1
  <2>4. QED
    BY <1>1, <1>2, <1>7, <2>1, <2>2, <2>3
<1>9. QED
  BY <1>4, <1>6, <1>7, <1>8

(* The end of a tick. *)
LEMMA TickEndsKeeps ==
  ASSUME TypeInv, WheelInv, TickEnds
  PROVE  TypeInv' /\ WheelInv'
<1>1. /\ UNCHANGED <<clock, start, indexVars, nextRef, parkVars>>
      /\ currentTick' = TickFor(clock) /\ step' = Idle /\ slot' = 1 /\ expired' = <<>>
  BY DEF TickEnds
<1>2. DOMAIN expired' = {} /\ expired' \in [{} -> Nat]
  BY <1>1
<1>3. Pending' = Pending /\ TickFor(clock) \in Nat
  BY <1>1, TickForMonotone DEF Pending, indexVars, TypeInv
<1>4. TypeInv'
  BY <1>1, <1>2, <1>3, WheelAssumption DEF TypeInv, indexVars, parkVars, Idle
<1>5. IndexesAgree' /\ ParkedUntilCoversAll'
  BY <1>1, <1>3 DEF WheelInv, IndexesAgree, ParkedUntilCoversAll, indexVars, parkVars
<1>6. TickFor(clock)' = TickFor(clock)
  BY <1>1 DEF TickFor
<1>7. Started'
  BY <1>1, <1>3, <1>6 DEF WheelInv, Started
<1>8. Placed'
  <2>1. ASSUME NEW q \in Pending PROVE currentTick' <= TickFor(entries[q].at)
    <3>1. entries[q].at > clock
      BY NoneLeftBehind
    <3>2. QED
      BY <1>1, <3>1, EntryFields, TickForMonotone DEF TypeInv
  <2>2. \A q \in Pending : TickFor(entries[q].at)' = TickFor(entries[q].at)
    BY <1>1 DEF TickFor, indexVars
  <2>3. QED
    BY <1>1, <1>3, <2>1, <2>2 DEF WheelInv, Placed, indexVars
<1>9. WalkInOrder'
  BY <1>1, <1>2 DEF WalkInOrder
<1>10. QED
  BY <1>4, <1>5, <1>7, <1>8, <1>9 DEF WheelInv

(* Every step keeps the invariant. *)
LEMMA NextKeeps == TypeInv /\ WheelInv /\ [Next]_vars => TypeInv' /\ WheelInv'
<1> SUFFICES ASSUME TypeInv, WheelInv, [Next]_vars PROVE TypeInv' /\ WheelInv'
  OBVIOUS
<1>1. CASE ReserveReference
  <2>1. /\ UNCHANGED <<clock, start, currentTick, indexVars, walkVars, parkVars>>
        /\ nextRef' \in Nat /\ parkedUntil' \in Nat
    BY <1>1 DEF ReserveReference, TypeInv, parkVars
  <2>2. ParkedUntilCoversAll'
    BY <2>1 DEF WheelInv, ParkedUntilCoversAll, Pending, indexVars, parkVars
  <2>3. QED
    BY <2>1, <2>2, WheelFrame DEF WheelInv
<1>2. CASE PublishPark
  <2>1. /\ UNCHANGED <<clock, start, currentTick, indexVars, walkVars>> /\ nextRef' = nextRef
        /\ parkedUntil' = EarliestDeadline
    BY <1>2 DEF PublishPark
  <2>2. EarliestDeadline \in Nat /\ \A r \in Pending : EarliestDeadline <= entries[r].at
    BY PublishCovers DEF WheelInv
  <2>3. ParkedUntilCoversAll'
    BY <2>1, <2>2 DEF ParkedUntilCoversAll, Pending, indexVars
  <2>4. nextRef' \in Nat /\ parkedUntil' \in Nat
    BY <2>1, <2>2 DEF TypeInv
  <2>5. QED
    BY <2>1, <2>3, <2>4, WheelFrame DEF WheelInv
<1>3. CASE ClearPark
  <2>1. /\ UNCHANGED <<clock, start, currentTick, indexVars, walkVars>> /\ nextRef' = nextRef
        /\ parkedUntil' = Never /\ parked' = FALSE
    BY <1>3 DEF ClearPark
  <2>2. ParkedUntilCoversAll'
    BY <2>1 DEF ParkedUntilCoversAll
  <2>3. nextRef' \in Nat /\ parkedUntil' \in Nat
    BY <2>1, WheelBoundsAssumption DEF TypeInv, Never
  <2>4. QED
    BY <2>1, <2>2, <2>3, WheelFrame DEF WheelInv
<1>4. CASE UNCHANGED vars
  <2>1. UNCHANGED <<clock, start, currentTick, indexVars, nextRef, parkVars, walkVars>>
    BY <1>4 DEF vars
  <2>2. nextRef' \in Nat /\ parkedUntil' \in Nat
    BY <2>1 DEF TypeInv, parkVars
  <2>3. ParkedUntilCoversAll'
    BY <2>1 DEF WheelInv, ParkedUntilCoversAll, Pending, indexVars, parkVars
  <2>4. QED
    BY <2>1, <2>2, <2>3, WheelFrame DEF WheelInv
<1>5. QED
  BY <1>1, <1>2, <1>3, <1>4, ClockKeeps, ScheduleKeeps, CancelKeeps, TickBeginsKeeps, ExpireKeeps,
     PassKeeps, NextBucketKeeps, TickEndsKeeps
  DEF Next

(* The types and the invariant of the wheel hold in every behaviour. *)
LEMMA WheelInvariant == Spec => [](TypeInv /\ WheelInv)
BY InitWheel, NextKeeps, PTL DEF Spec

(* Entries, buckets and ordered deadlines agree, for any number of buckets  *)
(* (remove_entry's swap_remove tells the entry that moved its new slot).    *)
THEOREM WheelIndexesAgree == Spec => []IndexesAgree
<1>1. TypeInv /\ WheelInv => IndexesAgree
  BY DEF WheelInv
<1>2. QED
  BY <1>1, WheelInvariant, PTL

(* Worker 0 never sleeps past an armed timer, whatever was armed, cancelled *)
(* or fired since it published its park (publish_park,                      *)
(* wake_parked_worker_for).                                                 *)
THEOREM ParkCoversTimers == Spec => []ParkedUntilCoversAll
<1>1. TypeInv /\ WheelInv => ParkedUntilCoversAll
  BY DEF WheelInv
<1>2. QED
  BY <1>1, WheelInvariant, PTL

-----------------------------------------------------------------------------
(* The wheel implements the set of timers *)

(* The deadlines as the set of timers sees them. *)
LEMMA DeadlinesFrame ==
  ASSUME UNCHANGED <<entries, expired>>
  PROVE  Deadlines' = Deadlines
BY DEF Deadlines, Pending

(* Between walks the set of timers is the entries. *)
LEMMA DeadlinesBetweenWalks ==
  ASSUME DOMAIN expired = {}
  PROVE  DOMAIN Deadlines = Pending /\ Deadlines = [r \in Pending |-> entries[r].at]
BY DEF Deadlines

(* An arming is an arming, *)
LEMMA ScheduleArms ==
  ASSUME TypeInv, WheelInv, NEW r \in Refs, NEW delay \in 0 .. MaxDelay, ScheduleReserved(r, delay)
  PROVE  Timers!Arm(r, delay)
<1>1. /\ Pending' = Pending \cup {r} /\ r \notin Pending
      /\ \A q \in Pending : entries'[q] = entries[q]
      /\ entries'[r].at = clock + delay
  BY ScheduleEffect DEF WheelInv
<1>2. step = Idle /\ expired' = expired /\ returned' = {} /\ clock' = clock
  BY DEF ScheduleReserved, walkVars
<1>3. DOMAIN expired = {} /\ DOMAIN expired' = {}
  BY <1>2 DEF WheelInv, WalkInOrder
<1>4. DOMAIN Deadlines = Pending /\ Deadlines = [q \in Pending |-> entries[q].at]
  BY <1>3, DeadlinesBetweenWalks
<1>5. Deadlines' = [q \in Pending' |-> entries'[q].at]
  BY <1>3 DEF Deadlines
<1>6. Deadlines' = [q \in DOMAIN Deadlines \cup {r} |-> IF q = r THEN clock + delay ELSE Deadlines[q]]
  BY <1>1, <1>4, <1>5
<1>7. QED
  BY <1>1, <1>2, <1>4, <1>6 DEF Timers!Arm, Timers!Armed

(* a cancellation is a disarming, *)
LEMMA CancelDisarms ==
  ASSUME TypeInv, WheelInv, NEW r \in Refs, Cancel(r)
  PROVE  Timers!Disarm(r)
<1>1. r \in Pending /\ Detach(r) /\ step = Idle /\ expired' = expired /\ returned' = {} /\ clock' = clock
  BY DEF Cancel, walkVars
<1>2. Pending' = Pending \ {r} /\ \A q \in Pending' : entries'[q].at = entries[q].at
  BY <1>1, DetachEffect DEF WheelInv
<1>3. DOMAIN expired = {} /\ DOMAIN expired' = {}
  BY <1>1 DEF WheelInv, WalkInOrder
<1>4. DOMAIN Deadlines = Pending /\ Deadlines = [q \in Pending |-> entries[q].at]
  BY <1>3, DeadlinesBetweenWalks
<1>5. Deadlines' = [q \in Pending' |-> entries'[q].at]
  BY <1>3 DEF Deadlines
<1>6. Deadlines' = [q \in DOMAIN Deadlines \ {r} |-> Deadlines[q]]
  BY <1>2, <1>4, <1>5
<1>7. QED
  BY <1>1, <1>4, <1>6 DEF Timers!Disarm, Timers!Armed

(* the removal of a due timer during the walk does not show, *)
LEMMA ExpireIsHidden ==
  ASSUME TypeInv, WheelInv, ExpireSlot
  PROVE  Deadlines' = Deadlines
<1> DEFINE r == WalkedBucket[slot]
           b == (currentTick + step) % NumBuckets
<1>1. /\ slot <= Len(WalkedBucket) /\ Detach(r)
      /\ expired' = [q \in DOMAIN expired \cup {r} |-> IF q = r THEN entries[r].at ELSE expired[q]]
  BY DEF ExpireSlot
<1>2. slot \in 1 .. Len(buckets[b]) /\ b \in Buckets
  BY <1>1, WalkedInBuckets DEF TypeInv, WalkedBucket
<1>3. r \in Pending
  BY <1>2 DEF WheelInv, IndexesAgree, WalkedBucket
<1> HIDE DEF r
<1>4. Pending' = Pending \ {r} /\ \A q \in Pending' : entries'[q].at = entries[q].at
  BY <1>1, <1>3, DetachEffect DEF WheelInv
<1>5. /\ DOMAIN expired' = DOMAIN expired \cup {r} /\ expired'[r] = entries[r].at
      /\ \A q \in DOMAIN expired \ {r} : expired'[q] = expired[q]
  BY <1>1
<1>6. Pending' \cup DOMAIN expired' = Pending \cup DOMAIN expired
  BY <1>3, <1>4, <1>5
<1>7. \A q \in Pending \cup DOMAIN expired :
        (IF q \in Pending' THEN entries'[q].at ELSE expired'[q])
          = (IF q \in Pending THEN entries[q].at ELSE expired[q])
  BY <1>3, <1>4, <1>5
<1>8. QED
  BY <1>6, <1>7 DEF Deadlines

(* and the end of the walk gives up exactly the timers that are due. *)
LEMMA TickFires ==
  ASSUME TypeInv, WheelInv, TickEnds
  PROVE  Timers!Fire
<1>1. /\ returned' = DOMAIN expired /\ expired' = <<>> /\ UNCHANGED <<clock, entries>>
  BY DEF TickEnds, indexVars
<1>2. DOMAIN expired' = {} /\ Pending' = Pending
  BY <1>1 DEF Pending
<1>3. \A q \in DOMAIN expired : q \notin Pending /\ expired[q] <= clock
  BY DEF WheelInv, WalkInOrder
<1>4. \A q \in Pending : ~(entries[q].at <= clock)
  <2>1. SUFFICES ASSUME NEW q \in Pending PROVE ~(entries[q].at <= clock)
    OBVIOUS
  <2>2. entries[q].at > clock
    BY NoneLeftBehind
  <2>3. QED
    BY <2>2, EntryFields DEF TypeInv
<1>5. /\ DOMAIN Deadlines = Pending \cup DOMAIN expired
      /\ \A q \in DOMAIN Deadlines :
           Deadlines[q] = IF q \in Pending THEN entries[q].at ELSE expired[q]
  BY DEF Deadlines
<1>6. {q \in DOMAIN Deadlines : Deadlines[q] <= clock} = DOMAIN expired
  BY <1>3, <1>4, <1>5
<1>7. DOMAIN Deadlines \ DOMAIN expired = Pending
  BY <1>3, <1>5
<1>8. Deadlines' = [q \in Pending |-> entries[q].at]
  BY <1>1, <1>2 DEF Deadlines
<1>9. Deadlines' = [q \in DOMAIN Deadlines \ DOMAIN expired |-> Deadlines[q]]
  BY <1>5, <1>7, <1>8
<1>10. QED
  BY <1>1, <1>6, <1>9 DEF Timers!Fire, Timers!Due, Timers!Armed

(* Every step of the wheel is one of the set of timers, or none. *)
LEMMA NextImplements ==
  TypeInv /\ WheelInv /\ [Next]_vars => [Timers!SetNext]_(Timers!tvars)
<1> SUFFICES ASSUME TypeInv, WheelInv, [Next]_vars PROVE [Timers!SetNext]_(Timers!tvars)
  OBVIOUS
<1>1. CASE ReserveReference \/ PublishPark \/ ClearPark
  <2>1. UNCHANGED <<clock, entries, expired>> /\ returned' = {}
    BY <1>1 DEF ReserveReference, PublishPark, ClearPark, indexVars, walkVars
  <2>2. Timers!Pass
    BY <2>1, DeadlinesFrame DEF Timers!Pass, TypeInv
  <2>3. QED
    BY <2>2 DEF Timers!SetNext
<1>2. CASE ClockAdvances
  <2>1. UNCHANGED <<entries, expired>> /\ returned' = {} /\ clock' \in Nat /\ clock' >= clock
    BY <1>2, WheelBoundsAssumption DEF ClockAdvances, TypeInv, indexVars, walkVars
  <2>2. Timers!Pass
    BY <2>1, DeadlinesFrame DEF Timers!Pass
  <2>3. QED
    BY <2>2 DEF Timers!SetNext
<1>3. CASE TickBegins
  <2>1. UNCHANGED <<clock, entries>> /\ returned' = {} /\ expired' = <<>> /\ DOMAIN expired = {}
    BY <1>3 DEF TickBegins, indexVars, WheelInv, WalkInOrder
  <2>2. DOMAIN expired' = {}
    BY <2>1
  <2>3. Deadlines' = Deadlines
    BY <2>1, <2>2 DEF Deadlines, Pending
  <2>4. Timers!Pass
    BY <2>1, <2>3 DEF Timers!Pass, TypeInv
  <2>5. QED
    BY <2>4 DEF Timers!SetNext
<1>4. CASE ExpireSlot
  BY <1>4, ExpireIsHidden DEF ExpireSlot, Timers!tvars
<1>5. CASE PassSlot \/ NextBucket \/ UNCHANGED vars
  <2>1. UNCHANGED <<clock, entries, expired, returned>>
    BY <1>5 DEF PassSlot, NextBucket, vars, indexVars, walkVars
  <2>2. QED
    BY <2>1, DeadlinesFrame DEF Timers!tvars
<1>6. CASE TickEnds
  BY <1>6, TickFires DEF Timers!SetNext
<1>7. CASE \E r \in Refs : Cancel(r)
  BY <1>7, CancelDisarms DEF Timers!SetNext
<1>8. CASE \E r \in Refs : \E delay \in 0 .. MaxDelay : ScheduleReserved(r, delay)
  BY <1>8, ScheduleArms DEF Timers!SetNext
<1>9. QED
  BY <1>1, <1>2, <1>3, <1>4, <1>5, <1>6, <1>7, <1>8 DEF Next

(* The wheel implements the set of timers, for any number of buckets, any   *)
(* resolution and any pause between two ticks: a tick returns exactly the   *)
(* timers that are due, never one early and never leaving one for a lap     *)
(* (tick_at: it walks at most one lap of buckets, from the last tick on).   *)
THEOREM WheelImplementsTimerSet == Spec => WheelIsATimerSet
<1>1. Init => Timers!SetInit
  <2>1. SUFFICES ASSUME Init PROVE Timers!SetInit
    OBVIOUS
  <2>2. DOMAIN entries = {} /\ DOMAIN expired = {}
    BY <2>1 DEF Init
  <2>3. Deadlines = <<>>
    BY <2>2 DEF Deadlines, Pending
  <2>4. QED
    BY <2>1, <2>3 DEF Init, Timers!SetInit
<1>2. QED
  BY <1>1, NextImplements, WheelInvariant, PTL DEF Spec, WheelIsATimerSet, Timers!SetSpec

=============================================================================

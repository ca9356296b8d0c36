---------------------------- MODULE HotCodeProofs ----------------------------
(***************************************************************************)
(* Proofs about HotCode, for any number of processes, loads and epochs and *)
(* any depth of the stacks: with one namespace the compiled code of a call *)
(* is that of the version called, and with one code server at a time a     *)
(* version in use is kept.                                                 *)
(***************************************************************************)
EXTENDS HotCode, SequenceTheorems, TLAPS

-----------------------------------------------------------------------------
(* Types *)

Codes == 0 .. Home  \* versions, Home and NoVersion

RunnerRecords ==
  [slot : {"none", "queued", "popped", "present", "executing", "doomed"},
   at : {"run", "entry", "miss", "native"}, space : Spaces,
   pin : Codes, pos : Codes, frames : Seq(Codes), call : Codes, native : Codes, slice : Codes]

ServerSteps ==
  {"idle", "previous", "drain", "lookup", "profile", "commit", "invalidate", "scan", "kill", "gen",
   "purge", "clear", "cache", "remove"}

ServerRecords ==
  [op : {"none", "load", "purge", "force", "delete"}, space : Spaces, at : ServerSteps, gen : Nat,
   held : Codes, scan : SUBSET Runners, found : SUBSET Runners]

TypeInv ==
  /\ registry \in [Spaces -> [current : 0 .. MaxLoads, old : 0 .. MaxLoads, next : Nat]]
  /\ generation \in [Versions -> Nat] /\ loads \in 0 .. MaxLoads
  /\ cached \in [Versions -> Codes]
  /\ runner \in [Runners -> RunnerRecords]
  /\ server \in [CodeServers -> ServerRecords]

(* The numbers that name code. *)
LEMMA CodeNumbers ==
  /\ MaxLoads \in Nat /\ Versions \subseteq Codes /\ NoVersion \in Codes /\ Home \in Codes
  /\ Home \notin Versions /\ NoVersion \notin Versions /\ 0 .. MaxLoads \subseteq Codes
  /\ 0 .. MaxLoads = Versions \cup {NoVersion} /\ Codes = Versions \cup {NoVersion, Home}
BY HotCodeAssumption DEF Codes, Home, Versions, NoVersion

(* The fields of a seat. *)
LEMMA RunnerFields ==
  ASSUME TypeInv, NEW r \in Runners
  PROVE  /\ runner[r] \in RunnerRecords /\ runner[r].space \in Spaces
         /\ runner[r].pin \in Codes /\ runner[r].call \in Codes /\ runner[r].slice \in Codes
         /\ runner[r].frames \in Seq(Codes) /\ runner[r].native \in Codes
BY DEF TypeInv, RunnerRecords

(* The fields of the registry. *)
LEMMA RegistryFields ==
  ASSUME TypeInv, NEW s \in Spaces
  PROVE  Current(s) \in 0 .. MaxLoads /\ Old(s) \in 0 .. MaxLoads /\ registry[s].next \in Nat
BY DEF TypeInv, Current, Old

(* A seat without a process is a seat. *)
LEMMA NoRunnerType == NoRunner \in RunnerRecords
<1>1. <<>> \in Seq(Codes)
  OBVIOUS
<1>2. QED
  BY <1>1, HotCodeAssumption, CodeNumbers DEF NoRunner, RunnerRecords

(* An idle code server is a code server. *)
LEMMA IdleServerType == IdleServer \in ServerRecords
BY HotCodeAssumption, CodeNumbers DEF IdleServer, ServerRecords, ServerSteps

(* The types hold of the initial state. *)
LEMMA InitTypes == HcInit => TypeInv
<1> SUFFICES ASSUME HcInit PROVE TypeInv
  OBVIOUS
<1>1. runner \in [Runners -> RunnerRecords] /\ server \in [CodeServers -> ServerRecords]
  BY NoRunnerType, IdleServerType DEF HcInit
<1>2. QED
  BY <1>1, CodeNumbers DEF HcInit, TypeInv, NoVersion

(* One process changes. *)
LEMMA BecomeEffect ==
  ASSUME TypeInv, NEW r \in Runners, NEW q \in RunnerRecords, Become(r, q)
  PROVE  /\ runner' \in [Runners -> RunnerRecords] /\ runner'[r] = q
         /\ \A x \in Runners \ {r} : runner'[x] = runner[x]
         /\ UNCHANGED <<hcCode, server>>
BY DEF TypeInv, Become

(* One process leaves. *)
LEMMA LeaveEffect ==
  ASSUME TypeInv, NEW r \in Runners, Leave(r)
  PROVE  /\ runner' \in [Runners -> RunnerRecords] /\ runner'[r] = NoRunner
         /\ \A x \in Runners \ {r} : runner'[x] = runner[x]
         /\ server' \in [CodeServers -> ServerRecords]
         /\ \A t \in CodeServers : server'[t].at = server[t].at /\ server'[t].space = server[t].space
         /\ UNCHANGED hcCode
<1>1. runner' \in [Runners -> RunnerRecords] /\ runner'[r] = NoRunner
      /\ \A x \in Runners \ {r} : runner'[x] = runner[x]
  BY NoRunnerType DEF TypeInv, Leave
<1>2. /\ server' \in [CodeServers -> ServerRecords]
      /\ \A t \in CodeServers : server'[t].at = server[t].at /\ server'[t].space = server[t].space
  BY DEF TypeInv, Leave, ServerRecords
<1>3. QED
  BY <1>1, <1>2 DEF Leave

-----------------------------------------------------------------------------
(* What a step may change of a process *)

(* A process that is called into a function knows which version it is, and *)
(* runs compiled code only there.                                          *)
CallResolved ==
  \A r \in Runners :
    /\ runner[r].at \in {"entry", "miss"} => runner[r].call \in Versions /\ runner[r].slot # "none"
    /\ runner[r].at # "native" => runner[r].native = NoVersion

(* Whatever is registered, held or being compiled has been loaded, and has *)
(* a generation.                                                           *)
LoadedInv ==
  /\ \A v \in 1 .. loads : generation[v] \in Versions
  /\ \A s \in Spaces : Current(s) <= loads /\ Old(s) <= loads
  /\ \A r \in Runners, v \in Versions : Holds(runner[r], v) => v <= loads
  /\ \A j \in jobs : j.version \in 1 .. loads /\ j.gen = generation[j.version]

(* The process q goes on as x: it holds nothing but what it held and what   *)
(* is current, and it runs compiled code of the call it had resolved.       *)
GoesOn(q, x) ==
  /\ x \in RunnerRecords
  /\ \A v \in Versions : Holds(x, v) => Holds(q, v) \/ \E s \in Spaces : v = Current(s)
  /\ x.at \in {"entry", "miss"} => x.call \in Versions /\ x.slot # "none"
  /\ x.at # "native" => x.native = NoVersion
  /\ x.native # NoVersion =>
       /\ x.call = q.call
       /\ x.native = q.native
            \/ (q.at = "entry" /\ q.slot # "none" /\ x.native = cached[generation[q.call]])

(* A process that is gone holds nothing. *)
LEMMA NoRunnerGoesOn ==
  ASSUME NEW q
  PROVE  GoesOn(q, NoRunner)
<1>1. NoRunner.slot = "none" /\ NoRunner.at = "run" /\ NoRunner.native = NoVersion
  BY DEF NoRunner
<1>2. QED
  BY <1>1, NoRunnerType DEF GoesOn, Holds

(* Bytecode of the version called. *)
LEMMA InterpretGoesOn ==
  ASSUME NEW q \in RunnerRecords, q.slot # "none", NEW x, x = Interpret(q)
  PROVE  GoesOn(q, x)
<1>1. /\ x \in RunnerRecords /\ x.slot = q.slot /\ x.at = "run" /\ x.pin = q.call /\ x.call = NoVersion
      /\ x.native = NoVersion /\ x.slice = q.slice /\ x.frames = q.frames
  BY CodeNumbers DEF Interpret, RunnerRecords
<1>2. \A v \in Versions : Holds(x, v) => Holds(q, v)
  BY <1>1, CodeNumbers DEF Holds
<1>3. QED
  BY <1>1, <1>2 DEF GoesOn

(* The body goes back to its slot. *)
LEMMA PutBackGoesOn ==
  ASSUME TypeInv, NEW r \in Runners, runner[r].slot # "none", PutBack(r, runner[r])
  PROVE  \/ Leave(r)
         \/ \E x : Become(r, x) /\ GoesOn(runner[r], x)
<1> DEFINE q == runner[r]
           x == [q EXCEPT !.slot = "present", !.at = "run", !.slice = NoVersion,
                          !.call = NoVersion, !.native = NoVersion]
<1>1. Leave(r) \/ Become(r, x)
  BY DEF PutBack
<1>2. q \in RunnerRecords
  BY RunnerFields
<1>3. /\ x \in RunnerRecords /\ x.slot = "present" /\ x.at = "run" /\ x.pin = q.pin
      /\ x.call = NoVersion /\ x.native = NoVersion /\ x.slice = NoVersion /\ x.frames = q.frames
  BY <1>2, CodeNumbers DEF RunnerRecords
<1> HIDE DEF x
<1>4. \A v \in Versions : Holds(x, v) => Holds(q, v)
  BY <1>3, CodeNumbers DEF Holds
<1>5. GoesOn(q, x)
  BY <1>3, <1>4 DEF GoesOn
<1>6. QED
  BY <1>1, <1>5

(* Every step of a process lets it go on or leave. *)
LEMMA RunnerMoves ==
  ASSUME TypeInv, CallResolved, LoadedInv, NEW r \in Runners, RunnerStep(r)
  PROVE  Leave(r) \/ \E x : Become(r, x) /\ GoesOn(runner[r], x)
<1> DEFINE q == runner[r]
<1>0. /\ q \in RunnerRecords
      /\ q.at \in {"entry", "miss"} => q.call \in Versions /\ q.slot # "none"
      /\ q.at # "native" => q.native = NoVersion
  BY RunnerFields DEF CallResolved
<1>1. CASE \E s \in Spaces : SpawnRunner(r, s)
  <2>0. PICK s \in Spaces : SpawnRunner(r, s)
    BY <1>1
  <2>1. PICK v \in {Current(s), Home} :
          Become(r, [NoRunner EXCEPT !.slot = "queued", !.space = s, !.pin = v, !.pos = v])
    BY <2>0 DEF SpawnRunner
  <2> DEFINE x == [NoRunner EXCEPT !.slot = "queued", !.space = s, !.pin = v, !.pos = v]
  <2>2. v \in Codes
    BY RegistryFields, CodeNumbers
  <2>3. /\ x \in RunnerRecords /\ x.at = "run" /\ x.pin = v /\ x.call = NoVersion
        /\ x.native = NoVersion /\ x.slice = NoVersion /\ x.frames = <<>>
    <3>1. NoRunner \in RunnerRecords /\ NoRunner.at = "run" /\ NoRunner.call = NoVersion
          /\ NoRunner.native = NoVersion /\ NoRunner.slice = NoVersion /\ NoRunner.frames = <<>>
      BY NoRunnerType DEF NoRunner
    <3>2. QED
      BY <2>2, <3>1 DEF RunnerRecords
  <2> HIDE DEF x
  <2>4. \A i \in DOMAIN x.frames : FALSE
    BY <2>3
  <2>5. \A w \in Versions : Holds(x, w) => w = v
    BY <2>3, <2>4, CodeNumbers DEF Holds
  <2>6. \A w \in Versions : Holds(x, w) => \E u \in Spaces : w = Current(u)
    BY <2>5, CodeNumbers
  <2>7. GoesOn(q, x)
    BY <2>3, <2>6 DEF GoesOn
  <2>8. QED
    BY <2>1, <2>7 DEF x
<1>2. CASE TakeRequest(r)
  <2>1. PICK slot \in {"popped", "present"} : Become(r, [q EXCEPT !.slot = slot]) /\ q.slot # "none"
    BY <1>2 DEF TakeRequest
  <2> DEFINE x == [q EXCEPT !.slot = slot]
  <2>2. /\ x \in RunnerRecords /\ x.slot # "none" /\ x.at = q.at /\ x.pin = q.pin /\ x.call = q.call
        /\ x.native = q.native /\ x.slice = q.slice /\ x.frames = q.frames
    BY <1>0 DEF RunnerRecords
  <2> HIDE DEF x
  <2>3. \A v \in Versions : Holds(x, v) => Holds(q, v)
    BY <2>1, <2>2 DEF Holds
  <2>4. GoesOn(q, x)
    BY <1>0, <2>2, <2>3 DEF GoesOn
  <2>5. QED
    BY <2>1, <2>4 DEF x
<1>3. CASE BeginSlice(r)
  <2>1. CASE Leave(r)
    BY <2>1
  <2>2. CASE ~Leave(r)
    <3>1. PICK v \in {q.pin, Current(q.space)} :
            Become(r, [q EXCEPT !.slot = "executing", !.pin = v, !.slice = v]) /\ q.slot # "none"
      BY <1>3, <2>2 DEF BeginSlice
    <3> DEFINE x == [q EXCEPT !.slot = "executing", !.pin = v, !.slice = v]
    <3>2. v \in Codes
      BY RunnerFields, RegistryFields, CodeNumbers
    <3>3. /\ x \in RunnerRecords /\ x.slot # "none" /\ x.at = q.at /\ x.pin = v /\ x.call = q.call
          /\ x.native = q.native /\ x.slice = v /\ x.frames = q.frames
      BY <1>0, <3>2 DEF RunnerRecords
    <3> HIDE DEF x
    <3>4. \A w \in Versions : Holds(x, w) => Holds(q, w) \/ w = Current(q.space)
      BY <3>1, <3>3 DEF Holds
    <3>5. GoesOn(q, x)
      BY <1>0, <3>3, <3>4, RunnerFields DEF GoesOn
    <3>6. QED
      BY <3>1, <3>5 DEF x
  <2>3. QED
    BY <2>1, <2>2
<1>4. CASE EndSlice(r)
  <2>1. PutBack(r, runner[r]) /\ runner[r].slot # "none"
    BY <1>4 DEF EndSlice, Interpreting, OnWorker
  <2>2. QED
    BY <2>1, PutBackGoesOn
<1>5. CASE CallFunction(r)
  <2>1. CASE Leave(r)
    BY <2>1
  <2>2. CASE ~Leave(r)
    <3>1. PICK v \in {Current(q.space), q.pin} \ {NoVersion, Home}, f \in {q.frames, Append(q.frames, q.pin)} :
            Become(r, [q EXCEPT !.at = "entry", !.pos = q.pin, !.call = v, !.frames = f]) /\ q.slot # "none"
      BY <1>5, <2>2 DEF CallFunction, Interpreting, OnWorker
    <3> DEFINE x == [q EXCEPT !.at = "entry", !.pos = q.pin, !.call = v, !.frames = f]
    <3>2. v \in Versions
      BY <3>1, RunnerFields, RegistryFields, CodeNumbers
    <3>3. f \in Seq(Codes) /\ \A i \in DOMAIN f : f[i] = q.pin \/ \E j \in DOMAIN q.frames : f[i] = q.frames[j]
      <4>1. PICK s \in Seq(Codes), p \in Codes : s = q.frames /\ p = q.pin
        BY RunnerFields
      <4>2. CASE f = s
        BY <4>1, <4>2
      <4>3. CASE f = Append(s, p)
        <5>1. f \in Seq(Codes) /\ Len(f) = Len(s) + 1 /\ Len(s) \in Nat
          BY <4>3
        <5>2. \A i \in 1 .. Len(f) : f[i] = p \/ (i \in 1 .. Len(s) /\ f[i] = s[i])
          BY <4>3
        <5>3. DOMAIN f = 1 .. Len(f) /\ DOMAIN s = 1 .. Len(s)
          BY <5>1
        <5>4. QED
          BY <4>1, <5>1, <5>2, <5>3
      <4>4. QED
        BY <3>1, <4>1, <4>2, <4>3
    <3>4. /\ x \in RunnerRecords /\ x.slot = q.slot /\ x.at = "entry" /\ x.pin = q.pin /\ x.call = v
          /\ x.native = q.native /\ x.slice = q.slice /\ x.frames = f
      BY <1>0, <3>2, <3>3, CodeNumbers DEF RunnerRecords
    <3> HIDE DEF x
    <3>5. \A w \in Versions : Holds(x, w) => Holds(q, w) \/ w = Current(q.space)
      BY <3>1, <3>3, <3>4 DEF Holds
    <3>6. q.native = NoVersion
      BY <1>0, <1>5 DEF CallFunction, Interpreting
    <3>7. GoesOn(q, x)
      BY <1>0, <3>1, <3>2, <3>4, <3>5, <3>6, RunnerFields DEF GoesOn
    <3>8. QED
      BY <3>1, <3>7 DEF x
  <2>3. QED
    BY <2>1, <2>2
<1>6. CASE EnterFunction(r)
  <2> DEFINE code == cached[generation[q.call]]
             n == [q EXCEPT !.at = "native", !.native = code, !.pos = q.call]
             m == [q EXCEPT !.at = "miss"]
  <2>1. q.at = "entry" /\ q.slot # "none"
    BY <1>6 DEF EnterFunction, OnWorker
  <2>2. Become(r, n) \/ Become(r, m) \/ Become(r, Interpret(q))
    BY <1>6 DEF EnterFunction
  <2>3. CASE Become(r, Interpret(q))
    BY <1>0, <2>1, <2>3, InterpretGoesOn
  <2>4. CASE Become(r, n)
    <3>1. q.call \in 1 .. loads
      BY <1>0, <2>1 DEF LoadedInv, Holds, Versions, TypeInv
    <3>2. code \in Codes
      BY <3>1 DEF LoadedInv, TypeInv
    <3>3. /\ n \in RunnerRecords /\ n.slot = q.slot /\ n.at = "native" /\ n.pin = q.pin /\ n.call = q.call
          /\ n.native = code /\ n.slice = q.slice /\ n.frames = q.frames
      BY <1>0, <3>2 DEF RunnerRecords
    <3> HIDE DEF n
    <3>4. \A v \in Versions : Holds(n, v) => Holds(q, v)
      BY <3>3 DEF Holds
    <3>5. GoesOn(q, n)
      BY <2>1, <3>3, <3>4 DEF GoesOn
    <3>6. QED
      BY <2>4, <3>5
  <2>5. CASE Become(r, m)
    <3>1. /\ m \in RunnerRecords /\ m.slot = q.slot /\ m.at = "miss" /\ m.pin = q.pin /\ m.call = q.call
          /\ m.native = q.native /\ m.slice = q.slice /\ m.frames = q.frames
      BY <1>0 DEF RunnerRecords
    <3> HIDE DEF m
    <3>2. \A v \in Versions : Holds(m, v) => Holds(q, v)
      BY <3>1 DEF Holds
    <3>3. GoesOn(q, m)
      BY <1>0, <2>1, <3>1, <3>2 DEF GoesOn
    <3>4. QED
      BY <2>5, <3>3
  <2>6. QED
    BY <2>2, <2>3, <2>4, <2>5
<1>7. CASE RecordMiss(r)
  <2>1. Become(r, Interpret(q)) /\ q.slot # "none"
    BY <1>7 DEF RecordMiss, OnWorker
  <2>2. QED
    BY <1>0, <2>1, InterpretGoesOn
<1>8. CASE ReturnFromFunction(r)
  <2>1. CASE q.frames = <<>>
    BY <1>8, <2>1 DEF ReturnFromFunction
  <2>2. CASE q.frames # <<>>
    <3>1. PICK s \in Seq(Codes) : s = q.frames
      BY RunnerFields
    <3> DEFINE top == s[Len(s)]
               f == SubSeq(s, 1, Len(s) - 1)
               x == [q EXCEPT !.at = "run", !.pin = top, !.pos = top, !.frames = f,
                              !.call = NoVersion, !.native = NoVersion]
    <3>2. Become(r, x) /\ q.slot # "none"
      BY <1>8, <2>2, <3>1 DEF ReturnFromFunction, Interpreting, OnWorker
    <3>3. Len(s) \in Nat /\ Len(s) \in DOMAIN s /\ top \in Codes
      BY <2>2, <3>1
    <3>4. f \in Seq(Codes) /\ \A i \in DOMAIN f : i \in DOMAIN s /\ f[i] = s[i]
      <4>1. \A i \in 1 .. Len(s) - 1 : s[i] \in Codes /\ i \in DOMAIN s
        BY <3>3
      <4>2. /\ f \in Seq(Codes) /\ Len(f) = Len(s) - 1
            /\ \A i \in 1 .. Len(s) - 1 : f[i] = s[i]
        <5>1. PICK n \in Int : n = Len(s) - 1 /\ n >= 0
          <6>1. Len(s) >= 1 /\ Len(s) \in Nat
            BY <3>3
          <6>2. Len(s) - 1 \in Int /\ Len(s) - 1 >= 0
            BY <6>1
          <6>3. QED
            BY <6>2
        <5>2. \A i \in 1 .. n : s[i] \in Codes
          BY <4>1, <5>1
        <5>3. /\ SubSeq(s, 1, n) \in Seq(Codes)
              /\ Len(SubSeq(s, 1, n)) = IF 1 <= n THEN n - 1 + 1 ELSE 0
              /\ \A i \in 1 .. n - 1 + 1 : SubSeq(s, 1, n)[i] = s[1 + i - 1]
          BY <5>2, SubSeqProperties
        <5>4. Len(SubSeq(s, 1, n)) = n /\ \A i \in 1 .. n : SubSeq(s, 1, n)[i] = s[i]
          BY <5>1, <5>3
        <5>5. QED
          BY <5>1, <5>3, <5>4
      <4>3. QED
        BY <4>1, <4>2
    <3>5. /\ x \in RunnerRecords /\ x.slot = q.slot /\ x.at = "run" /\ x.pin = top /\ x.call = NoVersion
          /\ x.native = NoVersion /\ x.slice = q.slice /\ x.frames = f
      BY <1>0, <3>3, <3>4, CodeNumbers DEF RunnerRecords
    <3> HIDE DEF x, f
    <3>6. \A v \in Versions : Holds(x, v) => Holds(q, v)
      BY <3>1, <3>2, <3>3, <3>4, <3>5, CodeNumbers DEF Holds
    <3>7. GoesOn(q, x)
      BY <3>5, <3>6 DEF GoesOn
    <3>8. QED
      BY <3>2, <3>7
  <2>3. QED
    BY <2>1, <2>2
<1>9. CASE LeaveNative(r)
  <2>1. (Become(r, Interpret(q)) \/ PutBack(r, q)) /\ q.slot # "none"
    BY <1>9 DEF LeaveNative, OnWorker
  <2>2. QED
    BY <1>0, <2>1, InterpretGoesOn, PutBackGoesOn
<1>10. QED
  BY <1>1, <1>2, <1>3, <1>4, <1>5, <1>6, <1>7, <1>8, <1>9 DEF RunnerStep

-----------------------------------------------------------------------------
(* Code servers *)

(* One server goes on. *)
LEMMA ServeEffect ==
  ASSUME TypeInv, NEW t \in CodeServers, NEW s \in ServerRecords, server' = [server EXCEPT ![t] = s]
  PROVE  /\ server' \in [CodeServers -> ServerRecords] /\ server'[t] = s
         /\ \A u \in CodeServers \ {t} : server'[u] = server[u]
BY DEF TypeInv

(* The fields of a server. *)
LEMMA ServerFields ==
  ASSUME TypeInv, NEW t \in CodeServers
  PROVE  server[t] \in ServerRecords /\ server[t].space \in Spaces
BY DEF TypeInv, ServerRecords

(* A registration. *)
LEMMA InsertEffect ==
  ASSUME TypeInv, LoadedInv, NEW s \in Spaces, Insert(s)
  PROVE  /\ loads < MaxLoads /\ loads' = loads + 1 /\ loads' \in 0 .. MaxLoads
         /\ registry' \in [Spaces -> [current : 0 .. MaxLoads, old : 0 .. MaxLoads, next : Nat]]
         /\ generation' \in [Versions -> Nat] /\ generation'[loads + 1] \in Versions
         /\ \A v \in 1 .. loads : generation'[v] = generation[v]
         /\ Current(s)' = loads + 1 /\ Old(s)' = Current(s)
         /\ \A u \in Spaces \ {s} : registry'[u] = registry[u]
         /\ UNCHANGED forsaken
<1> DEFINE g == IF Current(s) # NoVersion THEN generation[Current(s)] + 1 ELSE registry[s].next
<1>1. /\ loads < MaxLoads /\ g \in Versions /\ loads' = loads + 1 /\ UNCHANGED forsaken
      /\ generation' = [generation EXCEPT ![loads + 1] = g]
      /\ registry' = [registry EXCEPT ![s] = [current |-> loads + 1, old |-> Current(s), next |-> g + 1]]
  BY DEF Insert
<1> HIDE DEF g
<1>2. loads \in 0 .. MaxLoads /\ MaxLoads \in Nat /\ loads + 1 \in Versions /\ loads + 1 \in 0 .. MaxLoads
      /\ Current(s) \in 0 .. MaxLoads /\ g \in Nat
  BY <1>1, CodeNumbers, RegistryFields DEF TypeInv, Versions
<1>3. [current |-> loads + 1, old |-> Current(s), next |-> g + 1]
        \in [current : 0 .. MaxLoads, old : 0 .. MaxLoads, next : Nat]
  BY <1>2
<1>4. /\ registry' \in [Spaces -> [current : 0 .. MaxLoads, old : 0 .. MaxLoads, next : Nat]]
      /\ registry'[s] = [current |-> loads + 1, old |-> Current(s), next |-> g + 1]
      /\ \A u \in Spaces \ {s} : registry'[u] = registry[u]
  BY <1>1, <1>3 DEF TypeInv
<1>5. Current(s)' = loads + 1 /\ Old(s)' = Current(s)
  BY <1>4 DEF Current, Old
<1>6. /\ generation' \in [Versions -> Nat] /\ generation'[loads + 1] \in Versions
      /\ \A v \in 1 .. loads : generation'[v] = generation[v]
  BY <1>1, <1>2 DEF TypeInv, Versions
<1>7. QED
  BY <1>1, <1>2, <1>4, <1>5, <1>6

(* A process that does nothing goes on. *)
LEMMA StandingGoesOn ==
  ASSUME TypeInv, CallResolved, NEW r \in Runners
  PROVE  GoesOn(runner[r], runner[r])
BY RunnerFields DEF GoesOn, CallResolved

(* What may happen to the registry: nothing, a registration by a server     *)
(* that has found the place of the old version free, the old version goes   *)
(* because nobody refers to it or by force, or everything is deleted.       *)
CodeStep ==
  \/ UNCHANGED hcCode
  \/ \E t \in CodeServers : server[t].at = "commit" /\ Insert(server[t].space)
  \/ \E s \in Spaces :
       /\ registry' = [registry EXCEPT ![s].old = NoVersion] /\ UNCHANGED <<generation, loads>>
       /\ \/ ~Referenced(Old(s)) /\ UNCHANGED forsaken
          \/ forsaken' = forsaken \cup ({Old(s)} \ {NoVersion})
  \/ \E s \in Spaces : RemoveAll(s)

(* The server goes on as m: about to load only where the place of the old   *)
(* version was free.                                                        *)
ServesOn(t, m) ==
  /\ m \in ServerRecords
  /\ m.at \in {"previous", "commit"} => UNCHANGED hcCode
  /\ m.at \in {"previous", "commit"} =>
       \/ server[t].at = "previous" /\ m.space = server[t].space
       \/ Old(m.space) = NoVersion

(* What a step may do to the cache: forget. *)
CacheForgets ==
  cached' \in [Versions -> Codes] /\ \A g \in Versions : cached'[g] \in {cached[g], NoVersion}

(* Every step of a code server is of this kind. *)
LEMMA ServerMoves ==
  ASSUME TypeInv, CallResolved, LoadedInv, NEW t \in CodeServers, ServerStep(t)
  PROVE  /\ CodeStep /\ CacheForgets /\ UNCHANGED <<epochs, jobs>>
         /\ \/ \E m : server' = [server EXCEPT ![t] = m] /\ ServesOn(t, m) /\ UNCHANGED runner
            \/ \E r \in Runners :
                 /\ runner' = [runner EXCEPT
                      ![r] = IF OnWorker(r) THEN [@ EXCEPT !.slot = "doomed"] ELSE NoRunner]
                 /\ server' = [u \in CodeServers |-> [server[u] EXCEPT !.found = @ \ {r}]]
                 /\ UNCHANGED hcCode
<1> DEFINE me == server[t]
<1> USE ServerFields, CodeNumbers, IdleServerType DEF hcHeat
<1>0. UNCHANGED cached => CacheForgets
  BY DEF CacheForgets, TypeInv
<1>1. me \in ServerRecords /\ me.space \in Spaces /\ ServesOn(t, IdleServer)
  BY DEF ServesOn, IdleServer
<1>2. CASE \E s \in Spaces : BeginOp(t, s)
  <2>1. PICK s \in Spaces, op \in CodeOps, first \in {"previous", "drain", "lookup", "profile"} :
          /\ Serve(t, [IdleServer EXCEPT !.op = op, !.space = s, !.at = first])
          /\ UNCHANGED <<hcCode, cached>>
          /\ first = "previous" => Old(s) = NoVersion
    BY <1>2, HotCodeAssumption DEF BeginOp
  <2> DEFINE m == [IdleServer EXCEPT !.op = op, !.space = s, !.at = first]
  <2>2. m \in ServerRecords /\ m.at = first /\ m.space = s
    BY HotCodeAssumption DEF ServerRecords, ServerSteps
  <2> HIDE DEF m
  <2>3. ServesOn(t, m)
    BY <2>1, <2>2 DEF ServesOn
  <2>4. server' = [server EXCEPT ![t] = m] /\ UNCHANGED <<epochs, jobs, runner>>
    BY <2>1 DEF Serve, m
  <2>5. QED
    BY <1>0, <2>1, <2>3, <2>4 DEF CodeStep
<1>3. CASE LoadStep(t)
  <2>1. CASE me.at = "previous"
    <3>1. PICK g \in Nat : Serve(t, [me EXCEPT !.at = "commit", !.gen = g]) /\ UNCHANGED <<hcCode, cached>>
      <4>1. generation[Current(me.space)] \in Nat \/ Current(me.space) = NoVersion
        BY RegistryFields DEF TypeInv
      <4>2. QED
        BY <1>3, <2>1, <4>1 DEF LoadStep
    <3> DEFINE m == [me EXCEPT !.at = "commit", !.gen = g]
    <3>2. m \in ServerRecords /\ m.at = "commit" /\ m.space = me.space
      BY <1>1 DEF ServerRecords, ServerSteps
    <3> HIDE DEF m
    <3>3. ServesOn(t, m)
      BY <2>1, <3>1, <3>2 DEF ServesOn
    <3>4. server' = [server EXCEPT ![t] = m] /\ UNCHANGED <<epochs, jobs, runner>>
      BY <3>1 DEF Serve, m
    <3>5. QED
      BY <1>0, <3>1, <3>3, <3>4 DEF CodeStep
  <2>2. CASE me.at # "previous"
    <3> DEFINE m == [me EXCEPT !.at = "invalidate"]
    <3>1. /\ me.at = "commit" /\ UNCHANGED cached
          /\ UNCHANGED hcCode \/ Insert(me.space)
          /\ Serve(t, IdleServer) \/ Serve(t, m)
      BY <1>3, <2>2 DEF LoadStep
    <3>2. m \in ServerRecords /\ m.at = "invalidate"
      BY <1>1 DEF ServerRecords, ServerSteps
    <3> HIDE DEF m
    <3>3. ServesOn(t, m)
      BY <3>2 DEF ServesOn
    <3>4. QED
      BY <1>0, <1>1, <3>1, <3>3 DEF CodeStep, Serve
  <2>3. QED
    BY <2>1, <2>2
<1>4. CASE ScanStep(t)
  <2>1. UNCHANGED <<hcCode, cached, epochs, jobs, runner>>
    BY <1>4 DEF ScanStep, Serve
  <2>2. PICK m \in ServerRecords : server' = [server EXCEPT ![t] = m] /\ m.at \notin {"previous", "commit"}
    <3> DEFINE to(step) == [me EXCEPT !.at = step]
               look == [me EXCEPT !.at = "scan", !.held = Old(me.space), !.scan = Runners]
               on == [me EXCEPT !.at = "gen", !.held = NoVersion]
               sees(r, f) == [me EXCEPT !.scan = @ \ {r}, !.found = f]
    <3>1. \A step \in ServerSteps : to(step) \in ServerRecords /\ to(step).at = step
      BY <1>1 DEF ServerRecords
    <3>2. look \in ServerRecords /\ look.at = "scan"
      BY <1>1, RegistryFields DEF ServerRecords, ServerSteps
    <3>3. on \in ServerRecords /\ on.at = "gen"
      BY <1>1 DEF ServerRecords, ServerSteps
    <3>4. \A r, f : f \subseteq me.found \cup Runners => sees(r, f) \in ServerRecords /\ sees(r, f).at = me.at
      BY <1>1 DEF ServerRecords
    <3>5. \/ \E step \in {"lookup", "gen", "kill"} : Serve(t, to(step))
          \/ Serve(t, look) \/ Serve(t, on) \/ Serve(t, IdleServer)
          \/ /\ me.at = "scan"
             /\ \E r \in me.scan : \E f \in {me.found, me.found \cup {r}} : Serve(t, sees(r, f))
      BY <1>4 DEF ScanStep
    <3>6. me.scan \subseteq Runners
      BY <1>1 DEF ServerRecords
    <3>7. IdleServer.at = "idle"
      BY DEF IdleServer
    <3> HIDE DEF to, look, on, sees
    <3>8. CASE \E step \in {"lookup", "gen", "kill"} : Serve(t, to(step))
      BY <3>1, <3>8 DEF Serve, ServerSteps
    <3>9. CASE Serve(t, look) \/ Serve(t, on) \/ Serve(t, IdleServer)
      BY <3>2, <3>3, <3>7, <3>9 DEF Serve
    <3>10. CASE /\ me.at = "scan"
                /\ \E r \in me.scan : \E f \in {me.found, me.found \cup {r}} : Serve(t, sees(r, f))
      <4>0. PICK r \in me.scan : \E f \in {me.found, me.found \cup {r}} : Serve(t, sees(r, f))
        BY <3>10
      <4>1. PICK f \in {me.found, me.found \cup {r}} : Serve(t, sees(r, f))
        BY <4>0
      <4>2. f \subseteq me.found \cup Runners
        BY <3>6, <4>1
      <4>3. sees(r, f) \in ServerRecords /\ sees(r, f).at = "scan"
        BY <3>4, <3>10, <4>2
      <4>4. QED
        BY <4>1, <4>3 DEF Serve
    <3>11. QED
      BY <3>5, <3>8, <3>9, <3>10
  <2>3. ServesOn(t, m)
    BY <2>2 DEF ServesOn
  <2>4. QED
    BY <1>0, <2>1, <2>2, <2>3 DEF CodeStep
<1>5. CASE PurgeStep(t)
  <2> DEFINE old == Old(me.space)
             inv == [me EXCEPT !.at = "invalidate"]
  <2>1. inv \in ServerRecords /\ inv.at = "invalidate"
    BY <1>1 DEF ServerRecords, ServerSteps
  <2> HIDE DEF inv
  <2>2. ServesOn(t, inv)
    BY <2>1 DEF ServesOn
  <2>3. CASE me.at = "gen"
    <3>1. PICK g \in Nat : Serve(t, [me EXCEPT !.at = "purge", !.gen = g]) /\ UNCHANGED <<hcCode, cached>>
      <4>1. generation[old] \in Nat \/ old = NoVersion
        BY RegistryFields DEF TypeInv
      <4>2. QED
        BY <1>5, <2>3, <4>1 DEF PurgeStep, PurgeOld
    <3> DEFINE m == [me EXCEPT !.at = "purge", !.gen = g]
    <3>2. m \in ServerRecords /\ m.at = "purge"
      BY <1>1 DEF ServerRecords, ServerSteps
    <3> HIDE DEF m
    <3>3. ServesOn(t, m)
      BY <3>2 DEF ServesOn
    <3>4. server' = [server EXCEPT ![t] = m] /\ UNCHANGED <<epochs, jobs, runner>>
      BY <3>1 DEF Serve, m
    <3>5. QED
      BY <1>0, <3>1, <3>3, <3>4 DEF CodeStep
  <2>4. CASE PurgeOld(t)
    <3>1. /\ UNCHANGED cached /\ (Serve(t, IdleServer) \/ Serve(t, inv))
          /\ \/ UNCHANGED hcCode
             \/ /\ ~Referenced(Old(me.space)) /\ UNCHANGED <<generation, loads, forsaken>>
                /\ registry' = [registry EXCEPT ![me.space].old = NoVersion]
      BY <2>4 DEF PurgeOld, inv
    <3>2. CodeStep
      BY <1>1, <3>1 DEF CodeStep
    <3>3. QED
      BY <1>0, <1>1, <2>2, <3>1, <3>2 DEF Serve
  <2>5. CASE me.at = "invalidate"
    <3>1. /\ Serve(t, IdleServer) /\ cached' = [cached EXCEPT ![me.gen] = NoVersion] /\ UNCHANGED hcCode
      BY <1>5, <2>5 DEF PurgeStep, PurgeOld
    <3>2. CacheForgets
      BY <3>1 DEF CacheForgets, TypeInv
    <3>3. QED
      BY <1>1, <3>1, <3>2 DEF Serve, CodeStep
  <2>6. QED
    BY <1>5, <2>3, <2>4, <2>5 DEF PurgeStep
<1>6. CASE ForceStep(t)
  <2> DEFINE clear == [me EXCEPT !.at = "clear"]
  <2>1. clear \in ServerRecords /\ clear.at = "clear"
    BY <1>1 DEF ServerRecords, ServerSteps
  <2> HIDE DEF clear
  <2>2. ServesOn(t, clear)
    BY <2>1 DEF ServesOn
  <2>3. CASE me.at = "kill" /\ me.found # {}
    <3>1. \E r \in me.found :
             /\ runner' = [runner EXCEPT
                  ![r] = IF OnWorker(r) THEN [@ EXCEPT !.slot = "doomed"] ELSE NoRunner]
             /\ server' = [u \in CodeServers |-> [server[u] EXCEPT !.found = @ \ {r}]]
      BY <1>6, <2>3 DEF ForceStep
    <3>2. UNCHANGED <<hcCode, cached, epochs, jobs>>
      BY <1>6, <2>3 DEF ForceStep
    <3>3. me.found \subseteq Runners
      BY <1>1 DEF ServerRecords
    <3>4. QED
      BY <1>0, <3>1, <3>2, <3>3 DEF CodeStep
  <2>4. CASE me.at = "kill" /\ me.found = {}
    <3>1. /\ registry' = [registry EXCEPT ![me.space].old = NoVersion]
          /\ forsaken' = forsaken \cup ({Old(me.space)} \ {NoVersion})
          /\ UNCHANGED <<generation, loads, cached>> /\ (Serve(t, IdleServer) \/ Serve(t, clear))
      BY <1>6, <2>4 DEF ForceStep, clear
    <3>2. CodeStep
      BY <1>1, <3>1 DEF CodeStep
    <3>3. QED
      BY <1>0, <1>1, <2>2, <3>1, <3>2 DEF Serve
  <2>5. CASE me.at = "clear"
    <3>1. Serve(t, IdleServer) /\ cached' = [g \in Versions |-> NoVersion] /\ UNCHANGED hcCode
      BY <1>6, <2>5 DEF ForceStep
    <3>2. CacheForgets
      BY <3>1 DEF CacheForgets
    <3>3. QED
      BY <1>1, <3>1, <3>2 DEF Serve, CodeStep
  <2>6. QED
    BY <1>6, <2>3, <2>4, <2>5 DEF ForceStep
<1>7. CASE DeleteStep(t)
  <2>1. CASE me.at = "profile"
    <3>1. /\ server' = [server EXCEPT ![t].at = "cache"]
          /\ UNCHANGED <<hcCode, cached, epochs, jobs, runner>>
      BY <1>7, <2>1 DEF DeleteStep
    <3> DEFINE m == [me EXCEPT !.at = "cache"]
    <3>2. m \in ServerRecords /\ m.at = "cache"
      BY <1>1 DEF ServerRecords, ServerSteps
    <3>3. server' = [server EXCEPT ![t] = m]
      BY <3>1
    <3> HIDE DEF m
    <3>4. ServesOn(t, m)
      BY <3>2 DEF ServesOn
    <3>5. QED
      BY <1>0, <3>1, <3>3, <3>4 DEF CodeStep
  <2>2. CASE me.at = "cache"
    <3> DEFINE m == [me EXCEPT !.at = "remove"]
    <3>1. Serve(t, m) /\ cached' = [g \in Versions |-> NoVersion] /\ UNCHANGED hcCode
      BY <1>7, <2>2 DEF DeleteStep
    <3>2. m \in ServerRecords /\ m.at = "remove"
      BY <1>1 DEF ServerRecords, ServerSteps
    <3> HIDE DEF m
    <3>3. ServesOn(t, m) /\ CacheForgets
      BY <3>1, <3>2 DEF ServesOn, CacheForgets
    <3>4. QED
      BY <3>1, <3>3 DEF Serve, CodeStep
  <2>3. CASE me.at = "remove"
    <3>1. RemoveAll(me.space) /\ Serve(t, IdleServer) /\ UNCHANGED cached
      BY <1>7, <2>3 DEF DeleteStep
    <3>2. QED
      BY <1>0, <1>1, <3>1 DEF Serve, CodeStep
  <2>4. QED
    BY <1>7, <2>1, <2>2, <2>3 DEF DeleteStep
<1>8. QED
  BY <1>2, <1>3, <1>4, <1>5, <1>6, <1>7 DEF ServerStep

-----------------------------------------------------------------------------
(* Every step *)

(* Processes go on or leave, whoever moves. *)
LEMMA EveryoneGoesOn ==
  ASSUME TypeInv, CallResolved, LoadedInv, [HcNext]_hcVars
  PROVE  runner' \in [Runners -> RunnerRecords] /\ \A r \in Runners : GoesOn(runner[r], runner'[r])
<1>0. \A r \in Runners : GoesOn(runner[r], runner[r]) /\ GoesOn(runner[r], NoRunner)
  BY StandingGoesOn, NoRunnerGoesOn
<1>1. CASE UNCHANGED runner
  BY <1>0, <1>1 DEF TypeInv
<1>2. CASE \E r \in Runners : RunnerStep(r)
  <2>1. PICK r \in Runners : RunnerStep(r)
    BY <1>2
  <2>2. CASE Leave(r)
    BY <1>0, <2>2, LeaveEffect
  <2>3. CASE \E x : Become(r, x) /\ GoesOn(runner[r], x)
    <3>1. PICK x : Become(r, x) /\ GoesOn(runner[r], x)
      BY <2>3
    <3>2. x \in RunnerRecords
      BY <3>1 DEF GoesOn
    <3>3. QED
      BY <1>0, <3>1, <3>2, BecomeEffect
  <2>4. QED
    BY <2>1, <2>2, <2>3, RunnerMoves
<1>3. CASE \E t \in CodeServers : ServerStep(t)
  <2>1. UNCHANGED runner
        \/ \E r \in Runners : runner' = [runner EXCEPT
             ![r] = IF OnWorker(r) THEN [@ EXCEPT !.slot = "doomed"] ELSE NoRunner]
    BY <1>3, ServerMoves
  <2>2. ASSUME NEW r \in Runners,
               runner' = [runner EXCEPT
                 ![r] = IF OnWorker(r) THEN [@ EXCEPT !.slot = "doomed"] ELSE NoRunner]
        PROVE  runner' \in [Runners -> RunnerRecords] /\ \A x \in Runners : GoesOn(runner[x], runner'[x])
    <3> DEFINE q == runner[r]
               d == [q EXCEPT !.slot = "doomed"]
    <3>1. runner' = [runner EXCEPT ![r] = IF OnWorker(r) THEN d ELSE NoRunner]
      BY <2>2
    <3>2. q \in RunnerRecords
      BY RunnerFields
    <3>3. /\ d \in RunnerRecords /\ d.slot = "doomed" /\ d.at = q.at /\ d.pin = q.pin /\ d.call = q.call
          /\ d.native = q.native /\ d.slice = q.slice /\ d.frames = q.frames
      BY <3>2 DEF RunnerRecords
    <3> HIDE DEF d
    <3>4. OnWorker(r) => \A v \in Versions : Holds(d, v) => Holds(q, v)
      BY <3>3 DEF Holds, OnWorker
    <3>5. OnWorker(r) => GoesOn(q, d)
      BY <3>3, <3>4 DEF GoesOn, CallResolved
    <3>6. PICK x \in RunnerRecords : GoesOn(q, x) /\ runner' = [runner EXCEPT ![r] = x]
      BY <1>0, <3>1, <3>3, <3>5, NoRunnerType
    <3>7. QED
      BY <1>0, <3>6 DEF TypeInv
  <2>3. QED
    BY <1>1, <2>1, <2>2
<1>4. QED
  BY <1>1, <1>2, <1>3 DEF HcNext, JobEnds, hcVars

(* The registry changes by the steps of code servers only. *)
LEMMA EveryCodeStep ==
  ASSUME TypeInv, CallResolved, LoadedInv, [HcNext]_hcVars
  PROVE  CodeStep
<1>1. CASE \E r \in Runners : RunnerStep(r)
  <2>1. PICK r \in Runners : RunnerStep(r)
    BY <1>1
  <2>2. Leave(r) \/ \E x : Become(r, x)
    BY <2>1, RunnerMoves
  <2>3. QED
    BY <2>2 DEF Leave, Become, CodeStep
<1>2. CASE \E t \in CodeServers : ServerStep(t)
  BY <1>2, ServerMoves
<1>3. QED
  BY <1>1, <1>2 DEF HcNext, JobEnds, hcVars, CodeStep

(* So do the code servers. *)
LEMMA EveryServerStep ==
  ASSUME TypeInv, CallResolved, LoadedInv, [HcNext]_hcVars
  PROVE  server' \in [CodeServers -> ServerRecords]
<1>1. CASE UNCHANGED server
  BY <1>1 DEF TypeInv
<1>2. CASE \E r \in Runners : RunnerStep(r)
  <2>1. PICK r \in Runners : RunnerStep(r)
    BY <1>2
  <2>2. Leave(r) \/ \E x : Become(r, x)
    BY <2>1, RunnerMoves
  <2>3. QED
    BY <1>1, <2>2, LeaveEffect DEF Become
<1>3. CASE \E t \in CodeServers : ServerStep(t)
  <2>1. PICK t \in CodeServers : ServerStep(t)
    BY <1>3
  <2>2. CASE \E m : server' = [server EXCEPT ![t] = m] /\ ServesOn(t, m)
    BY <2>2, ServeEffect DEF ServesOn
  <2>3. CASE \E r \in Runners : server' = [u \in CodeServers |-> [server[u] EXCEPT !.found = @ \ {r}]]
    <3>1. PICK r \in Runners : server' = [u \in CodeServers |-> [server[u] EXCEPT !.found = @ \ {r}]]
      BY <2>3
    <3>2. QED
      BY <3>1 DEF TypeInv, ServerRecords
  <2>4. QED
    BY <2>1, <2>2, <2>3, ServerMoves
<1>4. QED
  BY <1>1, <1>2, <1>3 DEF HcNext, JobEnds, hcVars

(* The cache forgets, or takes what a job has compiled. *)
LEMMA EveryCacheStep ==
  ASSUME TypeInv, CallResolved, LoadedInv, [HcNext]_hcVars
  PROVE  \/ CacheForgets
         \/ \E j \in jobs : cached' = [cached EXCEPT ![j.gen] = j.version]
<1>0. UNCHANGED cached => CacheForgets
  BY DEF CacheForgets, TypeInv
<1>1. CASE \E r \in Runners : RunnerStep(r)
  BY <1>0, <1>1
  DEF RunnerStep, SpawnRunner, TakeRequest, BeginSlice, EndSlice, CallFunction, EnterFunction,
      RecordMiss, ReturnFromFunction, LeaveNative
<1>2. CASE \E t \in CodeServers : ServerStep(t)
  BY <1>2, ServerMoves
<1>3. CASE JobEnds
  BY <1>0, <1>3 DEF JobEnds, PublishCompiled
<1>4. QED
  BY <1>0, <1>1, <1>2, <1>3 DEF HcNext, hcVars

(* A new job compiles the version that a call has resolved. *)
LEMMA EveryJobStep ==
  ASSUME TypeInv, CallResolved, LoadedInv, [HcNext]_hcVars, NEW j \in jobs'
  PROVE  j \in jobs \/ (j.version \in 1 .. loads /\ j.gen = generation[j.version])
<1>1. CASE UNCHANGED jobs
  BY <1>1
<1>2. CASE \E r \in Runners : RunnerStep(r)
  <2>1. PICK r \in Runners : RunnerStep(r)
    BY <1>2
  <2>2. CASE RecordMiss(r)
    <3> DEFINE v == runner[r].call
    <3>1. v \in Versions /\ runner[r].slot # "none"
      BY <2>2 DEF RecordMiss, CallResolved
    <3>2. v \in 1 .. loads
      BY <3>1 DEF LoadedInv, Holds, Versions, TypeInv
    <3>3. \/ UNCHANGED jobs
          \/ \E e : jobs' = jobs \cup {[gen |-> generation[v], epoch |-> e, version |-> v]}
      BY <2>2 DEF RecordMiss, RecordCall, hcHeat
    <3> HIDE DEF v
    <3>4. QED
      BY <3>2, <3>3
  <2>3. CASE ~RecordMiss(r)
    BY <1>1, <2>1, <2>3
    DEF RunnerStep, SpawnRunner, TakeRequest, BeginSlice, EndSlice, CallFunction, EnterFunction,
        ReturnFromFunction, LeaveNative, hcHeat
  <2>4. QED
    BY <2>2, <2>3
<1>3. CASE \E t \in CodeServers : ServerStep(t)
  BY <1>1, <1>3, ServerMoves
<1>4. CASE JobEnds
  BY <1>4 DEF JobEnds
<1>5. QED
  BY <1>1, <1>2, <1>3, <1>4 DEF HcNext, hcVars, hcHeat

(* The registry after a step: well formed, and no version loaded before     *)
(* has another generation.                                                  *)
LEMMA CodeEffect ==
  ASSUME TypeInv, LoadedInv, CodeStep
  PROVE  /\ registry' \in [Spaces -> [current : 0 .. MaxLoads, old : 0 .. MaxLoads, next : Nat]]
         /\ generation' \in [Versions -> Nat] /\ loads' \in 0 .. MaxLoads /\ loads <= loads'
         /\ \A v \in 1 .. loads : generation'[v] = generation[v]
         /\ \A v \in 1 .. loads' : generation'[v] \in Versions
         /\ \A s \in Spaces : Current(s)' <= loads' /\ Old(s)' <= loads'
<1>0. loads \in Nat /\ \A s \in Spaces : Current(s) \in Nat /\ Old(s) \in Nat
  BY RegistryFields, CodeNumbers DEF TypeInv
<1>1. CASE UNCHANGED hcCode
  BY <1>0, <1>1 DEF hcCode, TypeInv, LoadedInv, Current, Old
<1>2. CASE \E t \in CodeServers : server[t].at = "commit" /\ Insert(server[t].space)
  <2>1. PICK s \in Spaces : Insert(s)
    BY <1>2, ServerFields
  <2>2. \A v \in 1 .. loads' : generation'[v] \in Versions
    BY <1>0, <2>1, InsertEffect DEF LoadedInv
  <2>3. \A u \in Spaces : u # s => Current(u)' = Current(u) /\ Old(u)' = Old(u)
    BY <2>1, InsertEffect DEF Current, Old
  <2>4. \A u \in Spaces : Current(u)' <= loads' /\ Old(u)' <= loads'
    BY <1>0, <2>1, <2>3, InsertEffect DEF LoadedInv
  <2>5. QED
    BY <1>0, <2>1, <2>2, <2>4, InsertEffect
<1>3. CASE \E s \in Spaces : /\ registry' = [registry EXCEPT ![s].old = NoVersion]
                             /\ UNCHANGED <<generation, loads>>
  <2>1. PICK s \in Spaces : /\ registry' = [registry EXCEPT ![s].old = NoVersion]
                            /\ UNCHANGED <<generation, loads>>
    BY <1>3
  <2>2. registry' \in [Spaces -> [current : 0 .. MaxLoads, old : 0 .. MaxLoads, next : Nat]]
    BY <2>1, CodeNumbers DEF TypeInv
  <2>3. \A u \in Spaces : Current(u)' = Current(u) /\ Old(u)' \in {Old(u), NoVersion}
    BY <2>1 DEF Current, Old, TypeInv
  <2>4. QED
    BY <1>0, <2>1, <2>2, <2>3 DEF TypeInv, LoadedInv, NoVersion
<1>4. CASE \E s \in Spaces : RemoveAll(s)
  <2>1. PICK s \in Spaces : RemoveAll(s)
    BY <1>4
  <2>2. registry' \in [Spaces -> [current : 0 .. MaxLoads, old : 0 .. MaxLoads, next : Nat]]
    <3> DEFINE one == [registry EXCEPT ![s].current = NoVersion]
    <3>1. one \in [Spaces -> [current : 0 .. MaxLoads, old : 0 .. MaxLoads, next : Nat]]
      BY CodeNumbers DEF TypeInv
    <3>2. registry' = [one EXCEPT ![s].old = NoVersion]
      BY <2>1 DEF RemoveAll
    <3> HIDE DEF one
    <3>3. QED
      BY <3>1, <3>2, CodeNumbers
  <2>3. \A u \in Spaces : Current(u)' \in {Current(u), NoVersion} /\ Old(u)' \in {Old(u), NoVersion}
    BY <2>1 DEF Current, Old, TypeInv, RemoveAll
  <2>4. QED
    BY <1>0, <2>1, <2>2, <2>3 DEF TypeInv, LoadedInv, NoVersion, RemoveAll
<1>5. QED
  BY <1>1, <1>2, <1>3, <1>4 DEF CodeStep

(* A step keeps the types and what is known of calls and loads. *)
LEMMA NextKnown ==
  ASSUME TypeInv, CallResolved, LoadedInv, [HcNext]_hcVars
  PROVE  TypeInv' /\ CallResolved' /\ LoadedInv'
<1> USE EveryoneGoesOn, EveryCodeStep, EveryServerStep, CodeEffect
<1>1. cached' \in [Versions -> Codes]
  <2>1. CASE CacheForgets
    BY <2>1 DEF CacheForgets
  <2>2. CASE \E j \in jobs : cached' = [cached EXCEPT ![j.gen] = j.version]
    <3>1. PICK j \in jobs : cached' = [cached EXCEPT ![j.gen] = j.version]
      BY <2>2
    <3>2. j.version \in Codes
      BY CodeNumbers DEF LoadedInv, TypeInv, Versions
    <3>3. QED
      BY <3>1, <3>2 DEF TypeInv
  <2>3. QED
    BY <2>1, <2>2, EveryCacheStep
<1>2. TypeInv'
  BY <1>1 DEF TypeInv
<1>3. CallResolved'
  BY DEF CallResolved, GoesOn
<1>4. loads \in Nat /\ loads' \in Nat /\ loads <= loads'
  BY DEF TypeInv
<1>5. \A r \in Runners, v \in Versions : Holds(runner'[r], v) => v <= loads'
  <2>1. \A s \in Spaces : Current(s) <= loads /\ Current(s) \in Nat
    BY RegistryFields DEF LoadedInv
  <2>2. \A r \in Runners, v \in Versions : Holds(runner'[r], v) => v <= loads
    BY <2>1 DEF GoesOn, LoadedInv
  <2>3. QED
    BY <1>4, <2>2 DEF Versions
<1>6. \A j \in jobs' : j.version \in 1 .. loads' /\ j.gen = generation'[j.version]
  <2>1. \A j \in jobs' : j.version \in 1 .. loads /\ j.gen = generation[j.version]
    BY EveryJobStep DEF LoadedInv
  <2>2. QED
    BY <1>4, <2>1
<1>7. LoadedInv'
  BY <1>5, <1>6 DEF LoadedInv
<1>8. QED
  BY <1>2, <1>3, <1>7

(* What is always known of types, calls and loads. *)
LEMMA Known == HcSpec => [](TypeInv /\ CallResolved /\ LoadedInv)
<1>1. HcInit => TypeInv /\ CallResolved /\ LoadedInv
  <2> SUFFICES ASSUME HcInit PROVE TypeInv /\ CallResolved /\ LoadedInv
    OBVIOUS
  <2>1. NoRunner.slot = "none" /\ NoRunner.at = "run" /\ NoRunner.native = NoVersion
    BY DEF NoRunner
  <2>2. CallResolved
    BY <2>1 DEF HcInit, CallResolved
  <2>3. \A s \in Spaces : Current(s) = 0 /\ Old(s) = 0
    BY DEF HcInit, Current, Old, NoVersion
  <2>4. loads = 0 /\ jobs = {} /\ \A r \in Runners, v \in Versions : ~Holds(runner[r], v)
    BY <2>1 DEF HcInit, Holds
  <2>5. LoadedInv
    BY <2>3, <2>4 DEF LoadedInv
  <2>6. QED
    BY <2>2, <2>5, InitTypes
<1>2. (TypeInv /\ CallResolved /\ LoadedInv) /\ [HcNext]_hcVars => (TypeInv /\ CallResolved /\ LoadedInv)'
  BY NextKnown
<1>3. QED
  BY <1>1, <1>2, PTL DEF HcSpec

-----------------------------------------------------------------------------
(* Compiled code.  With one namespace the generations are the numbers of    *)
(* the loads, whatever is deleted in between; two namespaces number their   *)
(* versions apart but share the cache, and then the property fails.         *)

OneNamespace == Spaces = {DefaultSpace}

NumberedByLoad ==
  /\ \A v \in 1 .. loads : generation[v] = v
  /\ registry[DefaultSpace].next = loads + 1
  /\ Current(DefaultSpace) \in {NoVersion, loads}

CachedUnderOwnNumber == \A g \in Versions : cached[g] \in {NoVersion, g}

(* The inductive invariant of NativeCodeIsOwn. *)
OwnInv == NumberedByLoad /\ CachedUnderOwnNumber /\ NativeCodeIsOwn

(* A load takes the next number. *)
LEMMA NumbersGoOn ==
  ASSUME OneNamespace, TypeInv, LoadedInv, NumberedByLoad, CodeStep
  PROVE  NumberedByLoad'
<1> DEFINE d == DefaultSpace
<1>0. d \in Spaces /\ loads \in Nat /\ MaxLoads \in Nat
  BY HotCodeAssumption DEF TypeInv
<1>1. CASE UNCHANGED hcCode
  BY <1>1 DEF hcCode, NumberedByLoad, Current
<1>2. CASE \E t \in CodeServers : server[t].at = "commit" /\ Insert(server[t].space)
  <2>1. Insert(d)
    BY <1>2, ServerFields DEF OneNamespace
  <2> DEFINE g == IF Current(d) # NoVersion THEN generation[Current(d)] + 1 ELSE registry[d].next
  <2>2. g = loads + 1
    BY <1>0 DEF NumberedByLoad, NoVersion
  <2>3. /\ generation' = [generation EXCEPT ![loads + 1] = g] /\ loads' = loads + 1
        /\ registry' = [registry EXCEPT ![d] = [current |-> loads + 1, old |-> Current(d), next |-> g + 1]]
    BY <2>1 DEF Insert
  <2> HIDE DEF g
  <2>4. loads + 1 \in Versions
    BY <1>0, <2>1 DEF Insert, Versions
  <2>5. generation'[loads + 1] = loads + 1 /\ \A v \in 1 .. loads : generation'[v] = v
    BY <1>0, <2>1, <2>2, <2>3, <2>4, InsertEffect DEF TypeInv, NumberedByLoad
  <2>6. registry'[d] = [current |-> loads + 1, old |-> Current(d), next |-> g + 1]
    BY <1>0, <2>3 DEF TypeInv
  <2>7. registry'[d].next = loads' + 1 /\ Current(d)' = loads'
    BY <2>2, <2>3, <2>6 DEF Current
  <2>8. \A v \in 1 .. loads' : generation'[v] = v
    BY <1>0, <2>3, <2>5
  <2>9. QED
    BY <2>7, <2>8 DEF NumberedByLoad
<1>3. CASE \E s \in Spaces : /\ registry' = [registry EXCEPT ![s].old = NoVersion]
                             /\ UNCHANGED <<generation, loads>>
  <2>1. registry' = [registry EXCEPT ![d].old = NoVersion] /\ UNCHANGED <<generation, loads>>
    BY <1>3 DEF OneNamespace
  <2>2. registry'[d].next = registry[d].next /\ Current(d)' = Current(d)
    BY <1>0, <2>1 DEF TypeInv, Current
  <2>3. QED
    BY <2>1, <2>2 DEF NumberedByLoad
<1>4. CASE \E s \in Spaces : RemoveAll(s)
  <2>1. RemoveAll(d)
    BY <1>4 DEF OneNamespace
  <2>2. registry'[d].next = registry[d].next /\ Current(d)' = NoVersion
    BY <1>0, <2>1 DEF TypeInv, Current, RemoveAll
  <2>3. QED
    BY <2>1, <2>2 DEF NumberedByLoad, RemoveAll
<1>5. QED
  BY <1>1, <1>2, <1>3, <1>4 DEF CodeStep

(* A step keeps the invariant of compiled code. *)
LEMMA NextOwn ==
  ASSUME OneNamespace, TypeInv, CallResolved, LoadedInv, OwnInv, [HcNext]_hcVars
  PROVE  OwnInv'
<1>1. NumberedByLoad'
  BY EveryCodeStep, NumbersGoOn DEF OwnInv
<1>2. CachedUnderOwnNumber'
  <2>1. CASE CacheForgets
    BY <2>1 DEF CacheForgets, OwnInv, CachedUnderOwnNumber
  <2>2. CASE \E j \in jobs : cached' = [cached EXCEPT ![j.gen] = j.version]
    <3>1. PICK j \in jobs : cached' = [cached EXCEPT ![j.gen] = j.version]
      BY <2>2
    <3>2. j.gen = j.version
      BY DEF LoadedInv, OwnInv, NumberedByLoad
    <3>3. QED
      BY <3>1, <3>2 DEF TypeInv, OwnInv, CachedUnderOwnNumber
  <2>3. QED
    BY <2>1, <2>2, EveryCacheStep
<1>3. NativeCodeIsOwn'
  <2> SUFFICES ASSUME NEW r \in Runners, runner'[r].native # NoVersion
               PROVE  runner'[r].native = runner'[r].call
    BY DEF NativeCodeIsOwn
  <2> DEFINE q == runner[r]
  <2>1. GoesOn(q, runner'[r])
    BY EveryoneGoesOn
  <2>2. CASE runner'[r].native = q.native
    BY <2>1, <2>2 DEF GoesOn, OwnInv, NativeCodeIsOwn
  <2>3. CASE q.at = "entry" /\ q.slot # "none" /\ runner'[r].native = cached[generation[q.call]]
    <3>1. q.call \in Versions /\ q.call \in 1 .. loads
      BY <2>3 DEF CallResolved, LoadedInv, Holds, Versions, TypeInv
    <3>2. generation[q.call] = q.call
      BY <3>1 DEF OwnInv, NumberedByLoad
    <3>3. runner'[r].native \in {NoVersion, q.call}
      BY <2>3, <3>1, <3>2 DEF OwnInv, CachedUnderOwnNumber
    <3>4. QED
      BY <2>1, <3>3 DEF GoesOn
  <2>4. QED
    BY <2>1, <2>2, <2>3 DEF GoesOn
<1>4. QED
  BY <1>1, <1>2, <1>3 DEF OwnInv

(* NativeCodeIsOwn: with one namespace, whatever is loaded, purged, deleted *)
(* and loaded again while calls are counted, compiled and made, a call that *)
(* finds compiled code in the cache (jit/cache.rs) runs code compiled from  *)
(* the version it called (module.rs: generations are never used again).     *)
THEOREM CompiledCodeIsOwn ==
  ASSUME OneNamespace
  PROVE  HcSpec => []NativeCodeIsOwn
<1>1. HcInit => OwnInv
  <2> SUFFICES ASSUME HcInit PROVE OwnInv
    OBVIOUS
  <2>1. NoRunner.native = NoVersion
    BY DEF NoRunner
  <2>2. NumberedByLoad
    BY HotCodeAssumption DEF HcInit, NumberedByLoad, Current
  <2>3. CachedUnderOwnNumber /\ NativeCodeIsOwn
    BY <2>1 DEF HcInit, CachedUnderOwnNumber, NativeCodeIsOwn
  <2>4. QED
    BY <2>2, <2>3 DEF OwnInv
<1>2. (TypeInv /\ CallResolved /\ LoadedInv) /\ OwnInv /\ [HcNext]_hcVars => OwnInv'
  BY NextOwn
<1>3. OwnInv => NativeCodeIsOwn
  BY DEF OwnInv
<1>4. QED
  BY <1>1, <1>2, <1>3, Known, PTL DEF HcSpec

-----------------------------------------------------------------------------
(* Retained code.  The check of the place of the old version and the load   *)
(* are apart: with two code servers at once a load may push a version out   *)
(* that is in use, and then the property fails.                             *)

OneCodeServer == \A t, u \in CodeServers : t = u

PlaceIsFree ==
  \A t \in CodeServers : server[t].at \in {"previous", "commit"} => Old(server[t].space) = NoVersion

(* The inductive invariant of UsedCodeIsRetained. *)
RetainInv == UsedCodeIsRetained /\ PlaceIsFree

(* Nobody else takes the place that a load has found free. *)
LEMMA PlaceStaysFree ==
  ASSUME OneCodeServer, TypeInv, CallResolved, LoadedInv, PlaceIsFree, [HcNext]_hcVars
  PROVE  PlaceIsFree'
<1>1. CASE UNCHANGED <<server, hcCode>>
  BY <1>1 DEF PlaceIsFree, hcCode, Old
<1>2. CASE \E r \in Runners : RunnerStep(r)
  <2>1. PICK r \in Runners : RunnerStep(r)
    BY <1>2
  <2>2. CASE \E x : Become(r, x)
    BY <1>1, <2>2 DEF Become
  <2>3. CASE Leave(r)
    <3>1. \A t \in CodeServers : server'[t].at = server[t].at /\ server'[t].space = server[t].space
      BY <2>3, LeaveEffect
    <3>2. UNCHANGED hcCode
      BY <2>3 DEF Leave
    <3>3. QED
      BY <3>1, <3>2 DEF PlaceIsFree, hcCode, Old
  <2>4. QED
    BY <2>1, <2>2, <2>3, RunnerMoves
<1>3. CASE \E t \in CodeServers : ServerStep(t)
  <2>1. PICK t \in CodeServers : ServerStep(t)
    BY <1>3
  <2>2. CASE \E m : server' = [server EXCEPT ![t] = m] /\ ServesOn(t, m)
    <3>1. PICK m : server' = [server EXCEPT ![t] = m] /\ ServesOn(t, m)
      BY <2>2
    <3>2. m \in ServerRecords /\ server'[t] = m
      BY <3>1, ServeEffect DEF ServesOn
    <3>3. m.at \in {"previous", "commit"} => Old(m.space) = NoVersion /\ UNCHANGED registry
      BY <3>1 DEF ServesOn, PlaceIsFree, hcCode
    <3>4. \A u \in CodeServers : server'[u] = m
      BY <3>2 DEF OneCodeServer
    <3>5. QED
      BY <3>3, <3>4 DEF PlaceIsFree, Old
  <2>3. CASE /\ UNCHANGED hcCode
             /\ \E r \in Runners : server' = [u \in CodeServers |-> [server[u] EXCEPT !.found = @ \ {r}]]
    <3>1. \A u \in CodeServers : server'[u].at = server[u].at /\ server'[u].space = server[u].space
      BY <2>3, ServerFields DEF ServerRecords
    <3>2. QED
      BY <2>3, <3>1 DEF PlaceIsFree, hcCode, Old
  <2>4. QED
    BY <2>1, <2>2, <2>3, ServerMoves
<1>4. QED
  BY <1>1, <1>2, <1>3 DEF HcNext, JobEnds, hcVars

(* The registry changes while the processes stand still. *)
LEMMA CodeOrProcesses ==
  ASSUME TypeInv, CallResolved, LoadedInv, [HcNext]_hcVars
  PROVE  UNCHANGED hcCode \/ UNCHANGED runner
<1>1. CASE \E r \in Runners : RunnerStep(r)
  <2>1. PICK r \in Runners : RunnerStep(r)
    BY <1>1
  <2>2. Leave(r) \/ \E x : Become(r, x)
    BY <2>1, RunnerMoves
  <2>3. QED
    BY <2>2 DEF Leave, Become
<1>2. CASE \E t \in CodeServers : ServerStep(t)
  BY <1>2, ServerMoves
<1>3. QED
  BY <1>1, <1>2 DEF HcNext, JobEnds, hcVars

(* A step keeps what is in use. *)
LEMMA NextRetains ==
  ASSUME TypeInv, CallResolved, LoadedInv, RetainInv, [HcNext]_hcVars
  PROVE  UsedCodeIsRetained'
<1> SUFFICES ASSUME NEW r \in Runners, NEW v \in Versions, v \notin forsaken', Holds(runner'[r], v)
             PROVE  \E s \in Spaces : v \in {Current(s)', Old(s)'}
  BY DEF UsedCodeIsRetained
<1>1. forsaken \subseteq forsaken'
  BY EveryCodeStep DEF CodeStep, hcCode, Insert, RemoveAll
<1>2. PICK s \in Spaces : v \in {Current(s), Old(s)}
  <2>1. Holds(runner[r], v) \/ \E s \in Spaces : v = Current(s)
    BY EveryoneGoesOn DEF GoesOn
  <2>2. QED
    BY <1>1, <2>1 DEF RetainInv, UsedCodeIsRetained
<1>3. CASE UNCHANGED hcCode
  BY <1>2, <1>3 DEF hcCode, Current, Old
<1>4. CASE UNCHANGED runner /\ ~UNCHANGED hcCode
  <2>0. v # NoVersion /\ Holds(runner[r], v)
    BY <1>4, CodeNumbers
  <2>1. CASE \E t \in CodeServers : server[t].at = "commit" /\ Insert(server[t].space)
    <3>1. PICK u \in Spaces : Insert(u) /\ Old(u) = NoVersion
      BY <2>1, ServerFields DEF RetainInv, PlaceIsFree
    <3>2. CASE s = u
      BY <1>2, <2>0, <3>1, <3>2, InsertEffect
    <3>3. CASE s # u
      BY <1>2, <3>1, <3>3, InsertEffect DEF Current, Old
    <3>4. QED
      BY <3>2, <3>3
  <2>2. CASE \E u \in Spaces :
               /\ registry' = [registry EXCEPT ![u].old = NoVersion]
               /\ ~Referenced(Old(u)) \/ forsaken' = forsaken \cup ({Old(u)} \ {NoVersion})
    <3>1. PICK u \in Spaces :
               /\ registry' = [registry EXCEPT ![u].old = NoVersion]
               /\ ~Referenced(Old(u)) \/ forsaken' = forsaken \cup ({Old(u)} \ {NoVersion})
      BY <2>2
    <3>2. v # Old(u)
      BY <2>0, <3>1 DEF Referenced
    <3>3. \A x \in Spaces : Current(x)' = Current(x) /\ (x # u => Old(x)' = Old(x))
      BY <3>1 DEF TypeInv, Current, Old
    <3>4. QED
      BY <1>2, <3>2, <3>3
  <2>3. CASE \E u \in Spaces : RemoveAll(u)
    <3>1. PICK u \in Spaces : RemoveAll(u)
      BY <2>3
    <3>2. v \notin {Current(u), Old(u)}
      BY <2>0, <3>1 DEF RemoveAll
    <3>3. \A x \in Spaces : x # u => Current(x)' = Current(x) /\ Old(x)' = Old(x)
      BY <3>1 DEF TypeInv, Current, Old, RemoveAll
    <3>4. QED
      BY <1>2, <3>2, <3>3
  <2>4. QED
    BY <1>4, <2>1, <2>2, <2>3, EveryCodeStep DEF CodeStep
<1>5. QED
  BY <1>3, <1>4, CodeOrProcesses

(* UsedCodeIsRetained: with one code server at a time, in any number of     *)
(* namespaces, a version that a process runs or will return into stays      *)
(* registered as the current or the old one until it is deleted or purged   *)
(* by force: neither a load (refused while an old version is kept) nor the  *)
(* safe purge of module.rs takes it away.                                   *)
THEOREM UsedCodeIsKept ==
  ASSUME OneCodeServer
  PROVE  HcSpec => []UsedCodeIsRetained
<1>1. HcInit => RetainInv
  <2> SUFFICES ASSUME HcInit PROVE RetainInv
    OBVIOUS
  <2>1. NoRunner.slot = "none" /\ IdleServer.at = "idle"
    BY DEF NoRunner, IdleServer
  <2>2. UsedCodeIsRetained /\ PlaceIsFree
    BY <2>1 DEF HcInit, UsedCodeIsRetained, PlaceIsFree, Holds
  <2>3. QED
    BY <2>2 DEF RetainInv
<1>2. (TypeInv /\ CallResolved /\ LoadedInv) /\ RetainInv /\ [HcNext]_hcVars => RetainInv'
  BY NextRetains, PlaceStaysFree DEF RetainInv
<1>3. RetainInv => UsedCodeIsRetained
  BY DEF RetainInv
<1>4. QED
  BY <1>1, <1>2, <1>3, Known, PTL DEF HcSpec

=============================================================================

------------------------------ MODULE HotCode -------------------------------
(***************************************************************************)
(* The versions of one module under hot loading: the dual-version registry *)
(* (module.rs), hot load, purge and delete (scheduler/module_management),  *)
(* the version a process is pinned to (interpreter, process/mod.rs), and   *)
(* the profiler and the cache of compiled code (jit/) that the calls of    *)
(* every process share.                                                    *)
(*                                                                         *)
(* A version is named by the number of its load; its generation is what    *)
(* the registry of its namespace gave it, and all that the profiler and    *)
(* the cache know of it.  One function of the module is called, locally or *)
(* fully qualified; the module that started a process is Home.             *)
(***************************************************************************)
EXTENDS Naturals, Sequences, FiniteSets

CONSTANTS Spaces,       \* the namespaces; each has a registry
          DefaultSpace, \* the one the scheduler's own calls work in
          Runners,      \* seats of processes: a seat is taken again after an exit
          CodeServers,  \* threads that load, purge and delete
          HomeStarts,   \* whether a process may start in Home
          CodeOps,      \* bound: the calls of the code servers
          MaxLoads, MaxEpochs, MaxStack

ASSUME HotCodeAssumption ==
  /\ DefaultSpace \in Spaces /\ HomeStarts \in BOOLEAN
  /\ CodeOps \subseteq {"load", "purge", "force", "delete"}
  /\ {MaxLoads, MaxEpochs, MaxStack} \subseteq Nat

Versions == 1 .. MaxLoads
NoVersion == 0
Home == MaxLoads + 1

VARIABLES
  registry,   \* each namespace: the current and the old version, the next generation
  generation, \* the generation each version was given
  loads,      \* versions loaded so far
  cached,     \* JitCache: the version whose code is cached for each generation
  profile,    \* JitProfiler: the function's profile
  epochs,     \* next_epoch, less one
  jobs,       \* compilations under way
  runner,     \* the processes
  server,     \* the code servers
  forsaken    \* ghost: the versions deleted or purged by force

hcCode == <<registry, generation, loads, forsaken>>
hcHeat == <<profile, epochs, jobs>>
hcVars == <<hcCode, cached, hcHeat, runner, server>>

NoProfile == [state |-> "none", gen |-> 0, epoch |-> 0]

(* A seat without a process.  pin is current_module, pos the version whose  *)
(* layout the code position indexes, call the version a call has resolved, *)
(* native the version whose compiled code runs, slice the version the      *)
(* worker holds for the slice.                                             *)
NoRunner == [slot |-> "none", at |-> "run", space |-> DefaultSpace, pin |-> NoVersion,
             pos |-> NoVersion, frames |-> <<>>, call |-> NoVersion,
             native |-> NoVersion, slice |-> NoVersion]

IdleServer == [op |-> "none", space |-> DefaultSpace, at |-> "idle", gen |-> 0,
               held |-> NoVersion, scan |-> {}, found |-> {}]

HcInit ==
  /\ registry = [s \in Spaces |-> [current |-> NoVersion, old |-> NoVersion, next |-> 1]]
  /\ generation = [v \in Versions |-> 0] /\ loads = 0
  /\ cached = [g \in Versions |-> NoVersion] /\ profile = NoProfile
  /\ epochs = 0 /\ jobs = {}
  /\ runner = [r \in Runners |-> NoRunner]
  /\ server = [t \in CodeServers |-> IdleServer] /\ forsaken = {}

-----------------------------------------------------------------------------
(* The registry, each operation under the lock of the module's entry. *)

Current(s) == registry[s].current
Old(s) == registry[s].old

(* insert_version: the current version becomes old; a name without versions *)
(* goes on with the numbering of its slot.                                  *)
Insert(s) ==
  LET fresh == loads + 1
      g == IF Current(s) # NoVersion THEN generation[Current(s)] + 1 ELSE registry[s].next
  IN /\ loads < MaxLoads /\ g \in Versions
     /\ loads' = fresh /\ UNCHANGED forsaken
     /\ generation' = [generation EXCEPT ![fresh] = g]
     /\ registry' = [registry EXCEPT
                       ![s] = [current |-> fresh, old |-> Current(s), next |-> g + 1]]

(* Mutant: a deleted name's numbering starts again at 1. *)
RemoveRestarting(s) ==
  /\ registry' = [registry EXCEPT ![s] = [current |-> NoVersion, old |-> NoVersion, next |-> 1]]
  /\ forsaken' = forsaken \cup ({Current(s), Old(s)} \ {NoVersion})
  /\ UNCHANGED <<generation, loads>>

(* delete_module: the slot stays, and with it the next generation. *)
RemoveAll(s) ==
  /\ registry' = [registry EXCEPT ![s].current = NoVersion, ![s].old = NoVersion]
  /\ forsaken' = forsaken \cup ({Current(s), Old(s)} \ {NoVersion})
  /\ UNCHANGED <<generation, loads>>

(* What a process keeps alive. *)
Holds(q, v) ==
  q.slot # "none" /\ (v \in {q.pin, q.call, q.slice} \/ \E i \in DOMAIN q.frames : q.frames[i] = v)

(* Some Arc besides the registry's own points to the version. *)
Referenced(v) ==
  \/ \E r \in Runners : Holds(runner[r], v)
  \/ \E t \in CodeServers : server[t].held = v

(* references_module: the current module or a frame. *)
References(q, v) == v = q.pin \/ \E i \in DOMAIN q.frames : q.frames[i] = v

-----------------------------------------------------------------------------
(* The profiler and the cache: one profile and one line of cached code for *)
(* the function, whichever namespace calls it.                             *)

(* Only a call makes a profile, or moves its stamps to a newer generation. *)
Stamped(g) ==
  IF profile.state = "none" \/ g > profile.gen
  THEN [state |-> "interpreting", gen |-> g, epoch |-> epochs + 1]
  ELSE profile

(* record_call and the submission: below the threshold, or refused by the  *)
(* pool, nothing is under way; otherwise one job compiles this version.    *)
RecordCall(v) ==
  LET g == generation[v]
      p == Stamped(g)
  IN \/ profile.state # "none" /\ g < profile.gen /\ UNCHANGED hcHeat
     \/ /\ profile.state = "none" \/ g >= profile.gen
        /\ p.epoch <= MaxEpochs
        /\ epochs' = IF p.epoch > epochs THEN p.epoch ELSE epochs
        /\ \/ profile' = p /\ UNCHANGED jobs
           \/ /\ p.state = "interpreting"
              /\ profile' = [p EXCEPT !.state = "pending"]
              /\ jobs' = jobs \cup {[gen |-> g, epoch |-> p.epoch, version |-> v]}

(* set_state and its like: a verdict is only for the profile the job was   *)
(* submitted for.                                                          *)
Answers(j) == profile.state # "none" /\ profile.gen = j.gen /\ profile.epoch = j.epoch

(* publish_compiled: the cache and the profile change together. *)
PublishCompiled(j) ==
  cached' = [cached EXCEPT ![j.gen] = j.version] /\ profile' = [profile EXCEPT !.state = "compiled"]

(* A job ends: compiled, refused for good, or to be tried again. *)
JobEnds ==
  /\ \E j \in jobs :
       /\ jobs' = jobs \ {j}
       /\ \/ Answers(j) /\ PublishCompiled(j)
          \/ /\ Answers(j) /\ UNCHANGED cached
             /\ \E verdict \in {"unsupported", "interpreting"} :
                  profile' = [profile EXCEPT !.state = verdict]
          \/ ~Answers(j) /\ UNCHANGED <<cached, profile>>
  /\ UNCHANGED <<hcCode, epochs, runner, server>>

-----------------------------------------------------------------------------
(* Processes *)

Become(r, q) ==
  runner' = [runner EXCEPT ![r] = q] /\ UNCHANGED <<hcCode, server>>

(* The process is gone; a purge that meant to kill it finds nobody. *)
Leave(r) ==
  /\ runner' = [runner EXCEPT ![r] = NoRunner]
  /\ server' = [t \in CodeServers |-> [server[t] EXCEPT !.found = @ \ {r}]]
  /\ UNCHANGED hcCode

(* spawn: the request carries the version that was current. *)
SpawnRunner(r, s) ==
  /\ runner[r].slot = "none"
  /\ \E v \in {Current(s)} \cup (IF HomeStarts THEN {Home} ELSE {}) :
       /\ v # NoVersion
       /\ Become(r, [NoRunner EXCEPT !.slot = "queued", !.space = s, !.pin = v, !.pos = v])
  /\ UNCHANGED <<cached, hcHeat>>

(* A worker, or a purge that drains the queues, takes the request and makes *)
(* the body of it.                                                          *)
TakeRequest(r) ==
  /\ \/ runner[r].slot = "queued" /\ Become(r, [runner[r] EXCEPT !.slot = "popped"])
     \/ runner[r].slot = "popped" /\ Become(r, [runner[r] EXCEPT !.slot = "present"])
  /\ UNCHANGED <<cached, hcHeat>>

(* A slice begins in the pinned version when its name is the position's    *)
(* and the position is inside its code, in the current version otherwise.  *)
BeginSlice(r) ==
  LET q == runner[r]
      now == Current(q.space)
      in(v) == Become(r, [q EXCEPT !.slot = "executing", !.pin = v, !.slice = v])
  IN /\ q.slot = "present"
     /\ \/ (q.pin = Home) = (q.pos = Home) /\ in(q.pin)
        \/ q.pin # q.pos /\ now # NoVersion /\ in(now)
        \/ q.pin # q.pos /\ now = NoVersion /\ Leave(r)
     /\ UNCHANGED <<cached, hcHeat>>

OnWorker(r) == runner[r].slot \in {"executing", "doomed"}
Interpreting(r) == OnWorker(r) /\ runner[r].at = "run"

(* call and call_ext, in body or in tail position: a local call stays in   *)
(* the version, a fully qualified one finds the current version.           *)
CallFunction(r) ==
  LET q == runner[r]
      to(v, frames) == [q EXCEPT !.at = "entry", !.pos = q.pin, !.call = v, !.frames = frames]
  IN /\ Interpreting(r)
     /\ \/ \E v \in {Current(q.space), q.pin} \ {NoVersion, Home} :
             \/ Become(r, to(v, q.frames))
             \/ Len(q.frames) < MaxStack /\ Become(r, to(v, Append(q.frames, q.pin)))
        \/ Current(q.space) = NoVersion /\ Leave(r)
     /\ UNCHANGED <<cached, hcHeat>>

(* The bytecode of the called version. *)
Interpret(q) ==
  [q EXCEPT !.at = "run", !.pin = q.call, !.pos = q.call, !.call = NoVersion, !.native = NoVersion]

(* dispatch_local_jit and dispatch_external_jit: cached code of the called *)
(* generation runs at once, and only the code position tells.              *)
EnterFunction(r) ==
  LET q == runner[r]
      code == cached[generation[q.call]]
  IN /\ OnWorker(r) /\ q.at = "entry"
     /\ \/ code # NoVersion /\ Become(r, [q EXCEPT !.at = "native", !.native = code, !.pos = q.call])
        \/ code = NoVersion /\ Become(r, [q EXCEPT !.at = "miss"])
        \/ Become(r, Interpret(q))  \* not an entry of the function
     /\ UNCHANGED <<cached, hcHeat>>

(* record_jit_call_miss, and then the bytecode. *)
RecordMiss(r) ==
  /\ OnWorker(r) /\ runner[r].at = "miss"
  /\ RecordCall(runner[r].call)
  /\ Become(r, Interpret(runner[r])) /\ UNCHANGED cached

(* return_, from bytecode or from compiled code: into the version pinned by *)
(* the frame; with no frame left the process ends.                          *)
ReturnFromFunction(r) ==
  LET q == runner[r]
      top == q.frames[Len(q.frames)]
  IN /\ Interpreting(r) \/ (OnWorker(r) /\ q.at = "native")
     /\ IF q.frames = <<>> THEN Leave(r)
        ELSE Become(r, [q EXCEPT !.at = "run", !.pin = top, !.pos = top,
                          !.frames = SubSeq(@, 1, Len(@) - 1),
                          !.call = NoVersion, !.native = NoVersion])
     /\ UNCHANGED <<cached, hcHeat>>

(* The slice ends: the body goes back to its slot, unless the process was  *)
(* killed meanwhile.                                                       *)
PutBack(r, q) ==
  IF runner[r].slot = "doomed" THEN Leave(r)
  ELSE Become(r, [q EXCEPT !.slot = "present", !.at = "run", !.slice = NoVersion,
                    !.call = NoVersion, !.native = NoVersion])

EndSlice(r) ==
  Interpreting(r) /\ PutBack(r, runner[r]) /\ UNCHANGED <<cached, hcHeat>>

(* Compiled code gives up, and the bytecode starts over; or it waits for a *)
(* message, and the slice ends where it is.                                *)
LeaveNative(r) ==
  /\ OnWorker(r) /\ runner[r].at = "native"
  /\ \/ Become(r, Interpret(runner[r]))
     \/ PutBack(r, runner[r])
  /\ UNCHANGED <<cached, hcHeat>>

-----------------------------------------------------------------------------
(* Code servers *)

Serve(t, s) ==
  server' = [server EXCEPT ![t] = s] /\ UNCHANGED <<hcHeat, runner>>

(* The calls: a load is refused while an old version is kept; the purge of *)
(* a BIF drains no queue; delete works in the default namespace (and only  *)
(* while MaxLoads leaves a load to follow it).                             *)
BeginOp(t, s) ==
  /\ server[t].at = "idle"
  /\ \E op \in CodeOps, first \in {"previous", "drain", "lookup", "profile"} :
       /\ CASE op = "load" -> first = "previous" /\ Old(s) = NoVersion
            [] op = "purge" -> first = "drain" \/ (first = "lookup" /\ s = DefaultSpace)
            [] op = "force" -> first = "drain"
            [] op = "delete" -> first = "profile" /\ s = DefaultSpace /\ loads < MaxLoads
       /\ Serve(t, [IdleServer EXCEPT !.op = op, !.space = s, !.at = first])
  /\ UNCHANGED <<hcCode, cached>>

(* hot_load_module: the generation about to become old is read before      *)
(* on_load runs, and forgotten by the cache after the insert.              *)
LoadStep(t) ==
  LET me == server[t]
  IN \/ /\ me.at = "previous"
        /\ Serve(t, [me EXCEPT !.at = "commit",
                       !.gen = IF Current(me.space) = NoVersion THEN 0
                               ELSE generation[Current(me.space)]])
        /\ UNCHANGED <<hcCode, cached>>
     \/ me.at = "commit" /\ Serve(t, IdleServer) /\ UNCHANGED <<hcCode, cached>>  \* on_load fails
     \/ /\ me.at = "commit" /\ Insert(me.space)
        /\ Serve(t, IF me.gen = 0 THEN IdleServer ELSE [me EXCEPT !.at = "invalidate"])
        /\ UNCHANGED cached

(* The search for processes in the old version: bodies in their slots are  *)
(* looked at one by one, the ones being executed are passed over.          *)
ScanStep(t) ==
  LET me == server[t]
      old == Old(me.space)
  IN /\ \/ /\ me.at = "drain" /\ \A r \in Runners : runner[r].slot # "queued"
           /\ Serve(t, [me EXCEPT !.at = "lookup"])
        \/ /\ me.at = "lookup" /\ old # NoVersion
           /\ Serve(t, [me EXCEPT !.at = "scan", !.held = old, !.scan = Runners])
        \/ /\ me.at = "lookup" /\ old = NoVersion
           /\ Serve(t, IF me.op = "force" THEN IdleServer ELSE [me EXCEPT !.at = "gen"])
        \/ /\ me.at = "scan" /\ \E r \in me.scan :
             Serve(t, [me EXCEPT !.scan = @ \ {r},
                         !.found = IF /\ runner[r].slot = "present"
                                      /\ runner[r].space = me.space
                                      /\ References(runner[r], me.held)
                                   THEN @ \cup {r} ELSE @])
        \/ /\ me.at = "scan" /\ me.scan = {}
           /\ Serve(t, CASE me.op = "force" -> [me EXCEPT !.at = "kill"]
                         [] me.found # {} -> IdleServer
                         [] OTHER -> [me EXCEPT !.at = "gen", !.held = NoVersion])
     /\ UNCHANGED <<hcCode, cached>>

(* Mutant: the version is removed whoever still runs it. *)
PurgeCarelessly(t) ==
  LET me == server[t]
  IN /\ me.at = "purge"
     /\ IF Old(me.space) = NoVersion
        THEN Serve(t, IdleServer) /\ UNCHANGED hcCode
        ELSE /\ registry' = [registry EXCEPT ![me.space].old = NoVersion]
             /\ Serve(t, IF me.gen = 0 THEN IdleServer ELSE [me EXCEPT !.at = "invalidate"])
             /\ UNCHANGED <<generation, loads, forsaken>>
     /\ UNCHANGED cached

(* purge_old, under the entry's lock: refused while anything but the       *)
(* registry points to the version.                                         *)
PurgeOld(t) ==
  LET me == server[t]
      old == Old(me.space)
  IN /\ me.at = "purge"
     /\ IF old = NoVersion \/ Referenced(old)
        THEN Serve(t, IdleServer) /\ UNCHANGED hcCode
        ELSE /\ registry' = [registry EXCEPT ![me.space].old = NoVersion]
             /\ Serve(t, IF me.gen = 0 THEN IdleServer ELSE [me EXCEPT !.at = "invalidate"])
             /\ UNCHANGED <<generation, loads, forsaken>>
     /\ UNCHANGED cached

(* purge_module, after the search. *)
PurgeStep(t) ==
  LET me == server[t]
      old == Old(me.space)
  IN \/ /\ me.at = "gen"
        /\ Serve(t, [me EXCEPT !.at = "purge",
                       !.gen = IF old = NoVersion THEN 0 ELSE generation[old]])
        /\ UNCHANGED <<hcCode, cached>>
     \/ PurgeOld(t)
     \/ /\ me.at = "invalidate" /\ Serve(t, IdleServer)
        /\ cached' = [cached EXCEPT ![me.gen] = NoVersion] /\ UNCHANGED hcCode

(* force_purge_module, after the search: everyone found is killed, and the *)
(* old version goes, whichever it is by now.                               *)
ForceStep(t) ==
  LET me == server[t]
      old == Old(me.space)
  IN \/ /\ me.at = "kill" /\ \E r \in me.found :
             /\ runner' = [runner EXCEPT
                  ![r] = IF OnWorker(r) THEN [@ EXCEPT !.slot = "doomed"] ELSE NoRunner]
             /\ server' = [u \in CodeServers |-> [server[u] EXCEPT !.found = @ \ {r}]]
        /\ UNCHANGED <<hcCode, cached, hcHeat>>
     \/ /\ me.at = "kill" /\ me.found = {}
        /\ registry' = [registry EXCEPT ![me.space].old = NoVersion]
        /\ forsaken' = forsaken \cup ({old} \ {NoVersion})
        /\ Serve(t, IF old = NoVersion THEN IdleServer ELSE [me EXCEPT !.at = "clear"])
        /\ UNCHANGED <<generation, loads, cached>>
     \/ /\ me.at = "clear" /\ Serve(t, IdleServer)
        /\ cached' = [g \in Versions |-> NoVersion] /\ UNCHANGED hcCode

(* delete_module: the profile, the cache and the registry, in this order.  *)
DeleteStep(t) ==
  LET me == server[t]
  IN \/ /\ me.at = "profile" /\ profile' = NoProfile
        /\ server' = [server EXCEPT ![t].at = "cache"]
        /\ UNCHANGED <<hcCode, cached, epochs, jobs, runner>>
     \/ /\ me.at = "cache" /\ Serve(t, [me EXCEPT !.at = "remove"])
        /\ cached' = [g \in Versions |-> NoVersion] /\ UNCHANGED hcCode
     \/ me.at = "remove" /\ RemoveAll(me.space) /\ Serve(t, IdleServer) /\ UNCHANGED cached

-----------------------------------------------------------------------------
RunnerStep(r) ==
  \/ \E s \in Spaces : SpawnRunner(r, s)
  \/ TakeRequest(r) \/ BeginSlice(r) \/ EndSlice(r)
  \/ CallFunction(r) \/ EnterFunction(r) \/ RecordMiss(r) \/ ReturnFromFunction(r)
  \/ LeaveNative(r)

ServerStep(t) ==
  \/ \E s \in Spaces : BeginOp(t, s)
  \/ LoadStep(t) \/ ScanStep(t) \/ PurgeStep(t) \/ ForceStep(t) \/ DeleteStep(t)

HcNext ==
  \/ \E r \in Runners : RunnerStep(r)
  \/ \E t \in CodeServers : ServerStep(t)
  \/ JobEnds

HcSpec == HcInit /\ [][HcNext]_hcVars

-----------------------------------------------------------------------------
(* Properties *)

HotCodeTypeOK ==
  /\ registry \in [Spaces -> [current : 0 .. MaxLoads, old : 0 .. MaxLoads, next : 1 .. MaxLoads + 1]]
  /\ generation \in [Versions -> 0 .. MaxLoads] /\ loads \in 0 .. MaxLoads
  /\ cached \in [Versions -> 0 .. MaxLoads] /\ epochs \in 0 .. MaxEpochs
  /\ profile \in [state : {"none", "interpreting", "pending", "compiled", "unsupported"},
                  gen : 0 .. MaxLoads, epoch : 0 .. MaxEpochs]
  /\ jobs \subseteq [gen : Versions, epoch : 1 .. MaxEpochs, version : Versions]
  /\ \A r \in Runners :
       /\ runner[r].slot \in {"none", "queued", "popped", "present", "executing", "doomed"}
       /\ runner[r].at \in {"run", "entry", "miss", "native"}
       /\ runner[r].pin \in 0 .. Home /\ Len(runner[r].frames) <= MaxStack
       /\ runner[r].at \in {"entry", "miss", "native"} <=> runner[r].call # NoVersion
       /\ runner[r].at = "native" <=> runner[r].native # NoVersion

(* The compiled code a call runs was compiled from the version it called:  *)
(* of a function loaded again, deleted or loaded anew, no stale code.      *)
(* (module.rs: a reload continues the numbering, so stale JIT state can    *)
(* never share a generation with the replacement.)                         *)
NativeCodeIsOwn ==
  \A r \in Runners : runner[r].native # NoVersion => runner[r].native = runner[r].call

(* Whatever a process runs or will return into is the current or the old   *)
(* version of the module, until somebody deletes it or purges it by force: *)
(* a load and a safe purge never take it away.                             *)
UsedCodeIsRetained ==
  \A r \in Runners, v \in Versions \ forsaken :
    Holds(runner[r], v) => \E s \in Spaces : v \in {Current(s), Old(s)}

(* A slice runs the version its position was computed in: a process goes   *)
(* on in its version after a yield, and changes it at fully qualified      *)
(* calls only (docs/design/beamr/briefs/B-042.md).  Compiled code that is  *)
(* entered by such a call and waits for a message breaks it: the pin is    *)
(* still the caller's.                                                     *)
ResumesInItsVersion ==
  \A r \in Runners : Interpreting(r) => runner[r].pin = runner[r].pos

(* A process in the old version does not outlive a forced purge.  Does not *)
(* hold: a process on a worker is passed over by the search.               *)
ForcedPurgeKillsAll ==
  \A t \in CodeServers, r \in Runners :
    server[t].at = "clear" =>
      ~(runner[r].slot \in {"present", "executing"} /\ runner[r].space = server[t].space
         /\ References(runner[r], server[t].held))
=============================================================================

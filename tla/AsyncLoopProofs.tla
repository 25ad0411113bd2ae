---------------------------- MODULE AsyncLoopProofs ----------------------------
(***************************************************************************)
(* Proofs about AsyncLoop, for any exports and tasks.                      *)
(*                                                                         *)
(* Four layers say which call the loop works on (Control), that each task  *)
(* that can run is in exactly one queue, which is its own call's (Queues), *)
(* who awaits whom (Waits), and which waitables are joined (Waitables).    *)
(* Steps are first sorted into kinds.  Two more count the tasks a call     *)
(* still owes (CountInv) and say that only plain tasks are awaited         *)
(* (Plainly): a call with nothing to wait for then has a cause for it.     *)
(***************************************************************************)
EXTENDS AsyncLoop, QueueLemmas, FiniteSetTheorems, FunctionTheorems

Typed ==
  /\ stage \in [Exports -> {"idle", "polling", "batch", "waiting", "exited"}]
  /\ set \in [Exports -> {"none", "open", "dropped"}]
  /\ futures \in [Exports -> SUBSET Tasks]
  /\ handles \in [Exports -> Seq(Tasks)]
  /\ polled \in Exports \cup {NoExport}
  /\ batch \in Seq(Tasks) /\ cur \in Tasks \cup {NoTask}
  /\ kind \in [Tasks -> {"none", "main", "spawned", "plain"}]
  /\ home \in [Tasks -> Exports \cup {NoExport}]
  /\ job \in [Tasks -> {"absent", "ready", "calls", "joins"} \cup Ended]
  /\ awaits \in [Tasks -> Tasks \cup {NoTask}]
  /\ doomed \subseteq Tasks /\ pauses \in 0..MaxPauses
  /\ subtask \in [Tasks -> {"none", "starting", "started", "end"}]
  /\ joined \subseteq Tasks

\* One call at a time is polled, and only it has a batch.
Control ==
  /\ \A x \in Exports : (stage[x] \in {"polling", "batch"}) <=> (polled = x)
  /\ batch # <<>> \/ cur # NoTask => polled \in Exports /\ stage[polled] = "batch"
  /\ \A t \in Tasks : home[t] \in Exports => stage[home[t]] # "idle"

Queues ==
  /\ NoRepeats(batch)
  /\ \A x \in Exports : NoRepeats(handles[x])
  /\ \A x \in Exports, t \in Tasks : t \in Entries(handles[x]) =>
       home[t] = x /\ job[t] = "ready" /\ t \notin Entries(batch) /\ t # cur
  /\ \A t \in Tasks : t \in Entries(batch) => home[t] = polled /\ job[t] = "ready" /\ t # cur
  /\ \A t \in Tasks : t = cur => home[t] = polled /\ job[t] = "ready"
  /\ \A t \in Tasks : job[t] = "ready" =>
       t = cur \/ t \in Entries(batch) \/ t \in Entries(handles[home[t]])

Waits ==
  /\ \A t \in Tasks : (job[t] = "joins") <=> (awaits[t] # NoTask)
  /\ \A t \in Tasks : awaits[t] # NoTask => job[awaits[t]] \notin Ended \cup {"absent"}
  /\ \A s, t \in Tasks : awaits[s] = awaits[t] /\ awaits[s] # NoTask => s = t
  /\ \A t \in Tasks : (job[t] = "absent") <=> (kind[t] = "none")
  /\ \A t \in Tasks : job[t] # "absent" => home[t] \in Exports

Waitables ==
  /\ \A t \in Tasks : (t \in joined) <=> (subtask[t] # "none")
  /\ \A t \in Tasks : job[t] = "calls" => t \in joined
  /\ \A t \in joined : job[t] # "absent" /\ (t \in doomed \/ job[t] = "calls")
  /\ \A x \in Exports, t \in Tasks : (t \in futures[x]) <=> (t \in joined /\ home[t] = x)
  /\ \A x \in Exports : futures[x] # {} => set[x] = "open"

LoopInv == Typed /\ Control /\ Queues /\ Waits /\ Waitables

LEMMA InitLoop == Init => LoopInv
<1> SUFFICES ASSUME Init PROVE LoopInv
  OBVIOUS
<1> USE NoNames, PausesAssumption DEF Init
<1>1. Typed
  BY DEF Typed
<1>2. Control
  BY DEF Control
<1>3. Queues
  BY EmptyQueue DEF Queues
<1>4. Waits
  BY DEF Waits
<1>5. Waitables
  BY DEF Waitables
<1> QED
  BY <1>1, <1>2, <1>3, <1>4, <1>5 DEF LoopInv

LEMMA NewIs == ASSUME Unused # {} PROVE New \in Tasks /\ job[New] = "absent"
  BY DEF New, Unused

-----------------------------------------------------------------------------
(* The kinds of steps. *)

\* Nothing changes, except for the trap and what asyncio reported.
Halts == UNCHANGED <<stateVars, polled, batch, cur, taskVars, hostVars>>

Turns(x) ==
  /\ polled = x /\ stage[x] = "batch" /\ cur = NoTask /\ batch = <<>>
  /\ stage' = [stage EXCEPT ![x] = "polling"]
  /\ UNCHANGED <<set, futures, handles, pending, loopVars, taskVars, hostVars>>

\* The loop returns to the host.
Leaves(x) ==
  /\ polled = x /\ stage[x] = "polling" /\ polled' = NoExport
  /\ \E to \in {"waiting", "exited"} : stage' = [stage EXCEPT ![x] = to]
  /\ \/ set' = set
     \/ /\ set[x] = "open" => JoinedIn(x) = {}
        /\ set' = [set EXCEPT ![x] = IF @ = "open" THEN "dropped" ELSE @]
  /\ UNCHANGED <<futures, handles, pending, batch, cur, exception, erased, trap, taskVars, hostVars>>

Answered(x, t) ==
  /\ stage[x] = "waiting" /\ polled = NoExport /\ t \in JoinedIn(x) /\ t \notin doomed
  /\ subtask[t] \in {"starting", "started"}
  /\ joined' = joined \ {t} /\ subtask' = [subtask EXCEPT ![t] = "none"]
  /\ futures' = [futures EXCEPT ![x] = @ \ {t}]
  /\ job' = [job EXCEPT ![t] = "ready"]
  /\ handles' = [handles EXCEPT ![x] = Append(@, t)]
  /\ stage' = [stage EXCEPT ![x] = "polling"] /\ polled' = x
  /\ UNCHANGED <<set, pending, batch, cur, exception, erased, trap, kind, home, awaits,
                 doomed, pauses, results>>

HostKind ==
  \E x \in Exports :
    \/ FirstPoll(x) \/ Leaves(x)
    \/ \E t \in Tasks : Started(x, t) \/ Answered(x, t)

LoopKind == \E x \in Exports : TakeHandles(x) \/ RunHandle(x) \/ Turns(x)

TaskKind ==
  \E t \in Tasks :
    \/ CallBlocks(t) \/ Yield(t)
    \/ \E u \in Tasks : Await(t, u) \/ Cancel(t, u)
    \/ \E how \in {"spawned", "plain"} : Runs(t) /\ Begins(t, how)
    \/ \E how \in Ended : Runs(t) /\ (how = "cancelled" => t \in doomed) /\ Ends(t, how)

LEMMA Sorted == ASSUME [Next]_vars PROVE Halts \/ HostKind \/ LoopKind \/ TaskKind
<1>1. CASE UNCHANGED vars
  BY <1>1 DEF vars, loopVars, Halts
<1>2. CASE \E x \in Exports : Loop(x)
  <2>1. PICK x \in Exports : Loop(x)
    BY <1>2
  <2>2. CASE TakeHandles(x) \/ RunHandle(x)
    BY <2>2 DEF LoopKind
  <2>3. CASE BatchDone(x)
    BY <2>3 DEF BatchDone, LoopKind, Turns, Halts, Traps
  <2>4. CASE Exit(x)
    BY <2>4 DEF Exit, Polled, HostKind, Leaves, Halts, Traps
  <2>5. CASE Wait(x)
    BY <2>5 DEF Wait, Polled, HostKind, Leaves, Halts, Traps
  <2> QED
    BY <2>1, <2>2, <2>3, <2>4, <2>5 DEF Loop
<1>3. CASE \E t \in Tasks : TaskStep(t) \/ Unwind(t)
  <2>1. PICK t \in Tasks : TaskStep(t) \/ Unwind(t)
    BY <1>3
  <2>2. CASE CallBlocks(t) \/ Yield(t) \/ \E u \in Tasks : Await(t, u) \/ Cancel(t, u)
    BY <2>2 DEF TaskKind
  <2>3. CASE Quits(t)
    BY <2>3 DEF Quits, Halts, Traps
  <2>4. CASE Spawn(t) \/ CreateTask(t)
    <3>1. \E how \in {"spawned", "plain"} : Runs(t) /\ Begins(t, how)
      BY <2>4 DEF Spawn, Spawns, CreateTask, Active
    <3> QED
      BY <3>1 DEF TaskKind
  <2>5. CASE ReturnResult(t) \/ SpawnedEnds(t) \/ PlainEnds(t) \/ TaskFails(t)
             \/ Unwind(t)
    <3>1. \E how \in Ended : Runs(t) /\ (how = "cancelled" => t \in doomed) /\ Ends(t, how)
      BY <2>5 DEF ReturnResult, SpawnedEnds, PlainEnds, TaskFails, Active, Ended, Unwind, Fails
    <3> QED
      BY <3>1 DEF TaskKind
  <2> QED
    BY <2>1, <2>2, <2>3, <2>4, <2>5 DEF TaskStep
<1>4. CASE Host
  <2>1. PICK x \in Exports : \/ FirstPoll(x) \/ CancelCall(x)
                             \/ \E t \in Tasks : Started(x, t) \/ Returned(x, t) \/ EndEvent(x, t)
    BY <1>4 DEF Host
  <2>2. CASE FirstPoll(x) \/ \E t \in Tasks : Started(x, t)
    BY <2>2 DEF HostKind
  <2>3. CASE CancelCall(x) \/ \E t \in Tasks : EndEvent(x, t)
    BY <2>3 DEF CancelCall, EndEvent, Halts, Traps
  <2>4. ASSUME NEW t \in Tasks, Returned(x, t) PROVE Halts \/ HostKind
    BY <2>4 DEF Returned, Entered, HostKind, Answered, Halts, Traps, Forget
  <2> QED
    BY <2>1, <2>2, <2>3, <2>4
<1>5. CASE Misuse
  BY <1>5 DEF Misuse, Halts, Traps
<1>6. CASE CallExceptionHandler
  BY <1>6 DEF CallExceptionHandler, Halts
<1>7. CASE Quiet
  BY <1>1, <1>7 DEF Quiet
<1> QED
  BY <1>1, <1>2, <1>3, <1>4, <1>5, <1>6, <1>7 DEF Next, Guest

-----------------------------------------------------------------------------
(* What each kind of step keeps. *)

LEMMA HaltsKeeps == ASSUME LoopInv, Halts PROVE LoopInv'
  BY DEF LoopInv, Typed, Control, Queues, Waits, Waitables, JoinedIn, Halts, stateVars,
         taskVars, hostVars

LEMMA FirstPollKeeps ==
  ASSUME LoopInv, NEW x \in Exports, FirstPoll(x) PROVE LoopInv'
<1> DEFINE t == New
<1>1. t \in Tasks /\ job[t] = "absent"
  BY NewIs DEF FirstPoll
<1>2. Typed /\ Control /\ Queues /\ Waits /\ Waitables
  BY DEF LoopInv
<1>3. /\ stage[x] = "idle" /\ polled = NoExport /\ stage' = [stage EXCEPT ![x] = "polling"]
      /\ polled' = x /\ handles' = [handles EXCEPT ![x] = <<t>>]
      /\ kind' = [kind EXCEPT ![t] = "main"] /\ home' = [home EXCEPT ![t] = x]
      /\ job' = [job EXCEPT ![t] = "ready"]
      /\ UNCHANGED <<set, futures, batch, cur, awaits, doomed, pauses, subtask, joined>>
  BY DEF FirstPoll, Entered, hostVars
<1> HIDE DEF t
<1>4. Typed'
  BY <1>1, <1>2, <1>3 DEF Typed
<1>5. Control'
  BY <1>1, <1>2, <1>3, NoNames DEF Typed, Control
<1>6. batch = <<>> /\ cur = NoTask
  BY <1>2, <1>3, NoNames DEF Typed, Control
<1>7. Waits'
  BY <1>1, <1>2, <1>3, NoNames DEF Typed, Waits, Ended
<1>8. Waitables'
  BY <1>1, <1>2, <1>3 DEF Typed, Waitables
<1>9. handles'[x] = <<t>> /\ \A y \in Exports : y # x => handles'[y] = handles[y]
  BY <1>2, <1>3 DEF Typed
<1>10. ASSUME NEW u \in Tasks, job[u] = "ready" PROVE u \notin Entries(handles[x])
  BY <1>2, <1>3, <1>10 DEF Typed, Control, Queues
<1>11. Queues'
  BY <1>1, <1>2, <1>3, <1>6, <1>9, <1>10, SingleQueue, EmptyQueue, NoNames DEF Typed, Queues
<1> QED
  BY <1>4, <1>5, <1>7, <1>8, <1>11 DEF LoopInv

LEMMA LeavesKeeps ==
  ASSUME LoopInv, NEW x \in Exports, Leaves(x) PROVE LoopInv'
<1> USE NoNames DEF LoopInv, Leaves, taskVars, hostVars, Typed
<1>1. Typed'
  OBVIOUS
<1>2. Control'
  <2>1. PICK to \in {"waiting", "exited"} : stage' = [stage EXCEPT ![x] = to]
    OBVIOUS
  <2>2. stage'[x] = to /\ \A y \in Exports : y # x => stage'[y] = stage[y]
    BY <2>1
  <2>3. batch' = <<>> /\ cur' = NoTask /\ polled' = NoExport /\ polled = x
    BY DEF Control
  <2>4. \A y \in Exports : (stage'[y] \in {"polling", "batch"}) <=> (polled' = y)
    BY <2>2, <2>3 DEF Control
  <2> QED
    BY <2>2, <2>3, <2>4 DEF Control
<1>3. Queues'
  <2>1. batch = <<>> /\ cur = NoTask /\ Entries(batch) = {}
    BY EmptyQueue DEF Control
  <2> QED
    BY <2>1 DEF Queues
<1>4. Waits'
  BY DEF Waits
<1>5. Waitables'
  BY DEF Waitables, JoinedIn
<1> QED
  BY <1>1, <1>2, <1>3, <1>4, <1>5

LEMMA StartedKeeps ==
  ASSUME LoopInv, NEW x \in Exports, NEW t \in Tasks, Started(x, t) PROVE LoopInv'
<1> USE NoNames DEF LoopInv, Started, Entered, taskVars, Typed
<1>1. Typed'
  OBVIOUS
<1>2. Control'
  <2>1. stage'[x] = "polling" /\ \A y \in Exports : y # x => stage'[y] = stage[y]
    OBVIOUS
  <2>2. batch' = <<>> /\ cur' = NoTask /\ polled' = x /\ polled = NoExport
    BY DEF Control
  <2>3. \A y \in Exports : (stage'[y] \in {"polling", "batch"}) <=> (polled' = y)
    BY <2>1, <2>2 DEF Control
  <2> QED
    BY <2>1, <2>2, <2>3 DEF Control
<1>3. Queues'
  <2>1. batch = <<>> /\ cur = NoTask /\ Entries(batch) = {}
    BY EmptyQueue DEF Control
  <2> QED
    BY <2>1 DEF Queues
<1>4. Waits'
  BY DEF Waits
<1>5. Waitables'
  BY DEF Waitables, JoinedIn
<1> QED
  BY <1>1, <1>2, <1>3, <1>4, <1>5

LEMMA TakeHandlesKeeps ==
  ASSUME LoopInv, NEW x \in Exports, TakeHandles(x) PROVE LoopInv'
<1> USE NoNames DEF LoopInv, TakeHandles, taskVars, hostVars, Typed
<1>1. Typed'
  OBVIOUS
<1>2. Control'
  BY DEF Control
<1>3. Queues'
  <2>1. /\ batch' = handles[x] /\ handles'[x] = <<>> /\ batch = <<>> /\ cur = NoTask
        /\ \A y \in Exports : y # x => handles'[y] = handles[y]
    BY DEF Control
  <2> QED
    BY <2>1, EmptyQueue DEF Queues
<1>4. Waits'
  BY DEF Waits
<1>5. Waitables'
  BY DEF Waitables
<1> QED
  BY <1>1, <1>2, <1>3, <1>4, <1>5

LEMMA RunHandleKeeps ==
  ASSUME LoopInv, NEW x \in Exports, RunHandle(x) PROVE LoopInv'
<1> USE NoNames DEF LoopInv, RunHandle, stateVars, taskVars, hostVars, Typed
<1>1. /\ cur' \in Tasks /\ batch' \in Seq(Tasks)
      /\ cur' \in Entries(batch) /\ Entries(batch') = Entries(batch) \ {cur'}
      /\ NoRepeats(batch')
  BY TakeQueue DEF Queues
<1>2. Typed'
  BY <1>1
<1>3. Control'
  BY DEF Control
<1>4. Queues'
  BY <1>1 DEF Queues
<1>5. Waits'
  BY DEF Waits
<1>6. Waitables'
  BY DEF Waitables
<1> QED
  BY <1>2, <1>3, <1>4, <1>5, <1>6

LEMMA TurnsKeeps ==
  ASSUME LoopInv, NEW x \in Exports, Turns(x) PROVE LoopInv'
<1> USE NoNames DEF LoopInv, Turns, loopVars, taskVars, hostVars, Typed
<1>1. Typed'
  OBVIOUS
<1>2. Control'
  BY DEF Control
<1>3. Queues'
  BY DEF Queues
<1>4. Waits'
  BY DEF Waits
<1>5. Waitables'
  BY DEF Waitables
<1> QED
  BY <1>1, <1>2, <1>3, <1>4, <1>5

LEMMA AnsweredKeeps ==
  ASSUME LoopInv, NEW x \in Exports, NEW t \in Tasks, Answered(x, t) PROVE LoopInv'
<1> USE NoNames DEF LoopInv, Answered, Typed
<1>1. /\ t \in joined /\ home[t] = x /\ job[t] = "calls"
      /\ batch = <<>> /\ cur = NoTask
  BY DEF JoinedIn, Waitables, Control
<1>2. /\ handles'[x] = Append(handles[x], t) /\ \A y \in Exports : y # x => handles'[y] = handles[y]
      /\ handles[x] \in Seq(Tasks)
  OBVIOUS
<1>3. t \notin Entries(handles[x])
  BY <1>1 DEF Queues
<1>4. /\ handles'[x] \in Seq(Tasks) /\ NoRepeats(handles'[x])
      /\ Entries(handles'[x]) = Entries(handles[x]) \cup {t}
  BY <1>2, <1>3, AppendQueue DEF Queues
<1>5. Typed'
  BY <1>2, <1>4
<1>6. Control'
  <2>1. stage'[x] = "polling" /\ \A y \in Exports : y # x => stage'[y] = stage[y]
    OBVIOUS
  <2>2. \A y \in Exports : (stage'[y] \in {"polling", "batch"}) <=> (polled' = y)
    BY <2>1 DEF Control
  <2> QED
    BY <1>1, <2>1, <2>2 DEF Control
<1>7. job'[t] = "ready" /\ \A u \in Tasks : u # t => job'[u] = job[u]
  OBVIOUS
<1>8. Queues'
  BY <1>1, <1>2, <1>4, <1>7, EmptyQueue DEF Queues
<1>9. Waits'
  BY <1>1, <1>7 DEF Waits, Ended
<1>10. Waitables'
  BY <1>1, <1>7 DEF Waitables
<1> QED
  BY <1>5, <1>6, <1>8, <1>9, <1>10

LEMMA BlocksKeeps ==
  ASSUME LoopInv, NEW t \in Tasks, CallBlocks(t) PROVE LoopInv'
<1>1. PICK what \in {"starting", "end"} : Blocks(t, what)
  BY DEF CallBlocks
<1>2. cur = t /\ t \notin doomed
  BY DEF CallBlocks, Active, Runs
<1> USE NoNames, <1>1, <1>2 DEF LoopInv, Blocks, Typed
<1>3. job[t] = "ready" /\ home[t] = polled /\ home[t] \in Exports /\ t \notin joined
  BY DEF Queues, Control, Waitables
<1>4. job'[t] = "calls" /\ \A u \in Tasks : u # t => job'[u] = job[u]
  OBVIOUS
<1>5. Typed'
  BY <1>3, PausesAssumption
<1>6. Control'
  BY DEF Control
<1>7. Queues'
  BY <1>3, <1>4 DEF Queues
<1>8. Waits'
  BY <1>3, <1>4 DEF Waits, Ended
<1>9. Waitables'
  <2>1. \A u \in Tasks : (u \in joined') <=> (subtask'[u] # "none")
    BY DEF Waitables
  <2>2. \A y \in Exports, u \in Tasks : (u \in futures'[y]) <=> (u \in joined' /\ home'[u] = y)
    BY <1>3 DEF Waitables
  <2>3. \A y \in Exports : futures'[y] # {} => set'[y] = "open"
    BY <1>3 DEF Waitables
  <2> QED
    BY <1>4, <2>1, <2>2, <2>3 DEF Waitables
<1> QED
  BY <1>5, <1>6, <1>7, <1>8, <1>9

LEMMA YieldKeeps == ASSUME LoopInv, NEW t \in Tasks, Yield(t) PROVE LoopInv'
<1> USE NoNames DEF LoopInv, Yield, Active, Runs, Typed, hostVars
<1> DEFINE x == home[t]
<1>1. job[t] = "ready" /\ x = polled /\ x \in Exports
  BY DEF Queues, Control
<1>2. t \notin Entries(handles[x])
  BY <1>1 DEF Queues
<1>3. /\ handles'[x] = Append(handles[x], t) /\ \A y \in Exports : y # x => handles'[y] = handles[y]
      /\ handles[x] \in Seq(Tasks)
  BY <1>1
<1>4. /\ handles'[x] \in Seq(Tasks) /\ NoRepeats(handles'[x])
      /\ Entries(handles'[x]) = Entries(handles[x]) \cup {t}
  BY <1>1, <1>2, <1>3, AppendQueue DEF Queues
<1>5. Typed'
  BY <1>1, <1>3, <1>4, PausesAssumption
<1>6. Control'
  BY DEF Control
<1>7. Queues'
  BY <1>1, <1>3, <1>4 DEF Queues
<1>8. Waits'
  BY DEF Waits
<1>9. Waitables'
  BY DEF Waitables
<1> QED
  BY <1>5, <1>6, <1>7, <1>8, <1>9

LEMMA AwaitKeeps ==
  ASSUME LoopInv, NEW t \in Tasks, NEW u \in Tasks, Await(t, u) PROVE LoopInv'
<1> USE NoNames DEF LoopInv, Await, Active, Runs, Typed, hostVars, stateVars
<1>1. job[t] = "ready" /\ home[t] = polled /\ t # u
  BY DEF Queues
<1>2. job'[t] = "joins" /\ \A v \in Tasks : v # t => job'[v] = job[v]
  OBVIOUS
<1>3. awaits'[t] = u /\ \A v \in Tasks : v # t => awaits'[v] = awaits[v]
  OBVIOUS
<1>4. Typed'
  OBVIOUS
<1>5. Control'
  BY DEF Control
<1>6. Queues'
  BY <1>1, <1>2 DEF Queues
<1>7. Waits'
  BY <1>1, <1>2, <1>3 DEF Waits, Ended
<1>8. Waitables'
  BY <1>1, <1>2 DEF Waitables
<1> QED
  BY <1>4, <1>5, <1>6, <1>7, <1>8

\* Cancelling a task that runs or is queued only marks it.
LEMMA CancelKeeps ==
  ASSUME LoopInv, NEW t \in Tasks, NEW u \in Tasks, Cancel(t, u) PROVE LoopInv'
<1>1. CASE job[u] = "calls"
  <2> USE NoNames, <1>1 DEF LoopInv, Cancel, Active, Runs, Typed, hostVars, loopVars
  <2> DEFINE x == home[u]
  <2>1. x \in Exports /\ u \in joined /\ u # cur
    BY DEF Waits, Waitables, Queues
  <2>2. u \notin Entries(handles[x])
    BY <2>1 DEF Queues
  <2>3. /\ handles'[x] = Append(handles[x], u)
        /\ \A y \in Exports : y # x => handles'[y] = handles[y]
        /\ handles[x] \in Seq(Tasks)
    BY <2>1
  <2>4. /\ handles'[x] \in Seq(Tasks) /\ NoRepeats(handles'[x])
        /\ Entries(handles'[x]) = Entries(handles[x]) \cup {u}
    BY <2>1, <2>2, <2>3, AppendQueue DEF Queues
  <2>5. job'[u] = "ready" /\ \A v \in Tasks : v # u => job'[v] = job[v]
    OBVIOUS
  <2>6. Typed'
    <3>1. handles' \in [Exports -> Seq(Tasks)]
      BY <2>1, <2>3, <2>4
    <3>2. job' \in [Tasks -> {"absent", "ready", "calls", "joins"} \cup Ended]
      <4>1. /\ job \in [Tasks -> {"absent", "ready", "calls", "joins"} \cup Ended]
            /\ job' = [job EXCEPT ![u] = "ready"]
        OBVIOUS
      <4> QED
        BY ONLY <4>1
    <3>3. UNCHANGED <<stage, set, futures, loopVars, kind, home, awaits, pauses, hostVars>>
          /\ doomed' \subseteq Tasks
      OBVIOUS
    <3> QED
      BY <3>1, <3>2, <3>3
  <2>7. Control'
    BY DEF Control
  <2>8. u \notin Entries(batch)
    BY DEF Queues
  <2>9. Queues'
    <3>1. \A y \in Exports, v \in Tasks : v \in Entries(handles'[y]) =>
            v \in Entries(handles[y]) \/ (v = u /\ y = x)
      BY <2>3, <2>4
    <3>2. NoRepeats(batch) /\ \A y \in Exports : NoRepeats(handles'[y])
      BY <2>3, <2>4 DEF Queues
    <3>3. \A y \in Exports, v \in Tasks : v \in Entries(handles'[y]) =>
            home[v] = y /\ job'[v] = "ready" /\ v \notin Entries(batch) /\ v # cur
      BY <2>1, <2>5, <2>8, <3>1 DEF Queues
    <3>4. \A v \in Tasks : v \in Entries(batch) =>
            home[v] = polled /\ job'[v] = "ready" /\ v # cur
      BY <2>5 DEF Queues
    <3>5. \A v \in Tasks : v = cur => home[v] = polled /\ job'[v] = "ready"
      BY <2>5 DEF Queues
    <3>6. \A v \in Tasks : job'[v] = "ready" =>
            v = cur \/ v \in Entries(batch) \/ v \in Entries(handles'[home[v]])
      BY <2>1, <2>3, <2>4, <2>5 DEF Queues, Waits
    <3> QED
      BY <3>2, <3>3, <3>4, <3>5, <3>6 DEF Queues
  <2>10. Waits'
    BY <2>5 DEF Waits, Ended
  <2>11. Waitables'
    BY <2>5 DEF Waitables
  <2> QED
    BY <2>6, <2>7, <2>9, <2>10, <2>11
<1>2. CASE job[u] # "calls"
  BY <1>2, NoNames
  DEF Cancel, LoopInv, Typed, Control, Queues, Waits, Waitables, hostVars, loopVars
<1> QED
  BY <1>1, <1>2

LEMMA BeginsKeeps ==
  ASSUME LoopInv, NEW t \in Tasks, NEW how \in {"spawned", "plain"}, Runs(t), Begins(t, how)
  PROVE  LoopInv'
<1> DEFINE x == home[t]
           u == New
<1>1. u \in Tasks /\ job[u] = "absent"
  BY NewIs DEF Begins
<1>2. /\ job' = [job EXCEPT ![u] = "ready"]
      /\ kind' = [kind EXCEPT ![u] = how] /\ home' = [home EXCEPT ![u] = x]
      /\ handles' = [handles EXCEPT ![x] = Append(@, u)]
      /\ UNCHANGED <<stage, set, futures, polled, batch, cur, awaits, doomed, pauses,
                     subtask, joined>>
  BY DEF Begins, hostVars
<1> HIDE DEF u
<1> USE NoNames DEF LoopInv, Typed, Runs
<1>3. x = polled /\ x \in Exports /\ cur = t /\ u # t
  BY <1>1 DEF Queues, Control
<1>4. \A y \in Exports : u \notin Entries(handles[y])
  BY <1>1 DEF Queues
<1>5. /\ handles'[x] = Append(handles[x], u)
      /\ \A y \in Exports : y # x => handles'[y] = handles[y]
      /\ handles[x] \in Seq(Tasks)
  BY <1>2, <1>3
<1>6. /\ handles'[x] \in Seq(Tasks) /\ NoRepeats(handles'[x])
      /\ Entries(handles'[x]) = Entries(handles[x]) \cup {u}
  BY <1>1, <1>3, <1>4, <1>5, AppendQueue DEF Queues
<1>7. /\ job'[u] = "ready" /\ home'[u] = x /\ kind'[u] = how
      /\ \A v \in Tasks : v # u => job'[v] = job[v] /\ home'[v] = home[v] /\ kind'[v] = kind[v]
  BY <1>1, <1>2
<1>8. Typed'
  BY <1>1, <1>2, <1>3, <1>6
<1>9. Control'
  BY <1>2, <1>3, <1>7 DEF Control
<1>10. u \notin Entries(batch)
  BY <1>1 DEF Queues
<1>11. Queues'
  BY <1>2, <1>3, <1>4, <1>5, <1>6, <1>7, <1>10 DEF Queues
<1>12. Waits'
  BY <1>1, <1>2, <1>3, <1>7 DEF Waits, Ended
<1>13. Waitables'
  BY <1>1, <1>2, <1>7 DEF Waitables
<1> QED
  BY <1>8, <1>9, <1>11, <1>12, <1>13

\* A task that ends makes at most one other ready.
LEMMA EndsKeeps ==
  ASSUME LoopInv, NEW t \in Tasks, NEW how \in Ended, Runs(t), Ends(t, how)
  PROVE  LoopInv'
<1> USE NoNames DEF LoopInv, Typed, Runs
<1>1. cur = t /\ job[t] = "ready" /\ awaits[t] = NoTask
  BY DEF Queues, Waits
<1>2. /\ cur' = NoTask
      /\ \A s \in Tasks : awaits'[s] = IF awaits[s] = t THEN NoTask ELSE awaits[s]
      /\ \A s \in Tasks : job'[s] = IF s = t THEN how ELSE IF awaits[s] = t THEN "ready" ELSE job[s]
      /\ doomed \subseteq doomed' /\ doomed' \subseteq Tasks
      /\ UNCHANGED <<stage, set, futures, polled, batch, kind, home, pauses, subtask, joined>>
  BY DEF Ends, Awaiter
<1>3. Control'
  BY <1>2 DEF Control
<1>4. Waitables'
  <2>1. \A s \in Tasks : s \in joined => job[s] # "joins" \/ s \in doomed
    BY DEF Waitables
  <2>2. \A s \in Tasks : awaits[s] = t => job[s] = "joins"
    BY DEF Waits
  <2>3. \A s \in joined : job'[s] # "absent" /\ (s \in doomed' \/ job'[s] = "calls")
    BY <1>1, <1>2, <2>1, <2>2 DEF Waitables, Ended
  <2>4. \A s \in Tasks : job'[s] = "calls" => s \in joined
    BY <1>2 DEF Waitables, Ended
  <2> QED
    BY <1>2, <2>3, <2>4 DEF Waitables
<1>5. Waits'
  <2> how \notin {"absent", "ready", "calls", "joins"}
    BY DEF Ended
  <2>1. \A s \in Tasks : (job'[s] = "joins") <=> (awaits'[s] # NoTask)
    BY <1>1, <1>2 DEF Waits
  <2>2. \A s \in Tasks : awaits'[s] # NoTask => job'[awaits'[s]] \notin Ended \cup {"absent"}
    BY <1>1, <1>2 DEF Waits, Ended
  <2>3. \A s \in Tasks : job'[s] = "absent" <=> job[s] = "absent"
    BY <1>1, <1>2 DEF Waits
  <2>4. /\ \A s \in Tasks : (job'[s] = "absent") <=> (kind'[s] = "none")
        /\ \A s \in Tasks : job'[s] # "absent" => home'[s] \in Exports
    BY <1>2, <2>3 DEF Waits
  <2>5. \A s, r \in Tasks : awaits'[s] = awaits'[r] /\ awaits'[s] # NoTask => s = r
    BY <1>2 DEF Waits
  <2> QED
    BY <2>1, <2>2, <2>3, <2>4, <2>5 DEF Waits
<1>6. CASE Awaiter(t) = {}
  <2>1. \A s \in Tasks : awaits[s] # t
    BY <1>6 DEF Awaiter
  <2>2. handles' = [x \in Exports |-> handles[x]]
    BY <1>6 DEF Ends
  <2>3. handles' = handles
    BY <2>2
  <2>4. job' \in [Tasks -> {"absent", "ready", "calls", "joins"} \cup Ended]
    BY DEF Ends
  <2>5. awaits' \in [Tasks -> Tasks \cup {NoTask}]
    BY DEF Ends
  <2>6. Typed'
    BY <1>2, <2>3, <2>4, <2>5
  <2>7. how # "ready"
    BY DEF Ended
  <2>8. job'[t] = how /\ \A s \in Tasks : s # t => job'[s] = job[s]
    BY <1>2, <2>1
  <2>9. \A s \in Tasks : s # NoTask
    OBVIOUS
  <2>10. /\ \A y \in Exports : t \notin Entries(handles[y])
         /\ t \notin Entries(batch)
    BY <1>1 DEF Queues
  <2>11. Queues'
    BY <1>1, <1>2, <2>3, <2>7, <2>8, <2>9, <2>10 DEF Queues
  <2> QED
    BY <1>3, <1>4, <1>5, <2>6, <2>11
<1>7. CASE Awaiter(t) # {}
  <2> DEFINE u == CHOOSE s \in Awaiter(t) : TRUE
  <2>1. u \in Tasks /\ awaits[u] = t /\ \A s \in Tasks : awaits[s] = t <=> s = u
    BY <1>7 DEF Awaiter, Waits
  <2>2. handles' = [x \in Exports |-> IF home[u] = x THEN Append(handles[x], u) ELSE handles[x]]
    BY <2>1 DEF Ends, Awaiter
  <2> HIDE DEF u
  <2>3. u # t /\ job[u] = "joins" /\ home[u] \in Exports
    BY <1>1, <2>1 DEF Waits
  <2>4. \A y \in Exports : u \notin Entries(handles[y])
    BY <2>1, <2>3 DEF Queues
  <2>5. /\ handles'[home[u]] = Append(handles[home[u]], u)
        /\ \A y \in Exports : y # home[u] => handles'[y] = handles[y]
    BY <2>2, <2>3
  <2>6. /\ handles'[home[u]] \in Seq(Tasks) /\ NoRepeats(handles'[home[u]])
        /\ Entries(handles'[home[u]]) = Entries(handles[home[u]]) \cup {u}
    BY <2>1, <2>3, <2>4, <2>5, AppendQueue DEF Queues
  <2>7. handles' \in [Exports -> Seq(Tasks)]
    BY <2>2, <2>5, <2>6
  <2>8. Typed'
    BY <1>2, <2>7 DEF Ends, Ended
  <2>9. /\ job'[t] = how /\ job'[u] = "ready"
        /\ \A s \in Tasks : s # t /\ s # u => job'[s] = job[s]
    BY <1>2, <2>1, <2>3
  <2>10. u \notin Entries(batch)
    BY <2>1, <2>3 DEF Queues
  <2>11. Queues'
    <3>1. how # "ready" /\ t \notin Entries(batch) /\ \A s \in Tasks : s # NoTask
      BY <1>1 DEF Ended, Queues
    <3>2. NoRepeats(batch) /\ \A y \in Exports : NoRepeats(handles'[y])
      BY <2>5, <2>6 DEF Queues
    <3>3. \A y \in Exports, v \in Tasks : v \in Entries(handles'[y]) =>
            v \in Entries(handles[y]) \/ (v = u /\ y = home[u])
      BY <2>5, <2>6
    <3>4. \A y \in Exports, v \in Tasks : v \in Entries(handles'[y]) =>
            home[v] = y /\ job'[v] = "ready" /\ v \notin Entries(batch)
      BY <1>1, <2>9, <2>10, <3>3 DEF Queues
    <3>5. \A v \in Tasks : v \in Entries(batch) => home[v] = polled /\ job'[v] = "ready"
      BY <2>9, <3>1 DEF Queues
    <3>6. ASSUME NEW v \in Tasks, job'[v] = "ready"
          PROVE  v \in Entries(batch) \/ v \in Entries(handles'[home[v]])
      <4>1. CASE v = u
        BY <2>6, <4>1
      <4>2. CASE v # u
        <5>1. v # t /\ job[v] = "ready"
          BY <2>9, <3>1, <3>6, <4>2
        <5>2. home[v] \in Exports
          BY <5>1 DEF Waits
        <5>3. v \in Entries(batch) \/ v \in Entries(handles[home[v]])
          BY <1>1, <5>1 DEF Queues
        <5>4. handles'[home[v]] = handles[home[v]] \/ home[v] = home[u]
          BY <2>5, <5>2
        <5> QED
          BY <2>6, <5>3, <5>4
      <4> QED
        BY <4>1, <4>2
    <3> QED
      BY <1>2, <3>1, <3>2, <3>4, <3>5, <3>6 DEF Queues
  <2> QED
    BY <1>3, <1>4, <1>5, <2>8, <2>11
<1> QED
  BY <1>6, <1>7

LEMMA StepKeeps == ASSUME LoopInv, [Next]_vars PROVE LoopInv'
<1>1. CASE Halts
  BY <1>1, HaltsKeeps
<1>2. CASE HostKind
  BY <1>2, FirstPollKeeps, LeavesKeeps, StartedKeeps, AnsweredKeeps DEF HostKind
<1>3. CASE LoopKind
  BY <1>3, TakeHandlesKeeps, RunHandleKeeps, TurnsKeeps DEF LoopKind
<1>4. CASE TaskKind
  BY <1>4, BlocksKeeps, YieldKeeps, AwaitKeeps, CancelKeeps, BeginsKeeps, EndsKeeps
  DEF TaskKind
<1> QED
  BY <1>1, <1>2, <1>3, <1>4, Sorted

LEMMA LoopInvariant == Spec => []LoopInv
  BY InitLoop, StepKeeps, PTL DEF Spec

-----------------------------------------------------------------------------
(* What is counted, for finitely many tasks. *)

Over(t) == job[t] \in {"done", "failed"}

\* The tasks of a call that have yet to count down.
Owing(x) == {t \in Tasks : home[t] = x /\ Counted(t) /\ ~Over(t)}

\* A failure that was not erased stops the call when its batch is through.
Recorded(t) ==
  t \in erased \/ (exception /\ polled \in Exports /\ home[t] = polled /\ stage[polled] = "batch")

Counting ==
  /\ pending \in [Exports -> Nat] /\ results \in [Exports -> 0..1] /\ exception \in BOOLEAN
  /\ \A x \in Exports : pending[x] = Cardinality(Owing(x))
  /\ \A t \in Tasks : Counted(t) /\ job[t] = "failed" => Recorded(t)
  /\ erased \subseteq {t \in Tasks : Counted(t) /\ job[t] = "failed"}

\* Each call has one main task, and its result is returned when that is done.
Mains ==
  /\ \A x \in Exports : stage[x] # "idle" => \E t \in Tasks : kind[t] = "main" /\ home[t] = x
  /\ \A s, t \in Tasks : kind[s] = "main" /\ kind[t] = "main" /\ home[s] = home[t] => s = t
  /\ \A t \in Tasks : kind[t] = "main" => results[home[t]] = IF job[t] = "done" THEN 1 ELSE 0
  /\ \A x \in Exports : stage[x] = "idle" => results[x] = 0

Exits ==
  \A x \in Exports : stage[x] = "exited" =>
    \A t \in Tasks : home[t] = x /\ Counted(t) => job[t] = "done" \/ t \in erased

CountInv == Counting /\ Mains /\ Exits

LEMMA OwingFinite ==
  ASSUME IsFiniteSet(Tasks), NEW x PROVE IsFiniteSet(Owing(x))
<1>1. Owing(x) \in SUBSET Tasks
  BY DEF Owing
<1> QED
  BY <1>1, FS_Subset

LEMMA InitCount == Init => CountInv
<1> SUFFICES ASSUME Init PROVE CountInv
  OBVIOUS
<1>1. \A x \in Exports : Owing(x) = {}
  BY DEF Init, Owing, Counted
<1>2. Counting
  <2>1. /\ pending \in [Exports -> Nat] /\ results \in [Exports -> 0..1]
        /\ \A x \in Exports : pending[x] = 0
    BY DEF Init
  <2>2. exception = FALSE /\ erased = {}
    BY DEF Init
  <2>3. \A x \in Exports : Cardinality(Owing(x)) = 0
    BY <1>1, FS_EmptySet
  <2>4. \A t \in Tasks : ~Counted(t)
    BY DEF Init, Counted
  <2> QED
    BY <2>1, <2>2, <2>3, <2>4 DEF Counting
<1>3. /\ \A t \in Tasks : kind[t] = "none"
      /\ \A x \in Exports : stage[x] = "idle" /\ results[x] = 0
  BY DEF Init
<1>4. Mains /\ Exits
  BY <1>3 DEF Mains, Exits
<1> QED
  BY <1>2, <1>4 DEF CountInv

\* No task of a call counts more or less than before.
Steady ==
  /\ UNCHANGED <<pending, results>> /\ exception' \in BOOLEAN
  /\ \A t \in Tasks : Counted(t) /\ job[t] = "failed" /\ Recorded(t) => Recorded(t)'
  /\ erased \subseteq erased' /\ erased' \subseteq erased \cup {t \in Tasks : Counted(t) /\ job[t] = "failed"}
  /\ \A t \in Tasks :
       \/ kind'[t] = kind[t] /\ home'[t] = home[t]
       \/ kind[t] = "none" /\ kind'[t] = "plain"
  /\ \A t \in Tasks : Counted(t) =>
       \/ job'[t] = job[t]
       \/ ~Over(t) /\ job'[t] \notin {"done", "failed"}
  /\ \A x \in Exports : (stage'[x] = "idle") <=> (stage[x] = "idle")
  /\ \A x \in Exports : stage'[x] = "exited" => stage[x] = "exited"

LEMMA SteadyCounts == ASSUME CountInv, Steady PROVE CountInv'
<1> USE DEF CountInv
<1>1. \A t \in Tasks : Counted(t)' <=> Counted(t)
  BY DEF Steady, Counted
<1>2. \A t \in Tasks : Counted(t) =>
        /\ kind'[t] = kind[t] /\ home'[t] = home[t] /\ (Over(t)' <=> Over(t))
        /\ (job'[t] = "done") <=> (job[t] = "done")
        /\ (job'[t] = "failed") <=> (job[t] = "failed")
  BY DEF Steady, Counted, Over
<1>3. \A x \in Exports : Owing(x)' = Owing(x)
  BY <1>1, <1>2 DEF Owing
<1>4. Counting'
  BY <1>1, <1>2, <1>3 DEF Steady, Counting
<1>5. Mains'
  <2>1. \A t \in Tasks : kind'[t] = "main" <=> kind[t] = "main"
    BY <1>1, <1>2 DEF Steady, Counted
  <2>2. \A t \in Tasks : kind[t] = "main" =>
          home'[t] = home[t] /\ ((job'[t] = "done") <=> (job[t] = "done"))
    BY <1>2 DEF Counted
  <2> QED
    BY <2>1, <2>2 DEF Mains, Steady
<1>6. Exits'
  BY <1>1, <1>2 DEF Exits, Steady
<1> QED
  BY <1>4, <1>5, <1>6

LEMMA FirstPollCounts ==
  ASSUME IsFiniteSet(Tasks), LoopInv, CountInv, NEW x \in Exports, FirstPoll(x) PROVE CountInv'
<1> DEFINE t == New
<1>1. t \in Tasks /\ job[t] = "absent"
  BY NewIs DEF FirstPoll
<1>2. /\ stage[x] = "idle" /\ polled = NoExport /\ stage' = [stage EXCEPT ![x] = "polling"]
      /\ pending' = [pending EXCEPT ![x] = 1]
      /\ kind' = [kind EXCEPT ![t] = "main"] /\ home' = [home EXCEPT ![t] = x]
      /\ job' = [job EXCEPT ![t] = "ready"]
      /\ UNCHANGED <<exception, erased, results>>
  BY DEF FirstPoll, Entered, hostVars
<1> HIDE DEF t
<1>3. \A s \in Tasks : Counted(s) /\ job[s] = "failed" => s \in erased
  BY <1>2, NoNames DEF CountInv, Counting, Recorded
<1>4. kind[t] = "none" /\ \A s \in Tasks : home[s] # x
  BY <1>1, <1>2 DEF LoopInv, Waits, Control
<1>5. /\ kind'[t] = "main" /\ home'[t] = x /\ job'[t] = "ready" /\ stage'[x] = "polling"
      /\ \A s \in Tasks : s # t => kind'[s] = kind[s] /\ home'[s] = home[s] /\ job'[s] = job[s]
      /\ \A y \in Exports : y # x => stage'[y] = stage[y]
  BY <1>1, <1>2 DEF LoopInv, Typed
<1>6. Owing(x)' = {t} /\ \A y \in Exports : y # x => Owing(y)' = Owing(y)
  BY <1>1, <1>4, <1>5 DEF Owing, Counted, Over
<1>7. Counting'
  <2>1. pending' \in [Exports -> Nat] /\ \A y \in Exports : pending'[y] = Cardinality(Owing(y)')
    BY <1>2, <1>6, FS_Singleton DEF CountInv, Counting
  <2>2. \A s \in Tasks : Counted(s)' /\ job'[s] = "failed" => Recorded(s)'
    BY <1>2, <1>3, <1>5 DEF Counted, Recorded
  <2>3. erased' \subseteq {s \in Tasks : Counted(s)' /\ job'[s] = "failed"}
    BY <1>1, <1>2, <1>5 DEF CountInv, Counting, Counted
  <2> QED
    BY <1>2, <2>1, <2>2, <2>3 DEF CountInv, Counting
<1>8. Mains'
  BY <1>1, <1>2, <1>4, <1>5 DEF CountInv, Mains
<1>9. Exits'
  BY <1>2, <1>4, <1>5 DEF CountInv, Exits, Counted
<1> QED
  BY <1>7, <1>8, <1>9 DEF CountInv

\* A call exits when none of its tasks has yet to count down.
LEMMA ExitCounts ==
  ASSUME IsFiniteSet(Tasks), LoopInv, CountInv, NEW x \in Exports, Exit(x),
         stage' = [stage EXCEPT ![x] = "exited"] /\ polled' = NoExport,
         UNCHANGED <<pending, exception, erased, kind, home, job, results>>
  PROVE  CountInv'
<1>1. Owing(x) = {}
  <2>1. IsFiniteSet(Owing(x))
    BY OwingFinite
  <2> QED
    BY <2>1, FS_EmptySet DEF Exit, CountInv, Counting
<1>2. /\ stage[x] = "polling" /\ polled = x
      /\ \A t \in Tasks : Counted(t) /\ job[t] = "failed" => t \in erased
  BY DEF Exit, Polled, CountInv, Counting, Recorded
<1>3. \A t \in Tasks : home[t] = x /\ Counted(t) => job[t] = "done" \/ t \in erased
  BY <1>1, <1>2 DEF Owing, Over
<1>4. stage'[x] = "exited" /\ \A y \in Exports : y # x => stage'[y] = stage[y]
  BY DEF LoopInv, Typed
<1>5. /\ \A y \in Exports : Owing(y)' = Owing(y)
      /\ \A t \in Tasks : Counted(t)' <=> Counted(t)
  BY DEF Owing, Counted, Over
<1>6. Counting'
  BY <1>2, <1>5 DEF CountInv, Counting, Recorded
<1>7. Mains'
  BY <1>2, <1>4 DEF CountInv, Mains
<1>8. Exits'
  BY <1>3, <1>4, <1>5 DEF CountInv, Exits
<1> QED
  BY <1>6, <1>7, <1>8 DEF CountInv

\* A spawned task counts from the start.
LEMMA SpawnCounts ==
  ASSUME IsFiniteSet(Tasks), LoopInv, CountInv, NEW t \in Tasks, Spawn(t) PROVE CountInv'
<1>1. PICK u \in Tasks : u = New /\ job[u] = "absent"
  BY NewIs DEF Spawn, Spawns, Begins
<1>2. PICK x \in Exports : x = home[t] /\ x = polled /\ stage[x] = "batch"
  <2>1. cur = t
    BY DEF Spawn, Runs
  <2>2. home[t] = polled /\ job[t] = "ready"
    BY <2>1 DEF LoopInv, Queues
  <2> QED
    BY <2>1, <2>2, NoNames DEF LoopInv, Control, Waits
<1>3. /\ cur = t /\ kind' = [kind EXCEPT ![u] = "spawned"] /\ home' = [home EXCEPT ![u] = x]
      /\ job' = [job EXCEPT ![u] = "ready"] /\ pending' = [pending EXCEPT ![x] = @ + 1]
      /\ UNCHANGED <<stage, polled, exception, erased, results>>
  BY <1>1, <1>2 DEF Spawn, Runs, Spawns, Begins, hostVars
<1>4. kind[u] = "none"
  BY <1>1 DEF LoopInv, Waits
<1>5. /\ kind'[u] = "spawned" /\ home'[u] = x /\ job'[u] = "ready"
      /\ \A s \in Tasks : s # u => kind'[s] = kind[s] /\ home'[s] = home[s] /\ job'[s] = job[s]
  BY <1>1, <1>3 DEF LoopInv, Typed
<1>6. /\ u \notin Owing(x) /\ Owing(x)' = Owing(x) \cup {u}
      /\ \A y \in Exports : y # x => Owing(y)' = Owing(y)
  <2>1. ~Counted(u) /\ Counted(u)' /\ ~Over(u)'
    BY <1>4, <1>5 DEF Counted, Over
  <2>2. \A s \in Tasks : s # u => (Counted(s)' <=> Counted(s)) /\ (Over(s)' <=> Over(s))
    BY <1>5 DEF Counted, Over
  <2> QED
    BY <1>1, <1>5, <2>1, <2>2 DEF Owing
<1>7. Counting'
  <2>1. IsFiniteSet(Owing(x)) /\ pending \in [Exports -> Nat] /\ pending[x] = Cardinality(Owing(x))
    BY OwingFinite DEF CountInv, Counting
  <2>2. pending' \in [Exports -> Nat] /\ pending'[x] = Cardinality(Owing(x)')
    <3>1. Cardinality(Owing(x)') = Cardinality(Owing(x)) + 1
      BY <1>6, <2>1, FS_AddElement
    <3> QED
      BY <1>3, <2>1, <3>1
  <2>3. \A y \in Exports : pending'[y] = Cardinality(Owing(y)')
    BY <1>3, <1>6, <2>1, <2>2 DEF CountInv, Counting
  <2>4. \A s \in Tasks : Counted(s)' /\ job'[s] = "failed" => Recorded(s)'
    BY <1>3, <1>5 DEF CountInv, Counting, Counted, Recorded
  <2>5. erased' \subseteq {s \in Tasks : Counted(s)' /\ job'[s] = "failed"}
    BY <1>1, <1>3, <1>4, <1>5 DEF CountInv, Counting, Counted
  <2> QED
    BY <1>3, <2>2, <2>3, <2>4, <2>5 DEF CountInv, Counting
<1>8. Mains'
  BY <1>3, <1>4, <1>5 DEF CountInv, Mains
<1>9. Exits'
  BY <1>3, <1>2, <1>5 DEF CountInv, Exits, Counted
<1> QED
  BY <1>7, <1>8, <1>9 DEF CountInv

\* What a task that ends does to the others.
LEMMA EndsOthers ==
  ASSUME LoopInv, NEW t \in Tasks, Runs(t), NEW how \in Ended, Ends(t, how)
  PROVE  /\ job[t] = "ready" /\ job'[t] = how
         /\ \A s \in Tasks : s # t =>
              \/ job'[s] = job[s]
              \/ ~Over(s) /\ job'[s] = "ready"
         /\ home[t] \in Exports /\ polled = home[t] /\ stage[polled] = "batch"
         /\ UNCHANGED <<stage, polled, erased, kind, home>>
<1>1. job[t] = "ready" /\ home[t] = polled /\ home[t] \in Exports /\ stage[polled] = "batch"
  BY NoNames DEF Runs, LoopInv, Queues, Waits, Control
<1>2. \A s \in Tasks : awaits[s] = t => job[s] = "joins"
  BY NoNames DEF LoopInv, Waits
<1> QED
  BY <1>1, <1>2 DEF Ends, Over

\* A counted task that returns or raises counts down.
LEMMA EndCounts ==
  ASSUME IsFiniteSet(Tasks), LoopInv, CountInv, NEW t \in Tasks, Runs(t), Counted(t),
         NEW how \in {"done", "failed"}, Ends(t, how), CountsDown(t),
         exception' = (exception \/ how = "failed"),
         IF kind[t] = "main" /\ how = "done" THEN results' = [results EXCEPT ![home[t]] = @ + 1]
         ELSE results' = results
  PROVE  CountInv'
<1> how \in Ended
  BY DEF Ended
<1>1. PICK x \in Exports : x = home[t] /\ polled = x /\ stage[x] = "batch"
  BY EndsOthers
<1>2. /\ job[t] = "ready" /\ job'[t] = how
      /\ \A s \in Tasks : s # t =>
           \/ job'[s] = job[s]
           \/ ~Over(s) /\ job'[s] = "ready"
      /\ UNCHANGED <<stage, polled, erased, kind, home>>
  BY EndsOthers
<1>3. pending' = [pending EXCEPT ![x] = @ - 1]
  BY <1>1 DEF CountsDown
<1>4. /\ t \in Owing(x) /\ Owing(x)' = Owing(x) \ {t}
      /\ \A y \in Exports : y # x => Owing(y)' = Owing(y)
  <2>1. \A s \in Tasks : Counted(s)' <=> Counted(s)
    BY <1>2 DEF Counted
  <2>2. ~Over(t) /\ Over(t)' /\ \A s \in Tasks : s # t => (Over(s)' <=> Over(s))
    BY <1>2 DEF Over
  <2> QED
    BY <1>2, <1>1, <2>1, <2>2 DEF Owing
<1>5. Counting'
  <2>1. /\ IsFiniteSet(Owing(x)) /\ Cardinality(Owing(x)) \in Nat /\ Cardinality(Owing(x)) # 0
        /\ pending \in [Exports -> Nat] /\ pending[x] = Cardinality(Owing(x))
    <3>1. IsFiniteSet(Owing(x))
      BY OwingFinite
    <3> QED
      BY <1>4, <3>1, FS_CardinalityType, FS_EmptySet DEF CountInv, Counting
  <2>2. pending' \in [Exports -> Nat] /\ pending'[x] = Cardinality(Owing(x)')
    <3>1. Cardinality(Owing(x)') = Cardinality(Owing(x)) - 1
      BY <1>4, <2>1, FS_RemoveElement
    <3> QED
      BY <1>3, <2>1, <3>1
  <2>3. \A y \in Exports : pending'[y] = Cardinality(Owing(y)')
    BY <1>3, <1>4, <2>1, <2>2 DEF CountInv, Counting
  <2>4. \A s \in Tasks : Counted(s)' /\ job'[s] = "failed" => Recorded(s)'
    BY <1>1, <1>2 DEF CountInv, Counting, Counted, Recorded
  <2>5. results' \in [Exports -> 0..1]
    <3>1. kind[t] = "main" => results[x] = 0
      BY <1>2, <1>1 DEF CountInv, Mains
    <3>2. results \in [Exports -> 0..1]
      BY DEF CountInv, Counting
    <3>3. CASE kind[t] = "main" /\ how = "done"
      <4>1. results' = [results EXCEPT ![x] = @ + 1] /\ results[x] + 1 \in 0..1
        BY <1>1, <3>1, <3>3
      <4> QED
        BY <3>2, <4>1
    <3>4. CASE ~(kind[t] = "main" /\ how = "done")
      BY <3>2, <3>4
    <3> QED
      BY <3>3, <3>4
  <2>6. exception' \in BOOLEAN
    BY DEF CountInv, Counting
  <2>7. erased' \subseteq {s \in Tasks : Counted(s)' /\ job'[s] = "failed"}
    BY <1>2 DEF CountInv, Counting, Counted, Over
  <2> QED
    BY <2>2, <2>3, <2>4, <2>5, <2>6, <2>7 DEF Counting
<1>6. Mains'
  <2>1. ASSUME NEW s \in Tasks, kind[s] = "main", s # t
        PROVE  results'[home[s]] = IF job'[s] = "done" THEN 1 ELSE 0
    <3>1. (job'[s] = "done") <=> (job[s] = "done")
      BY <1>2, <2>1 DEF Over
    <3>2. results'[home[s]] = results[home[s]]
      <4>1. CASE kind[t] = "main"
        <5>1. home[s] # x /\ home[s] \in Exports
          BY <1>1, <2>1, <4>1 DEF CountInv, Mains, LoopInv, Waits
        <5>2. results \in [Exports -> 0..1]
          BY DEF CountInv, Counting
        <5> QED
          BY <1>1, <5>1, <5>2
      <4>2. CASE kind[t] # "main"
        BY <4>2
      <4> QED
        BY <4>1, <4>2
    <3> QED
      BY <2>1, <3>1, <3>2 DEF CountInv, Mains
  <2>2. kind[t] = "main" => results'[x] = IF how = "done" THEN 1 ELSE 0
    BY <1>2, <1>1 DEF CountInv, Counting, Mains
  <2>3. \A y \in Exports : stage[y] = "idle" => results'[y] = results[y]
    BY <1>2, <1>1 DEF CountInv, Counting
  <2> QED
    BY <1>2, <1>1, <2>1, <2>2, <2>3 DEF CountInv, Mains
<1>7. Exits'
  BY <1>2, <1>1 DEF CountInv, Exits, Counted, Over
<1> QED
  BY <1>5, <1>6, <1>7 DEF CountInv

LEMMA StandSteady ==
  ASSUME CountInv, UNCHANGED <<stage, polled, exception, erased, pending, kind, home, job, results>>
  PROVE  Steady
  BY DEF Steady, CountInv, Counting, Recorded

LEMMA TrapSteady == ASSUME CountInv, NEW why, Traps(why) PROVE Steady
  BY StandSteady DEF Traps, stateVars, taskVars, hostVars

\* The loop turns to another stage of the same call.
LEMMA MoveSteady ==
  ASSUME LoopInv, CountInv, NEW x \in Exports, stage[x] # "idle",
         \A t \in Tasks : Counted(t) /\ job[t] = "failed" => t \in erased,
         NEW to \in {"polling", "batch", "waiting"}, stage' = [stage EXCEPT ![x] = to],
         \A t \in Tasks : job'[t] = job[t] \/ (~Over(t) /\ job'[t] = "ready"),
         UNCHANGED <<exception, erased, pending, kind, home, results>>
  PROVE  Steady
<1>1. stage'[x] = to /\ \A y \in Exports : y # x => stage'[y] = stage[y]
  BY DEF LoopInv, Typed
<1>2. exception' \in BOOLEAN /\ \A t \in Tasks : t \in erased => Recorded(t)'
  BY DEF CountInv, Counting, Recorded
<1>3. \A y \in Exports : (stage'[y] = "idle") <=> (stage[y] = "idle")
  BY <1>1
<1>4. \A y \in Exports : stage'[y] = "exited" => stage[y] = "exited"
  BY <1>1
<1> QED
  BY <1>2, <1>3, <1>4 DEF Steady, Over

\* Outside a batch, and after one without an exception, what failed was erased.
LEMMA ErasedOutside ==
  ASSUME CountInv, ~exception \/ polled \notin Exports \/ stage[polled] # "batch"
  PROVE  \A t \in Tasks : Counted(t) /\ job[t] = "failed" => t \in erased
  BY DEF CountInv, Counting, Recorded

LEMMA LoopSteady ==
  ASSUME LoopInv, CountInv, NEW x \in Exports, Loop(x), ~Exit(x) PROVE Steady
<1> USE DEF taskVars, hostVars, loopVars
<1>1. CASE TakeHandles(x)
  <2>1. \A t \in Tasks : Counted(t) /\ job[t] = "failed" => t \in erased
    BY <1>1, ErasedOutside DEF TakeHandles
  <2> QED
    BY <1>1, <2>1, MoveSteady DEF TakeHandles
<1>2. CASE RunHandle(x)
  BY <1>2, StandSteady DEF RunHandle, stateVars
<1>3. CASE BatchDone(x) /\ exception
  BY <1>3, TrapSteady DEF BatchDone
<1>4. CASE BatchDone(x) /\ ~exception
  BY <1>4, ErasedOutside, MoveSteady DEF BatchDone
<1>5. CASE Wait(x)
  <2>1. CASE set[x] = "none"
    BY <1>5, <2>1, TrapSteady DEF Wait
  <2>2. CASE set[x] # "none"
    <3>1. /\ stage[x] = "polling"
          /\ \A t \in Tasks : Counted(t) /\ job[t] = "failed" => t \in erased
      BY <1>5, ErasedOutside DEF Wait, Polled
    <3> QED
      BY <1>5, <2>2, <3>1, MoveSteady DEF Wait
  <2> QED
    BY <2>1, <2>2
<1> QED
  BY <1>1, <1>2, <1>3, <1>4, <1>5 DEF Loop

LEMMA EventSteady ==
  ASSUME LoopInv, CountInv, NEW x \in Exports, NEW t \in Tasks,
         Started(x, t) \/ Returned(x, t) \/ EndEvent(x, t)
  PROVE  Steady
<1>1. \A s \in Tasks : Counted(s) /\ job[s] = "failed" => s \in erased
  BY ErasedOutside, NoNames DEF Started, Returned, EndEvent, Entered
<1>2. CASE EndEvent(x, t) \/ (Returned(x, t) /\ t \in doomed)
  BY <1>2, TrapSteady DEF EndEvent, Returned
<1>3. CASE Started(x, t)
  BY <1>1, <1>3, MoveSteady DEF Started, taskVars
<1>4. CASE Returned(x, t) /\ t \notin doomed
  <2>1. job[t] = "calls" /\ job' = [job EXCEPT ![t] = "ready"]
    BY <1>4 DEF Returned, JoinedIn, LoopInv, Waitables
  <2>2. \A s \in Tasks : job'[s] = job[s] \/ (~Over(s) /\ job'[s] = "ready")
    BY <2>1 DEF LoopInv, Typed, Over
  <2>3. /\ stage[x] = "waiting" /\ stage' = [stage EXCEPT ![x] = "polling"]
        /\ UNCHANGED <<pending, exception, erased, kind, home, results>>
    BY <1>4 DEF Returned
  <2> QED
    BY <1>1, <2>2, <2>3, MoveSteady
<1> QED
  BY <1>2, <1>3, <1>4

LEMMA TaskSteady ==
  ASSUME LoopInv, CountInv, NEW t \in Tasks,
         \/ CallBlocks(t) \/ Yield(t) \/ CreateTask(t)
         \/ \E u \in Tasks : Await(t, u) \/ Cancel(t, u)
  PROVE  Steady
<1> USE DEF Active, Runs
<1>1. /\ polled' = polled /\ stage' = stage
      /\ UNCHANGED <<pending, exception, erased, results>>
  BY DEF CallBlocks, Blocks, Yield, CreateTask, Begins, Await, Cancel, stateVars, loopVars, hostVars
<1>2. job[t] = "ready"
  BY DEF CallBlocks, Yield, CreateTask, Await, Cancel, LoopInv, Queues
<1>3. CASE CreateTask(t)
  <2>1. PICK u \in Tasks : u = New /\ job[u] = "absent"
    BY <1>3, NewIs DEF CreateTask, Begins
  <2>2. /\ kind' = [kind EXCEPT ![u] = "plain"] /\ home' = [home EXCEPT ![u] = home[t]]
        /\ job' = [job EXCEPT ![u] = "ready"] /\ kind[u] = "none"
    BY <1>3, <2>1 DEF CreateTask, Begins, LoopInv, Waits
  <2>3. /\ kind'[u] = "plain"
        /\ \A s \in Tasks : s # u => kind'[s] = kind[s] /\ home'[s] = home[s] /\ job'[s] = job[s]
    BY <2>2 DEF LoopInv, Typed
  <2> QED
    BY <1>1, <2>2, <2>3 DEF Steady, Counted, CountInv, Counting, Recorded
<1>4. CASE ~CreateTask(t)
  <2>1. kind' = kind /\ home' = home
    BY <1>4 DEF CallBlocks, Blocks, Yield, Await, Cancel
  <2>2. \A s \in Tasks : job'[s] = job[s] \/ (~Over(s) /\ job'[s] \notin {"done", "failed"})
    BY <1>2, <1>4 DEF CallBlocks, Blocks, Yield, Await, Cancel, LoopInv, Typed, Over
  <2> QED
    BY <1>1, <2>1, <2>2 DEF Steady, CountInv, Counting, Recorded
<1> QED
  BY <1>3, <1>4

\* A task that counts for nothing, or that was cancelled, counts down for nobody.
LEMMA EndSteady ==
  ASSUME LoopInv, CountInv, NEW t \in Tasks, Runs(t), NEW how \in Ended, Ends(t, how),
         Counted(t) => how = "cancelled", UNCHANGED <<pending, exception, results>>
  PROVE  Steady
<1>1. /\ job[t] = "ready" /\ job'[t] = how
      /\ \A s \in Tasks : s # t =>
           \/ job'[s] = job[s]
           \/ ~Over(s) /\ job'[s] = "ready"
      /\ home[t] \in Exports /\ polled = home[t] /\ stage[polled] = "batch"
      /\ UNCHANGED <<stage, polled, erased, kind, home>>
  BY EndsOthers
<1> QED
  BY <1>1 DEF Steady, Over, Recorded, CountInv, Counting

\* A report takes the place of a failure only as one that was erased.
LEMMA ReportSteady == ASSUME CountInv, CallExceptionHandler PROVE Steady
<1>1. UNCHANGED <<stage, polled, pending, kind, home, job, results>> /\ exception' \in BOOLEAN
  BY DEF CallExceptionHandler, stateVars, taskVars, hostVars
<1>2. \/ erased' = erased \cup {t \in Tasks : Counted(t) /\ job[t] = "failed"}
      \/ exception' = TRUE /\ erased' = erased
  BY DEF CallExceptionHandler
<1> QED
  BY <1>1, <1>2 DEF Steady, Recorded

LEMMA CountKept ==
  ASSUME IsFiniteSet(Tasks), LoopInv, CountInv, [Next]_vars PROVE CountInv'
<1>1. CASE UNCHANGED vars
  BY <1>1, StandSteady, SteadyCounts DEF vars, stateVars, loopVars, taskVars, hostVars
<1>2. ASSUME NEW x \in Exports, Loop(x) PROVE CountInv'
  <2>1. CASE Exit(x) /\ set[x] = "open" /\ JoinedIn(x) # {}
    BY <2>1, TrapSteady, SteadyCounts DEF Exit
  <2>2. CASE Exit(x) /\ ~(set[x] = "open" /\ JoinedIn(x) # {})
    BY <2>2, ExitCounts DEF Exit, taskVars, hostVars
  <2> QED
    BY <1>2, <2>1, <2>2, LoopSteady, SteadyCounts
<1>3. ASSUME NEW t \in Tasks, TaskStep(t) \/ Unwind(t) PROVE CountInv'
  <2> USE DEF Active
  <2>1. CASE \/ CallBlocks(t) \/ Yield(t) \/ CreateTask(t)
             \/ \E u \in Tasks : Await(t, u) \/ Cancel(t, u)
    BY <2>1, TaskSteady, SteadyCounts
  <2>2. CASE Quits(t)
    BY <2>2, TrapSteady, SteadyCounts DEF Quits
  <2>3. CASE Spawn(t)
    BY <2>3, SpawnCounts
  <2>4. CASE ReturnResult(t)
    BY <2>4, EndCounts DEF ReturnResult, Counted, CountInv, Counting
  <2>5. CASE SpawnedEnds(t)
    BY <2>5, EndCounts DEF SpawnedEnds, Counted, CountInv, Counting
  <2>6. CASE PlainEnds(t) \/ Unwind(t)
    BY <2>6, EndSteady, SteadyCounts DEF PlainEnds, Unwind, Counted, Ended, CountInv, Counting
  <2>7. CASE TaskFails(t)
    <3>1. CASE Counted(t)
      BY <2>7, <3>1, EndCounts DEF TaskFails, Fails
    <3>2. CASE ~Counted(t)
      BY <2>7, <3>2, EndSteady, SteadyCounts DEF TaskFails, Fails, Ended
    <3> QED
      BY <3>1, <3>2
  <2> QED
    BY <1>3, <2>1, <2>2, <2>3, <2>4, <2>5, <2>6, <2>7 DEF TaskStep
<1>4. CASE Host
  <2>1. ASSUME NEW x \in Exports, CancelCall(x) PROVE CountInv'
    BY <2>1, TrapSteady, SteadyCounts DEF CancelCall
  <2> QED
    BY <1>4, <2>1, FirstPollCounts, EventSteady, SteadyCounts DEF Host
<1>5. CASE Misuse
  BY <1>5, TrapSteady, SteadyCounts DEF Misuse
<1>6. CASE CallExceptionHandler
  BY <1>6, ReportSteady, SteadyCounts
<1>7. CASE Quiet
  BY <1>1, <1>7 DEF Quiet
<1> QED
  BY <1>1, <1>2, <1>3, <1>4, <1>5, <1>6, <1>7 DEF Next, Guest

-----------------------------------------------------------------------------
(* Why it traps. *)

\* Only a plain task is awaited, and one that ended so was cancelled.
Plainly ==
  /\ \A t \in Tasks : awaits[t] # NoTask => kind[awaits[t]] = "plain"
  /\ \A t \in Tasks : job[t] = "cancelled" => t \in doomed

LEMMA PlainlyKept == ASSUME LoopInv, Plainly, [Next]_vars PROVE Plainly'
<1> USE NoNames DEF LoopInv, Typed
<1>1. CASE Halts
  BY <1>1 DEF Halts, taskVars, Plainly
<1>2. CASE HostKind
  <2>1. PICK x \in Exports :
          FirstPoll(x) \/ Leaves(x) \/ \E t \in Tasks : Started(x, t) \/ Answered(x, t)
    BY <1>2 DEF HostKind
  <2>2. CASE FirstPoll(x)
    <3>1. New \in Tasks /\ job[New] = "absent"
      BY <2>2, NewIs DEF FirstPoll
    <3>2. \A t \in Tasks : awaits[t] # NoTask => awaits[t] # New /\ awaits[t] \in Tasks
      BY <3>1 DEF Waits
    <3>3. /\ \A t \in Tasks : t # New => kind'[t] = kind[t] /\ job'[t] = job[t]
          /\ job'[New] = "ready" /\ awaits' = awaits /\ doomed' = doomed
      BY <2>2, <3>1 DEF FirstPoll
    <3> QED
      BY <3>2, <3>3 DEF Plainly
  <2>3. CASE Leaves(x) \/ \E t \in Tasks : Started(x, t)
    BY <2>3 DEF Leaves, Started, taskVars, Plainly
  <2>4. ASSUME NEW t \in Tasks, Answered(x, t) PROVE Plainly'
    <3>1. /\ job'[t] = "ready" /\ \A s \in Tasks : s # t => job'[s] = job[s]
          /\ UNCHANGED <<kind, awaits, doomed>>
      BY <2>4 DEF Answered
    <3> QED
      BY <3>1 DEF Plainly
  <2> QED
    BY <2>1, <2>2, <2>3, <2>4
<1>3. CASE LoopKind
  BY <1>3 DEF LoopKind, TakeHandles, RunHandle, Turns, taskVars, Plainly
<1>4. CASE \E t \in Tasks : CallBlocks(t) \/ Yield(t)
  <2>1. PICK t \in Tasks : CallBlocks(t) \/ Yield(t)
    BY <1>4
  <2>2. /\ \A s \in Tasks : job'[s] = "cancelled" => job[s] = "cancelled"
        /\ UNCHANGED <<kind, awaits, doomed>>
    BY <2>1 DEF CallBlocks, Blocks, Yield
  <2> QED
    BY <2>2 DEF Plainly
<1>5. ASSUME NEW t \in Tasks, NEW u \in Tasks, Await(t, u) \/ Cancel(t, u) PROVE Plainly'
  <2>1. /\ \A s \in Tasks : job'[s] = "cancelled" => job[s] = "cancelled"
        /\ kind' = kind /\ doomed \subseteq doomed'
    BY <1>5 DEF Await, Cancel
  <2>2. \A s \in Tasks : awaits'[s] = awaits[s] \/ (awaits'[s] = u /\ kind[u] = "plain")
    BY <1>5 DEF Await, Cancel
  <2> QED
    BY <2>1, <2>2 DEF Plainly
<1>6. ASSUME NEW t \in Tasks, NEW how \in {"spawned", "plain"}, Runs(t), Begins(t, how)
      PROVE  Plainly'
  <2>1. New \in Tasks /\ job[New] = "absent"
    BY <1>6, NewIs DEF Begins
  <2>2. \A s \in Tasks : awaits[s] # NoTask => awaits[s] # New /\ awaits[s] \in Tasks
    BY <2>1 DEF Waits
  <2>3. /\ \A s \in Tasks : s # New => kind'[s] = kind[s] /\ job'[s] = job[s]
        /\ job'[New] = "ready" /\ awaits' = awaits /\ doomed' = doomed
    BY <1>6, <2>1 DEF Begins
  <2> QED
    BY <2>2, <2>3 DEF Plainly
<1>7. ASSUME NEW t \in Tasks, NEW how \in Ended, how = "cancelled" => t \in doomed, Ends(t, how)
      PROVE  Plainly'
  <2>1. \A s \in Tasks : awaits'[s] \in {awaits[s], NoTask}
    BY <1>7 DEF Ends
  <2>2. \A s \in Tasks : job'[s] = "cancelled" => job[s] = "cancelled" \/ s \in doomed
    BY <1>7 DEF Ends
  <2>3. kind' = kind /\ doomed \subseteq doomed'
    BY <1>7 DEF Ends
  <2> QED
    BY <2>1, <2>2, <2>3 DEF Plainly
<1> QED
  BY <1>1, <1>2, <1>3, <1>4, <1>5, <1>6, <1>7, Sorted DEF TaskKind

LEMMA OwingSome ==
  ASSUME IsFiniteSet(Tasks), Counting, NEW x \in Exports, pending[x] # 0
  PROVE  \E t \in Tasks : home[t] = x /\ Counted(t) /\ ~Over(t)
<1>1. Cardinality(Owing(x)) # 0
  BY DEF Counting
<1>2. Owing(x) # {}
  BY <1>1, FS_EmptySet
<1> QED
  BY <1>2 DEF Owing

LEMMA OwingNone ==
  ASSUME IsFiniteSet(Tasks), Counting, NEW x \in Exports, pending[x] = 0
  PROVE  \A t \in Tasks : home[t] = x /\ Counted(t) => Over(t)
<1>1. Cardinality(Owing(x)) = 0
  BY DEF Counting
<1>2. Owing(x) = {}
  BY <1>1, OwingFinite, FS_EmptySet
<1> QED
  BY <1>2 DEF Owing

\* A call that owes a task, none of which is ready or waits for a waitable: one of
\* those that count was cancelled, or one awaits a task of another call.  Were all
\* awaited tasks its own, awaits would be one to one on those that wait, and hence
\* onto, but nobody awaits a task that counts.
LEMMA NothingToWaitFor ==
  ASSUME IsFiniteSet(Tasks), LoopInv, Counting, Plainly, NEW x \in Exports, pending[x] # 0,
         \A t \in Tasks : home[t] = x => job[t] \notin {"ready", "calls"}
  PROVE  \E t \in Tasks : home[t] = x /\ ((Counted(t) /\ t \in doomed) \/ AwaitsOther(t))
<1> SUFFICES ASSUME \A t \in Tasks : home[t] = x => ~(Counted(t) /\ t \in doomed) /\ ~AwaitsOther(t)
             PROVE  FALSE
  OBVIOUS
<1> USE DEF LoopInv, Typed
<1>1. PICK c \in Tasks : home[c] = x /\ Counted(c) /\ ~Over(c)
  BY OwingSome
<1>2. ASSUME NEW t \in Tasks, home[t] = x, job[t] \notin Ended \cup {"absent"}
      PROVE  job[t] = "joins"
  BY <1>2
<1>3. job[c] = "joins"
  <2>1. job[c] \notin Ended
    BY <1>1 DEF Plainly, Over, Ended
  <2>2. job[c] # "absent"
    BY <1>1 DEF Waits, Counted
  <2> QED
    BY <1>1, <1>2, <2>1, <2>2
<1> DEFINE J == {t \in Tasks : home[t] = x /\ job[t] = "joins"}
           f == [t \in J |-> awaits[t]]
<1>4. ASSUME NEW t \in J PROVE awaits[t] \in J /\ awaits[t] # NoTask
  <2>1. awaits[t] # NoTask /\ awaits[t] \in Tasks
    BY DEF Waits
  <2>2. job[awaits[t]] \notin Ended \cup {"absent"}
    BY <2>1 DEF Waits
  <2>3. home[awaits[t]] = x
    BY DEF AwaitsOther
  <2> QED
    BY <1>2, <2>1, <2>2, <2>3
<1>5. f \in Injection(J, J)
  <2>1. f \in [J -> J]
    BY <1>4
  <2>2. \A s, t \in J : f[s] = f[t] => s = t
    BY <1>4 DEF Waits
  <2> HIDE DEF f
  <2> QED
    BY <2>1, <2>2, Fun_IsInj
<1>6. f \in Surjection(J, J)
  <2>1. J \in SUBSET Tasks
    OBVIOUS
  <2>2. IsFiniteSet(J)
    BY <2>1, FS_Subset
  <2> HIDE DEF f, J
  <2> QED
    BY <1>5, <2>2, FS_Injection
<1>7. PICK t \in J : awaits[t] = c
  <2>1. c \in J
    BY <1>1, <1>3
  <2> QED
    BY <1>6, <2>1 DEF Surjection
<1>8. kind[c] = "plain"
  BY <1>4, <1>7 DEF Plainly
<1> QED
  BY <1>1, <1>8 DEF Counted

\* A call has no ready task if its queue is empty and none of it runs.
LEMMA OthersQuiet ==
  ASSUME LoopInv, NEW x \in Exports, handles[x] = <<>>,
         polled # x \/ (batch = <<>> /\ cur = NoTask)
  PROVE  \A t \in Tasks : home[t] = x => job[t] # "ready"
<1> SUFFICES ASSUME NEW t \in Tasks, home[t] = x, job[t] = "ready" PROVE FALSE
  OBVIOUS
<1>1. t = cur \/ t \in Entries(batch) \/ t \in Entries(handles[x])
  BY DEF LoopInv, Queues
<1>2. t \notin Entries(handles[x])
  BY EmptyQueue
<1>3. CASE polled # x
  BY <1>1, <1>2, <1>3 DEF LoopInv, Queues
<1>4. CASE batch = <<>> /\ cur = NoTask
  BY <1>1, <1>2, <1>4, EmptyQueue, NoNames
<1> QED
  BY <1>3, <1>4

LEMMA NoCalls ==
  ASSUME LoopInv, NEW x \in Exports, JoinedIn(x) = {} \/ set[x] = "none"
  PROVE  \A t \in Tasks : home[t] = x => job[t] # "calls"
<1> SUFFICES ASSUME NEW t \in Tasks, home[t] = x, job[t] = "calls" PROVE FALSE
  OBVIOUS
<1>1. t \in joined /\ t \in futures[x]
  BY DEF LoopInv, Waitables
<1> QED
  BY <1>1 DEF LoopInv, Waitables, JoinedIn

\* A call that waits owes a task.
WaitsOwing == \A x \in Exports : stage[x] = "waiting" => pending[x] # 0

LEMMA WaitsOwingKept ==
  ASSUME LoopInv, Counting, WaitsOwing, [Next]_vars PROVE WaitsOwing'
<1> DEFINE Same(x) == stage[x] = "waiting" /\ pending'[x] = pending[x]
<1> USE DEF LoopInv, Typed, Counting
<1>1. SUFFICES ASSUME NEW x \in Exports, stage'[x] = "waiting"
               PROVE  Same(x) \/ (pending[x] # 0 /\ pending' = pending)
  BY DEF WaitsOwing
<1>2. CASE UNCHANGED <<stage, pending>>
  BY <1>1, <1>2
<1>3. ASSUME NEW y \in Exports, Loop(y)
      PROVE  Same(x) \/ (pending[x] # 0 /\ pending' = pending)
  <2>1. CASE Wait(y) /\ set[y] # "none"
    BY <1>1, <2>1 DEF Wait
  <2>2. CASE Loop(y) /\ ~(Wait(y) /\ set[y] # "none")
    <3>1. pending' = pending
      BY <2>2 DEF Loop, TakeHandles, RunHandle, BatchDone, Exit, Wait, Traps, stateVars
    <3>2. stage' = stage \/ \E to \in {"polling", "batch", "exited"} : stage' = [stage EXCEPT ![y] = to]
      BY <2>2 DEF Loop, TakeHandles, RunHandle, BatchDone, Exit, Wait, Traps, stateVars
    <3> QED
      BY <1>1, <3>1, <3>2
  <2> QED
    BY <1>3, <2>1, <2>2
<1>4. ASSUME NEW t \in Tasks, TaskStep(t) \/ Unwind(t)
      PROVE  Same(x) \/ (pending[x] # 0 /\ pending' = pending)
  <2>1. stage' = stage /\ (pending' = pending \/ \E n : pending' = [pending EXCEPT ![home[t]] = n])
    BY <1>4 DEF TaskStep, CallBlocks, Blocks, Yield, Quits, Traps, Spawn, Spawns, CreateTask, Begins,
                Await, Cancel, stateVars, ReturnResult, SpawnedEnds, PlainEnds, TaskFails, Fails,
                Unwind, Ends, CountsDown
  <2>2. t = cur
    BY <1>4 DEF TaskStep, CallBlocks, Yield, Quits, Spawn, CreateTask, Await, Cancel, ReturnResult,
                SpawnedEnds, PlainEnds, TaskFails, Unwind, Active, Runs
  <2>3. home[t] = polled /\ polled # x
    BY <1>1, <2>1, <2>2 DEF Queues, Control
  <2> QED
    BY <1>1, <2>1, <2>3
<1>5. CASE Host
  <2>1. PICK y \in Exports : \/ FirstPoll(y) \/ CancelCall(y)
                             \/ \E t \in Tasks : Started(y, t) \/ Returned(y, t) \/ EndEvent(y, t)
    BY <1>5 DEF Host
  <2>2. CASE FirstPoll(y)
    BY <1>1, <2>2 DEF FirstPoll
  <2>3. CASE CancelCall(y) \/ \E t \in Tasks : Started(y, t) \/ Returned(y, t) \/ EndEvent(y, t)
    <3>1. pending' = pending /\ (stage' = stage \/ stage' = [stage EXCEPT ![y] = "polling"])
      BY <2>3 DEF CancelCall, Started, Returned, EndEvent, Traps, stateVars
    <3> QED
      BY <1>1, <3>1
  <2> QED
    BY <2>1, <2>2, <2>3
<1> QED
  BY <1>1, <1>2, <1>3, <1>4, <1>5 DEF Next, Guest, Misuse, CallExceptionHandler, Quiet, Traps, vars, stateVars

\* A call that waits and is not abandoned has a waitable.
LEMMA WaitingIsWoken ==
  ASSUME IsFiniteSet(Tasks), LoopInv, Counting, Plainly, WaitsOwing,
         NEW x \in Exports, stage[x] = "waiting", ~Abandoned(x)
  PROVE  JoinedIn(x) # {}
<1> SUFFICES ASSUME JoinedIn(x) = {} PROVE FALSE
  OBVIOUS
<1>1. handles[x] = <<>> /\ polled # x
  BY DEF Abandoned, LoopInv, Control
<1>2. \A t \in Tasks : home[t] = x => job[t] \notin {"ready", "calls"}
  BY <1>1, OthersQuiet, NoCalls
<1>3. \E t \in Tasks : home[t] = x /\ ((Counted(t) /\ t \in doomed) \/ AwaitsOther(t))
  BY <1>2, NothingToWaitFor DEF WaitsOwing
<1> QED
  BY <1>3 DEF Abandoned

\* When it has trapped, nothing moves any more.
LEMMA Settled == ASSUME ~Alive, [Next]_vars PROVE UNCHANGED vars
<1> USE DEF Entered, Runs, Active
<1>1. ASSUME NEW x \in Exports PROVE ~Loop(x)
  BY DEF Loop, TakeHandles, RunHandle, BatchDone, Exit, Wait, Polled
<1>2. ASSUME NEW t \in Tasks PROVE ~Unwind(t) /\ ~TaskStep(t)
  BY DEF Unwind, TaskStep, CallBlocks, Yield, Quits, Spawn, CreateTask, Await, Cancel, ReturnResult,
         SpawnedEnds, PlainEnds, TaskFails
<1>3. ~Host
  BY DEF Host, FirstPoll, CancelCall, Started, Returned, EndEvent
<1> QED
  BY <1>1, <1>2, <1>3 DEF Next, Guest, Misuse, CallExceptionHandler, Quiet

\* A task traps only by leaving the loop.
LEMMA StepsOnly ==
  ASSUME NEW t \in Tasks, TaskStep(t) \/ Unwind(t), ~Quits(t) PROVE trap' = trap
<1>1. CASE \/ CallBlocks(t) \/ Yield(t) \/ Spawn(t) \/ CreateTask(t)
           \/ \E u \in Tasks : Await(t, u) \/ Cancel(t, u)
  BY <1>1 DEF CallBlocks, Blocks, Yield, Spawn, Spawns, CreateTask, Begins, Await, Cancel, loopVars
<1>2. CASE \/ ReturnResult(t) \/ SpawnedEnds(t) \/ PlainEnds(t) \/ TaskFails(t)
           \/ Unwind(t)
  <2>1. \E how : Ends(t, how)
    BY <1>2 DEF ReturnResult, SpawnedEnds, PlainEnds, TaskFails, Fails, Unwind
  <2> QED
    BY <2>1 DEF Ends
<1> QED
  BY <1>1, <1>2 DEF TaskStep

\* What failed stays so.
LEMMA FailureStays ==
  ASSUME LoopInv, [Next]_vars, NEW s \in Tasks, job[s] = "failed" PROVE job'[s] = "failed"
<1> USE DEF LoopInv, Typed
<1>1. CASE Halts
  BY <1>1 DEF Halts, taskVars
<1>2. ASSUME NEW x \in Exports, FirstPoll(x) PROVE job'[s] = "failed"
  <2>1. New # s /\ job' = [job EXCEPT ![New] = "ready"]
    BY <1>2, NewIs DEF FirstPoll
  <2> QED
    BY <2>1
<1>3. ASSUME NEW x \in Exports, \/ Leaves(x) \/ TakeHandles(x) \/ RunHandle(x) \/ Turns(x)
                               \/ \E t \in Tasks : Started(x, t)
      PROVE  job'[s] = "failed"
  BY <1>3 DEF Leaves, TakeHandles, RunHandle, Turns, Started, taskVars
<1>4. ASSUME NEW x \in Exports, NEW t \in Tasks, Answered(x, t) PROVE job'[s] = "failed"
  <2>1. job[t] = "calls" /\ job' = [job EXCEPT ![t] = "ready"]
    BY <1>4 DEF Answered, JoinedIn, Waitables
  <2> QED
    BY <2>1
<1>5. ASSUME NEW t \in Tasks, CallBlocks(t) \/ Yield(t) PROVE job'[s] = "failed"
  <2>1. t # s
    BY <1>5 DEF CallBlocks, Yield, Active, Runs, Queues
  <2> QED
    BY <1>5, <2>1 DEF CallBlocks, Blocks, Yield
<1>6. ASSUME NEW t \in Tasks, NEW u \in Tasks, Await(t, u) \/ Cancel(t, u)
      PROVE  job'[s] = "failed"
  <2>1. t # s
    BY <1>6 DEF Await, Cancel, Active, Runs, Queues
  <2> QED
    BY <1>6, <2>1 DEF Await, Cancel
<1>7. ASSUME NEW t \in Tasks, NEW how, Begins(t, how) PROVE job'[s] = "failed"
  <2>1. New # s /\ job' = [job EXCEPT ![New] = "ready"]
    BY <1>7, NewIs DEF Begins
  <2> QED
    BY <2>1
<1>8. ASSUME NEW t \in Tasks, NEW how \in Ended, Runs(t), Ends(t, how) PROVE job'[s] = "failed"
  BY <1>8, EndsOthers DEF Over
<1> QED
  BY <1>1, <1>2, <1>3, <1>4, <1>5, <1>6, <1>7, <1>8, Sorted DEF HostKind, LoopKind, TaskKind

\* An exception is that of a task.
Blamed == exception => \E t \in Tasks : job[t] = "failed"

LEMMA BlamedKept == ASSUME LoopInv, Blamed, [Next]_vars PROVE Blamed'
<1>1. CASE exception' = exception
  BY <1>1, FailureStays DEF Blamed
<1>2. CASE CallExceptionHandler
  BY <1>2 DEF CallExceptionHandler, Blamed, taskVars
<1>3. ASSUME NEW t \in Tasks, TaskFails(t) PROVE Blamed'
  <2>1. job'[t] = "failed"
    BY <1>3 DEF TaskFails, Fails, Ends
  <2> QED
    BY <2>1 DEF Blamed
<1>4. ASSUME NEW x \in Exports, Loop(x) PROVE exception' = exception
  BY <1>4 DEF Loop, TakeHandles, RunHandle, BatchDone, Exit, Wait, Traps, loopVars
<1>5. ASSUME NEW t \in Tasks, TaskStep(t) \/ Unwind(t), ~TaskFails(t) PROVE exception' = exception
  BY <1>5 DEF TaskStep, CallBlocks, Blocks, Yield, Quits, Traps, Spawn, Spawns, CreateTask, Begins,
              Await, Cancel, ReturnResult, SpawnedEnds, PlainEnds, Unwind, loopVars
<1>6. ASSUME Host PROVE exception' = exception
  BY <1>6 DEF Host, FirstPoll, CancelCall, Started, Returned, EndEvent, Traps
<1>7. ASSUME Misuse \/ Quiet \/ UNCHANGED vars PROVE exception' = exception
  BY <1>7 DEF Misuse, Traps, Quiet, vars, loopVars
<1> QED
  BY <1>1, <1>2, <1>3, <1>4, <1>5, <1>6, <1>7 DEF Next, Guest

\* Steps that trap.
LEMMA TrapsCaused ==
  ASSUME IsFiniteSet(Tasks), LoopInv, CountInv, Plainly, Blamed, [Next]_vars, trap' # trap
  PROVE  TrapsForCause'
<1> SUFFICES ASSUME Alive, ~UNCHANGED vars PROVE TrapsForCause'
  BY Settled DEF vars, loopVars
<1>1. ASSUME NEW x \in Exports, Loop(x) PROVE TrapsForCause'
  <2>1. CASE BatchDone(x)
    BY <2>1 DEF BatchDone, Traps, TrapsForCause, Blamed, loopVars, taskVars
  <2>2. CASE Exit(x)
    <3>1. Polled(x) /\ pending[x] = 0 /\ JoinedIn(x) # {} /\ Traps("joined")
      BY <2>2 DEF Exit
    <3>2. PICK t \in joined : home[t] = x
      BY <3>1 DEF JoinedIn
    <3>3. kind[t] = "plain" \/ t \in doomed
      <4>1. t \in Tasks /\ job[t] # "absent" /\ (t \in doomed \/ job[t] = "calls")
        BY DEF LoopInv, Typed, Waitables
      <4>2. kind[t] = "plain" \/ Counted(t)
        BY <4>1 DEF LoopInv, Typed, Waits, Counted
      <4>3. ~(Counted(t) /\ job[t] = "calls")
        BY <3>1, <3>2, <4>1, OwingNone DEF CountInv, Over
      <4> QED
        BY <4>1, <4>2, <4>3
    <3> QED
      <4>1. trap' = "joined" /\ UNCHANGED <<polled, joined, home, kind, doomed>>
        BY <3>1 DEF Traps, taskVars, hostVars
      <4>2. polled = x
        BY <3>1 DEF Polled
      <4> QED
        BY <3>2, <3>3, <4>1, <4>2 DEF TrapsForCause
  <2>3. CASE Wait(x)
    <3>1. Polled(x) /\ pending[x] # 0 /\ set[x] = "none" /\ Traps("no set")
      BY <2>3 DEF Wait
    <3>2. PICK t \in Tasks : home[t] = x /\ ((Counted(t) /\ t \in doomed) \/ AwaitsOther(t))
      <4>1. \A t \in Tasks : home[t] = x => job[t] \notin {"ready", "calls"}
        BY <3>1, OthersQuiet, NoCalls DEF Polled, LoopInv, Control
      <4> QED
        BY <3>1, <4>1, NothingToWaitFor DEF CountInv
    <3> QED
      <4>1. trap' = "no set" /\ UNCHANGED <<polled, kind, doomed, job, home, awaits>>
        BY <3>1 DEF Traps, taskVars
      <4>2. polled = x
        BY <3>1 DEF Polled
      <4>3. home'[t] = polled' /\ ((Counted(t) /\ t \in doomed)' \/ AwaitsOther(t)')
        BY <3>2, <4>1, <4>2 DEF Counted, AwaitsOther
      <4> QED
        BY <4>1, <4>3 DEF TrapsForCause
  <2> QED
    BY <1>1, <2>1, <2>2, <2>3 DEF Loop, TakeHandles, RunHandle
<1>2. ASSUME NEW t \in Tasks, TaskStep(t) \/ Unwind(t) PROVE TrapsForCause'
  <2>1. CASE Quits(t)
    BY <2>1, NoNames DEF Quits, Active, Runs, Traps, TrapsForCause
  <2>2. CASE ~Quits(t)
    <3>1. trap' = trap
      BY <1>2, <2>2, StepsOnly
    <3> QED
      BY <3>1
  <2> QED
    BY <2>1, <2>2
<1>3. CASE Host
  <2>1. PICK x \in Exports : \/ CancelCall(x)
                             \/ \E t \in Tasks : Returned(x, t) \/ EndEvent(x, t)
    BY <1>3 DEF Host, FirstPoll, Started
  <2>2. CASE CancelCall(x) \/ \E t \in Tasks : EndEvent(x, t)
    BY <2>2 DEF CancelCall, EndEvent, Traps, TrapsForCause
  <2>3. ASSUME NEW t \in Tasks, Returned(x, t) PROVE TrapsForCause'
    BY <2>3 DEF Returned, JoinedIn, Traps, TrapsForCause, taskVars, hostVars
  <2> QED
    BY <2>1, <2>2, <2>3
<1>4. CASE Misuse
  BY <1>4 DEF Misuse, Traps, TrapsForCause
<1>5. CASE CallExceptionHandler
  BY <1>5 DEF CallExceptionHandler
<1> QED
  BY <1>1, <1>2, <1>3, <1>4, <1>5 DEF Next, Guest, Quiet

LEMMA CauseKept ==
  ASSUME IsFiniteSet(Tasks), LoopInv, CountInv, Plainly, Blamed, TrapsForCause, [Next]_vars
  PROVE  TrapsForCause'
<1>1. CASE trap' # trap
  BY <1>1, TrapsCaused
<1>2. CASE trap' = trap /\ ~Alive
  <2>1. UNCHANGED vars
    BY <1>2, Settled
  <2> QED
    BY <2>1 DEF vars, loopVars, taskVars, hostVars, TrapsForCause, Counted, AwaitsOther
<1>3. CASE trap' = trap /\ Alive
  BY <1>3 DEF Alive, TrapsForCause
<1> QED
  BY <1>1, <1>2, <1>3

-----------------------------------------------------------------------------
(* The theorems. *)

\* A waitable is joined for exactly the futures of its call, whose set is open.
THEOREM JoinedHold == Spec => []JoinedAreAwaited
<1>1. LoopInv => JoinedAreAwaited
  BY DEF LoopInv, Typed, Waitables, JoinedAreAwaited, JoinedIn
<1> QED
  BY <1>1, LoopInvariant, PTL

LEMMA CountInvariant == ASSUME IsFiniteSet(Tasks) PROVE Spec => [](LoopInv /\ CountInv)
<1>1. Init => LoopInv /\ CountInv
  BY InitLoop, InitCount
<1>2. LoopInv /\ CountInv /\ [Next]_vars => (LoopInv /\ CountInv)'
  BY StepKeeps, CountKept
<1> QED
  BY <1>1, <1>2, PTL DEF Spec

LEMMA CauseInvariant ==
  ASSUME IsFiniteSet(Tasks) PROVE Spec => [](Plainly /\ Blamed /\ WaitsOwing /\ TrapsForCause)
<1> DEFINE CauseInv == Plainly /\ Blamed /\ WaitsOwing /\ TrapsForCause
<1>1. Init => CauseInv
  BY DEF Init, Plainly, Blamed, WaitsOwing, TrapsForCause
<1>2. LoopInv /\ CountInv /\ CauseInv /\ [Next]_vars => CauseInv'
  BY PlainlyKept, BlamedKept, WaitsOwingKept, CauseKept DEF CountInv
<1> HIDE DEF CauseInv
<1>3. Spec => []CauseInv
  BY <1>1, <1>2, CountInvariant, PTL DEF Spec
<1> QED
  BY <1>3 DEF CauseInv

\* No task is lost, and no call: each that waits and is not abandoned has something
\* to wait for.
THEOREM NobodyIsForgotten == ASSUME IsFiniteSet(Tasks) PROVE Spec => []NobodyForgotten
<1>1. ASSUME LoopInv, NEW t \in Tasks, job[t] = "ready" PROVE cur = t \/ Queued(t)
  <2>1. home[t] \in Exports
    BY <1>1 DEF LoopInv, Waits
  <2> QED
    BY <1>1, <2>1 DEF LoopInv, Queues, Queued, Entries
<1>2. ASSUME LoopInv, NEW t \in Tasks
      PROVE  /\ job[t] = "calls" => t \in futures[home[t]] \cap JoinedIn(home[t])
             /\ job[t] = "joins" => job[awaits[t]] \notin Ended \cup {"absent"}
  BY <1>2 DEF LoopInv, Typed, Waits, Waitables, JoinedIn
<1>3. ASSUME LoopInv, CountInv, Plainly, WaitsOwing PROVE NobodyForgotten
  <2>1. \A x \in Exports : stage[x] = "waiting" /\ ~Abandoned(x) => JoinedIn(x) # {}
    BY <1>3, WaitingIsWoken DEF CountInv
  <2>2. \A t \in Tasks : job[t] = "ready" => cur = t \/ Queued(t)
    BY <1>1, <1>3
  <2>3. \A t \in Tasks : job[t] = "calls" => t \in futures[home[t]] \cap JoinedIn(home[t])
    BY <1>2, <1>3
  <2>4. \A t \in Tasks : job[t] = "joins" => job[awaits[t]] \notin Ended \cup {"absent"}
    BY <1>2, <1>3
  <2> QED
    BY <2>1, <2>2, <2>3, <2>4 DEF NobodyForgotten
<1>4. LoopInv /\ CountInv /\ Plainly /\ WaitsOwing => NobodyForgotten
  BY <1>3
<1> QED
  BY <1>4, CountInvariant, CauseInvariant, PTL

\* A call of any component exits only when its result was returned and its tasks
\* are done, except for failures that a report without an exception erased: the
\* count of pending tasks is that of its tasks that have not ended.
THEOREM ExitIsComplete == ASSUME IsFiniteSet(Tasks) PROVE Spec => []ExitsComplete
<1>1. ASSUME CountInv, NEW x \in Exports, stage[x] = "exited"
      PROVE  /\ \E t \in Tasks : /\ kind[t] = "main" /\ home[t] = x
                                /\ results[x] = IF t \in erased THEN 0 ELSE 1
             /\ \A t \in Tasks : home[t] = x /\ Counted(t) =>
                  job[t] = IF t \in erased THEN "failed" ELSE "done"
  <2>1. \A t \in Tasks : home[t] = x /\ Counted(t) =>
          job[t] = IF t \in erased THEN "failed" ELSE "done"
    BY <1>1 DEF CountInv, Counting, Exits
  <2>2. PICK t \in Tasks : kind[t] = "main" /\ home[t] = x
    BY <1>1 DEF CountInv, Mains
  <2>3. job[t] = IF t \in erased THEN "failed" ELSE "done"
    BY <2>1, <2>2 DEF Counted
  <2>4. results[x] = IF job[t] = "done" THEN 1 ELSE 0
    <3>1. results[home[t]] = IF job[t] = "done" THEN 1 ELSE 0
      BY <1>1, <2>2 DEF CountInv, Mains
    <3> QED
      BY <2>2, <3>1
  <2>5. results[x] = IF t \in erased THEN 0 ELSE 1
    BY <2>3, <2>4
  <2> QED
    BY <2>1, <2>2, <2>5
<1>2. LoopInv /\ CountInv => ExitsComplete
  BY <1>1 DEF ExitsComplete
<1> QED
  BY <1>2, CountInvariant, PTL

\* Whatever traps has a cause among the tasks: it failed or was cancelled, waits as a
\* plain task in a call that exits, or, of a call without a set, awaits another's.
THEOREM TrapsHaveCauses == ASSUME IsFiniteSet(Tasks) PROVE Spec => []TrapsForCause
  BY CauseInvariant, PTL

\* The variables have their types; the count of a call never falls below zero.
THEOREM AsyncLoopTypeCorrect == ASSUME IsFiniteSet(Tasks) PROVE Spec => []TypeOK
<1> DEFINE Known ==
      trap \in {"none", "raised", "no set", "cancelled", "joined", "unimplemented", "misuse"}
<1>1. Init => Known
  BY DEF Init
<1>2. ASSUME Known, [Next]_vars PROVE Known'
  <2>1. CASE UNCHANGED vars \/ Misuse \/ CallExceptionHandler \/ Quiet
    BY <1>2, <2>1 DEF Misuse, CallExceptionHandler, Quiet, Traps, vars, loopVars
  <2>2. ASSUME NEW x \in Exports, Loop(x) PROVE Known'
    BY <1>2, <2>2 DEF Loop, TakeHandles, RunHandle, BatchDone, Exit, Wait, Traps, loopVars
  <2>3. ASSUME NEW t \in Tasks, TaskStep(t) \/ Unwind(t) PROVE Known'
    <3>1. CASE Quits(t)
      BY <3>1 DEF Quits, Traps
    <3>2. CASE ~Quits(t)
      BY <1>2, <2>3, <3>2, StepsOnly
    <3> QED
      BY <3>1, <3>2
  <2>4. CASE Host
    BY <1>2, <2>4 DEF Host, FirstPoll, Started, Returned, CancelCall, EndEvent, Traps
  <2> QED
    BY <1>2, <2>1, <2>2, <2>3, <2>4 DEF Next, Guest
<1>3. LoopInv /\ CountInv /\ Known => TypeOK
  BY DEF LoopInv, Typed, CountInv, Counting, TypeOK
<1>4. Known /\ [Next]_vars => Known'
  BY <1>2
<1> HIDE DEF Known
<1> QED
  BY <1>1, <1>3, <1>4, CountInvariant, PTL DEF Spec
=============================================================================

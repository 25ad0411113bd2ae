------------------------------ MODULE AsyncLoop ------------------------------
(***************************************************************************)
(* The event loop of guest/componentize_py_async_support/__init__.py, which *)
(* runs the asyncio tasks of asynchronous exports.  Each call of an export *)
(* has a state of its own, and the host calls back when something that the *)
(* call waits for has happened.  One thread runs everything, so that a     *)
(* task's step is interleaved only with the host; between two callbacks of *)
(* one call, those of another may run.                                     *)
(*                                                                         *)
(* An exception that leaves first_poll or callback traps, and no call of   *)
(* the component runs any more.  A waitable has the name of the task that  *)
(* awaits it.  An operator whose name has an underscore is a faulty        *)
(* variant of the definition after it that no action uses.                 *)
(***************************************************************************)
EXTENDS Naturals, Sequences, FiniteSets

CONSTANTS
  Exports, Tasks, NoExport, NoTask,
  MaxPauses  \* how often coroutines call something that blocks, or yield

ASSUME NoNames == NoExport \notin Exports /\ NoTask \notin Tasks
ASSUME PausesAssumption == MaxPauses \in Nat

VARIABLES
  stage,      \* where each call of an export is
  set,        \* _FutureState.waitable_set
  futures,    \* _FutureState.futures: whose futures it has
  handles,    \* _FutureState.handles: the tasks to be stepped
  pending,    \* _FutureState.pending_count
  polled,     \* the call whose state _Loop.poll works on
  batch,      \* the local handles: those of this iteration not yet run
  cur,        \* the task whose handle runs
  exception,  \* whether _Loop.exception is set
  erased,     \* the counted tasks whose failure was erased from it
  trap,       \* what trapped
  kind,       \* who wraps each task's coroutine
  home,       \* the call whose context a task has
  job,        \* where each task is
  awaits,     \* the task it awaits
  doomed,     \* tasks that were cancelled
  pauses,     \* how often coroutines paused
  subtask,    \* the waitable that a task awaits
  joined,     \* the waitables in the set of their call
  results     \* how often call_task_return was called

stateVars == <<stage, set, futures, handles, pending>>
loopVars == <<polled, batch, cur, exception, erased, trap>>
taskVars == <<kind, home, job, awaits, doomed, pauses>>
hostVars == <<subtask, joined, results>>
vars == <<stateVars, loopVars, taskVars, hostVars>>

Ended == {"done", "failed", "cancelled"}
Counted(t) == kind[t] \in {"main", "spawned"}

TypeOK ==
  /\ stage \in [Exports -> {"idle", "polling", "batch", "waiting", "exited"}]
  /\ set \in [Exports -> {"none", "open", "dropped"}]
  /\ futures \in [Exports -> SUBSET Tasks]
  /\ handles \in [Exports -> Seq(Tasks)]
  /\ pending \in [Exports -> Nat]
  /\ polled \in Exports \cup {NoExport}
  /\ batch \in Seq(Tasks) /\ cur \in Tasks \cup {NoTask}
  /\ exception \in BOOLEAN /\ erased \subseteq Tasks
  /\ trap \in {"none", "raised", "no set", "cancelled", "joined", "unimplemented", "misuse"}
  /\ kind \in [Tasks -> {"none", "main", "spawned", "plain"}]
  /\ home \in [Tasks -> Exports \cup {NoExport}]
  /\ job \in [Tasks -> {"absent", "ready", "calls", "joins"} \cup Ended]
  /\ awaits \in [Tasks -> Tasks \cup {NoTask}]
  /\ doomed \subseteq Tasks /\ pauses \in 0..MaxPauses
  /\ subtask \in [Tasks -> {"none", "starting", "started", "end"}]
  /\ joined \subseteq Tasks
  /\ results \in [Exports -> 0..1]

Init ==
  /\ stage = [x \in Exports |-> "idle"]
  /\ set = [x \in Exports |-> "none"]
  /\ futures = [x \in Exports |-> {}]
  /\ handles = [x \in Exports |-> <<>>]
  /\ pending = [x \in Exports |-> 0]
  /\ polled = NoExport /\ batch = <<>> /\ cur = NoTask
  /\ exception = FALSE /\ erased = {} /\ trap = "none"
  /\ kind = [t \in Tasks |-> "none"]
  /\ home = [t \in Tasks |-> NoExport]
  /\ job = [t \in Tasks |-> "absent"]
  /\ awaits = [t \in Tasks |-> NoTask]
  /\ doomed = {} /\ pauses = 0
  /\ subtask = [t \in Tasks |-> "none"] /\ joined = {}
  /\ results = [x \in Exports |-> 0]

\* The names of tasks mean nothing: a new one gets a certain name.
Unused == {t \in Tasks : job[t] = "absent"}
New == CHOOSE t \in Unused : TRUE

\* The host enters the component: nothing else runs in it.
Alive == trap = "none"
Entered == Alive /\ polled = NoExport

Traps(why) == trap' = why /\ UNCHANGED <<stateVars, polled, batch, cur, exception, erased,
                                         taskVars, hostVars>>

-----------------------------------------------------------------------------
(* The loop. *)

FirstPoll(x) ==
  LET t == New IN
  /\ Entered /\ stage[x] = "idle" /\ Unused # {}
  /\ stage' = [stage EXCEPT ![x] = "polling"] /\ polled' = x
  /\ pending' = [pending EXCEPT ![x] = 1]
  /\ handles' = [handles EXCEPT ![x] = <<t>>]
  /\ kind' = [kind EXCEPT ![t] = "main"] /\ home' = [home EXCEPT ![t] = x]
  /\ job' = [job EXCEPT ![t] = "ready"]
  /\ UNCHANGED <<set, futures, batch, cur, exception, erased, trap, awaits, doomed, pauses,
                 hostVars>>

TakeHandles(x) ==
  /\ Alive /\ polled = x /\ stage[x] = "polling" /\ handles[x] # <<>>
  /\ stage' = [stage EXCEPT ![x] = "batch"]
  /\ batch' = handles[x] /\ handles' = [handles EXCEPT ![x] = <<>>]
  /\ UNCHANGED <<set, futures, pending, polled, cur, exception, erased, trap, taskVars, hostVars>>

RunHandle(x) ==
  /\ Alive /\ polled = x /\ stage[x] = "batch" /\ cur = NoTask /\ batch # <<>>
  /\ cur' = Head(batch) /\ batch' = Tail(batch)
  /\ UNCHANGED <<stateVars, polled, exception, erased, trap, taskVars, hostVars>>

\* The handles that were added meanwhile are thrown away.
BatchDone_Clears(x) ==
  /\ Alive /\ polled = x /\ stage[x] = "batch" /\ cur = NoTask /\ batch = <<>>
  /\ IF exception THEN Traps("raised")
     ELSE /\ stage' = [stage EXCEPT ![x] = "polling"]
          /\ handles' = [handles EXCEPT ![x] = <<>>]
          /\ UNCHANGED <<set, futures, pending, loopVars, taskVars, hostVars>>

BatchDone(x) ==
  /\ Alive /\ polled = x /\ stage[x] = "batch" /\ cur = NoTask /\ batch = <<>>
  /\ IF exception THEN Traps("raised")
     ELSE /\ stage' = [stage EXCEPT ![x] = "polling"]
          /\ UNCHANGED <<set, futures, handles, pending, loopVars, taskVars, hostVars>>

\* _Loop.poll has returned.
Polled(x) == Alive /\ polled = x /\ stage[x] = "polling" /\ handles[x] = <<>>

JoinedIn(x) == {t \in joined : home[t] = x}

\* The call exits when nothing is queued.
Exit_Eager(x) ==
  /\ Polled(x)
  /\ IF set[x] = "open" /\ JoinedIn(x) # {} THEN Traps("joined")
     ELSE /\ stage' = [stage EXCEPT ![x] = "exited"] /\ polled' = NoExport
          /\ set' = [set EXCEPT ![x] = IF @ = "open" THEN "dropped" ELSE @]
          /\ UNCHANGED <<futures, handles, pending, batch, cur, exception, erased, trap,
                         taskVars, hostVars>>

\* A waitable set must be empty when it is dropped.
Exit(x) ==
  /\ Polled(x) /\ pending[x] = 0
  /\ IF set[x] = "open" /\ JoinedIn(x) # {} THEN Traps("joined")
     ELSE /\ stage' = [stage EXCEPT ![x] = "exited"] /\ polled' = NoExport
          /\ set' = [set EXCEPT ![x] = IF @ = "open" THEN "dropped" ELSE @]
          /\ UNCHANGED <<futures, handles, pending, batch, cur, exception, erased, trap,
                         taskVars, hostVars>>

Wait(x) ==
  /\ Polled(x) /\ pending[x] # 0
  /\ IF set[x] = "none" THEN Traps("no set")
     ELSE /\ stage' = [stage EXCEPT ![x] = "waiting"] /\ polled' = NoExport
          /\ UNCHANGED <<set, futures, handles, pending, batch, cur, exception, erased, trap,
                         taskVars, hostVars>>

\* The callback for a subtask that has started does nothing.
Started(x, t) ==
  /\ Entered /\ stage[x] = "waiting" /\ t \in JoinedIn(x) /\ subtask[t] = "starting"
  /\ subtask' = [subtask EXCEPT ![t] = "started"]
  /\ stage' = [stage EXCEPT ![x] = "polling"] /\ polled' = x
  /\ UNCHANGED <<set, futures, handles, pending, batch, cur, exception, erased, trap,
                 taskVars, joined, results>>

\* The future stays in the dictionary.
Forget_Kept(x, t) == UNCHANGED futures

Forget(x, t) == futures' = [futures EXCEPT ![x] = @ \ {t}]

\* A subtask has returned.  The future of a cancelled task accepts no result.
Returned(x, t) ==
  /\ Entered /\ stage[x] = "waiting" /\ t \in JoinedIn(x)
  /\ subtask[t] \in {"starting", "started"}
  /\ IF t \in doomed THEN Traps("cancelled")
     ELSE /\ joined' = joined \ {t} /\ subtask' = [subtask EXCEPT ![t] = "none"]
          /\ Forget(x, t)
          /\ job' = [job EXCEPT ![t] = "ready"]
          /\ handles' = [handles EXCEPT ![x] = Append(@, t)]
          /\ stage' = [stage EXCEPT ![x] = "polling"] /\ polled' = x
          /\ UNCHANGED <<set, pending, batch, cur, exception, erased, trap, kind, home, awaits,
                         doomed, pauses, results>>

\* The caller cancels the call.
CancelCall(x) == Entered /\ stage[x] = "waiting" /\ Traps("unimplemented")

\* The events of streams and futures.
EndEvent(x, t) ==
  /\ Entered /\ stage[x] = "waiting" /\ t \in JoinedIn(x) /\ subtask[t] = "end"
  /\ Traps("unimplemented")

Loop(x) == \/ TakeHandles(x) \/ RunHandle(x) \/ BatchDone(x) \/ Exit(x) \/ Wait(x)

-----------------------------------------------------------------------------
(* What a task does. *)

Runs(t) == Alive /\ cur = t
Active(t) == Runs(t) /\ t \notin doomed

\* await_result blocks.
Blocks(t, what) ==
  LET x == home[t] IN
  /\ job' = [job EXCEPT ![t] = "calls"] /\ cur' = NoTask
  /\ futures' = [futures EXCEPT ![x] = @ \cup {t}]
  /\ set' = [set EXCEPT ![x] = "open"]
  /\ joined' = joined \cup {t} /\ subtask' = [subtask EXCEPT ![t] = what]
  /\ pauses < MaxPauses /\ pauses' = pauses + 1
  /\ UNCHANGED <<stage, handles, pending, polled, batch, exception, erased, trap,
                 kind, home, awaits, doomed, results>>

\* An import that returns at once changes nothing.  What blocks is a subtask, or
\* an operation on the end of a stream or future.  A subtask that has started by
\* then is one for which that event does not come.
CallBlocks(t) == Active(t) /\ \E what \in {"starting", "end"} : Blocks(t, what)

\* A coroutine runs in the context of the task that made its task.
Begins(t, how) ==
  LET x == home[t]
      u == New IN
  /\ Unused # {}
  /\ job' = [job EXCEPT ![u] = "ready"]
  /\ kind' = [kind EXCEPT ![u] = how] /\ home' = [home EXCEPT ![u] = x]
  /\ handles' = [handles EXCEPT ![x] = Append(@, u)]
  /\ UNCHANGED <<stage, set, futures, polled, batch, cur, exception, erased, trap, awaits,
                 doomed, pauses, hostVars>>

Spawns_Uncounted(t) == Begins(t, "spawned") /\ UNCHANGED pending

Spawns(t) ==
  Begins(t, "spawned") /\ pending' = [pending EXCEPT ![home[t]] = @ + 1]

\* A task that was cancelled may do so while it unwinds.
Spawn(t) == Runs(t) /\ Spawns(t)

CreateTask(t) == Active(t) /\ Begins(t, "plain") /\ UNCHANGED pending

\* asyncio.sleep(0)
Yield(t) ==
  /\ Active(t) /\ cur' = NoTask
  /\ pauses < MaxPauses /\ pauses' = pauses + 1
  /\ handles' = [handles EXCEPT ![home[t]] = Append(@, t)]
  /\ UNCHANGED <<stage, set, futures, pending, polled, batch, exception, erased, trap,
                 kind, home, job, awaits, doomed, hostVars>>

\* A task may await a task of another call, which it knows from a global.
Await(t, u) ==
  /\ Active(t) /\ kind[u] = "plain" /\ job[u] \notin Ended /\ u # t
  /\ \A s \in Tasks : awaits[s] # u
  /\ awaits[u] = NoTask
  /\ awaits' = [awaits EXCEPT ![t] = u]
  /\ job' = [job EXCEPT ![t] = "joins"] /\ cur' = NoTask
  /\ UNCHANGED <<stateVars, polled, batch, exception, erased, trap, kind, home, doomed, pauses, hostVars>>

\* To cancel a task that awaits another is to cancel that one.
Cancel(t, u) ==
  /\ Active(t) /\ u # t /\ u \notin doomed /\ job[u] \in {"ready", "calls"}
  /\ doomed' = doomed \cup {u}
  /\ IF job[u] = "calls"
     THEN /\ job' = [job EXCEPT ![u] = "ready"]
          /\ handles' = [handles EXCEPT ![home[u]] = Append(@, u)]
     ELSE UNCHANGED <<job, handles>>
  /\ UNCHANGED <<stage, set, futures, pending, loopVars, kind, home, awaits, pauses, hostVars>>

\* A task that ends wakes the one that awaits it, in the context of that one.
Awaiter(t) == {s \in Tasks : awaits[s] = t}

Ends(t, how) ==
  /\ cur' = NoTask
  /\ awaits' = [s \in Tasks |-> IF awaits[s] = t THEN NoTask ELSE awaits[s]]
  /\ job' = [s \in Tasks |-> IF s = t THEN how ELSE IF awaits[s] = t THEN "ready" ELSE job[s]]
  /\ handles' = [x \in Exports |->
       IF \E s \in Awaiter(t) : home[s] = x
       THEN Append(handles[x], CHOOSE s \in Awaiter(t) : TRUE) ELSE handles[x]]
  /\ doomed' = IF how = "cancelled" THEN doomed \cup Awaiter(t) ELSE doomed
  /\ UNCHANGED <<stage, set, futures, polled, batch, erased, trap, kind, home, pauses,
                 subtask, joined>>

\* The count goes down once on the way out and once more at the end.
CountsDown_Twice(t) == pending' = [pending EXCEPT ![home[t]] = @ - 2]

\* Every wrapper counts down, whatever became of its coroutine.
CountsDown(t) == pending' = [pending EXCEPT ![home[t]] = @ - 1]

\* _return_result passes on what the coroutine returned, or the Err it raised.
ReturnResult(t) ==
  /\ Active(t) /\ kind[t] = "main"
  /\ Ends(t, "done") /\ CountsDown(t)
  /\ results' = [results EXCEPT ![home[t]] = @ + 1]
  /\ UNCHANGED exception

\* Only the main task counts down.
SpawnedEnds_Kept(t) ==
  /\ Active(t) /\ kind[t] = "spawned"
  /\ Ends(t, "done")
  /\ UNCHANGED <<pending, exception, results>>

SpawnedEnds(t) ==
  /\ Active(t) /\ kind[t] = "spawned"
  /\ Ends(t, "done") /\ CountsDown(t)
  /\ UNCHANGED <<exception, results>>

PlainEnds(t) ==
  /\ Active(t) /\ kind[t] = "plain"
  /\ Ends(t, "done")
  /\ UNCHANGED <<pending, exception, results>>

\* An Exception, which the wrapper of a counted task stores.
Fails(t) ==
  /\ Ends(t, "failed")
  /\ IF Counted(t) THEN exception' = TRUE /\ CountsDown(t) ELSE UNCHANGED <<exception, pending>>
  /\ UNCHANGED results

\* It raises, or calls a method of the loop that is not implemented.
TaskFails(t) == Active(t) /\ Fails(t)

\* CancelledError is no Exception: neither wrapper handles it.
Unwind(t) ==
  /\ Runs(t) /\ t \in doomed
  /\ Ends(t, "cancelled")
  /\ UNCHANGED <<pending, exception, results>>

\* The canonical ABI refuses to use or drop an end in the middle of an operation.
Misuse == Alive /\ (\E t \in joined : subtask[t] = "end") /\ Traps("misuse")

\* SystemExit and KeyboardInterrupt leave the loop at once.
Quits(t) == Active(t) /\ Traps("raised")

\* What asyncio reports when it finds it, at any point of the guest: the exception
\* of a task that nobody awaits (the model does not remember who was awaited), or
\* a pending task that is destroyed.  There is no exception in the latter report,
\* and None takes the place of one that was stored.
CallExceptionHandler ==
  /\ Alive /\ polled # NoExport
  /\ \/ /\ exception' = FALSE
        /\ erased' = erased \cup {t \in Tasks : Counted(t) /\ job[t] = "failed"}
     \/ /\ \E t \in Tasks : kind[t] = "plain" /\ job[t] = "failed"
        /\ exception' = TRUE /\ UNCHANGED erased
  /\ UNCHANGED <<stateVars, polled, batch, cur, trap, taskVars, hostVars>>

TaskStep(t) ==
  \/ CallBlocks(t) \/ Yield(t) \/ Quits(t) \/ Spawn(t) \/ CreateTask(t)
  \/ \E u \in Tasks : Await(t, u) \/ Cancel(t, u)
  \/ ReturnResult(t) \/ SpawnedEnds(t) \/ PlainEnds(t) \/ TaskFails(t)

Guest == \/ \E x \in Exports : Loop(x)
         \/ \E t \in Tasks : TaskStep(t) \/ Unwind(t)

Host == \E x \in Exports :
          \/ FirstPoll(x) \/ CancelCall(x)
          \/ \E t \in Tasks : Started(x, t) \/ Returned(x, t) \/ EndEvent(x, t)

\* The component trapped, or the host has nothing to tell it.
Quiet == (~Alive \/ polled = NoExport) /\ UNCHANGED vars

Next == Guest \/ Host \/ Misuse \/ CallExceptionHandler \/ Quiet

Spec == Init /\ [][Next]_vars

-----------------------------------------------------------------------------
(* Safety. *)

Queued(t) == \/ \E x \in Exports : \E i \in DOMAIN handles[x] : handles[x][i] = t
             \/ \E i \in DOMAIN batch : batch[i] = t

\* A task that awaits one of another call.
AwaitsOther(t) == job[t] = "joins" /\ home[awaits[t]] # home[t]

\* A call that waits makes no progress any more because a task that counts was
\* cancelled, or because what it awaits is up to another call.
Abandoned(x) ==
  /\ stage[x] = "waiting"
  /\ \/ \E t \in doomed : home[t] = x /\ Counted(t)
     \/ handles[x] # <<>>
     \/ \E t \in Tasks : home[t] = x /\ AwaitsOther(t)

\* No task is lost: one that has begun and not ended runs, is queued in its own
\* call, has a future there that a waitable of the set will resolve, or awaits
\* a task that has not ended.  And no call: one that waits and is not abandoned
\* has a waitable for which the host will call back.
NobodyForgotten ==
  Alive =>
    /\ \A t \in Tasks :
         /\ job[t] = "ready" => cur = t \/ Queued(t)
         /\ job[t] = "calls" => t \in futures[home[t]] \cap JoinedIn(home[t])
         /\ job[t] = "joins" => job[awaits[t]] \notin Ended \cup {"absent"}
    /\ \A x \in Exports : stage[x] = "waiting" /\ ~Abandoned(x) => JoinedIn(x) # {}

\* A waitable is in the set of the call whose dictionary has its future, and
\* neither outlives the call.
JoinedAreAwaited ==
  Alive => \A x \in Exports :
    /\ JoinedIn(x) = futures[x]
    /\ futures[x] # {} => set[x] = "open"

\* A call exits only when its result was returned, once, and each task that spawn
\* made for it is done: none of them failed or goes on.  The exception is a failure
\* that a later report erased, and, if it is the main task's, there is no result.
ExitsComplete ==
  \A x \in Exports : stage[x] = "exited" =>
    /\ \E t \in Tasks : /\ kind[t] = "main" /\ home[t] = x
                       /\ results[x] = IF t \in erased THEN 0 ELSE 1
    /\ \A t \in Tasks : home[t] = x /\ Counted(t) =>
         job[t] = IF t \in erased THEN "failed" ELSE "done"

\* What traps: the failure of a task; a cancelled task; a plain or a cancelled task
\* of the call that exits, which still has a waitable; in a call that has nothing to
\* wait for, a task that was cancelled or that awaits another call's; and two tasks
\* that use one end.
TrapsForCause ==
  /\ trap = "raised" => cur # NoTask \/ (exception /\ \E t \in Tasks : job[t] = "failed")
  /\ trap = "cancelled" => doomed \cap joined # {}
  /\ trap = "joined" => \E t \in joined : home[t] = polled /\ (kind[t] = "plain" \/ t \in doomed)
  /\ trap = "no set" => \E t \in Tasks : /\ home[t] = polled
                                         /\ (Counted(t) /\ t \in doomed) \/ AwaitsOther(t)

-----------------------------------------------------------------------------
(* Liveness, under the fairness that AsyncEnds states. *)

\* A call that was begun exits or is abandoned for ever, unless the component traps.
CallsExit ==
  \A x \in Exports :
    <>[](stage[x] \in {"idle", "exited"} \/ ~Alive \/ Abandoned(x))
=============================================================================

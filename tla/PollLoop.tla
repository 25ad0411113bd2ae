------------------------------ MODULE PollLoop ------------------------------
(***************************************************************************)
(* The event loop of guest/poll_loop.py, which runs asyncio tasks on       *)
(* wasi:io/poll, and the helpers send, Stream and Sink for wasi:http.      *)
(*                                                                         *)
(* The program is a client: its root task starts the other tasks, sends a  *)
(* request, reads the response and awaits the others; a writer sends the   *)
(* request's body.  One thread runs everything, so that a task's step is   *)
(* interleaved only with the host, which makes pollables ready.            *)
(*                                                                         *)
(* An operator whose name has an underscore is a faulty variant of the     *)
(* definition after it that no action uses.                                *)
(***************************************************************************)
EXTENDS Naturals, Sequences

CONSTANTS
  Root,              \* the task run_until_complete is called with
  Writers,           \* tasks that each write a body to the one Sink
  Others,            \* tasks that only yield, report, stop or cancel
  NoTask,
  Chunk,             \* the length of the body
  Incoming,          \* how many chunks the response has
  ResponseNeedsBody  \* the server answers after it has read the body

ASSUME TaskAssumption ==
  /\ Root \notin Writers /\ Root \notin Others /\ Writers \cap Others = {}
  /\ NoTask \notin {Root} \cup Writers \cup Others
ASSUME SizeAssumption ==
  Chunk \in Nat /\ Incoming \in Nat /\ ResponseNeedsBody \in BOOLEAN

Tasks == {Root} \cup Writers \cup Others

VARIABLES
  phase,      \* where run_until_complete is
  running,    \* PollLoop.running
  exception,  \* whether PollLoop.exception is set
  handles,    \* PollLoop.handles: the tasks to be stepped
  batch,      \* the local handles: those of this iteration not yet run
  cur,        \* the task whose handle runs
  waker,      \* the entry of each task in PollLoop.wakers
  source,     \* what the pollable of that entry waits for
  stale,      \* PollLoop.wakers has an entry whose pollable is dropped
  due,        \* what poll.poll returned and the loop has not handled
  job,        \* where each task is in its coroutine
  awaits,     \* the task that the root awaits
  doomed,     \* tasks that were cancelled
  lost,       \* tasks whose handle was dropped with the rest of its batch
  response,   \* the future of the response
  input, left,        \* the incoming stream and how much is still to come
  output, unflushed,  \* the outgoing stream, and whose bytes it still holds
  offset, flushing    \* the locals of Sink.send

loopVars == <<phase, running, exception, handles, batch, cur, waker, source, stale, due>>
hostVars == <<response, input, left, output, unflushed>>
taskVars == <<job, awaits, doomed, lost, offset, flushing>>
vars == <<loopVars, taskVars, hostVars>>

Ended == {"returned", "raised", "trapped"}
Finished == {"done", "failed", "quit"}

TypeOK ==
  /\ phase \in {"idle", "top", "batch", "poll", "wake", "check"} \cup Ended
  /\ running \in BOOLEAN /\ exception \in BOOLEAN /\ stale \in BOOLEAN
  /\ handles \in Seq(Tasks) /\ batch \in Seq(Tasks)
  /\ cur \in Tasks \cup {NoTask}
  /\ waker \in [Tasks -> {"none", "pending", "cancelled", "woken"}]
  /\ source \in [Tasks -> {"response", "input", "output"}]
  /\ due \subseteq Tasks
  /\ job \in [Tasks -> {"absent", "start", "send", "read", "join",
                        "write", "close", "other", "last"} \cup Finished]
  /\ awaits \in Tasks \cup {NoTask}
  /\ doomed \subseteq Tasks /\ lost \subseteq Tasks
  /\ response \in {"pending", "ok", "error"}
  /\ input \in {"empty", "data", "closed", "failed"} /\ left \in 0..Incoming
  /\ output \in {"ready", "full", "flushing", "failed", "closed"} /\ unflushed \subseteq Tasks
  /\ offset \in [Tasks -> 0..Chunk] /\ flushing \in [Tasks -> BOOLEAN]

Init ==
  /\ phase = "idle" /\ running = FALSE /\ exception = FALSE /\ stale = FALSE
  /\ handles = <<>> /\ batch = <<>> /\ cur = NoTask
  /\ waker = [t \in Tasks |-> "none"]
  /\ source = [t \in Tasks |-> "response"]
  /\ due = {}
  /\ job = [t \in Tasks |-> "absent"]
  /\ awaits = NoTask /\ doomed = {} /\ lost = {}
  /\ response = "pending" /\ input = "empty" /\ left = Incoming
  /\ output = "ready" /\ unflushed = {}
  /\ offset = [t \in Tasks |-> 0] /\ flushing = [t \in Tasks |-> FALSE]

-----------------------------------------------------------------------------
(* The loop. *)

RunUntilComplete ==
  /\ phase = "idle"
  /\ phase' = "top" /\ running' = TRUE
  /\ handles' = Append(handles, Root)
  /\ job' = [job EXCEPT ![Root] = "start"]
  /\ UNCHANGED <<exception, batch, cur, waker, source, stale, due,
                 awaits, doomed, lost, offset, flushing, hostVars>>

\* An application that catches what the loop raised may go on with its task.
RunAgain ==
  /\ phase = "raised" /\ job[Root] \notin Finished
  /\ phase' = "top" /\ running' = TRUE
  /\ UNCHANGED <<exception, handles, batch, cur, waker, source, stale, due,
                 taskVars, hostVars>>

\* result() of a task that is not done raises.
LeaveLoop ==
  /\ phase = "top" /\ (~running \/ job[Root] \in Finished)
  /\ phase' = IF job[Root] = "done" THEN "returned" ELSE "raised"
  /\ UNCHANGED <<running, exception, handles, batch, cur, waker, source, stale, due,
                 taskVars, hostVars>>

\* The handles are run again in the next iteration.
TakeHandles_Kept ==
  /\ phase = "top" /\ running /\ job[Root] \notin Finished
  /\ phase' = "batch"
  /\ batch' = handles
  /\ UNCHANGED <<running, exception, handles, cur, waker, source, stale, due, taskVars, hostVars>>

TakeHandles ==
  /\ phase = "top" /\ running /\ job[Root] \notin Finished
  /\ phase' = "batch"
  /\ batch' = handles /\ handles' = <<>>
  /\ UNCHANGED <<running, exception, cur, waker, source, stale, due, taskVars, hostVars>>

RunHandle ==
  /\ phase = "batch" /\ cur = NoTask /\ batch # <<>>
  /\ cur' = Head(batch) /\ batch' = Tail(batch)
  /\ UNCHANGED <<phase, running, exception, handles, waker, source, stale, due,
                 taskVars, hostVars>>

Registered == {t \in Tasks : waker[t] # "none"}

BatchDone ==
  /\ phase = "batch" /\ cur = NoTask /\ batch = <<>>
  /\ phase' = IF Registered = {} /\ ~stale THEN "check" ELSE "poll"
  /\ UNCHANGED <<running, exception, handles, batch, cur, waker, source, stale, due,
                 taskVars, hostVars>>

\* What subscribe promises of a pollable.
IsReady(t) ==
  \/ source[t] = "response" /\ response # "pending"
  \/ source[t] = "input" /\ input # "empty"
  \/ source[t] = "output" /\ output \notin {"full", "flushing"}

\* poll.poll blocks until a pollable is ready, and returns one or more.
Poll ==
  /\ phase = "poll" /\ ~stale
  /\ \E ready \in SUBSET {t \in Registered : IsReady(t)} :
       ready # {} /\ due' = ready
  /\ phase' = "wake"
  /\ UNCHANGED <<running, exception, handles, batch, cur, waker, source, stale,
                 taskVars, hostVars>>

\* A dropped pollable is no handle any more.
PollTraps ==
  /\ phase = "poll" /\ stale
  /\ phase' = "trapped"
  /\ UNCHANGED <<running, exception, handles, batch, cur, waker, source, stale, due,
                 taskVars, hostVars>>

\* The pollables that were not ready are forgotten.
WakersHandled_All == waker' = [t \in Tasks |-> "none"]

WakersHandled == waker' = [t \in Tasks |-> IF waker[t] = "woken" THEN "none" ELSE waker[t]]

\* The dropped pollable stays in the list.
Wake_Kept(t) ==
  /\ phase = "wake" /\ t \in due /\ waker[t] = "pending"
  /\ waker' = [waker EXCEPT ![t] = "woken"]
  /\ handles' = Append(handles, t)
  /\ due' = due \ {t} /\ stale' = TRUE
  /\ UNCHANGED <<phase, running, exception, batch, cur, source, taskVars, hostVars>>

\* The pollable is dropped and the task's waker gets its result; in which order
\* is left open.
Wake(t) ==
  /\ phase = "wake" /\ t \in due /\ waker[t] = "pending"
  /\ waker' = [waker EXCEPT ![t] = "woken"]
  /\ handles' = Append(handles, t)
  /\ due' = due \ {t}
  /\ UNCHANGED <<phase, running, exception, batch, cur, source, stale, taskVars, hostVars>>

\* set_result on a cancelled future raises, in the middle of the loop: the list
\* of wakers keeps entries whose pollables are dropped.
WakeRaises(t) ==
  /\ phase = "wake" /\ t \in due /\ waker[t] = "cancelled"
  /\ waker' = [s \in Tasks |-> IF s = t \/ waker[s] = "woken" THEN "none" ELSE waker[s]]
  /\ stale' = TRUE /\ due' = {}
  /\ phase' = "raised"
  /\ UNCHANGED <<running, exception, handles, batch, cur, source, taskVars, hostVars>>

WakeDone ==
  /\ phase = "wake" /\ due = {}
  /\ WakersHandled
  /\ phase' = "check"
  /\ UNCHANGED <<running, exception, handles, batch, cur, source, stale, due,
                 taskVars, hostVars>>

CheckException ==
  /\ phase = "check"
  /\ phase' = IF exception THEN "raised" ELSE "top"
  /\ UNCHANGED <<running, exception, handles, batch, cur, waker, source, stale, due,
                 taskVars, hostVars>>

Loop ==
  \/ RunUntilComplete \/ RunAgain \/ LeaveLoop \/ TakeHandles \/ RunHandle \/ BatchDone
  \/ Poll \/ PollTraps \/ WakeDone \/ CheckException
  \/ \E t \in Tasks : Wake(t) \/ WakeRaises(t)

-----------------------------------------------------------------------------
(* What every step of a task consists of. *)

Runs(t) == phase = "batch" /\ cur = t

\* The step of a task without the loop's own variables.
taskFrame == <<phase, running, exception, batch, stale, due, lost>>

GoesOn(t, step) ==
  /\ job' = [job EXCEPT ![t] = step]
  /\ UNCHANGED <<taskFrame, handles, cur, waker, source, awaits, doomed>>

\* register: the task awaits a waker of its own until the pollable is ready.
Register(t, what) ==
  /\ waker' = [waker EXCEPT ![t] = "pending"]
  /\ source' = [source EXCEPT ![t] = what]
  /\ cur' = NoTask
  /\ UNCHANGED <<taskFrame, handles, job, awaits, doomed>>

\* call_soon: a task that ends schedules the one that awaits it.
Settles(t, how) ==
  /\ job' = [job EXCEPT ![t] = how]
  /\ cur' = NoTask
  /\ handles' = IF awaits = t THEN Append(handles, Root) ELSE handles
  /\ awaits' = IF awaits = t THEN NoTask ELSE awaits

Ends(t, how) ==
  /\ Settles(t, how)
  /\ UNCHANGED <<taskFrame, waker, source, doomed>>

\* Handle._run lets SystemExit and KeyboardInterrupt through: they leave
\* run_until_complete, and the handles after this one are dropped with the local
\* batch.  A task raises them in code of its own, or passes on what the task it
\* awaited raised; not within send or Sink.send.
Quits(t) ==
  /\ Runs(t) /\ job[t] \in {"start", "join", "close", "other", "last"}
  /\ Settles(t, "quit")
  /\ phase' = "raised"
  /\ batch' = <<>> /\ lost' = lost \cup {batch[i] : i \in DOMAIN batch}
  /\ UNCHANGED <<running, exception, waker, source, stale, due, doomed,
                 offset, flushing, hostVars>>

\* A cancelled task raises CancelledError where it waited.
Unwind(t) ==
  /\ Runs(t) /\ t \in doomed
  /\ Ends(t, "failed")
  /\ UNCHANGED <<offset, flushing, hostVars>>

Active(t) == Runs(t) /\ t \notin doomed

-----------------------------------------------------------------------------
(* The client: send, then Stream.next until it returns None. *)

CreateTask(u) ==
  /\ Active(Root) /\ job[Root] = "start" /\ job[u] = "absent"
  /\ job' = [job EXCEPT ![u] = IF u \in Writers THEN "write" ELSE "other"]
  /\ handles' = Append(handles, u)
  /\ UNCHANGED <<taskFrame, cur, waker, source, awaits, doomed, offset, flushing, hostVars>>

\* handle gives a future, or raises what it refuses the request for.
HandleRequest ==
  /\ Active(Root) /\ job[Root] = "start"
  /\ \A u \in Tasks : job[u] # "absent"
  /\ GoesOn(Root, "send") \/ Ends(Root, "failed")
  /\ UNCHANGED <<offset, flushing, hostVars>>

SendWaits ==
  /\ Active(Root) /\ job[Root] = "send" /\ response = "pending"
  /\ Register(Root, "response")
  /\ UNCHANGED <<offset, flushing, hostVars>>

SendReturns ==
  /\ Active(Root) /\ job[Root] = "send" /\ response = "ok"
  /\ GoesOn(Root, "read")
  /\ UNCHANGED <<offset, flushing, hostVars>>

SendRaises ==
  /\ Active(Root) /\ job[Root] = "send" /\ response = "error"
  /\ Ends(Root, "failed")
  /\ UNCHANGED <<offset, flushing, hostVars>>

NextWaits ==
  /\ Active(Root) /\ job[Root] = "read" /\ input = "empty"
  /\ Register(Root, "input")
  /\ UNCHANGED <<offset, flushing, hostVars>>

NextReturns ==
  /\ Active(Root) /\ job[Root] = "read" /\ input = "data"
  /\ input' = "empty"
  /\ GoesOn(Root, "read")
  /\ UNCHANGED <<offset, flushing, response, left, output, unflushed>>

\* StreamError_Closed: the stream and its body are dropped and next returns None.
NextEnds ==
  /\ Active(Root) /\ job[Root] = "read" /\ input = "closed"
  /\ GoesOn(Root, "join")
  /\ UNCHANGED <<offset, flushing, hostVars>>

NextRaises ==
  /\ Active(Root) /\ job[Root] = "read" /\ input = "failed"
  /\ Ends(Root, "failed")
  /\ UNCHANGED <<offset, flushing, hostVars>>

AwaitTask(u) ==
  /\ Active(Root) /\ job[Root] = "join" /\ job[u] \notin Finished \cup {"join"}
  /\ awaits' = u /\ cur' = NoTask
  /\ UNCHANGED <<taskFrame, handles, waker, source, job, doomed, offset, flushing, hostVars>>

\* The root may raise what another task raised.
RootEnds ==
  /\ Active(Root) /\ job[Root] = "join"
  /\ \A u \in Tasks \ {Root} : job[u] \in Finished
  /\ \/ Ends(Root, "done")
     \/ (\E u \in Tasks : job[u] = "failed") /\ Ends(Root, "failed")
  /\ UNCHANGED <<offset, flushing, hostVars>>

Client ==
  \/ \E u \in Tasks : CreateTask(u) \/ AwaitTask(u)
  \/ HandleRequest \/ SendWaits \/ SendReturns \/ SendRaises
  \/ NextWaits \/ NextReturns \/ NextEnds \/ NextRaises \/ RootEnds

-----------------------------------------------------------------------------
(* A writer: Sink.send, then Sink.close. *)

\* check_write permits nothing.
WriteWaits(t) ==
  /\ Active(t) /\ job[t] = "write" /\ output \in {"full", "flushing"}
  /\ Register(t, "output")
  /\ UNCHANGED <<offset, flushing, hostVars>>

\* More bytes are counted than the chunk has.
WriteSome_Unbounded(t) ==
  /\ Active(t) /\ job[t] = "write" /\ output = "ready" /\ offset[t] # Chunk
  /\ \E count \in 1..Chunk : offset' = [offset EXCEPT ![t] = @ + count]
  /\ output' \in {"ready", "full"} /\ unflushed' = unflushed \cup {t}
  /\ GoesOn(t, "write")
  /\ UNCHANGED <<flushing, response, input, left>>

\* check_write permits some bytes, which are written.
WriteSome(t) ==
  /\ Active(t) /\ job[t] = "write" /\ output = "ready" /\ offset[t] # Chunk
  /\ \E count \in 1..(Chunk - offset[t]) : offset' = [offset EXCEPT ![t] = @ + count]
  /\ output' \in {"ready", "full"} /\ unflushed' = unflushed \cup {t}
  /\ GoesOn(t, "write")
  /\ UNCHANGED <<flushing, response, input, left>>

\* send flushes whenever all is written.
Flush_Always(t) ==
  /\ Active(t) /\ job[t] = "write" /\ output = "ready"
  /\ offset[t] = Chunk /\ ~flushing[t]
  /\ output' = "flushing"
  /\ GoesOn(t, "write")
  /\ UNCHANGED <<offset, flushing, response, input, left, unflushed>>

Flush(t) ==
  /\ Active(t) /\ job[t] = "write" /\ output = "ready"
  /\ offset[t] = Chunk /\ ~flushing[t]
  /\ flushing' = [flushing EXCEPT ![t] = TRUE]
  /\ output' = "flushing"
  /\ GoesOn(t, "write")
  /\ UNCHANGED <<offset, response, input, left, unflushed>>

\* send returns as soon as it wrote the last byte.
WriteDone_Unflushed(t) ==
  /\ Active(t) /\ job[t] = "write" /\ output # "failed" /\ offset[t] = Chunk
  /\ GoesOn(t, "close")
  /\ UNCHANGED <<offset, flushing, hostVars>>

\* The stream accepts bytes again: it is flushed.
WriteDone(t) ==
  /\ Active(t) /\ job[t] = "write" /\ output = "ready"
  /\ offset[t] = Chunk /\ flushing[t]
  /\ GoesOn(t, "close")
  /\ UNCHANGED <<offset, flushing, hostVars>>

\* check_write raises, also when another writer closed the Sink.
WriteRaises(t) ==
  /\ Active(t) /\ job[t] = "write" /\ output \in {"failed", "closed"}
  /\ Ends(t, "failed")
  /\ UNCHANGED <<offset, flushing, hostVars>>

\* A stream must not be dropped before the pollables made from it.
CloseTraps(t) ==
  /\ Active(t) /\ job[t] = "close"
  /\ \E u \in Registered : source[u] = "output"
  /\ phase' = "trapped"
  /\ UNCHANGED <<running, exception, handles, batch, cur, waker, source, stale, due,
                 taskVars, hostVars>>

\* close drops the stream and finishes the body, which the host may refuse.
CloseSink(t) ==
  /\ Active(t) /\ job[t] = "close"
  /\ \/ output # "closed" /\ output' = "closed" /\ Ends(t, "done")
     \/ output' = "closed" /\ Ends(t, "failed")
  /\ UNCHANGED <<offset, flushing, response, input, left, unflushed>>

Writer(t) ==
  \/ WriteWaits(t) \/ WriteSome(t) \/ Flush(t) \/ WriteDone(t)
  \/ WriteRaises(t) \/ CloseSink(t) \/ CloseTraps(t)

-----------------------------------------------------------------------------
(* Other tasks. *)

\* asyncio.sleep(0)
Yield(t) ==
  /\ Active(t) /\ job[t] = "other"
  /\ job' = [job EXCEPT ![t] = "last"]
  /\ handles' = Append(handles, t)
  /\ cur' = NoTask
  /\ UNCHANGED <<taskFrame, waker, source, awaits, doomed, offset, flushing, hostVars>>

\* asyncio reports a failed callback or a pending task that was destroyed; the
\* report of the latter has no exception.
CallExceptionHandler(t) ==
  /\ Active(t) /\ job[t] = "other"
  /\ exception' \in BOOLEAN
  /\ job' = [job EXCEPT ![t] = "last"]
  /\ UNCHANGED <<phase, running, handles, batch, cur, waker, source, stale, due,
                 awaits, doomed, lost, offset, flushing, hostVars>>

StopLoop(t) ==
  /\ Active(t) /\ job[t] = "other" /\ running
  /\ running' = FALSE
  /\ UNCHANGED <<phase, exception, handles, batch, cur, waker, source, stale, due,
                 taskVars, hostVars>>

\* Task.cancel: a task that waits for a pollable is scheduled at once, and its
\* waker stays in the list.
Cancel(t, u) ==
  /\ Active(t) /\ job[t] = "other"
  /\ u \notin {t, Root} /\ u \notin doomed /\ job[u] \notin Finished \cup {"absent"}
  /\ doomed' = doomed \cup {u}
  /\ waker' = IF waker[u] = "pending" THEN [waker EXCEPT ![u] = "cancelled"] ELSE waker
  /\ handles' = IF waker[u] = "pending" THEN Append(handles, u) ELSE handles
  /\ UNCHANGED <<taskFrame, cur, source, job, awaits, offset, flushing, hostVars>>

OtherEnds(t) ==
  /\ Active(t) /\ job[t] \in {"other", "last"}
  /\ Ends(t, "done")
  /\ UNCHANGED <<offset, flushing, hostVars>>

\* A method the loop does not have: NotImplementedError, which the task may catch.
Unimplemented(t) ==
  /\ Active(t) /\ job[t] = "other"
  /\ Ends(t, "failed") \/ GoesOn(t, "last")
  /\ UNCHANGED <<offset, flushing, hostVars>>

Other(t) ==
  \/ Yield(t) \/ CallExceptionHandler(t) \/ StopLoop(t) \/ OtherEnds(t)
  \/ Unimplemented(t)
  \/ \E u \in Tasks : Cancel(t, u)

-----------------------------------------------------------------------------
(* The host. *)

Respond ==
  /\ response = "pending" /\ job[Root] = "send"
  /\ ResponseNeedsBody => output = "closed"
  /\ response' \in {"ok", "error"}
  /\ UNCHANGED <<loopVars, taskVars, input, left, output, unflushed>>

Arrive ==
  /\ response = "ok" /\ input = "empty"
  /\ IF left = 0 THEN input' = "closed" /\ UNCHANGED left
     ELSE \/ input' = "data" /\ left' = left - 1
          \/ input' = "failed" /\ UNCHANGED left
  /\ UNCHANGED <<loopVars, taskVars, response, output, unflushed>>

Drain ==
  /\ output \in {"full", "flushing"}
  /\ output' \in {"ready", "failed"}
  /\ unflushed' = IF output = "flushing" /\ output' = "ready" THEN {} ELSE unflushed
  /\ UNCHANGED <<loopVars, taskVars, response, input, left>>

Host == Respond \/ Arrive \/ Drain

-----------------------------------------------------------------------------
TaskStep == \/ Client
            \/ \E t \in Writers : Writer(t)
            \/ \E t \in Others : Other(t)
            \/ \E t \in Tasks : Unwind(t) \/ Quits(t)

\* Nothing runs and nothing is to come.
Quiet == phase \in Ended /\ UNCHANGED vars

Next == Loop \/ TaskStep \/ Host \/ Quiet

Spec == Init /\ [][Next]_vars

\* The one thread goes on, and the host keeps its side moving.
Fairness == WF_vars(Loop \/ TaskStep) /\ WF_vars(Respond) /\ WF_vars(Arrive) /\ WF_vars(Drain)

FairSpec == Spec /\ Fairness

-----------------------------------------------------------------------------
(* Safety. *)

Queued(t) == \/ \E i \in DOMAIN handles : handles[i] = t
             \/ \E i \in DOMAIN batch : batch[i] = t

\* No wake-up is lost: a task that has begun and not ended runs, has a handle
\* in the queue, waits in the list for a pollable, or awaits another task; unless
\* its handle came after one that left the loop with SystemExit, in one batch.
NobodyForgotten ==
  /\ \A t \in Tasks : job[t] \notin Finished \cup {"absent"} =>
       \/ cur = t \/ Queued(t) \/ waker[t] = "pending"
       \/ t = Root /\ awaits # NoTask /\ job[awaits] \notin Finished
       \/ t \in lost
  /\ lost # {} => \E t \in Tasks : job[t] = "quit"

\* A task is never stepped twice for one wake-up, nor after its end.
HandledOnce ==
  /\ \A i, j \in DOMAIN handles : handles[i] = handles[j] => i = j
  /\ \A i, j \in DOMAIN batch : batch[i] = batch[j] => i = j
  /\ \A t \in Tasks : Queued(t) =>
       job[t] \notin Finished \cup {"absent"} /\ waker[t] # "pending" /\ cur # t

\* When Sink.send has returned, the stream holds none of its bytes any more:
\* everything was written and flushed, whatever other tasks wrote in between.
SentIsFlushed ==
  \A t \in Writers : job[t] = "close" => offset[t] = Chunk /\ t \notin unflushed

\* The loop raises only what a task raised or reported, or because it was
\* stopped or a task was cancelled while it waited; and only in the last case can
\* a loop that is run again hand poll.poll a pollable that it dropped.
FailsForCause ==
  /\ phase = "raised" =>
       \/ exception \/ ~running \/ doomed # {}
       \/ job[Root] = "failed" \/ \E t \in Tasks : job[t] = "quit"
  /\ phase = "poll" /\ stale => doomed # {}

-----------------------------------------------------------------------------
(* Liveness. *)

\* run_until_complete ends, unless it is run again for a root whose handle was
\* lost, or which awaits a task whose handle was: then it spins for ever.
LoopReturns ==
  (phase = "top") ~> (phase \in Ended \/ Root \in lost \/ awaits \in lost)
=============================================================================

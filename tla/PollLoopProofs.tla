---------------------------- MODULE PollLoopProofs ----------------------------
(***************************************************************************)
(* Proofs about PollLoop, for any tasks and sizes.                         *)
(*                                                                         *)
(* Three layers over the typing say that each task that can run is in      *)
(* exactly one place (Places), what the bytes of a writer went through     *)
(* (Written), and that the list of wakers is damaged only by a             *)
(* cancellation (Caused).  For the first, steps are sorted into kinds.     *)
(***************************************************************************)
EXTENDS PollLoop, QueueLemmas

Going(t) == job[t] \notin Finished \cup {"absent"}

Awaiting(t) == t = Root /\ awaits # NoTask

\* A task that goes on runs, is queued once, waits for a pollable or awaits a task.
Places ==
  /\ NoRepeats(handles) /\ NoRepeats(batch)
  /\ phase = "idle" => job[Root] = "absent"
  /\ phase \notin {"batch", "trapped"} => batch = <<>> /\ cur = NoTask
  /\ \A t \in Tasks : t \in Entries(handles) => t \notin Entries(batch)
  /\ \A t \in Tasks : t \in Entries(handles) \cup Entries(batch) =>
       Going(t) /\ waker[t] # "pending" /\ t # cur /\ ~Awaiting(t)
  /\ \A t \in Tasks : t = cur => Going(t) /\ waker[t] # "pending" /\ ~Awaiting(t)
  /\ \A t \in Tasks : waker[t] = "pending" => Going(t) /\ ~Awaiting(t)
  /\ awaits # NoTask => Going(Root) /\ awaits # Root /\ job[awaits] \notin Finished
  /\ \A t \in Tasks : Going(t) =>
       \/ t = cur \/ t \in Entries(handles) \cup Entries(batch)
       \/ waker[t] = "pending" \/ Awaiting(t) \/ t \in lost

\* A writer that flushes has written all; once the stream accepts bytes again it
\* holds none of that writer's.
Written ==
  \A t \in Writers :
    /\ flushing[t] => offset[t] = Chunk
    /\ flushing[t] /\ output \in {"ready", "full"} => t \notin unflushed
    /\ job[t] = "close" => offset[t] = Chunk /\ t \notin unflushed

Quitters == {t \in Tasks : job[t] = "quit"}

Caused ==
  /\ \A t \in Tasks : waker[t] = "cancelled" => t \in doomed
  /\ stale => doomed # {}
  /\ phase = "raised" => \/ exception \/ ~running \/ doomed # {}
                         \/ job[Root] = "failed" \/ Quitters # {}
  /\ lost # {} => Quitters # {}

PollInv == TypeOK /\ Places /\ Written /\ Caused

LEMMA InitPoll == Init => PollInv
<1> SUFFICES ASSUME Init PROVE PollInv
  OBVIOUS
<1> USE TaskAssumption, SizeAssumption DEF Init, Tasks
<1>1. TypeOK
  <2>1. /\ offset \in [Tasks -> 0..Chunk] /\ flushing \in [Tasks -> BOOLEAN]
        /\ left \in 0..Incoming /\ handles \in Seq(Tasks) /\ batch \in Seq(Tasks)
    OBVIOUS
  <2>2. /\ waker \in [Tasks -> {"none", "pending", "cancelled", "woken"}]
        /\ source \in [Tasks -> {"response", "input", "output"}]
        /\ job \in [Tasks -> {"absent", "start", "send", "read", "join",
                              "write", "close", "other", "last"} \cup Finished]
    OBVIOUS
  <2> QED
    BY <2>1, <2>2 DEF TypeOK
<1>2. Places
  BY EmptyQueue DEF Places, Going, Awaiting
<1>3. Written
  BY DEF Written
<1>4. Caused
  BY DEF Caused
<1> QED
  BY <1>1, <1>2, <1>3, <1>4 DEF PollInv

-----------------------------------------------------------------------------
(* Typing. *)

LEMMA LoopTyped == ASSUME TypeOK, Loop PROVE TypeOK'
<1> USE DEF TypeOK, Ended, taskVars, hostVars
<1> Root \in Tasks
  BY DEF Tasks
<1>1. CASE RunUntilComplete
  BY <1>1 DEF RunUntilComplete
<1>2. CASE RunAgain
  BY <1>2 DEF RunAgain
<1>3. CASE LeaveLoop
  BY <1>3 DEF LeaveLoop
<1>10. CASE BatchDone
  BY <1>10 DEF BatchDone
<1>11. CASE PollTraps
  BY <1>11 DEF PollTraps
<1>12. CASE CheckException
  BY <1>12 DEF CheckException
<1>4. CASE TakeHandles
  BY <1>4 DEF TakeHandles
<1>5. CASE RunHandle
  <2>1. cur' \in Tasks /\ batch' \in Seq(Tasks)
    BY <1>5 DEF RunHandle
  <2>2. UNCHANGED <<phase, running, exception, handles, waker, source, stale, due,
                    taskVars, hostVars>>
    BY <1>5 DEF RunHandle
  <2> QED
    BY <2>1, <2>2
<1>6. CASE Poll
  BY <1>6 DEF Poll, Registered
<1>7. CASE WakeDone
  BY <1>7 DEF WakeDone, WakersHandled
<1>8. ASSUME NEW t \in Tasks, Wake(t) PROVE TypeOK'
  BY <1>8 DEF Wake
<1>9. ASSUME NEW t \in Tasks, WakeRaises(t) PROVE TypeOK'
  BY <1>9 DEF WakeRaises
<1> QED
  BY <1>1, <1>2, <1>3, <1>4, <1>5, <1>6, <1>7, <1>8, <1>9, <1>10, <1>11, <1>12 DEF Loop

LEMMA SettlesTyped ==
  ASSUME TypeOK, NEW t \in Tasks, NEW how \in Finished, Settles(t, how)
  PROVE  /\ job' \in [Tasks -> {"absent", "start", "send", "read", "join",
                                "write", "close", "other", "last"} \cup Finished]
         /\ cur' = NoTask /\ handles' \in Seq(Tasks) /\ awaits' \in Tasks \cup {NoTask}
<1> Root \in Tasks
  BY DEF Tasks
<1> QED
  BY DEF TypeOK, Settles

LEMMA EndsTyped ==
  ASSUME TypeOK, NEW t \in Tasks, NEW how \in Finished, Ends(t, how)
  PROVE  /\ job' \in [Tasks -> {"absent", "start", "send", "read", "join",
                                "write", "close", "other", "last"} \cup Finished]
         /\ cur' = NoTask /\ handles' \in Seq(Tasks) /\ awaits' \in Tasks \cup {NoTask}
         /\ UNCHANGED <<taskFrame, waker, source, doomed>>
  BY SettlesTyped DEF Ends

LEMMA QuitsTyped == ASSUME TypeOK, NEW t \in Tasks, Quits(t) PROVE TypeOK'
<1>1. "quit" \in Finished
  BY DEF Finished
<1>2. /\ job' \in [Tasks -> {"absent", "start", "send", "read", "join",
                             "write", "close", "other", "last"} \cup Finished]
      /\ cur' = NoTask /\ handles' \in Seq(Tasks) /\ awaits' \in Tasks \cup {NoTask}
  BY <1>1, SettlesTyped DEF Quits
<1>3. /\ phase' = "raised" /\ batch' = <<>>
      /\ lost' = lost \cup {batch[i] : i \in DOMAIN batch}
      /\ UNCHANGED <<running, exception, waker, source, stale, due, doomed>>
      /\ UNCHANGED <<offset, flushing, hostVars>>
  BY DEF Quits
<1>4. batch' \in Seq(Tasks) /\ lost' \subseteq Tasks
  BY <1>3 DEF TypeOK
<1> QED
  BY <1>2, <1>3, <1>4 DEF TypeOK, Ended, hostVars

LEMMA ClientTyped == ASSUME TypeOK, Client PROVE TypeOK'
<1> USE DEF TypeOK, Finished, taskFrame, loopVars, hostVars, taskVars
<1> Root \in Tasks
  BY DEF Tasks
<1>1. ASSUME NEW u \in Tasks, CreateTask(u) PROVE TypeOK'
  BY <1>1 DEF CreateTask
<1>2. ASSUME NEW u \in Tasks, AwaitTask(u) PROVE TypeOK'
  BY <1>2 DEF AwaitTask
<1>3. CASE HandleRequest
  <2>1. CASE GoesOn(Root, "send")
    BY <1>3, <2>1 DEF HandleRequest, GoesOn
  <2>2. CASE Ends(Root, "failed")
    BY <1>3, <2>2, EndsTyped DEF HandleRequest
  <2> QED
    BY <1>3, <2>1, <2>2 DEF HandleRequest
<1>6. CASE SendReturns
  BY <1>6 DEF SendReturns, GoesOn
<1>7. CASE NextReturns
  BY <1>7 DEF NextReturns, GoesOn
<1>8. CASE NextEnds
  BY <1>8 DEF NextEnds, GoesOn
<1>4. CASE SendWaits
  BY <1>4 DEF SendWaits, Register
<1>9. CASE NextWaits
  BY <1>9 DEF NextWaits, Register
<1>5. CASE SendRaises \/ NextRaises \/ RootEnds
  <2>1. \E how \in Finished : Ends(Root, how)
    BY <1>5 DEF SendRaises, NextRaises, RootEnds
  <2>2. UNCHANGED <<offset, flushing, hostVars>>
    BY <1>5 DEF SendRaises, NextRaises, RootEnds
  <2> QED
    BY <2>1, <2>2, EndsTyped
<1> QED
  BY <1>1, <1>2, <1>3, <1>4, <1>5, <1>6, <1>7, <1>8, <1>9 DEF Client

LEMMA WriterTyped == ASSUME TypeOK, NEW t \in Writers, Writer(t) PROVE TypeOK'
<1> USE SizeAssumption DEF TypeOK, Finished, taskFrame, hostVars
<1> t \in Tasks
  BY DEF Tasks
<1>1. CASE WriteWaits(t)
  BY <1>1 DEF WriteWaits, Register
<1>2. CASE WriteSome(t)
  <2>1. PICK count \in 1..(Chunk - offset[t]) : offset' = [offset EXCEPT ![t] = @ + count]
    BY <1>2 DEF WriteSome
  <2>2. offset[t] + count \in 0..Chunk
    OBVIOUS
  <2>3. offset' \in [Tasks -> 0..Chunk]
    BY <2>1, <2>2
  <2> QED
    BY <1>2, <2>3 DEF WriteSome, GoesOn
<1>3. CASE Flush(t)
  BY <1>3 DEF Flush, GoesOn
<1>7. CASE WriteDone(t)
  BY <1>7 DEF WriteDone, GoesOn
<1>4. CASE WriteRaises(t)
  BY <1>4, EndsTyped DEF WriteRaises
<1>5. CASE CloseTraps(t)
  BY <1>5 DEF CloseTraps, taskVars, Ended
<1>6. CASE CloseSink(t)
  BY <1>6, EndsTyped DEF CloseSink
<1> QED
  BY <1>1, <1>2, <1>3, <1>4, <1>5, <1>6, <1>7 DEF Writer

LEMMA OtherTyped == ASSUME TypeOK, NEW t \in Tasks, Other(t) \/ Unwind(t) PROVE TypeOK'
<1> USE DEF TypeOK, Finished, taskFrame, hostVars
<1>1. CASE Yield(t)
  BY <1>1 DEF Yield
<1>2. CASE CallExceptionHandler(t)
  BY <1>2 DEF CallExceptionHandler
<1>6. CASE StopLoop(t)
  <2>1. running' \in BOOLEAN /\ phase' = phase /\ handles' = handles /\ batch' = batch
    BY <1>6 DEF StopLoop
  <2>2. UNCHANGED <<exception, cur, waker, source, stale, due>>
    BY <1>6 DEF StopLoop
  <2>3. UNCHANGED <<job, awaits, doomed, lost, offset, flushing>> /\ UNCHANGED hostVars
    BY <1>6 DEF StopLoop, taskVars
  <2> QED
    BY <2>1, <2>2, <2>3
<1>3. CASE OtherEnds(t) \/ Unwind(t)
  BY <1>3, EndsTyped DEF OtherEnds, Unwind
<1>4. CASE Unimplemented(t)
  <2>1. CASE Ends(t, "failed")
    BY <1>4, <2>1, EndsTyped DEF Unimplemented
  <2>2. CASE GoesOn(t, "last")
    BY <1>4, <2>2 DEF Unimplemented, GoesOn
  <2> QED
    BY <1>4, <2>1, <2>2 DEF Unimplemented
<1>5. ASSUME NEW u \in Tasks, Cancel(t, u) PROVE TypeOK'
  BY <1>5 DEF Cancel
<1> QED
  BY <1>1, <1>2, <1>3, <1>4, <1>5, <1>6 DEF Other

LEMMA HostTyped == ASSUME TypeOK, Host PROVE TypeOK'
<1> USE SizeAssumption DEF TypeOK, loopVars, taskVars
<1>1. CASE Respond \/ Drain
  BY <1>1 DEF Respond, Drain
<1>2. CASE Arrive
  BY <1>2 DEF Arrive
<1> QED
  BY <1>1, <1>2 DEF Host

LEMMA StepTyped == ASSUME TypeOK, [Next]_vars PROVE TypeOK'
<1>1. CASE UNCHANGED vars
  BY <1>1 DEF TypeOK, vars, loopVars, taskVars, hostVars
<1>2. CASE TaskStep
  <2> Writers \subseteq Tasks /\ Others \subseteq Tasks
    BY DEF Tasks
  <2> QED
    BY <1>2, ClientTyped, WriterTyped, OtherTyped, QuitsTyped DEF TaskStep
<1> QED
  BY <1>1, <1>2, LoopTyped, HostTyped DEF Next, Quiet

-----------------------------------------------------------------------------
(* The kinds of steps, by what they do to the places of tasks. *)

Still ==
  /\ UNCHANGED <<handles, batch, cur, waker, job, awaits, lost>>
  /\ \/ phase' \in {phase, "trapped"}
     \/ phase' # "idle" /\ phase \notin {"batch", "trapped"}
     \/ phase' # "idle" /\ cur = NoTask /\ batch = <<>>

Clears ==
  /\ phase = "wake" /\ phase' \in {"raised", "check"}
  /\ \A t \in Tasks : waker'[t] = "pending" <=> waker[t] = "pending"
  /\ UNCHANGED <<handles, batch, cur, job, awaits, lost>>

Proceeds(t) ==
  /\ Runs(t) /\ UNCHANGED <<phase, handles, batch, cur, waker, awaits, lost>>
  /\ \E step \in {"send", "read", "join", "write", "close", "last"} :
       job' = [job EXCEPT ![t] = step]

Sleeps(t) ==
  /\ Runs(t) /\ UNCHANGED <<phase, handles, batch, job, awaits, lost>>
  /\ waker' = [waker EXCEPT ![t] = "pending"] /\ cur' = NoTask

Finishes(t) == Runs(t) /\ \E how \in Finished : Ends(t, how)

LoopKind ==
  \/ RunUntilComplete \/ TakeHandles \/ RunHandle \/ Clears
  \/ \E t \in Tasks : Wake(t)

TaskKind ==
  \E t \in Tasks :
    \/ Proceeds(t) \/ Sleeps(t) \/ Finishes(t) \/ Quits(t) \/ Yield(t)
    \/ CreateTask(t) \/ AwaitTask(t)
    \/ \E u \in Tasks : Cancel(t, u)

LEMMA LoopSorted == ASSUME Loop PROVE Still \/ LoopKind
<1> USE DEF taskVars
<1>1. CASE RunAgain \/ LeaveLoop \/ BatchDone
  BY <1>1 DEF RunAgain, LeaveLoop, BatchDone, Still
<1>2. CASE Poll \/ PollTraps \/ CheckException
  BY <1>2 DEF Poll, PollTraps, CheckException, Still
<1>3. CASE WakeDone
  BY <1>3 DEF WakeDone, WakersHandled, LoopKind, Clears
<1>4. ASSUME NEW t \in Tasks, WakeRaises(t) PROVE Clears
  BY <1>4 DEF WakeRaises, Clears
<1> QED
  BY <1>1, <1>2, <1>3, <1>4 DEF Loop, LoopKind

LEMMA ClientSorted == ASSUME Client PROVE TaskKind
<1> Root \in Tasks
  BY DEF Tasks
<1>1. CASE HandleRequest \/ SendReturns \/ NextReturns \/ NextEnds
  <2>1. Proceeds(Root) \/ Finishes(Root)
    BY <1>1 DEF HandleRequest, SendReturns, NextReturns, NextEnds, Active, GoesOn,
                taskFrame, Proceeds, Finishes, Finished
  <2> QED
    BY <2>1 DEF TaskKind
<1>2. CASE SendWaits \/ NextWaits
  <2>1. Sleeps(Root)
    BY <1>2 DEF SendWaits, NextWaits, Active, Register, taskFrame, Sleeps
  <2> QED
    BY <2>1 DEF TaskKind
<1>3. CASE SendRaises \/ NextRaises \/ RootEnds
  <2>1. Finishes(Root)
    BY <1>3 DEF SendRaises, NextRaises, RootEnds, Active, Finishes, Finished
  <2> QED
    BY <2>1 DEF TaskKind
<1> QED
  BY <1>1, <1>2, <1>3 DEF Client, TaskKind

LEMMA WriterSorted == ASSUME NEW t \in Writers, Writer(t) PROVE Still \/ TaskKind
<1> t \in Tasks
  BY DEF Tasks
<1>1. CASE WriteSome(t) \/ Flush(t) \/ WriteDone(t)
  <2>1. Proceeds(t)
    BY <1>1 DEF WriteSome, Flush, WriteDone, Active, GoesOn, taskFrame, Proceeds
  <2> QED
    BY <2>1 DEF TaskKind
<1>2. CASE WriteWaits(t)
  <2>1. Sleeps(t)
    BY <1>2 DEF WriteWaits, Active, Register, taskFrame, Sleeps
  <2> QED
    BY <2>1 DEF TaskKind
<1>3. CASE WriteRaises(t) \/ CloseSink(t)
  <2>1. Finishes(t)
    BY <1>3 DEF WriteRaises, CloseSink, Active, Finishes, Finished
  <2> QED
    BY <2>1 DEF TaskKind
<1>4. CASE CloseTraps(t)
  BY <1>4 DEF CloseTraps, Still, taskVars
<1> QED
  BY <1>1, <1>2, <1>3, <1>4 DEF Writer

LEMMA OtherSorted == ASSUME NEW t \in Tasks, Other(t) \/ Unwind(t) PROVE Still \/ TaskKind
<1>1. CASE CallExceptionHandler(t)
  <2>1. Proceeds(t)
    BY <1>1 DEF CallExceptionHandler, Active, Proceeds
  <2> QED
    BY <2>1 DEF TaskKind
<1>2. CASE StopLoop(t)
  BY <1>2 DEF StopLoop, Still, taskVars
<1>3. CASE OtherEnds(t) \/ Unwind(t)
  <2>1. Finishes(t)
    BY <1>3 DEF OtherEnds, Unwind, Active, Finishes, Finished
  <2> QED
    BY <2>1 DEF TaskKind
<1>4. CASE Unimplemented(t)
  <2>1. Finishes(t) \/ Proceeds(t)
    BY <1>4 DEF Unimplemented, Active, Finishes, Finished, GoesOn, taskFrame, Proceeds
  <2> QED
    BY <2>1 DEF TaskKind
<1> QED
  BY <1>1, <1>2, <1>3, <1>4 DEF Other, TaskKind

LEMMA Sorted == ASSUME [Next]_vars PROVE Still \/ LoopKind \/ TaskKind
<1>1. CASE UNCHANGED vars \/ Quiet \/ Host
  BY <1>1 DEF Quiet, Host, Respond, Arrive, Drain, vars, loopVars, taskVars, Still
<1>2. CASE TaskStep
  <2> Writers \subseteq Tasks /\ Others \subseteq Tasks
    BY DEF Tasks
  <2> QED
    BY <1>2, ClientSorted, WriterSorted, OtherSorted DEF TaskStep, TaskKind
<1> QED
  BY <1>1, <1>2, LoopSorted DEF Next

-----------------------------------------------------------------------------
(* Each kind keeps the places. *)

LEMMA StillKeeps == ASSUME Places, Still PROVE Places'
<1>1. phase' = "idle" => phase = "idle"
  BY DEF Still
<1>2. phase' \notin {"batch", "trapped"} => batch = <<>> /\ cur = NoTask
  BY DEF Still, Places
<1> QED
  BY <1>1, <1>2 DEF Still, Places, Going, Awaiting

LEMMA StartKeeps == ASSUME TypeOK, Places, RunUntilComplete PROVE Places'
<1> Root \in Tasks /\ Root # NoTask
  BY TaskAssumption DEF Tasks
<1>1. /\ job[Root] = "absent" /\ awaits = NoTask /\ cur = NoTask
      /\ Root \notin Entries(handles) \cup Entries(batch) /\ waker[Root] # "pending"
  BY DEF RunUntilComplete, Places, Going
<1>2. /\ Entries(handles') = Entries(handles) \cup {Root} /\ NoRepeats(handles')
  BY <1>1, AppendQueue DEF RunUntilComplete, TypeOK, Places
<1>3. job'[Root] = "start" /\ \A t \in Tasks : t # Root => job'[t] = job[t]
  BY DEF RunUntilComplete, TypeOK
<1>4. phase' = "top" /\ phase = "idle" /\ UNCHANGED <<batch, cur, waker, awaits, lost>>
  BY DEF RunUntilComplete
<1> QED
  BY <1>1, <1>2, <1>3, <1>4 DEF Places, Going, Awaiting, Finished

LEMMA TakeKeeps == ASSUME TypeOK, Places, TakeHandles PROVE Places'
<1>1. /\ batch' = handles /\ handles' = <<>> /\ phase' = "batch" /\ phase = "top"
      /\ UNCHANGED <<cur, waker, job, awaits, lost>>
  BY DEF TakeHandles, taskVars
<1>2. batch = <<>>
  BY <1>1 DEF Places
<1>3. Entries(batch) = {} /\ Entries(handles') = {} /\ NoRepeats(handles')
  BY <1>1, <1>2, EmptyQueue
<1> QED
  BY <1>1, <1>3 DEF Places, Going, Awaiting

LEMMA RunKeeps == ASSUME TypeOK, Places, RunHandle PROVE Places'
<1>1. /\ phase = "batch" /\ phase' = "batch" /\ cur = NoTask
      /\ UNCHANGED <<handles, waker, job, awaits, lost>>
  BY DEF RunHandle, taskVars
<1>2. /\ cur' \in Tasks /\ cur' \in Entries(batch)
      /\ Entries(batch') = Entries(batch) \ {cur'} /\ NoRepeats(batch')
  BY TakeQueue DEF RunHandle, TypeOK, Places
<1>3. /\ \A t \in Tasks : (Going(t)' <=> Going(t)) /\ (Awaiting(t)' <=> Awaiting(t))
      /\ Going(Root)' <=> Going(Root)
  BY <1>1 DEF Going, Awaiting
<1>4. /\ Entries(handles') = Entries(handles) /\ NoRepeats(handles')
      /\ \A t \in Tasks : t # NoTask
  BY <1>1, TaskAssumption DEF Places, Tasks
<1>5. \A t \in Tasks : t \in Entries(handles') \cup Entries(batch') =>
        Going(t)' /\ waker'[t] # "pending" /\ t # cur' /\ ~Awaiting(t)'
  BY <1>1, <1>2, <1>3, <1>4 DEF Places
<1>6. \A t \in Tasks : Going(t)' => \/ t = cur' \/ t \in Entries(handles') \cup Entries(batch')
                                  \/ waker'[t] = "pending" \/ Awaiting(t)' \/ t \in lost'
  BY <1>1, <1>2, <1>3, <1>4 DEF Places
<1> QED
  BY <1>1, <1>2, <1>3, <1>4, <1>5, <1>6 DEF Places

LEMMA ClearKeeps == ASSUME Places, Clears PROVE Places'
  BY DEF Places, Clears, Going, Awaiting

LEMMA WakeKeeps == ASSUME TypeOK, Places, NEW t \in Tasks, Wake(t) PROVE Places'
<1>1. waker[t] = "pending" /\ t \notin Entries(handles) \cup Entries(batch) /\ t # cur
  BY DEF Wake, Places
<1>2. /\ Entries(handles') = Entries(handles) \cup {t} /\ NoRepeats(handles')
  BY <1>1, AppendQueue DEF Wake, TypeOK, Places
<1>3. waker'[t] = "woken" /\ \A s \in Tasks : s # t => waker'[s] = waker[s]
  BY DEF Wake, TypeOK
<1>4. UNCHANGED <<phase, batch, cur, job, awaits, lost>>
  BY DEF Wake, taskVars
<1> QED
  BY <1>1, <1>2, <1>3, <1>4 DEF Places, Going, Awaiting

LEMMA ProceedKeeps == ASSUME TypeOK, Places, NEW t \in Tasks, Proceeds(t) PROVE Places'
<1>1. cur = t /\ UNCHANGED <<phase, handles, batch, cur, waker, awaits, lost>>
  BY DEF Proceeds, Runs
<1>2. /\ job'[t] \notin Finished \cup {"absent"} /\ phase # "idle"
      /\ \A s \in Tasks : s # t => job'[s] = job[s]
  BY DEF Proceeds, Runs, TypeOK, Finished
<1>3. \A s \in Tasks : Going(s)' <=> Going(s)
  BY <1>1, <1>2 DEF Going, Places
<1>4. awaits # NoTask => job'[awaits] \notin Finished
  BY <1>2 DEF Places, TypeOK
<1> QED
  BY <1>1, <1>2, <1>3, <1>4, TaskAssumption DEF Places, Awaiting, Tasks

LEMMA SleepKeeps == ASSUME TypeOK, Places, NEW t \in Tasks, Sleeps(t) PROVE Places'
<1>1. /\ cur = t /\ cur' = NoTask /\ t # NoTask
      /\ UNCHANGED <<phase, handles, batch, job, awaits, lost>>
      /\ \A s \in Tasks : s # NoTask
  BY TaskAssumption DEF Sleeps, Runs, Tasks
<1>2. waker'[t] = "pending" /\ \A s \in Tasks : s # t => waker'[s] = waker[s]
  BY DEF Sleeps, TypeOK
<1> QED
  BY <1>1, <1>2 DEF Places, Going, Awaiting

\* A task that ends schedules the root if that awaits it, and nobody else.
LEMMA SettleQueues ==
  ASSUME TypeOK, Places, NEW t \in Tasks, cur = t, NEW how \in Finished, Settles(t, how)
  PROVE  /\ cur' = NoTask /\ NoRepeats(handles') /\ job'[t] \in Finished
         /\ \A s \in Tasks : s # t => job'[s] = job[s]
         /\ ~Awaiting(t) /\ t \notin Entries(handles) \cup Entries(batch)
         /\ waker[t] # "pending" /\ t \notin Entries(handles')
         /\ \/ /\ handles' = handles /\ awaits' = awaits
               /\ awaits # NoTask => t # Root /\ job'[awaits] \notin Finished
            \/ /\ awaits = t /\ awaits' = NoTask /\ Awaiting(Root) /\ Root # t
               /\ Going(Root) /\ waker[Root] # "pending"
               /\ Root \notin Entries(handles) \cup Entries(batch)
               /\ Entries(handles') = Entries(handles) \cup {Root}
<1> Root \in Tasks /\ \A s \in Tasks : s # NoTask
  BY TaskAssumption DEF Tasks
<1>1. /\ cur' = NoTask /\ job'[t] \in Finished
      /\ \A s \in Tasks : s # t => job'[s] = job[s]
  BY DEF Settles, TypeOK
<1>2. /\ ~Awaiting(t) /\ t \notin Entries(handles) \cup Entries(batch) /\ waker[t] # "pending"
  BY DEF Places
<1>3. CASE awaits = t
  <2>1. handles' = Append(handles, Root) /\ awaits' = NoTask
    BY <1>3 DEF Settles
  <2>2. /\ Awaiting(Root) /\ Root # t /\ Going(Root) /\ waker[Root] # "pending"
        /\ Root \notin Entries(handles) \cup Entries(batch)
    BY <1>3 DEF Awaiting, Places
  <2>3. /\ Entries(handles') = Entries(handles) \cup {Root} /\ NoRepeats(handles')
    BY <2>1, <2>2, AppendQueue DEF TypeOK, Places
  <2> QED
    BY <1>1, <1>2, <1>3, <2>1, <2>2, <2>3
<1>4. CASE awaits # t
  <2>1. handles' = handles /\ awaits' = awaits
    BY <1>4 DEF Settles
  <2>2. awaits # NoTask => t # Root /\ job'[awaits] \notin Finished
    BY <1>1, <1>2, <1>4 DEF Awaiting, Places, TypeOK
  <2>3. NoRepeats(handles') /\ t \notin Entries(handles')
    BY <1>2, <2>1 DEF Places
  <2> QED
    BY <1>1, <1>2, <2>1, <2>2, <2>3
<1> QED
  BY <1>3, <1>4

LEMMA FinishKeeps == ASSUME TypeOK, Places, NEW t \in Tasks, Finishes(t) PROVE Places'
<1>1. PICK how \in Finished : Ends(t, how)
  BY DEF Finishes
<1>2. cur = t /\ phase = "batch" /\ UNCHANGED <<phase, batch, waker, lost>>
  BY <1>1 DEF Finishes, Runs, Ends, taskFrame
<1>3. Settles(t, how)
  BY <1>1 DEF Ends
<1> QED
  BY <1>2, <1>3, SettleQueues, TaskAssumption DEF Places, Going, Awaiting, Tasks

\* What the batch still held is in lost.
LEMMA QuitKeeps == ASSUME TypeOK, Places, NEW t \in Tasks, Quits(t) PROVE Places'
<1>1. /\ cur = t /\ phase = "batch" /\ phase' = "raised" /\ batch' = <<>>
      /\ UNCHANGED waker /\ lost' = lost \cup Entries(batch)
  BY DEF Quits, Runs, Entries
<1>2. "quit" \in Finished /\ Settles(t, "quit")
  BY DEF Quits, Finished
<1>3. Entries(batch') = {} /\ NoRepeats(batch')
  BY <1>1, EmptyQueue
<1> QED
  BY <1>1, <1>2, <1>3, SettleQueues, TaskAssumption DEF Places, Going, Awaiting, Tasks

LEMMA YieldKeeps == ASSUME TypeOK, Places, NEW t \in Tasks, Yield(t) PROVE Places'
<1>1. /\ cur = t /\ cur' = NoTask /\ phase = "batch" /\ UNCHANGED <<phase, batch, waker, awaits, lost>>
      /\ job'[t] = "last" /\ \A s \in Tasks : s # t => job'[s] = job[s]
  BY DEF Yield, Active, Runs, taskFrame, TypeOK
<1>2. /\ ~Awaiting(t) /\ t \notin Entries(handles) \cup Entries(batch) /\ waker[t] # "pending"
      /\ Going(t)
  BY <1>1 DEF Places
<1>3. /\ Entries(handles') = Entries(handles) \cup {t} /\ NoRepeats(handles')
  BY <1>2, AppendQueue DEF Yield, TypeOK, Places
<1>4. \A s \in Tasks : (Going(s)' <=> Going(s)) /\ s # NoTask
  BY <1>1, <1>2, TaskAssumption DEF Going, Tasks, Finished
<1>5. awaits # NoTask => job'[awaits] \notin Finished
  BY <1>1 DEF Places, TypeOK, Finished
<1> QED
  BY <1>1, <1>2, <1>3, <1>4, <1>5, TaskAssumption DEF Places, Awaiting, Tasks

LEMMA CreateKeeps == ASSUME TypeOK, Places, NEW u \in Tasks, CreateTask(u) PROVE Places'
<1>1. /\ cur = Root /\ phase = "batch" /\ UNCHANGED <<phase, batch, cur, waker, awaits, lost>>
      /\ job[u] = "absent" /\ job[Root] = "start" /\ job'[u] \in {"write", "other"}
      /\ \A s \in Tasks : s # u => job'[s] = job[s]
  BY DEF CreateTask, Active, Runs, taskFrame, TypeOK
<1>2. /\ u \notin Entries(handles) \cup Entries(batch) /\ waker[u] # "pending"
      /\ u # cur /\ ~Going(u) /\ awaits = NoTask
  BY <1>1, TaskAssumption DEF Places, Going, Awaiting, Tasks
<1>3. /\ Entries(handles') = Entries(handles) \cup {u} /\ NoRepeats(handles')
  BY <1>2, AppendQueue DEF CreateTask, TypeOK, Places
<1> QED
  BY <1>1, <1>2, <1>3 DEF Places, Going, Awaiting, Finished

LEMMA AwaitKeeps == ASSUME TypeOK, Places, NEW u \in Tasks, AwaitTask(u) PROVE Places'
<1> Root \in Tasks /\ \A s \in Tasks : s # NoTask
  BY TaskAssumption DEF Tasks
<1>1. /\ cur = Root /\ cur' = NoTask /\ awaits' = u /\ phase = "batch"
      /\ UNCHANGED <<phase, handles, batch, waker, job, lost>>
      /\ job[Root] = "join" /\ job[u] \notin Finished /\ u # Root
  BY DEF AwaitTask, Active, Runs, taskFrame
<1> QED
  BY <1>1 DEF Places, Going, Awaiting

LEMMA CancelKeeps ==
  ASSUME TypeOK, Places, NEW t \in Tasks, NEW u \in Tasks, Cancel(t, u) PROVE Places'
<1>1. /\ cur = t /\ u # t /\ u # Root /\ UNCHANGED <<phase, batch, cur, job, awaits, lost>>
  BY DEF Cancel, Active, Runs, taskFrame
<1>2. CASE waker[u] = "pending"
  <2>1. waker'[u] = "cancelled" /\ \A s \in Tasks : s # u => waker'[s] = waker[s]
    BY <1>2 DEF Cancel, TypeOK
  <2>2. u \notin Entries(handles) \cup Entries(batch)
    BY <1>2 DEF Places
  <2>3. /\ Entries(handles') = Entries(handles) \cup {u} /\ NoRepeats(handles')
    BY <1>2, <2>2, AppendQueue DEF Cancel, TypeOK, Places
  <2> QED
    BY <1>1, <1>2, <2>1, <2>2, <2>3 DEF Places, Going, Awaiting
<1>3. CASE waker[u] # "pending"
  <2>1. UNCHANGED <<waker, handles>>
    BY <1>3 DEF Cancel
  <2> QED
    BY <1>1, <2>1 DEF Places, Going, Awaiting
<1> QED
  BY <1>2, <1>3

LEMMA PlacesKept == ASSUME TypeOK, Places, [Next]_vars PROVE Places'
<1>1. CASE LoopKind
  BY <1>1, StartKeeps, TakeKeeps, RunKeeps, ClearKeeps, WakeKeeps DEF LoopKind
<1>2. CASE TaskKind
  BY <1>2, ProceedKeeps, SleepKeeps, FinishKeeps, QuitKeeps, YieldKeeps, CreateKeeps,
     AwaitKeeps, CancelKeeps
  DEF TaskKind
<1> QED
  BY <1>1, <1>2, StillKeeps, Sorted

-----------------------------------------------------------------------------
(* What became of the bytes. *)

\* Nothing is written or flushed, and nobody has come to the end of its body.
Aside ==
  /\ UNCHANGED <<offset, flushing, unflushed>>
  /\ output' \in {output, "closed"}
  /\ \A t \in Writers : job'[t] = "close" => job[t] = "close"

LEMMA AsideKeeps == ASSUME Written, Aside PROVE Written'
  BY DEF Written, Aside

LEMMA LoopAside == ASSUME TypeOK, Loop PROVE Aside
<1> USE DEF taskVars, hostVars
<1>1. CASE RunUntilComplete
  <2>1. \A t \in Tasks : job'[t] = "close" => job[t] = "close"
    BY <1>1 DEF RunUntilComplete, TypeOK
  <2> QED
    BY <1>1, <2>1 DEF RunUntilComplete, Aside, Tasks
<1>2. CASE \E t \in Tasks : Wake(t) \/ WakeRaises(t)
  BY <1>2 DEF Wake, WakeRaises, Aside
<1>3. CASE RunAgain \/ LeaveLoop \/ TakeHandles \/ RunHandle \/ BatchDone
  BY <1>3 DEF RunAgain, LeaveLoop, TakeHandles, RunHandle, BatchDone, Aside
<1>4. CASE Poll \/ PollTraps \/ WakeDone \/ CheckException
  BY <1>4 DEF Poll, PollTraps, WakeDone, CheckException, Aside
<1> QED
  BY <1>1, <1>2, <1>3, <1>4 DEF Loop

LEMMA JobAside ==
  ASSUME TypeOK, NEW t \in Tasks, NEW step, step # "close", job' = [job EXCEPT ![t] = step]
  PROVE  \A s \in Writers : job'[s] = "close" => job[s] = "close"
  BY DEF TypeOK, Tasks

LEMMA ClientAside == ASSUME TypeOK, Client PROVE Aside
<1> USE DEF hostVars, Finished
<1> Root \in Tasks
  BY DEF Tasks
<1>1. ASSUME NEW u \in Tasks, CreateTask(u) PROVE Aside
  BY <1>1, JobAside DEF CreateTask, Aside
<1>2. ASSUME NEW u \in Tasks, AwaitTask(u) PROVE Aside
  BY <1>2 DEF AwaitTask, Aside
<1>3. CASE HandleRequest \/ SendReturns \/ NextReturns \/ NextEnds
  BY <1>3, JobAside
  DEF HandleRequest, SendReturns, NextReturns, NextEnds, GoesOn, Ends, Settles, Aside
<1>4. CASE SendWaits \/ NextWaits
  BY <1>4 DEF SendWaits, NextWaits, Register, Aside
<1>5. CASE SendRaises \/ NextRaises \/ RootEnds
  BY <1>5, JobAside DEF SendRaises, NextRaises, RootEnds, Ends, Settles, Aside
<1> QED
  BY <1>1, <1>2, <1>3, <1>4, <1>5 DEF Client

LEMMA OtherAside == ASSUME TypeOK, NEW t \in Tasks, Other(t) \/ Unwind(t) PROVE Aside
<1> USE DEF hostVars
<1>1. CASE Yield(t) \/ CallExceptionHandler(t)
  BY <1>1, JobAside DEF Yield, CallExceptionHandler, Aside
<1>2. CASE StopLoop(t)
  BY <1>2 DEF StopLoop, taskVars, Aside
<1>3. CASE OtherEnds(t) \/ Unwind(t)
  BY <1>3, JobAside DEF OtherEnds, Unwind, Ends, Settles, Aside
<1>4. CASE Unimplemented(t)
  BY <1>4, JobAside DEF Unimplemented, Ends, Settles, GoesOn, Aside
<1>5. ASSUME NEW u \in Tasks, Cancel(t, u) PROVE Aside
  BY <1>5 DEF Cancel, Aside
<1> QED
  BY <1>1, <1>2, <1>3, <1>4, <1>5 DEF Other

LEMMA QuitsAside == ASSUME TypeOK, NEW t \in Tasks, Quits(t) PROVE Aside
  BY JobAside DEF Quits, Settles, hostVars, Aside

LEMMA WriterKeeps == ASSUME TypeOK, Written, NEW t \in Writers, Writer(t) PROVE Written'
<1> USE DEF hostVars
<1> t \in Tasks /\ Writers \subseteq Tasks
  BY DEF Tasks
<1>1. CASE WriteWaits(t) \/ CloseTraps(t)
  BY <1>1, AsideKeeps DEF WriteWaits, Register, CloseTraps, taskVars, Aside
<1>2. CASE WriteRaises(t) \/ CloseSink(t)
  <2>1. Aside
    BY <1>2, JobAside DEF WriteRaises, CloseSink, Ends, Settles, Aside
  <2> QED
    BY <2>1, AsideKeeps
<1>3. CASE WriteSome(t)
  <2>1. /\ job[t] = "write" /\ offset[t] # Chunk /\ ~flushing[t]
        /\ unflushed' = unflushed \cup {t} /\ flushing' = flushing /\ output = "ready"
    BY <1>3 DEF WriteSome, Written, TypeOK
  <2>2. \A s \in Writers : s # t => offset'[s] = offset[s] /\ job'[s] = job[s]
    BY <1>3 DEF WriteSome, GoesOn, TypeOK
  <2>3. job'[t] = "write"
    BY <1>3 DEF WriteSome, GoesOn, TypeOK
  <2> QED
    BY <2>1, <2>2, <2>3 DEF Written
<1>4. CASE Flush(t)
  <2>1. /\ offset[t] = Chunk /\ output' = "flushing" /\ UNCHANGED <<offset, unflushed>>
        /\ \A s \in Writers : s # t => flushing'[s] = flushing[s] /\ job'[s] = job[s]
        /\ job'[t] = "write"
    BY <1>4 DEF Flush, GoesOn, TypeOK
  <2> QED
    BY <2>1 DEF Written
<1>5. CASE WriteDone(t)
  <2>1. /\ offset[t] = Chunk /\ flushing[t] /\ output = "ready"
        /\ UNCHANGED <<offset, flushing, unflushed, output>>
        /\ \A s \in Writers : s # t => job'[s] = job[s]
    BY <1>5 DEF WriteDone, GoesOn, TypeOK
  <2> QED
    BY <2>1 DEF Written
<1> QED
  BY <1>1, <1>2, <1>3, <1>4, <1>5 DEF Writer

LEMMA WrittenKept == ASSUME TypeOK, Written, [Next]_vars PROVE Written'
<1> Writers \subseteq Tasks /\ Others \subseteq Tasks
  BY DEF Tasks
<1>1. CASE UNCHANGED vars \/ Quiet \/ Respond \/ Arrive
  BY <1>1, AsideKeeps DEF Quiet, Respond, Arrive, vars, loopVars, taskVars, hostVars, Aside
<1>2. CASE Drain
  BY <1>2 DEF Drain, loopVars, taskVars, Written
<1>3. CASE TaskStep
  BY <1>3, ClientAside, OtherAside, QuitsAside, WriterKeeps, AsideKeeps DEF TaskStep
<1> QED
  BY <1>1, <1>2, <1>3, LoopAside, AsideKeeps DEF Next, Host

-----------------------------------------------------------------------------
(* What a failure has for a cause. *)

\* A task that quit stays so.
QuittersStay == Quitters \subseteq Quitters'

LEMMA QuittersKept == ASSUME TypeOK, Places, [Next]_vars PROVE QuittersStay
<1> USE DEF QuittersStay, Quitters
<1> Root \in Tasks
  BY DEF Tasks
<1>1. ASSUME NEW t \in Tasks, NEW step, job[t] # "quit", job' = [job EXCEPT ![t] = step]
      PROVE QuittersStay
  BY <1>1 DEF TypeOK
<1>2. ASSUME UNCHANGED job PROVE QuittersStay
  BY <1>2
<1>3. \A t \in Tasks : Runs(t) => job[t] # "quit"
  BY DEF Runs, Places, Going, Finished
<1>4. CASE Still
  BY <1>2, <1>4 DEF Still
<1>5. CASE LoopKind
  <2>1. CASE RunUntilComplete
    <3>1. job[Root] # "quit"
      BY <2>1 DEF RunUntilComplete, Places
    <3> QED
      BY <1>1, <2>1, <3>1 DEF RunUntilComplete
  <2>2. CASE TakeHandles \/ RunHandle \/ Clears \/ \E t \in Tasks : Wake(t)
    BY <1>2, <2>2 DEF TakeHandles, RunHandle, Clears, Wake, taskVars
  <2> QED
    BY <1>5, <2>1, <2>2 DEF LoopKind
<1>6. ASSUME NEW t \in Tasks, Proceeds(t) \/ Finishes(t) \/ Quits(t) \/ Yield(t)
      PROVE QuittersStay
  <2>1. Runs(t) /\ \E step : job' = [job EXCEPT ![t] = step]
    BY <1>6 DEF Proceeds, Finishes, Ends, Quits, Settles, Yield, Active
  <2> QED
    BY <1>1, <1>3, <2>1
<1>7. ASSUME NEW t \in Tasks, NEW u \in Tasks, Sleeps(t) \/ AwaitTask(t) \/ Cancel(t, u)
      PROVE QuittersStay
  BY <1>2, <1>7 DEF Sleeps, AwaitTask, Cancel
<1>8. ASSUME NEW u \in Tasks, CreateTask(u) PROVE QuittersStay
  <2>1. job[u] # "quit" /\ \E step : job' = [job EXCEPT ![u] = step]
    BY <1>8 DEF CreateTask
  <2> QED
    BY <1>1, <2>1
<1>9. CASE TaskKind
  BY <1>6, <1>7, <1>8, <1>9 DEF TaskKind
<1> HIDE DEF QuittersStay
<1> QED
  BY <1>4, <1>5, <1>9, Sorted

\* What no cause follows from.
Harmless ==
  /\ \A t \in Tasks : waker'[t] = "cancelled" => waker[t] = "cancelled"
  /\ doomed' = doomed /\ stale' = stale /\ lost' = lost
  /\ phase' = "raised" =>
       phase = "raised" /\ UNCHANGED <<exception, running>> /\ job' = job

LEMMA HarmlessKeeps == ASSUME Caused, Harmless, QuittersStay PROVE Caused'
  BY DEF Caused, Harmless, QuittersStay

LEMMA LoopCaused == ASSUME TypeOK, Caused, Loop, QuittersStay PROVE Caused'
<1> USE DEF taskVars, hostVars
<1>1. CASE RunUntilComplete \/ RunAgain \/ TakeHandles \/ RunHandle \/ BatchDone
  BY <1>1, HarmlessKeeps DEF RunUntilComplete, RunAgain, TakeHandles, RunHandle, BatchDone, Harmless
<1>2. CASE Poll \/ PollTraps \/ WakeDone
  BY <1>2, HarmlessKeeps DEF Poll, PollTraps, WakeDone, WakersHandled, Harmless
<1>3. CASE LeaveLoop
  <2>1. phase' = "raised" => ~running \/ job[Root] = "failed" \/ job[Root] = "quit"
    BY <1>3 DEF LeaveLoop, Finished
  <2>2. job[Root] = "quit" => Quitters # {}
    BY DEF Quitters, Tasks
  <2> QED
    BY <1>3, <2>1, <2>2 DEF LeaveLoop, Caused, Quitters
<1>4. CASE CheckException
  BY <1>4 DEF CheckException, Caused, Quitters
<1>5. ASSUME NEW t \in Tasks, Wake(t) PROVE Caused'
  <2>1. Harmless
    BY <1>5 DEF Wake, Harmless, TypeOK
  <2> QED
    BY <2>1, HarmlessKeeps
<1>6. ASSUME NEW t \in Tasks, WakeRaises(t) PROVE Caused'
  BY <1>6 DEF WakeRaises, Caused, Quitters
<1> QED
  BY <1>1, <1>2, <1>3, <1>4, <1>5, <1>6 DEF Loop

\* What a task does: it may cancel another that waits.
Tame ==
  /\ phase' # "raised" /\ stale' = stale /\ lost' = lost /\ doomed \subseteq doomed'
  /\ \A t \in Tasks : waker'[t] = "cancelled" => waker[t] = "cancelled" \/ t \in doomed'

LEMMA ClientTame == ASSUME TypeOK, Client PROVE Tame
<1> USE DEF taskFrame
<1> Root \in Tasks
  BY DEF Tasks
<1>1. ASSUME NEW u \in Tasks, CreateTask(u) \/ AwaitTask(u) PROVE Tame
  BY <1>1 DEF CreateTask, AwaitTask, Active, Runs, Tame
<1>2. CASE HandleRequest \/ SendReturns \/ NextReturns \/ NextEnds
  BY <1>2 DEF HandleRequest, SendReturns, NextReturns, NextEnds, GoesOn, Ends, Active, Runs, Tame
<1>3. CASE SendWaits \/ NextWaits
  <2>1. \E what : Runs(Root) /\ Register(Root, what)
    BY <1>3 DEF SendWaits, NextWaits, Active
  <2> QED
    BY <2>1 DEF Register, Runs, Tame, TypeOK
<1>4. CASE SendRaises \/ NextRaises \/ RootEnds
  BY <1>4 DEF SendRaises, NextRaises, RootEnds, Ends, Active, Runs, Tame
<1> QED
  BY <1>1, <1>2, <1>3, <1>4 DEF Client

LEMMA WriterTame == ASSUME TypeOK, NEW t \in Writers, Writer(t) PROVE Tame
<1> USE DEF taskFrame
<1> t \in Tasks
  BY DEF Tasks
<1>1. CASE WriteWaits(t)
  BY <1>1 DEF WriteWaits, Register, Active, Runs, Tame, TypeOK
<1>2. CASE WriteSome(t) \/ Flush(t) \/ WriteDone(t)
  BY <1>2 DEF WriteSome, Flush, WriteDone, GoesOn, Active, Runs, Tame
<1>3. CASE WriteRaises(t) \/ CloseSink(t)
  BY <1>3 DEF WriteRaises, CloseSink, Ends, Active, Runs, Tame
<1>4. CASE CloseTraps(t)
  BY <1>4 DEF CloseTraps, taskVars, Tame
<1> QED
  BY <1>1, <1>2, <1>3, <1>4 DEF Writer

LEMMA OtherTame == ASSUME TypeOK, NEW t \in Tasks, Other(t) \/ Unwind(t) PROVE Tame
<1> USE DEF taskFrame
<1>1. CASE Yield(t) \/ CallExceptionHandler(t) \/ StopLoop(t)
  BY <1>1 DEF Yield, CallExceptionHandler, StopLoop, taskVars, Active, Runs, Tame
<1>2. CASE OtherEnds(t) \/ Unwind(t) \/ Unimplemented(t)
  BY <1>2 DEF OtherEnds, Unwind, Unimplemented, GoesOn, Ends, Active, Runs, Tame
<1>3. ASSUME NEW u \in Tasks, Cancel(t, u) PROVE Tame
  BY <1>3 DEF Cancel, Active, Runs, Tame, TypeOK
<1> QED
  BY <1>1, <1>2, <1>3 DEF Other

LEMMA QuitsCaused == ASSUME TypeOK, Caused, NEW t \in Tasks, Quits(t) PROVE Caused'
<1>1. t \in Quitters'
  BY DEF Quits, Settles, Quitters, TypeOK
<1> QED
  BY <1>1 DEF Quits, Caused

LEMMA CausedKept == ASSUME TypeOK, Places, Caused, [Next]_vars PROVE Caused'
<1> Writers \subseteq Tasks /\ Others \subseteq Tasks
  BY DEF Tasks
<1> QuittersStay
  BY QuittersKept
<1>1. CASE UNCHANGED vars \/ Quiet \/ Host
  BY <1>1, HarmlessKeeps
  DEF Quiet, Host, Respond, Arrive, Drain, vars, loopVars, taskVars, Harmless
<1>2. CASE TaskStep
  <2>1. Tame \/ \E t \in Tasks : Quits(t)
    BY <1>2, ClientTame, WriterTame, OtherTame DEF TaskStep
  <2>2. CASE Tame
    BY <2>2 DEF Tame, Caused, QuittersStay
  <2> QED
    BY <2>1, <2>2, QuitsCaused
<1> QED
  BY <1>1, <1>2, LoopCaused DEF Next

LEMMA PollInvariant == Spec => []PollInv
<1>1. PollInv /\ [Next]_vars => PollInv'
  BY StepTyped, PlacesKept, WrittenKept, CausedKept DEF PollInv
<1> QED
  BY <1>1, InitPoll, PTL DEF Spec

-----------------------------------------------------------------------------
(* The theorems. *)

\* The variables have their types: a queue holds tasks only, and no writer counts
\* more bytes than its chunk has.
THEOREM PollLoopTypeCorrect == Spec => []TypeOK
<1>1. PollInv => TypeOK
  BY DEF PollInv
<1> QED
  BY <1>1, PollInvariant, PTL

\* No wake-up is lost in the loop, whatever tasks there are, but with the batch
\* that a task left by SystemExit.
THEOREM NoWakeUpLost == Spec => []NobodyForgotten
<1>1. ASSUME PollInv, NEW t \in Tasks, job[t] \notin Finished \cup {"absent"}
      PROVE  \/ cur = t \/ Queued(t) \/ waker[t] = "pending"
             \/ t = Root /\ awaits # NoTask /\ job[awaits] \notin Finished
             \/ t \in lost
  BY <1>1 DEF PollInv, Places, Going, Awaiting, Queued, Entries
<1>2. PollInv => NobodyForgotten
  BY <1>1 DEF NobodyForgotten, PollInv, Caused, Quitters
<1> QED
  BY <1>2, PollInvariant, PTL

\* Nor does one step a task twice, or one that has ended.
THEOREM SteppedOnce == Spec => []HandledOnce
<1>1. ASSUME PollInv, NEW t \in Tasks, Queued(t)
      PROVE  job[t] \notin Finished \cup {"absent"} /\ waker[t] # "pending" /\ cur # t
  <2>1. t \in Entries(handles) \cup Entries(batch)
    BY <1>1 DEF Queued, Entries
  <2> QED
    BY <1>1, <2>1 DEF PollInv, Places, Going
<1>2. PollInv => HandledOnce
  BY <1>1 DEF PollInv, Places, NoRepeats, HandledOnce
<1> QED
  BY <1>2, PollInvariant, PTL

\* A writer that has sent its body has flushed it, for any number of writers.
THEOREM FlushedWhenSent == Spec => []SentIsFlushed
<1>1. PollInv => SentIsFlushed
  BY DEF PollInv, Written, SentIsFlushed
<1> QED
  BY <1>1, PollInvariant, PTL

\* The loop fails only for a cause.
THEOREM FailuresHaveCauses == Spec => []FailsForCause
<1>1. PollInv => FailsForCause
  BY DEF PollInv, Caused, Quitters, FailsForCause
<1> QED
  BY <1>1, PollInvariant, PTL
=============================================================================

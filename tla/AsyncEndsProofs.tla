---------------------------- MODULE AsyncEndsProofs ----------------------------
(***************************************************************************)
(* Proofs about AsyncEnds, for any ends, exports and tasks: that it        *)
(* implements AsyncLoop, and who owns a handle.                            *)
(*                                                                         *)
(* The first needs a fact about handles: one that a wrapper has and that   *)
(* is not open is in an operation, so that what traps there is a misuse of *)
(* AsyncLoop (Handles).  The invariant of AsyncLoop then holds here, too.  *)
(***************************************************************************)
EXTENDS AsyncEnds, AsyncLoopProofs

EndTyped ==
  /\ native \in [AllEnds -> {"none", "open", "busy", "dropped"}]
  /\ duty \in [Tasks -> AllEnds \cup {NoEnd}]
  /\ held \subseteq AllEnds

InProgress == \E t \in joined : subtask[t] = "end"

Carries(t, e) == duty[t] = e /\ (job[t] \notin Ended \/ t \in doomed)

Handles ==
  /\ armed = held
  /\ \A e \in held : native[e] = "open" \/ (native[e] = "busy" /\ InProgress)

Owned ==
  /\ \A e \in AllEnds : native[e] = "open" => e \in held \cup gone
  /\ \A e \in AllEnds : native[e] = "open" =>
       e \in held \cup lost \/ \E t \in Tasks : Carries(t, e)
  /\ \A t \in Tasks : job[t] = "absent" => duty[t] = NoEnd

EndsInv == LoopInv /\ EndTyped /\ Handles /\ Owned /\ WrittenBeforeDropped

LEMMA InitEnds == EndsInit => EndsInv
<1> SUFFICES ASSUME EndsInit PROVE EndsInv
  OBVIOUS
<1>1. LoopInv
  BY InitLoop DEF EndsInit
<1>2. EndTyped /\ Handles /\ Owned /\ WrittenBeforeDropped
  <2>1. PICK given \in SUBSET AllEnds :
          /\ held = given /\ armed = given /\ gone = AllEnds \ given
          /\ native = [e \in AllEnds |-> IF e \in given THEN "open" ELSE "none"]
    BY DEF EndsInit
  <2>2. \A e \in AllEnds : native[e] = IF e \in held THEN "open" ELSE "none"
    BY <2>1
  <2>3. duty = [t \in Tasks |-> NoEnd]
    BY DEF EndsInit
  <2>4. EndTyped
    <3>1. native \in [AllEnds -> {"none", "open", "busy", "dropped"}]
      BY <2>1
    <3>2. duty \in [Tasks -> AllEnds \cup {NoEnd}] /\ held \subseteq AllEnds
      BY <2>1, <2>3
    <3> QED
      BY <3>1, <3>2 DEF EndTyped
  <2>5. armed = held /\ held \subseteq AllEnds /\ \A t \in Tasks : duty[t] = NoEnd
    BY <2>1, <2>3
  <2>6. Handles /\ Owned
    <3>1. \A e \in AllEnds : (e \in held => native[e] = "open") /\ (native[e] = "open" => e \in held)
      BY <2>2
    <3>2. Handles
      BY <2>5, <3>1 DEF Handles
    <3>3. Owned
      BY <2>5, <3>1 DEF Owned
    <3> QED
      BY <3>2, <3>3
  <2>7. WrittenBeforeDropped
    BY <2>2 DEF WrittenBeforeDropped, AllEnds
  <2> QED
    BY <2>4, <2>6, <2>7
<1> QED
  BY <1>1, <1>2 DEF EndsInv

-----------------------------------------------------------------------------
(* Every step is one of AsyncLoop. *)

LEMMA SuspendsSimulated ==
  ASSUME NEW t \in Tasks, NEW e, Active(t), Suspends(t, e) PROVE Next
  BY DEF Suspends, CallBlocks, TaskStep, Guest, Next

LEMMA RefusedSimulated ==
  ASSUME NEW t \in Tasks, Active(t), Fails(t) PROVE Next
  BY DEF TaskFails, TaskStep, Guest, Next

LEMMA SpawnSimulated ==
  ASSUME NEW t \in Tasks, Runs(t), Spawns(t) PROVE Next
  BY DEF Spawn, TaskStep, Guest, Next

LEMMA MisuseSimulated ==
  ASSUME Handles, Alive, NEW e \in held, Misused(e) PROVE Next
<1>1. InProgress /\ Traps("misuse")
  BY DEF Handles, Misused
<1> QED
  BY <1>1 DEF InProgress, Misuse, Next

LEMMA StreamSimulated ==
  ASSUME Handles, NEW t \in Tasks, NEW e, Transfers(t, e) \/ Closes(t, e)
  PROVE  [Next]_vars
<1>1. Active(t) /\ Alive
  BY DEF Transfers, Closes, Uses, Active, Runs
<1>2. CASE Transfers(t, e)
  BY <1>1, <1>2, SuspendsSimulated, RefusedSimulated, MisuseSimulated DEF Transfers, Refused
<1>3. CASE Closes(t, e)
  BY <1>1, <1>3, MisuseSimulated DEF Closes
<1> QED
  BY <1>2, <1>3

LEMMA TaskSimulated ==
  ASSUME Handles, NEW t \in Tasks, EndStep(t) PROVE [Next]_vars
<1>1. ASSUME NEW e \in AllEnds, FutureRead(t, e) \/ FutureReaderExit(t, e) PROVE [Next]_vars
  BY <1>1, SuspendsSimulated, RefusedSimulated DEF FutureRead, FutureReaderExit, Refused, Uses
<1>2. ASSUME NEW e \in AllEnds, FutureWrite(t, e) PROVE [Next]_vars
  BY <1>2, SuspendsSimulated, RefusedSimulated DEF FutureWrite, Refused, Uses
<1>3. ASSUME NEW e \in AllEnds, FutureWriterExit(t, e) PROVE [Next]_vars
  BY <1>3, SpawnSimulated, RefusedSimulated DEF FutureWriterExit, Uses, Active
<1>4. CASE ByteRead(t) \/ ByteWrite(t) \/ StreamRead(t) \/ StreamWrite(t)
  BY <1>4, StreamSimulated DEF ByteRead, ByteWrite, StreamRead, StreamWrite
<1>5. CASE WriteDefault(t)
  <2>1. CASE SpawnedEnds(t)
    BY <2>1 DEF TaskStep, Guest, Next
  <2>2. Active(t) /\ (SpawnedEnds(t) \/ Suspends(t, duty[t]) \/ Fails(t))
    BY <1>5 DEF WriteDefault
  <2> QED
    BY <2>1, <2>2, SuspendsSimulated, RefusedSimulated
<1> QED
  BY <1>1, <1>2, <1>3, <1>4, <1>5 DEF EndStep

LEMMA CollectorSimulated == ASSUME Handles, Collector PROVE [Next]_vars
<1>1. ASSUME NEW e \in AllEnds, CollectDetached(e) \/ CollectLost(e) PROVE [Next]_vars
  BY <1>1 DEF CollectDetached, CollectLost
<1>2. ASSUME NEW e \in AllEnds, CollectDropped(e) PROVE [Next]_vars
  BY <1>2, MisuseSimulated DEF CollectDropped, Collectable, Handles
<1>3. ASSUME NEW e \in AllEnds, NEW t \in Tasks, CollectWriter(t, e) PROVE [Next]_vars
  BY <1>3, SpawnSimulated DEF CollectWriter
<1> QED
  BY <1>1, <1>2, <1>3 DEF Collector

LEMMA StepSimulated == ASSUME Handles, [EndsNext]_allVars PROVE [Next]_vars
<1>1. CASE UNCHANGED allVars
  BY <1>1 DEF allVars
<1>2. CASE EndsGuest
  BY <1>2, TaskSimulated DEF EndsGuest, Guest, Next
<1> QED
  BY <1>1, <1>2, CollectorSimulated DEF EndsNext, Next

-----------------------------------------------------------------------------
(* What a step of AsyncLoop means for the tasks that hold ends. *)

\* Only the task that runs ends, none becomes absent again or is pardoned, and an
\* operation on an end stays in progress.
Onward ==
  /\ \A t \in Tasks : job'[t] \in Ended => job[t] \in Ended \/ t = cur
  /\ \A t \in Tasks : job'[t] = "absent" => job[t] = "absent"
  /\ doomed \subseteq doomed'
  /\ InProgress => InProgress'

LEMMA HostOnward == ASSUME LoopInv, HostKind PROVE Onward
<1> USE DEF LoopInv, Typed, Ended
<1>1. ASSUME NEW x \in Exports, FirstPoll(x) PROVE Onward
  <2>1. New \in Tasks /\ job[New] = "absent"
    BY <1>1, NewIs DEF FirstPoll
  <2>2. job'[New] = "ready" /\ \A t \in Tasks : t # New => job'[t] = job[t]
    <3> DEFINE u == New
    <3>1. job' = [job EXCEPT ![u] = "ready"] /\ u \in Tasks
      BY <1>1, <2>1 DEF FirstPoll
    <3> HIDE DEF u
    <3>2. job'[u] = "ready" /\ \A t \in Tasks : t # u => job'[t] = job[t]
      BY <3>1
    <3> QED
      BY <3>2 DEF u
  <2>3. UNCHANGED <<doomed, joined, subtask>>
    BY <1>1 DEF FirstPoll, hostVars
  <2> QED
    BY <2>2, <2>3 DEF Onward, InProgress
<1>2. ASSUME NEW x \in Exports, Leaves(x) PROVE Onward
  BY <1>2 DEF Leaves, taskVars, hostVars, Onward, InProgress
<1>3. ASSUME NEW x \in Exports, NEW t \in Tasks, Started(x, t) PROVE Onward
  <2>1. \A s \in Tasks : subtask[s] = "end" => subtask'[s] = "end"
    BY <1>3 DEF Started
  <2>2. UNCHANGED <<job, doomed, joined>>
    BY <1>3 DEF Started, taskVars
  <2> QED
    BY <2>1, <2>2 DEF Onward, InProgress
<1>4. ASSUME NEW x \in Exports, NEW t \in Tasks, Answered(x, t) PROVE Onward
  <2>1. /\ \A s \in Tasks : s # t => job'[s] = job[s] /\ subtask'[s] = subtask[s]
        /\ job'[t] = "ready" /\ joined' = joined \ {t} /\ doomed' = doomed
    BY <1>4 DEF Answered
  <2>2. subtask[t] # "end" /\ joined \subseteq Tasks
    BY <1>4 DEF Answered
  <2>3. InProgress => InProgress'
    BY <2>1, <2>2 DEF InProgress
  <2>4. \A s \in Tasks : job'[s] \in Ended \cup {"absent"} => job'[s] = job[s]
    BY <2>1
  <2> QED
    BY <2>1, <2>3, <2>4 DEF Onward
<1> QED
  BY <1>1, <1>2, <1>3, <1>4 DEF HostKind

LEMMA TaskOnward == ASSUME LoopInv, TaskKind PROVE Onward
<1> USE DEF LoopInv, Typed, Ended, Active, Runs
<1>1. ASSUME NEW t \in Tasks, CallBlocks(t) PROVE Onward
  <2>1. PICK what \in {"starting", "end"} : Blocks(t, what)
    BY <1>1 DEF CallBlocks
  <2>2. t \notin joined
    BY <1>1 DEF CallBlocks, Queues, Waitables
  <2>3. /\ \A s \in Tasks : s # t => job'[s] = job[s] /\ subtask'[s] = subtask[s]
        /\ job'[t] = "calls" /\ joined \subseteq joined' /\ doomed' = doomed
    BY <2>1 DEF Blocks
  <2> QED
    BY <2>2, <2>3 DEF Onward, InProgress
<1>2. ASSUME NEW t \in Tasks, Yield(t) PROVE Onward
  BY <1>2 DEF Yield, hostVars, Onward, InProgress
<1>3. ASSUME NEW t \in Tasks, NEW u \in Tasks, Await(t, u) PROVE Onward
  BY <1>3 DEF Await, hostVars, Onward, InProgress
<1>4. ASSUME NEW t \in Tasks, NEW u \in Tasks, Cancel(t, u) PROVE Onward
  BY <1>4 DEF Cancel, hostVars, Onward, InProgress
<1>5. ASSUME NEW t \in Tasks, NEW how, Begins(t, how) PROVE Onward
  <2>1. New \in Tasks
    BY <1>5, NewIs DEF Begins
  <2>2. job'[New] = "ready" /\ \A s \in Tasks : s # New => job'[s] = job[s]
    BY <1>5, <2>1 DEF Begins
  <2>3. UNCHANGED <<doomed, joined, subtask>>
    BY <1>5 DEF Begins, hostVars
  <2> QED
    BY <2>2, <2>3 DEF Onward, InProgress
<1>6. ASSUME NEW t \in Tasks, NEW how \in Ended, Runs(t), Ends(t, how) PROVE Onward
  <2>1. /\ cur = t /\ doomed \subseteq doomed' /\ UNCHANGED <<joined, subtask>>
        /\ job'[t] # "absent"
    BY <1>6 DEF Ends
  <2>2. \A s \in Tasks : s # t => job'[s] \in {job[s], "ready"}
    BY <1>6 DEF Ends
  <2> QED
    BY <2>1, <2>2 DEF Onward, InProgress
<1> QED
  BY <1>1, <1>2, <1>3, <1>4, <1>5, <1>6 DEF TaskKind

LEMMA StepOnward == ASSUME LoopInv, [Next]_vars PROVE Onward
<1>1. CASE Halts
  BY <1>1 DEF Halts, taskVars, hostVars, Onward, InProgress
<1>2. CASE LoopKind
  BY <1>2 DEF LoopKind, TakeHandles, RunHandle, Turns, taskVars, hostVars, Onward, InProgress
<1> QED
  BY <1>1, <1>2, HostOnward, TaskOnward, Sorted

-----------------------------------------------------------------------------
(* What each kind of step keeps of the handles. *)

EndPart == EndTyped /\ Handles /\ Owned /\ WrittenBeforeDropped

\* A wrapper and its handle stay as they are, and no coroutine ends with an end.
Rests ==
  /\ UNCHANGED <<held, armed, gone, native, lost, duty>> /\ written \subseteq written'
  /\ Onward
  /\ \A t \in Tasks : t = cur /\ job'[t] \in Ended =>
       \/ duty[t] = NoEnd \/ t \in doomed
       \/ duty[t] \notin held \cup gone

\* The wrapper gives its handle away and drops it.
Releases(e) ==
  /\ held' = held \ {e} /\ armed' = armed \ {e} /\ Drops(e)
  /\ e \in FutureWriters => e \in written'
  /\ gone \subseteq gone' /\ lost' = lost /\ written \subseteq written' /\ Onward

\* An operation begins, for which the wrapper may keep its handle.
Operates(t, e) ==
  /\ \/ held' = held \ {e} /\ armed' = armed \ {e}
     \/ e \notin held /\ UNCHANGED <<held, armed>>
     \/ UNCHANGED <<held, armed>> /\ InProgress'
  /\ native' = [native EXCEPT ![e] = "busy"]
  /\ duty[t] \in {NoEnd, e} /\ duty' = [duty EXCEPT ![t] = e]
  /\ job[t] # "absent" /\ job'[t] \notin Ended
  /\ UNCHANGED <<gone, lost>> /\ written \subseteq written' /\ Onward

\* A new task gets the handle.
Hands(u, e) ==
  /\ job[u] = "absent" /\ job'[u] \notin Ended \cup {"absent"}
  /\ duty' = [duty EXCEPT ![u] = e]
  /\ \/ UNCHANGED <<held, armed, gone>>
     \/ held' = held \ {e} /\ armed' = armed \ {e} /\ gone' = gone \cup {e}
  /\ UNCHANGED <<native, lost, written>> /\ Onward
  /\ \A t \in Tasks : t = cur => job'[t] \notin Ended

LEMMA RestKeeps == ASSUME EndPart, Rests PROVE EndPart'
<1> USE DEF EndPart
<1>1. EndTyped'
  BY DEF Rests, EndTyped
<1>2. Handles'
  BY DEF Rests, Handles, Onward
<1>3. Owned'
  <2>1. ASSUME NEW e \in AllEnds, NEW t \in Tasks, native[e] = "open", Carries(t, e)
        PROVE  Carries(t, e)'
    BY <2>1, EndAssumption DEF Rests, Carries, Onward, Owned
  <2> QED
    BY <2>1 DEF Rests, Owned, Onward
<1>4. WrittenBeforeDropped'
  BY DEF Rests, WrittenBeforeDropped
<1> QED
  BY <1>1, <1>2, <1>3, <1>4

LEMMA ReleaseKeeps ==
  ASSUME EndPart, NEW e \in AllEnds, Releases(e), duty' \in [Tasks -> AllEnds \cup {NoEnd}],
         \A t \in Tasks : duty[t] # e => duty'[t] = duty[t],
         \A t \in Tasks : duty[t] # duty'[t] => duty'[t] = NoEnd,
         \A t \in Tasks : t = cur /\ job'[t] \in Ended => duty[t] \in {e, NoEnd}
  PROVE  EndPart'
<1> USE DEF EndPart
<1>1. /\ native' = [native EXCEPT ![e] = "dropped"]
      /\ native'[e] = "dropped" /\ \A f \in AllEnds : f # e => native'[f] = native[f]
  BY DEF Releases, Drops, EndTyped
<1>2. EndTyped'
  BY <1>1 DEF Releases, EndTyped
<1>3. Handles'
  BY <1>1 DEF Releases, Handles, Onward, EndTyped
<1>4. Owned'
  <2>1. ASSUME NEW f \in AllEnds, NEW t \in Tasks, f # e, Carries(t, f)
        PROVE  Carries(t, f)'
    BY <2>1, EndAssumption DEF Releases, Carries, Onward
  <2> QED
    BY <1>1, <2>1 DEF Releases, Owned, Onward
<1>5. WrittenBeforeDropped'
  BY <1>1 DEF Releases, WrittenBeforeDropped, AllEnds
<1> QED
  BY <1>2, <1>3, <1>4, <1>5

LEMMA OperateKeeps ==
  ASSUME EndPart, NEW t \in Tasks, NEW e \in AllEnds, Operates(t, e), t = cur
  PROVE  EndPart'
<1> USE DEF EndPart
<1>1. /\ native'[e] = "busy" /\ \A f \in AllEnds : f # e => native'[f] = native[f]
      /\ duty'[t] = e /\ \A s \in Tasks : s # t => duty'[s] = duty[s]
  BY DEF Operates, EndTyped
<1>2. EndTyped'
  BY DEF Operates, EndTyped
<1>3. Handles'
  BY <1>1 DEF Operates, Handles, Onward, EndTyped
<1>4. Owned'
  <2>1. ASSUME NEW f \in AllEnds, NEW s \in Tasks, f # e, Carries(s, f)
        PROVE  Carries(s, f)'
    BY <1>1, <2>1, EndAssumption DEF Operates, Carries, Onward
  <2> QED
    BY <1>1, <2>1 DEF Operates, Owned, Onward
<1>5. WrittenBeforeDropped'
  BY <1>1 DEF Operates, WrittenBeforeDropped, AllEnds
<1> QED
  BY <1>2, <1>3, <1>4, <1>5

LEMMA HandKeeps ==
  ASSUME EndPart, NEW u \in Tasks, NEW e \in AllEnds, Hands(u, e)
  PROVE  EndPart'
<1> USE DEF EndPart
<1>1. /\ duty[u] = NoEnd /\ duty'[u] = e /\ \A s \in Tasks : s # u => duty'[s] = duty[s]
      /\ native' = native
  BY DEF Hands, EndTyped, Owned
<1>2. EndTyped'
  BY DEF Hands, EndTyped
<1>3. Handles'
  BY <1>1 DEF Hands, Handles, Onward, EndTyped
<1>4. Owned'
  <2>1. ASSUME NEW f \in AllEnds, NEW s \in Tasks, Carries(s, f) PROVE Carries(s, f)'
    BY <1>1, <2>1, EndAssumption DEF Hands, Carries, Onward
  <2>2. Carries(u, e)'
    BY <1>1 DEF Hands, Carries
  <2> QED
    BY <1>1, <2>1, <2>2 DEF Hands, Owned, Onward
<1>5. WrittenBeforeDropped'
  BY <1>1 DEF Hands, WrittenBeforeDropped
<1> QED
  BY <1>2, <1>3, <1>4, <1>5

-----------------------------------------------------------------------------
(* Every step is of such a kind. *)

\* The task that runs has not ended.
LEMMA CurrentRuns ==
  ASSUME LoopInv PROVE \A t \in Tasks : t = cur => job[t] = "ready"
  BY DEF LoopInv, Queues

LEMMA StandingRests ==
  ASSUME LoopInv, Onward, UNCHANGED endVars, job' = job PROVE Rests
  BY CurrentRuns DEF Rests, endVars, Ended

LEMMA SuspendFacts ==
  ASSUME LoopInv, NEW t \in Tasks, NEW e \in AllEnds, Active(t), Suspends(t, e)
  PROVE  /\ t = cur /\ job[t] = "ready" /\ job'[t] = "calls" /\ InProgress'
         /\ native' = [native EXCEPT ![e] = "busy"] /\ duty' = [duty EXCEPT ![t] = e]
<1>1. t = cur /\ job[t] = "ready"
  BY CurrentRuns DEF Active, Runs
<1>2. /\ job' = [job EXCEPT ![t] = "calls"] /\ joined' = joined \cup {t}
      /\ subtask' = [subtask EXCEPT ![t] = "end"]
  BY DEF Suspends, Blocks
<1>3. job'[t] = "calls" /\ subtask'[t] = "end" /\ t \in joined'
  BY <1>2 DEF LoopInv, Typed
<1> QED
  BY <1>1, <1>3 DEF InProgress, Suspends

LEMMA SpawnFacts ==
  ASSUME LoopInv, NEW t \in Tasks, Runs(t), Spawns(t)
  PROVE  /\ New \in Tasks /\ job[New] = "absent" /\ job'[New] \notin Ended \cup {"absent"}
         /\ \A s \in Tasks : s = cur => job'[s] \notin Ended
<1>1. New \in Tasks /\ job[New] = "absent"
  BY NewIs DEF Spawns, Begins
<1> DEFINE u == New
<1>2. job' = [job EXCEPT ![u] = "ready"] /\ u \in Tasks
  BY <1>1 DEF Spawns, Begins
<1>3. \A s \in Tasks : s = cur => job[s] = "ready"
  BY CurrentRuns
<1> HIDE DEF u
<1>4. job'[u] = "ready" /\ \A s \in Tasks : s # u => job'[s] = job[s]
  BY <1>2 DEF LoopInv, Typed
<1>5. /\ job'[u] \notin Ended \cup {"absent"}
      /\ \A s \in Tasks : s = cur => job'[s] \notin Ended
  BY <1>3, <1>4 DEF Ended
<1> QED
  BY <1>1, <1>5 DEF u

LEMMA RefusedRests ==
  ASSUME LoopInv, Onward, NEW t \in Tasks, duty[t] = NoEnd, Active(t),
         UNCHANGED endVars
  PROVE  Rests
  BY DEF Rests, Active, Runs, endVars

LEMMA GivenUp ==
  ASSUME LoopInv, EndPart, Onward, NEW e \in AllEnds, e \in held, Takes(e), Drops(e),
         job' = job, UNCHANGED <<gone, lost, duty>>, written \subseteq written',
         e \in FutureWriters => e \in written'
  PROVE  EndPart'
<1>1. Releases(e)
  BY DEF Releases, Takes
<1>2. duty' \in [Tasks -> AllEnds \cup {NoEnd}]
  BY DEF EndPart, EndTyped
<1>3. \A t \in Tasks : t = cur => job'[t] \notin Ended
  BY CurrentRuns DEF Ended
<1> QED
  BY <1>1, <1>2, <1>3, ReleaseKeeps

LEMMA FutureKeeps ==
  ASSUME LoopInv, EndPart, Onward, NEW t \in Tasks, NEW e \in AllEnds,
         \/ FutureRead(t, e) \/ FutureReaderExit(t, e)
         \/ FutureWrite(t, e) \/ FutureWriterExit(t, e)
  PROVE  EndPart'
<1> USE DEF Uses
<1>1. CASE FutureRead(t, e)
  <2>1. CASE e \in held /\ Takes(e) /\ Drops(e) /\ UNCHANGED <<vars, duty>>
    BY <1>1, <2>1, GivenUp, EndAssumption DEF FutureRead, vars, taskVars
  <2>2. CASE Takes(e) /\ Suspends(t, e)
    <3>1. Active(t) /\ duty[t] = NoEnd /\ UNCHANGED <<gone, lost, written>>
      BY <1>1, <2>2 DEF FutureRead
    <3>2. /\ t = cur /\ job[t] = "ready" /\ job'[t] = "calls"
          /\ native' = [native EXCEPT ![e] = "busy"] /\ duty' = [duty EXCEPT ![t] = e]
      BY <2>2, <3>1, SuspendFacts
    <3>3. Operates(t, e)
      BY <2>2, <3>1, <3>2 DEF Takes, Operates, Ended
    <3> QED
      BY <3>2, <3>3, OperateKeeps
  <2>3. CASE Refused(t)
    BY <1>1, <2>3, RefusedRests, RestKeeps DEF FutureRead, Refused
  <2> QED
    BY <1>1, <2>1, <2>2, <2>3 DEF FutureRead
<1>2. CASE FutureReaderExit(t, e)
  BY <1>2, GivenUp, EndAssumption DEF FutureReaderExit, vars, taskVars
<1>3. CASE FutureWrite(t, e)
  <2>1. CASE e \in held /\ Takes(e) /\ Drops(e) /\ written' = written \cup {e} /\ UNCHANGED <<vars, duty>>
    BY <1>3, <2>1, GivenUp DEF FutureWrite, vars, taskVars
  <2>2. CASE Takes(e) /\ Suspends(t, e) /\ UNCHANGED written
    <3>1. Active(t) /\ duty[t] = NoEnd /\ UNCHANGED <<gone, lost, written>>
      BY <1>3, <2>2 DEF FutureWrite
    <3>2. /\ t = cur /\ job[t] = "ready" /\ job'[t] = "calls"
          /\ native' = [native EXCEPT ![e] = "busy"] /\ duty' = [duty EXCEPT ![t] = e]
      BY <2>2, <3>1, SuspendFacts
    <3>3. Operates(t, e)
      BY <2>2, <3>1, <3>2 DEF Takes, Operates, Ended
    <3> QED
      BY <3>2, <3>3, OperateKeeps
  <2>3. CASE Refused(t)
    BY <1>3, <2>3, RefusedRests, RestKeeps DEF FutureWrite, Refused
  <2> QED
    BY <1>3, <2>1, <2>2, <2>3 DEF FutureWrite
<1>4. CASE FutureWriterExit(t, e)
  <2>1. CASE Spawns(t) /\ duty' = [duty EXCEPT ![New] = e]
    BY <1>4, <2>1, SpawnFacts, HandKeeps DEF FutureWriterExit, Active, Hands
  <2>2. CASE Fails(t) /\ UNCHANGED duty
    BY <1>4, <2>2, RefusedRests, RestKeeps DEF FutureWriterExit, endVars
  <2> QED
    BY <1>4, <2>1, <2>2 DEF FutureWriterExit
<1> QED
  BY <1>1, <1>2, <1>3, <1>4

LEMMA StreamKeeps ==
  ASSUME LoopInv, EndPart, Onward, NEW t \in Tasks, NEW e \in StreamEnds,
         Transfers(t, e) \/ Closes(t, e)
  PROVE  EndPart'
<1> USE DEF Uses
<1> e \in AllEnds /\ e \notin FutureWriters
  BY EndAssumption DEF AllEnds
<1>1. CASE Transfers(t, e)
  <2>1. CASE UNCHANGED <<vars, held, armed, native, duty>>
    <3>1. Rests
      BY <1>1, <2>1, CurrentRuns DEF Transfers, Rests, vars, taskVars, Ended
    <3> QED
      BY <3>1, RestKeeps
  <2>2. CASE Suspends(t, e) /\ UNCHANGED <<held, armed, peerGone>>
    BY <1>1, <2>2, SuspendFacts, OperateKeeps DEF Transfers, Operates, Ended
  <2>3. CASE Misused(e)
    <3>1. Rests
      BY <1>1, <2>3, CurrentRuns DEF Transfers, Misused, Traps, Rests, taskVars, Ended
    <3> QED
      BY <3>1, RestKeeps
  <2>4. CASE Refused(t)
    BY <1>1, <2>4, RefusedRests, RestKeeps DEF Transfers, Refused
  <2> QED
    BY <1>1, <2>1, <2>2, <2>3, <2>4 DEF Transfers
<1>2. CASE Closes(t, e)
  <2>1. CASE Misused(e)
    <3>1. Rests
      BY <1>2, <2>1, CurrentRuns DEF Closes, Misused, Traps, Rests, taskVars, Ended
    <3> QED
      BY <3>1, RestKeeps
  <2>2. CASE e \in held /\ Takes(e) /\ Drops(e) /\ UNCHANGED <<vars, duty>>
    BY <1>2, <2>2, GivenUp DEF Closes, vars, taskVars
  <2> QED
    BY <1>2, <2>1, <2>2 DEF Closes
<1> QED
  BY <1>1, <1>2

LEMMA DefaultKeeps ==
  ASSUME LoopInv, EndPart, Onward, NEW t \in Tasks, WriteDefault(t) PROVE EndPart'
<1> DEFINE e == duty[t]
<1>1. e \in AllEnds /\ Active(t) /\ t = cur /\ UNCHANGED <<gone, lost>>
  BY DEF WriteDefault, EndPart, EndTyped, Active, Runs
<1>2. held' = held \ {e} /\ armed' = armed \ {e}
  BY DEF WriteDefault, Takes, EndPart, Handles
<1>3. /\ duty \in [Tasks -> AllEnds \cup {NoEnd}] /\ job[t] = "ready"
      /\ \A s \in Tasks : s = cur => s = t
  BY <1>1, CurrentRuns DEF EndPart, EndTyped
<1>4. CASE Drops(e) /\ written' = written \cup {e} /\ duty' = [duty EXCEPT ![t] = NoEnd]
  <2>1. Releases(e)
    BY <1>1, <1>2, <1>4 DEF Releases
  <2>2. /\ duty' \in [Tasks -> AllEnds \cup {NoEnd}]
        /\ \A s \in Tasks : duty[s] # e => duty'[s] = duty[s]
        /\ \A s \in Tasks : duty[s] # duty'[s] => duty'[s] = NoEnd
        /\ \A s \in Tasks : s = cur => duty[s] = e
    BY <1>3, <1>4
  <2> HIDE DEF e
  <2> QED
    BY <1>1, <2>1, <2>2, ReleaseKeeps
<1>5. CASE Suspends(t, e) /\ UNCHANGED written
  <2>1. /\ job'[t] = "calls" /\ native' = [native EXCEPT ![e] = "busy"]
        /\ duty' = [duty EXCEPT ![t] = e]
    BY <1>1, <1>5, SuspendFacts
  <2>2. Operates(t, e)
    BY <1>1, <1>2, <1>3, <1>5, <2>1 DEF Operates, Ended
  <2> QED
    BY <1>1, <2>2, OperateKeeps
<1>6. CASE e \notin held \cup gone /\ UNCHANGED <<native, written, duty>>
  <2>1. UNCHANGED <<held, armed>>
    BY <1>2, <1>6 DEF EndPart, Handles
  <2>2. Rests
    BY <1>1, <1>3, <1>6, <2>1 DEF Rests
  <2> QED
    BY <2>2, RestKeeps
<1> QED
  BY <1>4, <1>5, <1>6 DEF WriteDefault

LEMMA GoneKeeps ==
  ASSUME EndPart, NEW e \in AllEnds, Goes(e), UNCHANGED <<vars, native, written, duty>>,
         lost \subseteq lost', e \in held => e \in lost'
  PROVE  EndPart'
<1>1. EndTyped' /\ Handles' /\ WrittenBeforeDropped'
  BY DEF EndPart, EndTyped, Handles, WrittenBeforeDropped, Goes, InProgress, vars, hostVars
<1>2. \A f \in AllEnds, t \in Tasks : Carries(t, f)' <=> Carries(t, f)
  BY DEF Carries, vars, taskVars
<1>3. Owned'
  BY <1>2 DEF EndPart, Owned, Goes, vars, taskVars
<1> QED
  BY <1>1, <1>3 DEF EndPart

LEMMA CollectorKeeps == ASSUME LoopInv, EndPart, Onward, Collector PROVE EndPart'
<1>1. ASSUME NEW e \in AllEnds, CollectDetached(e) PROVE EndPart'
  <2>1. e \notin held
    BY <1>1 DEF CollectDetached, EndPart, Handles
  <2> QED
    BY <1>1, <2>1, GoneKeeps DEF CollectDetached
<1>2. ASSUME NEW e \in AllEnds, CollectLost(e) PROVE EndPart'
  BY <1>2, GoneKeeps DEF CollectLost
<1>3. ASSUME NEW e \in AllEnds, CollectDropped(e) PROVE EndPart'
  <2>1. CASE Goes(e) /\ Drops(e) /\ UNCHANGED <<vars, duty>>
    <3>1. Releases(e)
      BY <1>3, <2>1 DEF CollectDropped, Releases, Goes
    <3>2. /\ duty' = duty /\ duty' \in [Tasks -> AllEnds \cup {NoEnd}]
          /\ \A t \in Tasks : t = cur => job'[t] \notin Ended
      BY <2>1, CurrentRuns DEF vars, taskVars, Ended, EndPart, EndTyped
    <3> QED
      BY <3>1, <3>2, ReleaseKeeps
  <2>2. CASE Misused(e) /\ UNCHANGED gone
    <3>1. Rests
      BY <1>3, <2>2, CurrentRuns DEF CollectDropped, Misused, Traps, Rests, taskVars, Ended
    <3> QED
      BY <3>1, RestKeeps
  <2> QED
    BY <1>3, <2>1, <2>2 DEF CollectDropped
<1>4. ASSUME NEW e \in AllEnds, NEW t \in Tasks, CollectWriter(t, e) PROVE EndPart'
  BY <1>4, SpawnFacts, HandKeeps DEF CollectWriter, Goes, Hands
<1> QED
  BY <1>1, <1>2, <1>3, <1>4 DEF Collector

\* Steps that leave the ends alone.
LEMMA AloneKeeps ==
  ASSUME LoopInv, EndPart, Onward, UNCHANGED endVars,
         \/ \E x \in Exports : Loop(x)
         \/ \E t \in Tasks : (duty[t] = NoEnd /\ TaskStep(t)) \/ Unwind(t)
         \/ Host \/ CallExceptionHandler \/ Quiet
  PROVE  EndPart'
<1>1. CASE \E t \in Tasks : (duty[t] = NoEnd /\ TaskStep(t)) \/ Unwind(t)
  <2>1. PICK t \in Tasks : (duty[t] = NoEnd /\ TaskStep(t)) \/ Unwind(t)
    BY <1>1
  <2>2. cur = t
    BY <2>1 DEF TaskStep, CallBlocks, Yield, Quits, Spawn, CreateTask, Await, Cancel, ReturnResult,
                SpawnedEnds, PlainEnds, TaskFails, Unwind, Active, Runs
  <2>3. duty[t] = NoEnd \/ t \in doomed
    BY <2>1 DEF Unwind
  <2>4. Rests
    BY <2>2, <2>3 DEF Rests, endVars
  <2> QED
    BY <2>4, RestKeeps
<1>2. CASE \E x \in Exports : Loop(x)
  <2>1. job' = job
    BY <1>2 DEF Loop, TakeHandles, RunHandle, BatchDone, Exit, Wait, Traps, taskVars
  <2> QED
    BY <2>1, StandingRests, RestKeeps
<1>3. CASE Host
  <2>1. polled = NoExport
    BY <1>3 DEF Host, FirstPoll, CancelCall, Started, Returned, EndEvent, Entered
  <2>2. \A t \in Tasks : t # cur
    BY <2>1, NoNames DEF LoopInv, Control, Typed
  <2>3. Rests
    BY <2>2 DEF Rests, endVars
  <2> QED
    BY <2>3, RestKeeps
<1>4. CASE CallExceptionHandler \/ Quiet
  BY <1>4, StandingRests, RestKeeps DEF CallExceptionHandler, Quiet, vars, taskVars
<1> QED
  BY <1>1, <1>2, <1>3, <1>4

LEMMA EndsStepKeeps == ASSUME EndsInv, [EndsNext]_allVars PROVE EndsInv'
<1>1. LoopInv /\ EndPart
  BY DEF EndsInv, EndPart
<1>2. [Next]_vars
  BY StepSimulated DEF EndsInv
<1>3. LoopInv' /\ Onward
  BY <1>1, <1>2, StepKeeps, StepOnward
<1>4. EndPart'
  <2>1. CASE UNCHANGED allVars
    BY <1>1, <1>3, <2>1, StandingRests, RestKeeps DEF allVars, vars, taskVars
  <2>2. ASSUME NEW t \in Tasks, EndStep(t) PROVE EndPart'
    <3>1. CASE WriteDefault(t)
      BY <1>1, <1>3, <3>1, DefaultKeeps
    <3>2. ASSUME NEW e \in AllEnds, \/ FutureRead(t, e) \/ FutureReaderExit(t, e)
                                   \/ FutureWrite(t, e) \/ FutureWriterExit(t, e)
          PROVE  EndPart'
      BY <1>1, <1>3, <3>2, FutureKeeps
    <3>3. ASSUME NEW e \in StreamEnds, Transfers(t, e) \/ Closes(t, e) PROVE EndPart'
      BY <1>1, <1>3, <3>3, StreamKeeps
    <3> QED
      BY <2>2, <3>1, <3>2, <3>3 DEF EndStep, ByteRead, ByteWrite, StreamRead, StreamWrite, StreamEnds
  <2>3. CASE EndsGuest
    BY <1>1, <1>3, <2>2, <2>3, AloneKeeps DEF EndsGuest
  <2> QED
    BY <1>1, <1>3, <2>1, <2>3, CollectorKeeps, AloneKeeps DEF EndsNext
<1> QED
  BY <1>3, <1>4 DEF EndsInv, EndPart

LEMMA EndsInvariant == EndsSpec => []EndsInv
  BY InitEnds, EndsStepKeeps, PTL DEF EndsSpec

-----------------------------------------------------------------------------
(* The types of the ends. *)

\* A task that is not cancelled and goes on has no end but a future to be written.
Duties ==
  \A t \in Tasks :
    \/ duty[t] \in FutureWriters \cup {NoEnd}
    \/ t \in doomed \/ job[t] \in Ended
    \/ job[t] = "calls" /\ subtask[t] = "end"

Named ==
  /\ gone \subseteq AllEnds /\ peerGone \subseteq StreamEnds
  /\ written \subseteq FutureWriters /\ lost \subseteq FutureWriters

\* What stays: a task that has ended, and one in an operation, unless it is cancelled.
Lasts ==
  /\ doomed \subseteq doomed'
  /\ \A t \in Tasks : job[t] \in Ended => job'[t] \in Ended
  /\ \A t \in Tasks : job[t] = "calls" /\ subtask[t] = "end" =>
       t \in doomed' \/ (job'[t] = "calls" /\ subtask'[t] = "end")

LEMMA HostLasts == ASSUME LoopInv, HostKind PROVE Lasts
<1> USE DEF LoopInv, Typed, Ended
<1>1. ASSUME NEW x \in Exports, FirstPoll(x) PROVE Lasts
  <2>1. New \in Tasks /\ job[New] = "absent"
    BY <1>1, NewIs DEF FirstPoll
  <2>2. \A t \in Tasks : t # New => job'[t] = job[t]
    BY <1>1, <2>1 DEF FirstPoll
  <2>3. UNCHANGED <<doomed, subtask>>
    BY <1>1 DEF FirstPoll, hostVars
  <2> QED
    BY <2>1, <2>2, <2>3 DEF Lasts
<1>2. ASSUME NEW x \in Exports, Leaves(x) PROVE Lasts
  BY <1>2 DEF Leaves, taskVars, hostVars, Lasts
<1>3. ASSUME NEW x \in Exports, NEW t \in Tasks, Started(x, t) PROVE Lasts
  <2>1. \A s \in Tasks : subtask[s] = "end" => subtask'[s] = "end"
    BY <1>3 DEF Started
  <2>2. UNCHANGED <<job, doomed>>
    BY <1>3 DEF Started, taskVars
  <2> QED
    BY <2>1, <2>2 DEF Lasts
<1>4. ASSUME NEW x \in Exports, NEW t \in Tasks, Answered(x, t) PROVE Lasts
  <2>1. /\ \A s \in Tasks : s # t => job'[s] = job[s] /\ subtask'[s] = subtask[s]
        /\ doomed' = doomed
    BY <1>4 DEF Answered
  <2>2. subtask[t] # "end" /\ job[t] = "calls"
    BY <1>4 DEF Answered, JoinedIn, Waitables
  <2> QED
    BY <2>1, <2>2 DEF Lasts
<1> QED
  BY <1>1, <1>2, <1>3, <1>4 DEF HostKind

LEMMA TaskLasts == ASSUME LoopInv, TaskKind PROVE Lasts
<1> USE DEF LoopInv, Typed, Ended, Active, Runs
<1>1. ASSUME NEW t \in Tasks, CallBlocks(t) PROVE Lasts
  <2>1. PICK what \in {"starting", "end"} : Blocks(t, what)
    BY <1>1 DEF CallBlocks
  <2>2. job[t] = "ready"
    BY <1>1 DEF CallBlocks, Queues
  <2>3. /\ \A s \in Tasks : s # t => job'[s] = job[s] /\ subtask'[s] = subtask[s]
        /\ doomed' = doomed
    BY <2>1 DEF Blocks
  <2> QED
    BY <2>2, <2>3 DEF Lasts
<1>2. ASSUME NEW t \in Tasks, Yield(t) PROVE Lasts
  BY <1>2 DEF Yield, hostVars, Lasts
<1>3. ASSUME NEW t \in Tasks, NEW u \in Tasks, Await(t, u) PROVE Lasts
  <2>1. job[t] = "ready"
    BY <1>3 DEF Await, Queues
  <2>2. /\ \A s \in Tasks : s # t => job'[s] = job[s]
        /\ UNCHANGED <<doomed, subtask>>
    BY <1>3 DEF Await, hostVars
  <2> QED
    BY <2>1, <2>2 DEF Lasts
<1>4. ASSUME NEW t \in Tasks, NEW u \in Tasks, Cancel(t, u) PROVE Lasts
  <2>1. job[u] \in {"ready", "calls"} /\ doomed' = doomed \cup {u} /\ subtask' = subtask
    BY <1>4 DEF Cancel, hostVars
  <2>2. \A s \in Tasks : s # u => job'[s] = job[s]
    BY <1>4 DEF Cancel
  <2> QED
    BY <2>1, <2>2 DEF Lasts
<1>5. ASSUME NEW t \in Tasks, NEW how, Begins(t, how) PROVE Lasts
  <2>1. New \in Tasks /\ job[New] = "absent"
    BY <1>5, NewIs DEF Begins
  <2>2. \A s \in Tasks : s # New => job'[s] = job[s]
    BY <1>5, <2>1 DEF Begins
  <2>3. UNCHANGED <<doomed, subtask>>
    BY <1>5 DEF Begins, hostVars
  <2> QED
    BY <2>1, <2>2, <2>3 DEF Lasts
<1>6. ASSUME NEW t \in Tasks, NEW how \in Ended, Runs(t), Ends(t, how) PROVE Lasts
  <2>1. job[t] = "ready"
    BY <1>6 DEF Queues
  <2>2. \A s \in Tasks : awaits[s] = t => job[s] = "joins"
    BY NoNames DEF Waits
  <2>3. \A s \in Tasks : s # t /\ awaits[s] # t => job'[s] = job[s]
    BY <1>6 DEF Ends
  <2>4. doomed \subseteq doomed' /\ subtask' = subtask
    BY <1>6 DEF Ends
  <2> QED
    BY <2>1, <2>2, <2>3, <2>4 DEF Lasts
<1> QED
  BY <1>1, <1>2, <1>3, <1>4, <1>5, <1>6 DEF TaskKind

LEMMA StepLasts == ASSUME LoopInv, [Next]_vars PROVE Lasts
<1>1. CASE Halts
  BY <1>1 DEF Halts, taskVars, hostVars, Lasts
<1>2. CASE LoopKind
  BY <1>2 DEF LoopKind, TakeHandles, RunHandle, Turns, taskVars, hostVars, Lasts
<1> QED
  BY <1>1, <1>2, HostLasts, TaskLasts, Sorted

\* An end goes to a task that begins an operation or is to write the default.
Duly ==
  \A t \in Tasks :
    \/ duty'[t] \in {duty[t], NoEnd} \cup FutureWriters
    \/ job'[t] = "calls" /\ subtask'[t] = "end"

LEMMA DutiesKept == ASSUME Duties, Lasts, Duly PROVE Duties'
<1> SUFFICES ASSUME NEW t \in Tasks,
                    duty'[t] \notin FutureWriters \cup {NoEnd}, t \notin doomed',
                    job'[t] \notin Ended
             PROVE  job'[t] = "calls" /\ subtask'[t] = "end"
  BY DEF Duties
<1>1. CASE duty'[t] = duty[t]
  <2>1. t \notin doomed /\ job[t] \notin Ended
    BY DEF Lasts
  <2>2. job[t] = "calls" /\ subtask[t] = "end"
    BY <1>1, <2>1 DEF Duties
  <2> QED
    BY <2>2 DEF Lasts
<1>2. CASE duty'[t] # duty[t]
  BY <1>2 DEF Duly
<1> QED
  BY <1>1, <1>2

LEMMA SuspendsDuly ==
  ASSUME LoopInv, EndTyped, NEW t \in Tasks, NEW e, Active(t), Suspends(t, e) PROVE Duly
<1>1. /\ job' = [job EXCEPT ![t] = "calls"] /\ subtask' = [subtask EXCEPT ![t] = "end"]
      /\ duty' = [duty EXCEPT ![t] = e]
  BY DEF Suspends, Blocks
<1>2. job'[t] = "calls" /\ subtask'[t] = "end" /\ \A s \in Tasks : s # t => duty'[s] = duty[s]
  BY <1>1 DEF LoopInv, Typed, EndTyped
<1> QED
  BY <1>2 DEF Duly

LEMMA HandsDuly ==
  ASSUME EndTyped, NEW u, NEW e \in FutureWriters \cup {NoEnd}, duty' = [duty EXCEPT ![u] = e]
  PROVE  Duly
<1>1. \A t \in Tasks : duty'[t] \in {duty[t], e}
  BY DEF EndTyped
<1> QED
  BY <1>1 DEF Duly

LEMMA StandsDuly == ASSUME duty' = duty PROVE Duly
  BY DEF Duly

LEMMA TaskDuly ==
  ASSUME LoopInv, EndTyped, Duties, Named, NEW t \in Tasks, EndStep(t)
  PROVE  Duly /\ Named'
<1> USE DEF Uses
<1>1. ASSUME NEW e \in AllEnds, FutureRead(t, e) \/ FutureReaderExit(t, e) PROVE Duly /\ Named'
  <2>1. UNCHANGED <<gone, peerGone, written, lost>>
    BY <1>1 DEF FutureRead, FutureReaderExit
  <2>2. duty' = duty \/ (Active(t) /\ Suspends(t, e))
    BY <1>1 DEF FutureRead, FutureReaderExit, Refused, endVars
  <2> QED
    BY <2>1, <2>2, SuspendsDuly, StandsDuly DEF Named
<1>2. ASSUME NEW e \in AllEnds, FutureWrite(t, e) \/ FutureWriterExit(t, e) PROVE Duly /\ Named'
  <2>1. /\ UNCHANGED <<gone, peerGone, lost>> /\ e \in FutureWriters
        /\ written' = written \/ written' = written \cup {e}
    BY <1>2 DEF FutureWrite, FutureWriterExit, Refused, endVars
  <2>2. \/ duty' = duty
        \/ Active(t) /\ Suspends(t, e)
        \/ duty' = [duty EXCEPT ![New] = e]
    BY <1>2 DEF FutureWrite, FutureWriterExit, Refused, endVars
  <2>3. Duly
    BY <2>1, <2>2, SuspendsDuly, StandsDuly, HandsDuly
  <2> QED
    BY <2>1, <2>3 DEF Named
<1>3. ASSUME NEW e \in StreamEnds, Transfers(t, e) \/ Closes(t, e) PROVE Duly /\ Named'
  <2>1. /\ UNCHANGED <<gone, written, lost>>
        /\ peerGone' = peerGone \/ peerGone' = peerGone \cup {e}
    BY <1>3 DEF Transfers, Closes, Refused, endVars
  <2>2. duty' = duty \/ (Active(t) /\ Suspends(t, e))
    BY <1>3 DEF Transfers, Closes, Misused, Refused, endVars
  <2> QED
    BY <2>1, <2>2, SuspendsDuly, StandsDuly DEF Named
<1>4. CASE WriteDefault(t)
  <2> DEFINE e == duty[t]
  <2>1. Active(t) /\ e # NoEnd /\ UNCHANGED <<gone, peerGone, lost>>
    BY <1>4 DEF WriteDefault
  <2>2. e \in FutureWriters
    <3>1. job[t] = "ready" /\ t \notin doomed
      BY <2>1, CurrentRuns DEF Active, Runs
    <3> QED
      BY <2>1, <3>1 DEF Duties, Ended
  <2>3. written' = written \/ written' = written \cup {e}
    BY <1>4 DEF WriteDefault
  <2>4. \/ duty' = duty \/ Suspends(t, e)
        \/ duty' = [duty EXCEPT ![t] = NoEnd]
    BY <1>4 DEF WriteDefault
  <2> HIDE DEF e
  <2>5. Duly
    BY <2>1, <2>4, SuspendsDuly, StandsDuly, HandsDuly
  <2> QED
    BY <2>1, <2>2, <2>3, <2>5 DEF Named
<1> QED
  BY <1>1, <1>2, <1>3, <1>4
  DEF EndStep, ByteRead, ByteWrite, StreamRead, StreamWrite, StreamEnds

LEMMA CollectorDuly == ASSUME EndTyped, Named, Collector PROVE Duly /\ Named'
<1>1. ASSUME NEW e \in AllEnds, CollectDetached(e) \/ CollectDropped(e) \/ CollectLost(e)
      PROVE  Duly /\ Named'
  <2>1. /\ UNCHANGED <<duty, peerGone, written>> /\ gone' \subseteq gone \cup {e}
        /\ lost' = lost \/ (lost' = lost \cup {e} /\ e \in FutureWriters)
    BY <1>1 DEF CollectDetached, CollectDropped, CollectLost, Goes, Misused
  <2> QED
    BY <2>1, StandsDuly DEF Named
<1>2. ASSUME NEW e \in AllEnds, NEW t \in Tasks, CollectWriter(t, e) PROVE Duly /\ Named'
  <2>1. /\ UNCHANGED <<peerGone, written, lost>> /\ gone' = gone \cup {e}
        /\ e \in FutureWriters /\ duty' = [duty EXCEPT ![New] = e]
    BY <1>2 DEF CollectWriter, Goes
  <2> QED
    BY <2>1, HandsDuly DEF Named
<1> QED
  BY <1>1, <1>2 DEF Collector

LEMMA NamedKept ==
  ASSUME EndsInv, Duties, Named, [EndsNext]_allVars PROVE Duties' /\ Named'
<1>1. Lasts
  BY StepSimulated, StepLasts DEF EndsInv
<1>2. CASE UNCHANGED endVars
  <2>1. Duly /\ Named'
    BY <1>2, StandsDuly DEF endVars, Named
  <2> QED
    BY <1>1, <2>1, DutiesKept
<1>3. CASE \E t \in Tasks : EndStep(t)
  BY <1>1, <1>3, TaskDuly, DutiesKept DEF EndsInv
<1>4. CASE Collector
  BY <1>1, <1>4, CollectorDuly, DutiesKept DEF EndsInv
<1> QED
  BY <1>2, <1>3, <1>4 DEF EndsNext, EndsGuest, allVars

LEMMA InitNamed == ASSUME EndsInit PROVE Duties /\ Named
  BY DEF EndsInit, Duties, Named

-----------------------------------------------------------------------------
(* The theorems. *)

\* What tasks do with ends is nothing but what AsyncLoop lets a task do, so that
\* what holds of every behaviour of the loop holds with ends in it.
THEOREM EndsImplementLoop == EndsSpec => ImplementsLoop
<1>1. EndsInit => Init
  BY DEF EndsInit
<1>2. EndsInv /\ [EndsNext]_allVars => [Next]_vars
  BY StepSimulated DEF EndsInv
<1> QED
  BY <1>1, <1>2, EndsInvariant, PTL DEF EndsSpec, ImplementsLoop, Spec

\* A handle has an owner until it is dropped, and none is dropped twice.
THEOREM HandlesHaveOwners == EndsSpec => []HandlesOwned
<1>1. EndsInv => HandlesOwned
  BY DEF EndsInv, Handles, Owned, Carries, HandlesOwned
<1> QED
  BY <1>1, EndsInvariant, PTL

\* No future is dropped for writing without a value.
THEOREM NoFutureBroken == EndsSpec => []WrittenBeforeDropped
<1>1. EndsInv => WrittenBeforeDropped
  BY DEF EndsInv
<1> QED
  BY <1>1, EndsInvariant, PTL

\* What AsyncLoop promises holds of tasks that use streams and futures, too.
THEOREM LoopHoldsWithEnds ==
  ASSUME IsFiniteSet(Tasks)
  PROVE  EndsSpec => [](NobodyForgotten /\ JoinedAreAwaited /\ ExitsComplete /\ TrapsForCause)
<1>1. EndsSpec => Spec
  BY EndsImplementLoop, PTL DEF ImplementsLoop
<1> QED
  BY <1>1, NobodyIsForgotten, JoinedHold, ExitIsComplete, TrapsHaveCauses, PTL

\* The variables of the loop and of the ends have their types: above all, who is to
\* write a default never holds an end of another kind.
THEOREM EndsTypeCorrect == ASSUME IsFiniteSet(Tasks) PROVE EndsSpec => []EndsTypeOK
<1>1. EndsInit => Duties /\ Named
  BY InitNamed
<1>2. EndsInv /\ Duties /\ Named /\ [EndsNext]_allVars => Duties' /\ Named'
  BY NamedKept
<1>3. EndsSpec => [](Duties /\ Named)
  BY <1>1, <1>2, EndsInvariant, PTL DEF EndsSpec
<1>4. EndsSpec => []TypeOK
  BY EndsImplementLoop, AsyncLoopTypeCorrect, PTL DEF ImplementsLoop
<1>5. TypeOK /\ EndsInv /\ Named => EndsTypeOK
  BY DEF EndsInv, EndTyped, Handles, Named, EndsTypeOK
<1> QED
  BY <1>3, <1>4, <1>5, EndsInvariant, PTL
=============================================================================

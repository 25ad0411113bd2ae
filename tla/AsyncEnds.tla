------------------------------ MODULE AsyncEnds ------------------------------
(***************************************************************************)
(* The ends of streams and futures that tasks of AsyncLoop use: the classes *)
(* of guest/componentize_py_async_support/futures.py and streams.py.  Each *)
(* wraps one native handle, which must be dropped exactly once, and not    *)
(* while an operation on it is in progress.                                *)
(***************************************************************************)
EXTENDS AsyncLoop

CONSTANTS FutureReaders, FutureWriters, ByteReaders, ByteWriters,
          StreamReaders, StreamWriters, NoEnd,
          MaxEnds  \* how many ends the guest is given

StreamEnds == ByteReaders \cup ByteWriters \cup StreamReaders \cup StreamWriters
AllEnds == FutureReaders \cup FutureWriters \cup StreamEnds

ASSUME EndAssumption ==
  /\ NoEnd \notin AllEnds
  /\ FutureReaders \cap FutureWriters = {}
  /\ StreamEnds \cap (FutureReaders \cup FutureWriters) = {}

VARIABLES
  held,       \* the wrappers that have a handle
  armed,      \* those whose finalizer would run
  gone,       \* those that were collected
  native,     \* what the handles name
  peerGone,   \* writer_dropped and reader_dropped
  written,    \* the futures that have got a value, or lost their reader
  lost,       \* the writers whose finalizer raised
  duty        \* the end that a coroutine holds

endVars == <<held, armed, gone, native, peerGone, written, lost, duty>>
allVars == <<vars, endVars>>

EndsTypeOK ==
  /\ TypeOK
  /\ held \subseteq AllEnds /\ armed \subseteq AllEnds /\ gone \subseteq AllEnds
  /\ native \in [AllEnds -> {"none", "open", "busy", "dropped"}]
  /\ peerGone \subseteq StreamEnds
  /\ written \subseteq FutureWriters /\ lost \subseteq FutureWriters
  /\ duty \in [Tasks -> AllEnds \cup {NoEnd}]

EndsInit ==
  /\ Init
  /\ \E given \in SUBSET AllEnds :
       /\ Cardinality(given) <= MaxEnds
       /\ held = given /\ armed = given /\ gone = AllEnds \ given
       /\ native = [e \in AllEnds |-> IF e \in given THEN "open" ELSE "none"]
  /\ peerGone = {} /\ written = {} /\ lost = {}
  /\ duty = [t \in Tasks |-> NoEnd]

\* A task that is free to use the ends.
Uses(t, e) == Active(t) /\ duty[t] = NoEnd /\ e \notin gone

Takes_Armed(e) == held' = held \ {e} /\ UNCHANGED armed

\* finalizer.detach() and handle = None
Takes(e) == held' = held \ {e} /\ armed' = armed \ {e}

Drops(e) == native' = [native EXCEPT ![e] = "dropped"]

\* await_result of an operation that does not complete at once.
Suspends(t, e) ==
  /\ Blocks(t, "end")
  /\ native' = [native EXCEPT ![e] = "busy"]
  /\ duty' = [duty EXCEPT ![t] = e]

\* AssertionError
Refused(t) == Fails(t) /\ UNCHANGED endVars

-----------------------------------------------------------------------------
(* Futures. *)

FutureRead(t, e) ==
  /\ Uses(t, e) /\ e \in FutureReaders
  /\ \/ e \in held /\ Takes(e) /\ Drops(e) /\ UNCHANGED <<vars, duty>>
     \/ e \in held /\ Takes(e) /\ Suspends(t, e)
     \/ e \notin held /\ Refused(t)
  /\ UNCHANGED <<gone, peerGone, written, lost>>

\* A spawned task is to write a default, as for a writer.
FutureReaderExit_Spawns(t, e) ==
  /\ Uses(t, e) /\ e \in FutureReaders \cap held
  /\ Spawns(t) /\ duty' = [duty EXCEPT ![New] = e]
  /\ UNCHANGED <<held, armed, gone, native, peerGone, written, lost>>

FutureReaderExit(t, e) ==
  /\ Uses(t, e) /\ e \in FutureReaders \cap held
  /\ Takes(e) /\ Drops(e)
  /\ UNCHANGED <<vars, gone, peerGone, written, lost, duty>>

FutureWrite(t, e) ==
  /\ Uses(t, e) /\ e \in FutureWriters
  /\ \/ /\ e \in held /\ Takes(e) /\ Drops(e) /\ written' = written \cup {e}
        /\ UNCHANGED <<vars, duty>>
     \/ e \in held /\ Takes(e) /\ Suspends(t, e) /\ UNCHANGED written
     \/ e \notin held /\ Refused(t)
  /\ UNCHANGED <<gone, peerGone, lost>>

\* The handle is dropped without a value.
FutureWriterExit_Drops(t, e) ==
  /\ Uses(t, e) /\ e \in FutureWriters \cap held
  /\ Takes(e) /\ Drops(e)
  /\ UNCHANGED <<vars, gone, peerGone, written, lost, duty>>

\* A spawned task is to write the default.  The user's default() may raise.
FutureWriterExit(t, e) ==
  /\ Uses(t, e) /\ e \in FutureWriters \cap held
  /\ \/ Spawns(t) /\ duty' = [duty EXCEPT ![New] = e]
     \/ Fails(t) /\ UNCHANGED duty
  /\ UNCHANGED <<held, armed, gone, native, peerGone, written, lost>>

\* The spawned task runs: self.write after __exit__, and write, which has the
\* handle itself, after the finalizer.
WriteDefault(t) ==
  LET e == duty[t] IN
  /\ Active(t) /\ e # NoEnd
  /\ IF e \in held THEN Takes(e) ELSE UNCHANGED <<held, armed>>
  /\ \/ /\ e \in held \cup gone
        /\ Drops(e) /\ written' = written \cup {e} /\ SpawnedEnds(t)
        /\ duty' = [duty EXCEPT ![t] = NoEnd]
     \/ e \in held \cup gone /\ Suspends(t, e) /\ UNCHANGED written
     \/ e \notin held \cup gone /\ Fails(t) /\ UNCHANGED <<native, written, duty>>
  /\ UNCHANGED <<gone, peerGone, lost>>

-----------------------------------------------------------------------------
(* Streams. *)

\* An operation on an end that is in another one or is dropped traps, and so does
\* its drop.
Misused(e) == native[e] # "open" /\ Traps("misuse") /\ UNCHANGED <<held, armed, native, duty>>

\* read and write: without a peer they return at once and change nothing.
Transfers(t, e) ==
  /\ Uses(t, e) /\ e \notin peerGone
  /\ \/ /\ e \in held /\ native[e] = "open"
        /\ peerGone' \in {peerGone, peerGone \cup {e}}
        /\ UNCHANGED <<vars, held, armed, native, duty>>
     \/ /\ e \in held /\ native[e] = "open"
        /\ Suspends(t, e) /\ UNCHANGED <<held, armed, peerGone>>
     \/ e \in held /\ Misused(e) /\ UNCHANGED peerGone
     \/ e \notin held /\ Refused(t)
  /\ UNCHANGED <<gone, written, lost>>

\* __exit__ keeps the handle.
Closes_Kept(t, e) ==
  /\ Uses(t, e) /\ e \in held
  /\ \/ native[e] = "open" /\ Drops(e) /\ UNCHANGED <<vars, held, armed, duty>>
     \/ Misused(e)
  /\ UNCHANGED <<gone, peerGone, written, lost>>

\* __exit__, with an operation of another task in progress or without
Closes(t, e) ==
  /\ Uses(t, e) /\ e \in held
  /\ \/ native[e] = "open" /\ Takes(e) /\ Drops(e) /\ UNCHANGED <<vars, duty>>
     \/ Misused(e)
  /\ UNCHANGED <<gone, peerGone, written, lost>>

ByteRead(t) == \E e \in ByteReaders : Transfers(t, e) \/ Closes(t, e)
ByteWrite(t) == \E e \in ByteWriters : Transfers(t, e) \/ Closes(t, e)
StreamRead(t) == \E e \in StreamReaders : Transfers(t, e) \/ Closes(t, e)
StreamWrite(t) == \E e \in StreamWriters : Transfers(t, e) \/ Closes(t, e)

-----------------------------------------------------------------------------
(* The collector. *)

\* A coroutine that has not ended holds its end, and so does the with block
\* that it may be in.
Collectable(e) ==
  Alive /\ e \notin gone /\ \A t \in Tasks : duty[t] = e => job[t] \in Ended

Goes(e) == gone' = gone \cup {e} /\ held' = held \ {e} /\ armed' = armed \ {e}

CollectDetached(e) ==
  /\ Collectable(e) /\ e \notin armed
  /\ Goes(e)
  /\ UNCHANGED <<vars, native, peerGone, written, lost, duty>>

\* The finalizer of a reader or of a stream drops its handle.
CollectDropped(e) ==
  /\ Collectable(e) /\ e \in armed \ FutureWriters
  /\ \/ native[e] = "open" /\ Goes(e) /\ Drops(e) /\ UNCHANGED <<vars, duty>>
     \/ Misused(e) /\ UNCHANGED gone
  /\ UNCHANGED <<peerGone, written, lost>>

\* write_default, in the context of the task that runs.
CollectWriter(t, e) ==
  /\ Collectable(e) /\ Runs(t) /\ e \in armed \cap FutureWriters
  /\ Goes(e)
  /\ Spawns(t) /\ duty' = [duty EXCEPT ![New] = e]
  /\ UNCHANGED <<native, peerGone, written, lost>>

\* The finalizer raises, which the interpreter reports and drops: default() does,
\* at any time, or spawn because between two tasks there is no context.
CollectLost(e) ==
  /\ Collectable(e) /\ e \in armed \cap FutureWriters
  /\ Goes(e) /\ lost' = lost \cup {e}
  /\ UNCHANGED <<vars, native, peerGone, written, duty>>

-----------------------------------------------------------------------------
EndStep(t) ==
  \/ \E e \in AllEnds : \/ FutureRead(t, e) \/ FutureReaderExit(t, e)
                        \/ FutureWrite(t, e) \/ FutureWriterExit(t, e)
  \/ ByteRead(t) \/ ByteWrite(t) \/ StreamRead(t) \/ StreamWrite(t)
  \/ WriteDefault(t)

Collector ==
  \E e \in AllEnds : \/ CollectDetached(e) \/ CollectDropped(e) \/ CollectLost(e)
                     \/ \E t \in Tasks : CollectWriter(t, e)

EndsGuest ==
  \/ \E x \in Exports : Loop(x) /\ UNCHANGED endVars
  \/ \E t \in Tasks : \/ duty[t] = NoEnd /\ TaskStep(t) /\ UNCHANGED endVars
                      \/ Unwind(t) /\ UNCHANGED endVars
                      \/ EndStep(t)

EndsNext == \/ EndsGuest \/ Collector
            \/ (Host \/ CallExceptionHandler) /\ UNCHANGED endVars
            \/ Quiet /\ UNCHANGED endVars

EndsSpec == EndsInit /\ [][EndsNext]_allVars

\* The thread goes on, and what calls wait for happens.
Fairness ==
  /\ WF_allVars(EndsGuest)
  /\ WF_allVars(/\ \E x \in Exports, t \in Tasks : Returned(x, t) \/ EndEvent(x, t)
                /\ UNCHANGED endVars)

FairSpec == EndsSpec /\ Fairness

-----------------------------------------------------------------------------
(* Safety of the ends. *)

\* A wrapper that has its handle has a live one and a finalizer, and a handle
\* that is not dropped has an owner: its wrapper, a coroutine that is to use
\* it, an operation in progress, or nobody because its finalizer raised or the
\* task that was to write was cancelled.
HandlesOwned ==
  \A e \in AllEnds :
    /\ e \in held => native[e] # "dropped" /\ e \in armed
    /\ e \in armed => e \in held
    /\ native[e] = "open" =>
         e \in held \cup lost \/ \E t \in Tasks : duty[t] = e /\ (job[t] \notin Ended \/ t \in doomed)

\* The handle of a future is dropped for writing only when its reader got a value.
WrittenBeforeDropped ==
  \A e \in FutureWriters : native[e] = "dropped" => e \in written

-----------------------------------------------------------------------------
(* Refinement. *)

\* What tasks do with ends is nothing but what AsyncLoop lets a task do.
ImplementsLoop == Spec
=============================================================================

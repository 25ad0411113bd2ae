---------------------------- MODULE ContextServer ----------------------------
(***************************************************************************)
(* The E2B-compatible server of server.go: a registry of Python contexts   *)
(* shared by the request handlers, the idle reaper and Server.Close, each  *)
(* running in a goroutine of its own.                                      *)
(*                                                                         *)
(* A step is what a goroutine does between two points at which the others  *)
(* can run: a critical section of Server.mu, a call to Engine.NewSandbox,  *)
(* the start and the end of a cell, a Sandbox.Close.  Requests the server  *)
(* refuses before it touches its state (bad token, body or language,       *)
(* unknown id, GET /health, GET /contexts) are not steps.                  *)
(*                                                                         *)
(* An operator whose name has an underscore is a faulty variant of the     *)
(* definition after it, one plausible slip away from the code; no action   *)
(* uses it, and putting it in place breaks a property.                     *)
(***************************************************************************)
EXTENDS Naturals, FiniteSets

CONSTANTS
  Handlers,     \* goroutines that serve requests, one request at a time each
  Contexts,     \* the supply of contexts; an id and a Sandbox are never reused
  MaxContexts,  \* ServerConfig.MaxContexts
  NoContext,    \* the empty context id
  Free          \* the holder of an unlocked Sandbox.mu

ASSUME SupplyAssumption == NoContext \notin Contexts /\ Free \notin Handlers
ASSUME MaxContextsAssumption == MaxContexts \in Nat \ {0}

VARIABLES
  contexts,    \* Server.contexts: the ids clients can use
  defaultID,   \* Server.defaultID
  stale,       \* registered contexts whose lastUsed is before the cutoff
  sandbox,     \* Sandbox.closed, and whether the sandbox was made at all
  mutex,       \* Sandbox.mu: the handler whose cell runs in it, if any
  undecoded,   \* open sandboxes with a result that RunCode could not decode
  pc,          \* where each handler stands
  target,      \* the context each handler works on
  lazy,        \* handlers that make a context because a request named none
  expired,     \* sandboxes the reaper has taken and not yet closed
  reaperDone,  \* Server.done is closed
  host,        \* how far the embedding program has shut down
  closing,     \* sandboxes Server.Close has taken and not yet closed
  exited       \* the process is gone, with whatever its goroutines were doing

registryVars == <<contexts, defaultID, stale>>
sandboxVars == <<sandbox, mutex, undecoded>>
handlerVars == <<pc, target, lazy>>
reaperVars == <<expired, reaperDone>>
hostVars == <<host, closing, exited>>
vars == <<registryVars, sandboxVars, handlerVars, reaperVars, hostVars>>

Steps == {"idle", "newContext", "newSandbox", "publish", "setDefault",
          "runCode", "cell", "touch", "forget", "close"}

Phases == {"serving", "shutdown", "stopping", "closing", "engineClosed"}

TypeOK ==
  /\ contexts \subseteq Contexts
  /\ defaultID \in Contexts \cup {NoContext}
  /\ stale \subseteq contexts
  /\ sandbox \in [Contexts -> {"absent", "open", "closed"}]
  /\ mutex \in [Contexts -> Handlers \cup {Free}]
  /\ undecoded \subseteq Contexts
  /\ pc \in [Handlers -> Steps]
  /\ target \in [Handlers -> Contexts \cup {NoContext}]
  /\ lazy \subseteq Handlers
  /\ expired \subseteq Contexts
  /\ reaperDone \in BOOLEAN
  /\ host \in Phases
  /\ closing \subseteq Contexts
  /\ exited \in BOOLEAN

Init ==
  /\ contexts = {}
  /\ defaultID = NoContext
  /\ stale = {}
  /\ sandbox = [c \in Contexts |-> "absent"]
  /\ mutex = [c \in Contexts |-> Free]
  /\ undecoded = {}
  /\ pc = [h \in Handlers |-> "idle"]
  /\ target = [h \in Handlers |-> NoContext]
  /\ lazy = {}
  /\ expired = {}
  /\ reaperDone = FALSE
  /\ host = "serving"
  /\ closing = {}
  /\ exited = FALSE

ServerClosed == host \in {"stopping", "closing", "engineClosed"}
EngineClosed == host = "engineClosed"

-----------------------------------------------------------------------------
(* Pieces several handlers share. *)

\* Handler h goes on to a step, with the context it works on.
Goto(h, step, c) == /\ pc' = [pc EXCEPT ![h] = step]
                    /\ target' = [target EXCEPT ![h] = c]

\* Handler h answers its request and is done with it.
Respond(h) == /\ Goto(h, "idle", NoContext)
              /\ lazy' = lazy \ {h}

\* Ids are dropped and their ages kept.
Drop_KeepsAges(S) ==
  /\ contexts' = contexts \ S
  /\ stale' = stale
  /\ defaultID' = IF defaultID \in S THEN NoContext ELSE defaultID

\* The contexts of S leave the registry, and the default id with them.
Drop(S) == /\ contexts' = contexts \ S
           /\ stale' = stale \ S
           /\ defaultID' = IF defaultID \in S THEN NoContext ELSE defaultID

HasRoom == ~ServerClosed /\ Cardinality(contexts) < MaxContexts

\* Sandbox.mu of c can be taken.
CanLock(c) == mutex[c] = Free

\* Sandbox.Close without Sandbox.mu.
SandboxClose_Unlocked(c) ==
  /\ sandbox' = [sandbox EXCEPT ![c] = "closed"]
  /\ undecoded' = undecoded \ {c} /\ UNCHANGED mutex

\* Sandbox.Close waits for a running cell; a second call does nothing.
SandboxClose(c) == /\ CanLock(c)
                   /\ sandbox' = [sandbox EXCEPT ![c] = "closed"]
                   /\ undecoded' = undecoded \ {c} /\ UNCHANGED mutex

-----------------------------------------------------------------------------
(* POST /execute and POST /contexts: from a request to a context. *)

\* contextFor finds the context the request names, or the default one.
HandleExecute(h, c) ==
  /\ pc[h] = "idle"
  /\ c \in contexts
  /\ Goto(h, "runCode", c)
  /\ UNCHANGED <<lazy, registryVars, sandboxVars, reaperVars, hostVars>>

\* The request names no context and there is no default to use.
ExecuteDefault(h) ==
  /\ pc[h] = "idle"
  /\ defaultID \notin contexts
  /\ Goto(h, "newContext", NoContext)
  /\ lazy' = lazy \cup {h}
  /\ UNCHANGED <<registryVars, sandboxVars, reaperVars, hostVars>>

HandleCreateContext(h) ==
  /\ pc[h] = "idle"
  /\ Goto(h, "newContext", NoContext)
  /\ UNCHANGED <<lazy, registryVars, sandboxVars, reaperVars, hostVars>>

\* newContext checks for room and unlocks before the slow instantiation.
AdmitContext(h) ==
  /\ pc[h] = "newContext" /\ HasRoom
  /\ Goto(h, "newSandbox", NoContext)
  /\ UNCHANGED <<lazy, registryVars, sandboxVars, reaperVars, hostVars>>

RefuseContext(h) ==
  /\ pc[h] = "newContext" /\ ~HasRoom
  /\ Respond(h)
  /\ UNCHANGED <<registryVars, sandboxVars, reaperVars, hostVars>>

NewSandbox(h, c) ==
  /\ pc[h] = "newSandbox" /\ ~EngineClosed
  /\ sandbox[c] = "absent"
  /\ sandbox' = [sandbox EXCEPT ![c] = "open"]
  /\ Goto(h, "publish", c)
  /\ UNCHANGED <<lazy, mutex, undecoded, registryVars, reaperVars, hostVars>>

\* ErrClosed, or a filesystem or component that cannot be set up.
NewSandboxFails(h) ==
  /\ pc[h] = "newSandbox"
  /\ Respond(h)
  /\ UNCHANGED <<registryVars, sandboxVars, reaperVars, hostVars>>

\* The first check is trusted.
Publish_Unchecked(h) ==
  /\ pc[h] = "publish" /\ ~ServerClosed
  /\ contexts' = contexts \cup {target[h]}
  /\ IF h \in lazy
     THEN Goto(h, "setDefault", target[h]) /\ UNCHANGED lazy
     ELSE Respond(h)
  /\ UNCHANGED <<defaultID, stale, sandboxVars, reaperVars, hostVars>>

\* newContext checks again under the lock, as others filled the registry.
Publish(h) ==
  /\ pc[h] = "publish" /\ HasRoom
  /\ contexts' = contexts \cup {target[h]}
  /\ IF h \in lazy
     THEN Goto(h, "setDefault", target[h]) /\ UNCHANGED lazy
     ELSE Respond(h)
  /\ UNCHANGED <<defaultID, stale, sandboxVars, reaperVars, hostVars>>

\* The sandbox that found no room is not closed.
Overflow_Leaks(h) ==
  /\ pc[h] = "publish" /\ ~HasRoom
  /\ Respond(h)
  /\ UNCHANGED <<registryVars, sandboxVars, reaperVars, hostVars>>

Overflow(h) ==
  /\ pc[h] = "publish" /\ ~HasRoom
  /\ Goto(h, "close", target[h])
  /\ UNCHANGED <<lazy, registryVars, sandboxVars, reaperVars, hostVars>>

\* The latest context becomes the default.
SetDefault_Replaces(h) ==
  /\ pc[h] = "setDefault"
  /\ defaultID' = target[h]
  /\ Goto(h, "runCode", target[h])
  /\ UNCHANGED <<lazy, contexts, stale, sandboxVars, reaperVars, hostVars>>

\* The second critical section of contextFor, after newContext returned.
SetDefault(h) ==
  /\ pc[h] = "setDefault"
  /\ defaultID' = IF defaultID = NoContext THEN target[h] ELSE defaultID
  /\ Goto(h, "runCode", target[h])
  /\ UNCHANGED <<lazy, contexts, stale, sandboxVars, reaperVars, hostVars>>

-----------------------------------------------------------------------------
(* POST /execute: the cell.  The handler uses the entry it looked up, which
   others may have dropped or closed since. *)

\* RunCode takes Sandbox.mu and the guest starts.
BeginCell(h) ==
  LET c == target[h] IN
  /\ pc[h] = "runCode" /\ CanLock(c)
  /\ sandbox[c] = "open" /\ ~EngineClosed
  /\ mutex' = [mutex EXCEPT ![c] = h]
  /\ Goto(h, "cell", c)
  /\ UNCHANGED <<lazy, sandbox, undecoded, registryVars, reaperVars, hostVars>>

\* RunCode returns ErrClosed.
FindClosed(h) ==
  LET c == target[h] IN
  /\ pc[h] = "runCode" /\ CanLock(c)
  /\ sandbox[c] = "closed"
  /\ Goto(h, "forget", c)
  /\ UNCHANGED <<lazy, registryVars, sandboxVars, reaperVars, hostVars>>

\* The engine's runtime is gone, so the call fails and retires the sandbox.
FindEngineClosed(h) ==
  LET c == target[h] IN
  /\ pc[h] = "runCode" /\ EngineClosed
  /\ sandbox[c] = "open"
  /\ SandboxClose(c)
  /\ Goto(h, "forget", c)
  /\ UNCHANGED <<lazy, registryVars, reaperVars, hostVars>>

\* One return path keeps Sandbox.mu.
CellEnds_Locked(h, step) ==
  /\ pc[h] = "cell"
  /\ Goto(h, step, target[h])
  /\ UNCHANGED <<lazy, mutex, registryVars, reaperVars, hostVars>>

\* RunCode returns and unlocks Sandbox.mu; the handler goes on to a step.
CellEnds(h, step) ==
  /\ pc[h] = "cell"
  /\ mutex' = [mutex EXCEPT ![target[h]] = Free]
  /\ Goto(h, step, target[h])
  /\ UNCHANGED <<lazy, registryVars, reaperVars, hostVars>>

\* An Execution comes back, with or without a Python exception in it.
CellReturns(h) == CellEnds(h, "touch") /\ UNCHANGED <<sandbox, undecoded>>

\* The error is reported and the context kept.
CellRetires_Kept(h) ==
  /\ CellEnds(h, "touch")
  /\ sandbox' = [sandbox EXCEPT ![target[h]] = "closed"] /\ undecoded' = undecoded \ {target[h]}

\* A trap, a timeout or a cancelled request closes the sandbox (closeLocked).
CellRetires(h) ==
  /\ CellEnds(h, "forget")
  /\ sandbox' = [sandbox EXCEPT ![target[h]] = "closed"] /\ undecoded' = undecoded \ {target[h]}

\* RunCode fails without closing: the result is not one it can decode.
CellUndecodable(h) ==
  /\ CellEnds(h, "forget")
  /\ undecoded' = undecoded \cup {target[h]} /\ UNCHANGED sandbox

\* The entry is stored back under its id, not updated through its pointer.
Touch_Stores(h) ==
  /\ pc[h] = "touch"
  /\ contexts' = contexts \cup {target[h]}
  /\ stale' = stale \ {target[h]}
  /\ Respond(h)
  /\ UNCHANGED <<defaultID, sandboxVars, reaperVars, hostVars>>

\* lastUsed moves on; of an entry dropped meanwhile nobody looks at it.
Touch(h) ==
  /\ pc[h] = "touch"
  /\ stale' = stale \ {target[h]}
  /\ Respond(h)
  /\ UNCHANGED <<contexts, defaultID, sandboxVars, reaperVars, hostVars>>

Forget(h) ==
  /\ pc[h] = "forget"
  /\ Drop({target[h]})
  /\ Respond(h)
  /\ UNCHANGED <<sandboxVars, reaperVars, hostVars>>

-----------------------------------------------------------------------------
(* DELETE /contexts/{id}, and the close of a context that found no room. *)

\* The id is deleted and the sandbox left to the garbage collector.
HandleDeleteContext_Open(h, c) ==
  /\ pc[h] = "idle"
  /\ c \in contexts
  /\ Drop({c})
  /\ Respond(h)
  /\ UNCHANGED <<sandboxVars, reaperVars, hostVars>>

HandleDeleteContext(h, c) ==
  /\ pc[h] = "idle"
  /\ c \in contexts
  /\ Drop({c})
  /\ Goto(h, "close", c)
  /\ UNCHANGED <<lazy, sandboxVars, reaperVars, hostVars>>

CloseSandbox(h) ==
  /\ pc[h] = "close"
  /\ SandboxClose(target[h])
  /\ Respond(h)
  /\ UNCHANGED <<registryVars, reaperVars, hostVars>>

-----------------------------------------------------------------------------
(* The idle reaper. *)

\* IdleTimeout passes since the context was made or a cell in it ended.
Age(c) ==
  /\ c \in contexts \ stale
  /\ stale' = stale \cup {c}
  /\ UNCHANGED <<contexts, defaultID, sandboxVars, handlerVars, reaperVars, hostVars>>

\* The reaper returns after its first sweep.
Reap_Once ==
  /\ ~reaperDone /\ expired = {}
  /\ stale # {}
  /\ expired' = stale
  /\ reaperDone' = TRUE
  /\ Drop(stale)
  /\ UNCHANGED <<sandboxVars, handlerVars, hostVars>>

\* A tick of reapIdle that finds something to drop.
Reap ==
  /\ ~reaperDone /\ expired = {}
  /\ stale # {}
  /\ expired' = stale
  /\ Drop(stale)
  /\ UNCHANGED <<reaperDone, sandboxVars, handlerVars, hostVars>>

ReaperClose(c) ==
  /\ c \in expired
  /\ SandboxClose(c)
  /\ expired' = expired \ {c}
  /\ UNCHANGED <<reaperDone, registryVars, handlerVars, hostVars>>

\* The reaper returns without closing Server.done.
ReaperStop_Silent ==
  /\ ServerClosed /\ ~reaperDone /\ expired = {}
  /\ UNCHANGED vars

\* Server.stop is closed and the reaper is back in its select.
ReaperStop ==
  /\ ServerClosed /\ ~reaperDone /\ expired = {}
  /\ reaperDone' = TRUE
  /\ UNCHANGED <<expired, registryVars, sandboxVars, handlerVars, hostVars>>

-----------------------------------------------------------------------------
(* The embedding program shuts down: Server.Close, then Engine.Close. *)

Shutdown ==
  /\ host = "serving"
  /\ host' = "shutdown"
  /\ UNCHANGED <<closing, exited, registryVars, sandboxVars, handlerVars, reaperVars>>

\* Close leaves defaultID as it is.
ServerClose ==
  /\ host = "shutdown"
  /\ host' = "stopping"
  /\ closing' = contexts
  /\ contexts' = {}
  /\ stale' = {}
  /\ UNCHANGED <<defaultID, exited, sandboxVars, handlerVars, reaperVars>>

\* Server.Close does not wait for the reaper.
AwaitReaper_Skipped ==
  /\ host = "stopping"
  /\ host' = "closing"
  /\ UNCHANGED <<closing, exited, registryVars, sandboxVars, handlerVars, reaperVars>>

\* Close has waited for Server.done.
AwaitReaper ==
  /\ host = "stopping" /\ reaperDone
  /\ host' = "closing"
  /\ UNCHANGED <<closing, exited, registryVars, sandboxVars, handlerVars, reaperVars>>

HostClose(c) ==
  /\ host = "closing" /\ c \in closing
  /\ SandboxClose(c)
  /\ closing' = closing \ {c}
  /\ UNCHANGED <<host, exited, registryVars, handlerVars, reaperVars>>

EngineClose ==
  /\ host = "closing" /\ closing = {}
  /\ host' = "engineClosed"
  /\ UNCHANGED <<closing, exited, registryVars, sandboxVars, handlerVars, reaperVars>>

\* serveCommand returns after its deferred closes, or is fatal when the listener
\* fails, which skips them: the process exits under the handlers in flight.
Exit ==
  /\ host \in {"serving", "engineClosed"}
  /\ ~exited
  /\ exited' = TRUE
  /\ UNCHANGED <<host, closing, registryVars, sandboxVars, handlerVars, reaperVars>>

Stop == exited /\ UNCHANGED vars

-----------------------------------------------------------------------------
\* The steps by which a handler serves a request it has accepted, except
\* those that wait for a Sandbox.mu.
Proceed(h) ==
  \/ AdmitContext(h) \/ RefuseContext(h)
  \/ (\E c \in Contexts : NewSandbox(h, c)) \/ NewSandboxFails(h)
  \/ Publish(h) \/ Overflow(h) \/ SetDefault(h)
  \/ CellReturns(h) \/ CellRetires(h) \/ CellUndecodable(h)
  \/ Touch(h) \/ Forget(h)

RunCode(h) == BeginCell(h) \/ FindClosed(h) \/ FindEngineClosed(h)

Request(h) ==
  \/ (\E c \in Contexts : HandleExecute(h, c) \/ HandleDeleteContext(h, c))
  \/ ExecuteDefault(h)
  \/ HandleCreateContext(h)

Handler(h) == Request(h) \/ Proceed(h) \/ RunCode(h) \/ CloseSandbox(h)

Reaper == Reap \/ (\E c \in Contexts : ReaperClose(c)) \/ ReaperStop

Host == \/ Shutdown \/ ServerClose \/ AwaitReaper
        \/ (\E c \in Contexts : HostClose(c)) \/ EngineClose

Goroutines == \/ \E h \in Handlers : Handler(h)
              \/ \E c \in Contexts : Age(c)
              \/ Reaper
              \/ Host

Next == (~exited /\ Goroutines) \/ Exit \/ Stop

Spec == Init /\ [][Next]_vars

\* While the process lives, goroutines are scheduled, a cell ends by
\* Config.Timeout, time passes, and a sync.Mutex starves none of its waiters.
\* Requests, the shutdown and the exit may never come.
Fairness ==
  /\ \A h \in Handlers : /\ WF_vars(~exited /\ Proceed(h))
                         /\ SF_vars(~exited /\ (RunCode(h) \/ CloseSandbox(h)))
  /\ WF_vars(~exited /\ (Reap \/ ReaperStop))
  /\ SF_vars(~exited /\ \E c \in Contexts : ReaperClose(c))
  /\ WF_vars(~exited /\ (ServerClose \/ AwaitReaper \/ EngineClose))
  /\ SF_vars(~exited /\ \E c \in Contexts : HostClose(c))

FairSpec == Spec /\ Fairness

-----------------------------------------------------------------------------
(* Safety. *)

\* newContext checks for room before the slow NewSandbox, unlocked meanwhile:
\* however creations race, the registry never exceeds MaxContexts.
CapRespected == Cardinality(contexts) <= MaxContexts

\* The contexts somebody is bound to close: clients can still name them, or
\* the reaper, Server.Close or a handler holds them for closing or publishing.
Owned == contexts \cup expired \cup closing
           \cup {target[h] : h \in {g \in Handlers : pc[g] \in {"publish", "close"}}}

\* A live interpreter is never out of everybody's reach, whichever of a client,
\* the reaper, a failing cell and the shutdown takes its context away; but for one
\* whose result could not be decoded.
DecodedOwned ==
  \A c \in Contexts \ undecoded : sandbox[c] = "open" => c \in Owned

\* Clients find a context whose interpreter was retired only until the handler
\* that saw the failure runs forget; no other order of events leaves one.
DeadContextForgotten ==
  \A c \in contexts : sandbox[c] = "closed" =>
    \E h \in Handlers : pc[h] = "forget" /\ target[h] = c

\* One cell at a time runs in an interpreter, and the interpreter is not closed
\* under it by a delete, the reaper or Server.Close.
CellIsolation ==
  \A h \in Handlers : pc[h] = "cell" =>
    /\ sandbox[target[h]] = "open"
    /\ \A g \in Handlers \ {h} : pc[g] = "cell" => target[g] # target[h]

\* Requests that name no context keep meeting the same one: no race replaces a
\* default that is still registered.
DefaultStable ==
  [][\A c \in contexts \cap contexts' : defaultID = c => defaultID' = c]_vars

\* When the engine closes, the reaper and Server.Close have closed all they took:
\* a sandbox is open only if a handler in flight is about to publish or close it, or
\* it is one whose result could not be decoded.
LeftToHandlers ==
  EngineClosed => \A c \in Contexts \ undecoded : sandbox[c] = "open" =>
    \E h \in Handlers : pc[h] \in {"publish", "close"} /\ target[h] = c

-----------------------------------------------------------------------------
(* The life of one context, as ContextLifecycle has it. *)

Fresh(c) == \E h \in Handlers : pc[h] = "publish" /\ target[h] = c

Standing(c) ==
  CASE sandbox[c] = "absent" -> "absent"
    [] sandbox[c] = "open" -> IF c \in contexts THEN "registered"
                              ELSE IF Fresh(c) THEN "fresh" ELSE "retired"
    [] OTHER -> IF c \in contexts THEN "dead" ELSE "closed"

PhaseOf == [c \in Contexts |-> Standing(c)]

Lifecycle == INSTANCE ContextLifecycle WITH phase <- PhaseOf, shut <- ServerClosed

\* A context is registered at most once, under the cap and before the server
\* shuts, and what left the registry never returns to it.
Refinement == Lifecycle!Spec

-----------------------------------------------------------------------------
(* Liveness: what happens unless the process exits first. *)

\* Every request is answered, although it may wait for another's cell; only the
\* exit of the process leaves requests in flight without an answer.
RequestsAnswered ==
  \A h \in Handlers : []<>(pc[h] = "idle" \/ exited)

\* An interpreter whose context left the registry is closed in the end, but for one
\* whose result could not be decoded.
RetiredGetsClosed ==
  \A c \in Contexts : []<>(PhaseOf[c] # "retired" \/ c \in undecoded \/ exited)

\* A context unused for IdleTimeout is dropped unless somebody uses it again.
IdleReclaimed == \A c \in Contexts : []<>(c \notin stale \/ exited)

\* Server.Close, and Engine.Close after it, return.
CloseReturns == []<>(host \in {"serving", "shutdown", "engineClosed"} \/ exited)

-----------------------------------------------------------------------------
(* What comments of the code say and the code does not do. *)

\* No live interpreter is out of reach, also after a failed cell (server.go:249:
\* "The sandbox is retired on a trap or timeout, so drop it"): a handler forgets a
\* context whose result could not be decoded, and nobody closes it.
EverySandboxOwned == \A c \in Contexts : sandbox[c] = "open" => c \in Owned

\* Engine.Close, sandbox.go:236: "All sandboxes created by this Engine must be
\* closed first." Handlers in flight keep sandboxes open, also without the lost ones.
EngineClosedLast ==
  EngineClosed => \A c \in Contexts \ undecoded : sandbox[c] # "open"
=============================================================================

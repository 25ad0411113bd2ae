------------------------------- MODULE Sandbox -------------------------------
(***************************************************************************)
(* The sandboxes of one Engine (sandbox.go, packages.go, pip.go) and the   *)
(* guest interpreter inside each (guest/app.py), called by goroutines.     *)
(*                                                                         *)
(* A result comes back twice: as the return value of the component call,   *)
(* and through a file in the sandbox's root filesystem, the mirror, that   *)
(* the guest writes and the host reads and removes.  The host trusts the   *)
(* mirror over the return value.  The model keeps apart the moments at     *)
(* which the guest can be cut off and at which another sandbox with the    *)
(* same root can touch the mirror.                                         *)
(*                                                                         *)
(* An operator whose name has an underscore is a faulty variant of the     *)
(* definition after it that no action uses.                                *)
(***************************************************************************)
EXTENDS Naturals, FiniteSets

CONSTANTS
  Callers,    \* goroutines that call sandbox methods
  Sandboxes,  \* the supply of sandboxes
  Cells,      \* the supply of cells: each RunCode call brings one of its own
  Roots,      \* root filesystems
  RootOf,     \* the root a FileSystemFactory gives to each sandbox
  Internal,   \* a result of no cell: of pip, or of the host's import refresh
  NoCell,     \* a call without a cell
  NoSandbox,  \* where an idle caller is
  Free        \* the holder of an unlocked Sandbox.mu

\* What the mirror file holds when it is not the result of a cell.
NoFile == "no file"
Empty == "empty"
Torn == "torn"

ASSUME RootAssumption == RootOf \in [Sandboxes -> Roots]
ASSUME TokenAssumption ==
  /\ Free \notin Callers /\ NoSandbox \notin Sandboxes /\ Internal \notin Cells
  /\ NoCell \notin Cells \cup {Internal}
  /\ {NoFile, Empty, Torn, "pending", "ErrClosed", "failed", "undecoded"}
       \cap (Cells \cup {Internal, NoCell}) = {}

VARIABLES
  status,   \* absent, open or closed (Sandbox.closed)
  inst,     \* Sandbox.inst: live, dead (its module was closed under it) or closed
  mu,       \* Sandbox.mu
  globals,  \* the cells whose effects a guest's Python globals hold
  mirror,   \* /.pycage-run-result.json and /.pycage-pip-result.json in each root
  pc,       \* where each caller stands
  op,       \* the method it called
  on,       \* the sandbox it called
  cell,     \* the cell it runs
  call,     \* how CallExport ended for it
  payload,  \* what it read from the mirror
  outcome,  \* what RunCode returned for each cell
  engineClosed

sandboxVars == <<status, inst, mu, globals>>
callerVars == <<pc, op, on, cell, call, payload>>
vars == <<sandboxVars, callerVars, mirror, outcome, engineClosed>>

Ops == {"run", "wheel", "pip", "reset", "close"}
Results == Cells \cup {Internal}
Contents == Results \cup {NoFile, Empty, Torn}
GuestSteps == {"body", "open", "write", "return"}
Steps == GuestSteps \cup {"idle", "enter", "read", "decide", "settle"}

TypeOK ==
  /\ status \in [Sandboxes -> {"absent", "open", "closed"}]
  /\ inst \in [Sandboxes -> {"none", "live", "dead", "closed"}]
  /\ mu \in [Sandboxes -> Callers \cup {Free}]
  /\ globals \in [Sandboxes -> SUBSET Cells]
  /\ mirror \in [Roots \X {"run", "pip"} -> Contents]
  /\ pc \in [Callers -> Steps]
  /\ op \in [Callers -> Ops]
  /\ on \in [Callers -> Sandboxes \cup {NoSandbox}]
  /\ cell \in [Callers -> Results \cup {NoCell}]
  /\ call \in [Callers -> {"ok", "raised", "cut"}]
  /\ payload \in [Callers -> Contents]
  /\ outcome \in [Cells -> Results \cup {"pending", "ErrClosed", "failed", "undecoded"}]
  /\ engineClosed \in BOOLEAN

Init ==
  /\ status = [s \in Sandboxes |-> "absent"]
  /\ inst = [s \in Sandboxes |-> "none"]
  /\ mu = [s \in Sandboxes |-> Free]
  /\ globals = [s \in Sandboxes |-> {}]
  /\ mirror = [f \in Roots \X {"run", "pip"} |-> NoFile]
  /\ pc = [k \in Callers |-> "idle"]
  /\ op = [k \in Callers |-> "close"]
  /\ on = [k \in Callers |-> NoSandbox]
  /\ cell = [k \in Callers |-> NoCell]
  /\ call = [k \in Callers |-> "ok"]
  /\ payload = [k \in Callers |-> NoFile]
  /\ outcome = [c \in Cells |-> "pending"]
  /\ engineClosed = FALSE

-----------------------------------------------------------------------------
(* Pieces the methods share.  s is always the sandbox of caller k. *)

Goto(k, step) == pc' = [pc EXCEPT ![k] = step]

\* The method returns and unlocks Sandbox.mu if it holds it.
Return(k) ==
  /\ mu' = [s \in Sandboxes |-> IF mu[s] = k THEN Free ELSE mu[s]]
  /\ Goto(k, "idle")
  /\ op' = [op EXCEPT ![k] = "close"]
  /\ on' = [on EXCEPT ![k] = NoSandbox]
  /\ cell' = [cell EXCEPT ![k] = NoCell]
  /\ call' = [call EXCEPT ![k] = "ok"]
  /\ payload' = [payload EXCEPT ![k] = NoFile]

\* closeLocked; a sandbox that is closed already stays so.
CloseLocked(s) ==
  /\ status' = [status EXCEPT ![s] = "closed"]
  /\ inst' = [inst EXCEPT ![s] = "closed"]
  /\ globals' = [globals EXCEPT ![s] = {}]

\* fs.remove, whose error the host ignores: it is that there is no file.
RemoveMirror(f) == mirror' = [mirror EXCEPT ![f] = NoFile]

\* A call without a cell is answered like one that has a cell.
Answer_All(k, result) ==
  outcome' = [c \in Cells \cup {cell[k]} |-> IF c = cell[k] THEN result ELSE outcome[c]]

\* Only RunCode answers for a cell.
Answer(k, result) ==
  outcome' = IF cell[k] \in Cells THEN [outcome EXCEPT ![cell[k]] = result] ELSE outcome

\* The mirror of the call of k.
File(k) == <<RootOf[on[k]], IF op[k] = "pip" THEN "pip" ELSE "run">>

-----------------------------------------------------------------------------
(* The Engine. *)

NewSandbox(s) ==
  /\ ~engineClosed /\ status[s] = "absent"
  /\ status' = [status EXCEPT ![s] = "open"]
  /\ inst' = [inst EXCEPT ![s] = "live"]
  /\ UNCHANGED <<mu, globals, callerVars, mirror, outcome, engineClosed>>

\* Closing the runtime closes the modules of whatever is still open.
EngineClose ==
  /\ ~engineClosed
  /\ engineClosed' = TRUE
  /\ inst' = [s \in Sandboxes |-> IF inst[s] = "live" THEN "dead" ELSE inst[s]]
  /\ UNCHANGED <<status, mu, globals, callerVars, mirror, outcome>>

-----------------------------------------------------------------------------
(* Entering a method. *)

Fresh(c) == outcome[c] = "pending" /\ \A k \in Callers : cell[k] # c

Start(k, s, o, c) ==
  /\ pc[k] = "idle" /\ status[s] # "absent"
  /\ Goto(k, "enter")
  /\ op' = [op EXCEPT ![k] = o]
  /\ on' = [on EXCEPT ![k] = s]
  /\ cell' = [cell EXCEPT ![k] = c]
  /\ UNCHANGED <<sandboxVars, call, payload, mirror, outcome, engineClosed>>

RunCode(k, s, c) == Fresh(c) /\ Start(k, s, "run", c)
InstallWheel(k, s) == Start(k, s, "wheel", Internal)
PipInstall(k, s) == Start(k, s, "pip", Internal)
Reset(k, s) == Start(k, s, "reset", NoCell)
Close(k, s) == Start(k, s, "close", NoCell)

\* Sandbox.mu is not taken.
CanLock_Always(s) == TRUE

CanLock(s) == mu[s] = Free

\* The method finds the sandbox closed.
EnterClosed(k) ==
  /\ pc[k] = "enter" /\ CanLock(on[k])
  /\ status[on[k]] = "closed"
  /\ Answer(k, "ErrClosed")
  /\ Return(k)
  /\ UNCHANGED <<status, inst, globals, mirror, engineClosed>>

EnterClose(k) ==
  /\ pc[k] = "enter" /\ CanLock(on[k])
  /\ status[on[k]] = "open" /\ op[k] = "close"
  /\ CloseLocked(on[k])
  /\ Return(k)
  /\ UNCHANGED <<mirror, outcome, engineClosed>>

\* Where the host goes on when CallExport is back.
HostStep(k) == IF op[k] \in {"run", "pip"} THEN "read" ELSE "settle"

\* A wheel that is no pure-Python wheel, no requirement, or a failed Prefetch:
\* the method returns before it calls the guest.
EnterRefused(k) ==
  /\ pc[k] = "enter" /\ CanLock(on[k])
  /\ status[on[k]] = "open" /\ op[k] \in {"wheel", "pip"}
  /\ Return(k)
  /\ UNCHANGED <<status, inst, globals, mirror, outcome, engineClosed>>

\* RunCode and PipInstall remove their mirror; then CallExport starts the guest, or fails at
\* once if the instance is gone.
Enter(k) ==
  LET s == on[k] IN
  /\ pc[k] = "enter" /\ CanLock(s)
  /\ status[s] = "open" /\ op[k] # "close"
  /\ mu' = [mu EXCEPT ![s] = k]
  /\ IF op[k] \in {"run", "pip"} THEN RemoveMirror(File(k)) ELSE UNCHANGED mirror
  /\ IF inst[s] = "live"
     THEN Goto(k, "body") /\ UNCHANGED call
     ELSE Goto(k, HostStep(k)) /\ call' = [call EXCEPT ![k] = "cut"]
  /\ UNCHANGED <<status, inst, globals, op, on, cell, payload, outcome, engineClosed>>

-----------------------------------------------------------------------------
(* The guest (guest/app.py). *)

guestFrame == <<status, mu, op, on, cell, payload, outcome, engineClosed>>

\* _execute runs the cell, or reset clears the globals.  A Python exception in
\* the cell is part of its result.
GuestBody(k) ==
  /\ pc[k] = "body" /\ inst[on[k]] = "live"
  /\ globals' = [globals EXCEPT ![on[k]] =
                   CASE op[k] = "run" -> @ \cup {cell[k]}
                     [] op[k] = "reset" -> {}
                     [] OTHER -> @]
  /\ Goto(k, IF op[k] = "reset" THEN "return" ELSE "open")
  /\ UNCHANGED <<guestFrame, inst, call, mirror>>

\* _encode_run_result and _encode_pip_result: json.dumps, then open for writing truncates the file.
GuestOpen(k) ==
  /\ pc[k] = "open" /\ inst[on[k]] = "live"
  /\ mirror' = [mirror EXCEPT ![File(k)] = Empty]
  /\ Goto(k, "write")
  /\ UNCHANGED <<guestFrame, inst, globals, call>>

\* A long result reaches the file in more than one write.
GuestTear(k) ==
  /\ pc[k] = "write" /\ inst[on[k]] = "live"
  /\ mirror[File(k)] = Empty
  /\ mirror' = [mirror EXCEPT ![File(k)] = Torn]
  /\ UNCHANGED <<guestFrame, pc, inst, globals, call>>

GuestWrite(k) ==
  /\ pc[k] = "write" /\ inst[on[k]] = "live"
  /\ mirror' = [mirror EXCEPT ![File(k)] = cell[k]]
  /\ Goto(k, "return")
  /\ UNCHANGED <<guestFrame, inst, globals, call>>

GuestReturns(k) ==
  /\ pc[k] = "return" /\ inst[on[k]] = "live"
  /\ Goto(k, HostStep(k))
  /\ UNCHANGED <<guestFrame, inst, globals, call, mirror>>

\* json.dumps or open raises outside run_code's try, or in the except clause of
\* pip_install: the export fails.
GuestRaises(k) ==
  /\ pc[k] = "open" /\ inst[on[k]] = "live"
  /\ call' = [call EXCEPT ![k] = "raised"]
  /\ Goto(k, HostStep(k))
  /\ UNCHANGED <<guestFrame, inst, globals, mirror>>

\* A trap, Config.Timeout or the caller's context ends the call.  The module
\* may be closed with it.
GuestCut(k) ==
  /\ pc[k] \in GuestSteps
  /\ call' = [call EXCEPT ![k] = "cut"]
  /\ \/ inst' = [inst EXCEPT ![on[k]] = "dead"]
     \/ UNCHANGED inst
  /\ Goto(k, HostStep(k))
  /\ UNCHANGED <<guestFrame, globals, mirror>>

-----------------------------------------------------------------------------
(* The host again. *)

\* The host waits for a mirror.
ReadMirror_Polls(k) ==
  /\ pc[k] = "read"
  /\ IF mirror[File(k)] = NoFile THEN UNCHANGED <<pc, payload>>
     ELSE Goto(k, "decide") /\ payload' = [payload EXCEPT ![k] = mirror[File(k)]]
  /\ UNCHANGED <<sandboxVars, op, on, cell, call, mirror, outcome, engineClosed>>

ReadMirror(k) ==
  /\ pc[k] = "read"
  /\ payload' = [payload EXCEPT ![k] = mirror[File(k)]]
  /\ Goto(k, "decide")
  /\ UNCHANGED <<sandboxVars, op, on, cell, call, mirror, outcome, engineClosed>>

\* A mirror is removed by the next call and not by its reader.
Consume_Later(k) == UNCHANGED mirror

\* The host removes a mirror it could read, whatever it makes of it.
Consume(k) ==
  IF payload[k] = NoFile THEN UNCHANGED mirror ELSE RemoveMirror(File(k))

Blank(k) == payload[k] \in {NoFile, Empty}

\* The error of the call is overlooked.
RunAnswers_Hopeful(k) ==
  /\ pc[k] = "decide" /\ op[k] = "run" /\ Consume(k)
  /\ \/ payload[k] \in Results /\ Answer(k, payload[k])
     \/ Blank(k) /\ Answer(k, cell[k])
  /\ Return(k)
  /\ UNCHANGED <<status, inst, globals, engineClosed>>

\* RunCode decodes the mirror, also when the call failed; without one it
\* decodes the value the call returned.
RunAnswers(k) ==
  /\ pc[k] = "decide" /\ op[k] = "run" /\ Consume(k)
  /\ \/ payload[k] \in Results /\ Answer(k, payload[k])
     \/ Blank(k) /\ call[k] = "ok" /\ Answer(k, cell[k])
  /\ Return(k)
  /\ UNCHANGED <<status, inst, globals, engineClosed>>

\* The decoder fails and the sandbox stays as it is.
RunUndecodable(k) ==
  /\ pc[k] = "decide" /\ op[k] = "run" /\ Consume(k)
  /\ payload[k] = Torn
  /\ Answer(k, "undecoded")
  /\ Return(k)
  /\ UNCHANGED <<status, inst, globals, engineClosed>>

\* The call failed and left no mirror: the sandbox is retired.
RunRetires(k) ==
  /\ pc[k] = "decide" /\ op[k] = "run" /\ Consume(k)
  /\ Blank(k) /\ call[k] # "ok"
  /\ CloseLocked(on[k])
  /\ Answer(k, "failed")
  /\ Return(k)
  /\ UNCHANGED engineClosed

\* The instance is restarted for the new modules to be found.
WheelSettles_Restart(k) ==
  /\ pc[k] = "settle" /\ op[k] = "wheel"
  /\ RemoveMirror(File(k))
  /\ globals' = [globals EXCEPT ![on[k]] = {}]
  /\ IF call[k] = "ok" THEN UNCHANGED <<status, inst>>
     ELSE status' = [status EXCEPT ![on[k]] = "closed"]
          /\ inst' = [inst EXCEPT ![on[k]] = "closed"]
  /\ Return(k)
  /\ UNCHANGED <<outcome, engineClosed>>

\* refreshGuestImportsLocked removes the mirror of its own cell.
WheelSettles(k) ==
  /\ pc[k] = "settle" /\ op[k] = "wheel"
  /\ RemoveMirror(File(k))
  /\ IF call[k] = "ok" THEN UNCHANGED <<status, inst, globals>> ELSE CloseLocked(on[k])
  /\ Return(k)
  /\ UNCHANGED <<outcome, engineClosed>>

\* Reset reports a failed call and keeps the sandbox.
ResetSettles(k) ==
  /\ pc[k] = "settle" /\ op[k] = "reset"
  /\ Return(k)
  /\ UNCHANGED <<status, inst, globals, mirror, outcome, engineClosed>>

\* The call of pip failed and left no mirror.
PipFailed(k) == Blank(k) /\ call[k] # "ok"

PipRetires(k) ==
  /\ pc[k] = "decide" /\ op[k] = "pip" /\ Consume(k)
  /\ PipFailed(k)
  /\ CloseLocked(on[k])
  /\ Return(k)
  /\ UNCHANGED <<outcome, engineClosed>>

\* pip's result cannot be decoded or reports an error, the files pip staged
\* cannot be used, or the engine is closed: the sandbox stays as it is.
PipRefuses(k) ==
  /\ pc[k] = "decide" /\ op[k] = "pip" /\ Consume(k)
  /\ ~PipFailed(k)
  /\ Return(k)
  /\ UNCHANGED <<status, inst, globals, outcome, engineClosed>>

\* restartLocked: the old instance is closed, then a new one takes its place
\* or, if that fails, does not.
PipRestarts(k) ==
  /\ pc[k] = "decide" /\ op[k] = "pip" /\ Consume(k)
  /\ ~PipFailed(k) /\ payload[k] # Torn /\ ~engineClosed
  /\ inst' = [inst EXCEPT ![on[k]] = "live"] \/ inst' = [inst EXCEPT ![on[k]] = "closed"]
  /\ globals' = [globals EXCEPT ![on[k]] = {}]
  /\ Return(k)
  /\ UNCHANGED <<status, outcome, engineClosed>>

-----------------------------------------------------------------------------
Calls(k) ==
  \E s \in Sandboxes :
    \/ \E c \in Cells : RunCode(k, s, c)
    \/ InstallWheel(k, s) \/ PipInstall(k, s) \/ Reset(k, s) \/ Close(k, s)

Enters(k) == EnterClosed(k) \/ EnterClose(k) \/ EnterRefused(k) \/ Enter(k)

Guest(k) == \/ GuestBody(k) \/ GuestOpen(k) \/ GuestTear(k) \/ GuestWrite(k)
            \/ GuestReturns(k) \/ GuestRaises(k) \/ GuestCut(k)

Settles(k) == \/ ReadMirror(k) \/ RunAnswers(k) \/ RunUndecodable(k) \/ RunRetires(k)
              \/ WheelSettles(k) \/ ResetSettles(k)
              \/ PipRefuses(k) \/ PipRetires(k) \/ PipRestarts(k)

\* An engine closed before it had a sandbox leaves nothing to do.
NothingLeft ==
  /\ engineClosed /\ \A s \in Sandboxes : status[s] = "absent"
  /\ UNCHANGED vars

Next == \/ \E k \in Callers : Calls(k) \/ Enters(k) \/ Guest(k) \/ Settles(k)
        \/ \E s \in Sandboxes : NewSandbox(s)
        \/ EngineClose
        \/ NothingLeft

Spec == Init /\ [][Next]_vars

\* The guest runs or is cut off by Config.Timeout, the host goes on, and a
\* sync.Mutex starves none of its waiters.
Fairness ==
  \A k \in Callers : WF_vars(Guest(k) \/ Settles(k)) /\ SF_vars(Enters(k))

FairSpec == Spec /\ Fairness

-----------------------------------------------------------------------------
(* Safety. *)

\* What RunCode returns for a cell is that cell's own result, not what an
\* earlier or a concurrent call left in the mirror.
OwnAnswer == \A c \in Cells : outcome[c] \in Results => outcome[c] = c

\* RunCode returns a result only for a cell that ran to its end in the
\* interpreter: no failed call passes for a success.
AnsweredAfterRun ==
  [][\A k \in Callers :
       /\ cell[k] \in Cells /\ outcome[cell[k]] = "pending"
       /\ outcome'[cell[k]] = cell[k]
       => cell[k] \in globals[on[k]]]_vars

\* While the guest works for one caller no other caller uses, closes or
\* replaces its instance.
Exclusive ==
  \A k \in Callers : pc[k] \in GuestSteps =>
    mu[on[k]] = k /\ status[on[k]] = "open" /\ inst[on[k]] \in {"live", "dead"}

\* Between two calls an open sandbox has no mirror from which a later call
\* could read a stale result.
MirrorConsumed ==
  \A s \in Sandboxes : status[s] = "open" /\ mu[s] = Free =>
    \A kind \in {"run", "pip"} : mirror[<<RootOf[s], kind>>] = NoFile

\* Variables and imports outlive the call that made them: only Reset,
\* PipInstall and the end of the sandbox take them away.
EffectsKept ==
  [][\A s \in Sandboxes : ~(globals[s] \subseteq globals'[s]) =>
       \/ status'[s] = "closed"
       \/ \E k \in Callers : mu[s] = k /\ op[k] \in {"reset", "pip"}]_vars

\* To its callers every sandbox is one interpreter that runs one whole cell at a
\* time: whatever goroutines, the guest and the mirror do, the globals and the
\* answers change as SandboxContract says, or not at all.
Contract == INSTANCE SandboxContract
              WITH state <- status, effects <- globals, answer <- outcome

ImplementsContract == Contract!Spec

-----------------------------------------------------------------------------
(* Liveness. *)

\* Every call of a sandbox method returns.
CallsReturn == \A k \in Callers : (pc[k] # "idle") ~> (pc[k] = "idle")
=============================================================================

---------------------------- MODULE SandboxProofs ----------------------------
(***************************************************************************)
(* Proofs about Sandbox, for any number of callers, sandboxes and cells.   *)
(*                                                                         *)
(* The argument is in layers, each preserved by every step given the ones  *)
(* before it: what a caller's place says of the call it makes (Placed);    *)
(* who holds a mutex (Held); what an open sandbox's instance is (Alive);   *)
(* when no two sandboxes have the same root, whose result a mirror holds   *)
(* at each step of the call that uses it (Mirrored); and that a cell is in *)
(* one call only (CellsApart), its effects in the globals once its body    *)
(* has ended (Ran), and nowhere else while it is not answered (Attended).  *)
(* The last part takes each step to one of SandboxContract, or to none.    *)
(***************************************************************************)
EXTENDS Sandbox, TLAPS

\* Every sandbox has a root of its own, as DefaultFileSystem makes them.
RootsPrivate == \A s, t \in Sandboxes : RootOf[s] = RootOf[t] => s = t

\* The cell each method brings.
Suits(o, c) == \/ o = "run" /\ c \in Cells /\ Fresh(c)
               \/ o \in {"wheel", "pip"} /\ c = Internal
               \/ o \in {"reset", "close"} /\ c = NoCell

\* Where a caller holds the mutex of its sandbox.
Locked == GuestSteps \cup {"read", "decide", "settle"}

Placed ==
  /\ \A k \in Callers :
       /\ pc[k] = "idle" => on[k] = NoSandbox /\ cell[k] = NoCell
       /\ pc[k] # "idle" => on[k] \in Sandboxes /\ status[on[k]] # "absent"
       /\ pc[k] # "idle" => \/ op[k] = "run" /\ cell[k] \in Cells
                            \/ op[k] \in {"wheel", "pip"} /\ cell[k] = Internal
                            \/ op[k] \in {"reset", "close"} /\ cell[k] = NoCell
       /\ pc[k] \in Locked => op[k] # "close"
       /\ pc[k] \in {"open", "write"} => op[k] # "reset"
       /\ pc[k] \in {"read", "decide"} => op[k] \in {"run", "pip"}
       /\ pc[k] = "settle" => op[k] \in {"wheel", "reset"}
  /\ \A s \in Sandboxes : status[s] = "absent" => inst[s] = "none" /\ mu[s] = Free

Typed == TypeOK /\ Placed

\* A mutex is held by the one caller that is past Enter in its sandbox.
Held ==
  /\ \A k \in Callers : pc[k] \in Locked => mu[on[k]] = k /\ status[on[k]] = "open"
  /\ \A s \in Sandboxes : mu[s] # Free => pc[mu[s]] \in Locked /\ on[mu[s]] = s

\* The guest works in an instance that was live when the call began.
Alive == \A k \in Callers : pc[k] \in GuestSteps => inst[on[k]] \in {"live", "dead"}

\* The mirror that the call of k does not use.
OtherFile(k) == <<RootOf[on[k]], IF op[k] = "pip" THEN "run" ELSE "pip">>

\* What the mirror of a call holds at each of its steps.
MirrorOf(k) ==
  /\ mirror[OtherFile(k)] = NoFile
  /\ op[k] = "reset" => mirror[File(k)] = NoFile
  /\ pc[k] \in {"body", "open"} => mirror[File(k)] = NoFile
  /\ pc[k] = "write" => mirror[File(k)] \in {Empty, Torn}
  /\ pc[k] = "return" /\ op[k] # "reset" => mirror[File(k)] = cell[k]
  /\ mirror[File(k)] \in {NoFile, Empty, Torn, cell[k]}
  /\ pc[k] = "decide" => payload[k] = mirror[File(k)]

Mirrored ==
  /\ \A s \in Sandboxes : status[s] # "closed" /\ mu[s] = Free =>
       \A kind \in {"run", "pip"} : mirror[<<RootOf[s], kind>>] = NoFile
  /\ \A k \in Callers : pc[k] \in Locked => MirrorOf(k)

\* No two calls run the same cell, and none runs one that was answered.
CellsApart ==
  /\ \A j, k \in Callers : j # k /\ cell[j] \in Cells => cell[k] # cell[j]
  /\ \A k \in Callers : cell[k] \in Cells => outcome[cell[k]] = "pending"

\* The effects of a cell are in the globals from the end of its body on.
Ran == \A k \in Callers : op[k] = "run" =>
  /\ pc[k] \in {"open", "write", "return"} => cell[k] \in globals[on[k]]
  /\ pc[k] \in {"read", "decide"} /\ (call[k] = "ok" \/ mirror[File(k)] # NoFile)
       => cell[k] \in globals[on[k]]

-----------------------------------------------------------------------------
\* The steps of the system, one by one.
LEMMA NextCases ==
  ASSUME [Next]_vars
  PROVE  \/ \E k \in Callers, s \in Sandboxes, o \in Ops, c \in Results \cup {NoCell} :
              Suits(o, c) /\ Start(k, s, o, c)
         \/ \E k \in Callers :
              \/ EnterClosed(k) \/ EnterClose(k) \/ EnterRefused(k) \/ Enter(k)
              \/ GuestBody(k) \/ GuestOpen(k) \/ GuestTear(k) \/ GuestWrite(k)
              \/ GuestReturns(k) \/ GuestRaises(k) \/ GuestCut(k)
              \/ ReadMirror(k) \/ RunAnswers(k) \/ RunUndecodable(k) \/ RunRetires(k)
              \/ WheelSettles(k) \/ ResetSettles(k)
              \/ PipRetires(k) \/ PipRefuses(k) \/ PipRestarts(k)
         \/ \E s \in Sandboxes : NewSandbox(s)
         \/ EngineClose
         \/ UNCHANGED vars
  <1>1. ASSUME NEW k \in Callers, Calls(k)
        PROVE  \E s \in Sandboxes, o \in Ops, c \in Results \cup {NoCell} :
                 Suits(o, c) /\ Start(k, s, o, c)
    <2>1. PICK s \in Sandboxes :
            \/ \E c \in Cells : RunCode(k, s, c)
            \/ InstallWheel(k, s) \/ PipInstall(k, s) \/ Reset(k, s) \/ Close(k, s)
      BY <1>1 DEF Calls
    <2>2. ASSUME NEW c \in Cells, RunCode(k, s, c)
          PROVE  Suits("run", c) /\ Start(k, s, "run", c)
      BY <2>2 DEF RunCode, Suits
    <2>3. ASSUME InstallWheel(k, s)
          PROVE  Suits("wheel", Internal) /\ Start(k, s, "wheel", Internal)
      BY <2>3 DEF InstallWheel, Suits
    <2>4. ASSUME PipInstall(k, s)
          PROVE  Suits("pip", Internal) /\ Start(k, s, "pip", Internal)
      BY <2>4 DEF PipInstall, Suits
    <2>5. ASSUME Reset(k, s)
          PROVE  Suits("reset", NoCell) /\ Start(k, s, "reset", NoCell)
      BY <2>5 DEF Reset, Suits
    <2>6. ASSUME Close(k, s)
          PROVE  Suits("close", NoCell) /\ Start(k, s, "close", NoCell)
      BY <2>6 DEF Close, Suits
    <2>7. \A c \in Cells : c \in Results \cup {NoCell}
      BY DEF Results
    <2>8. Internal \in Results \cup {NoCell} /\ NoCell \in Results \cup {NoCell}
      BY DEF Results
    <2>9. {"run", "wheel", "pip", "reset", "close"} \subseteq Ops
      BY DEF Ops
    <2>10. QED
      BY <2>1, <2>2, <2>3, <2>4, <2>5, <2>6, <2>7, <2>8, <2>9
  <1>2. QED
    BY <1>1 DEF Next, Enters, Guest, Settles, NothingLeft

-----------------------------------------------------------------------------
(* The kinds of steps. *)

\* Caller k goes on inside its call; it may lose its instance.
Inside(k) ==
  /\ pc[k] \in Locked
  /\ \E step \in Locked :
       /\ pc' = [pc EXCEPT ![k] = step]
       /\ step \in {"open", "write"} => op[k] # "reset"
       /\ step \in {"read", "decide"} => op[k] \in {"run", "pip"}
       /\ step = "settle" => op[k] \in {"wheel", "reset"}
       /\ step \in GuestSteps => pc[k] \in GuestSteps
  /\ UNCHANGED <<on, op, cell, mu, status, outcome>>
  /\ inst' = inst \/ inst' = [inst EXCEPT ![on[k]] = "dead"]

\* Caller k returns, and may leave its sandbox closed or restarted.
Departs(k) ==
  /\ pc[k] \in Locked \/ (pc[k] = "enter" /\ mu[on[k]] = Free)
  /\ Return(k)
  /\ \/ UNCHANGED <<status, inst>>
     \/ CloseLocked(on[k])
     \/ /\ UNCHANGED status
        /\ pc[k] \in Locked
        /\ inst' = [inst EXCEPT ![on[k]] = "live"] \/ inst' = [inst EXCEPT ![on[k]] = "closed"]

\* A caller calls a method.
Begins(k) ==
  \E s \in Sandboxes, o \in Ops, c \in Results \cup {NoCell} :
    Suits(o, c) /\ Start(k, s, o, c)

\* The Engine makes a sandbox or closes, or nothing happens.
Environment ==
  /\ UNCHANGED <<callerVars, mu, globals, mirror, outcome>>
  /\ \/ UNCHANGED <<status, inst>>
     \/ \E s \in Sandboxes : /\ status[s] = "absent"
                             /\ status' = [status EXCEPT ![s] = "open"]
                             /\ inst' = [inst EXCEPT ![s] = "live"]
     \/ /\ UNCHANGED status
        /\ inst' = [s \in Sandboxes |-> IF inst[s] = "live" THEN "dead" ELSE inst[s]]

InsideAction(k) ==
  \/ GuestBody(k) \/ GuestOpen(k) \/ GuestTear(k) \/ GuestWrite(k)
  \/ GuestReturns(k) \/ GuestRaises(k) \/ GuestCut(k) \/ ReadMirror(k)

DepartsAction(k) ==
  \/ EnterClosed(k) \/ EnterClose(k) \/ EnterRefused(k)
  \/ RunAnswers(k) \/ RunUndecodable(k) \/ RunRetires(k)
  \/ WheelSettles(k) \/ ResetSettles(k)
  \/ PipRetires(k) \/ PipRefuses(k) \/ PipRestarts(k)

\* Each step of the guest, and reading the mirror, is a step inside a call.
LEMMA InsideKind ==
  ASSUME Typed, NEW k \in Callers, InsideAction(k)
  PROVE  Inside(k)
  <1> USE DEF Inside, Typed, Placed, Locked, GuestSteps, Goto, HostStep, guestFrame,
          sandboxVars
  <1>0. pc \in [Callers -> Steps] /\ op \in [Callers -> Ops]
    BY DEF TypeOK
  <1>1. CASE GuestBody(k)
    BY <1>0, <1>1 DEF GuestBody, Ops
  <1>2. CASE GuestOpen(k)
    BY <1>0, <1>2 DEF GuestOpen
  <1>3. CASE GuestTear(k)
    <2>1. pc' = [pc EXCEPT ![k] = "write"]
      BY <1>0, <1>3 DEF GuestTear
    <2>2. QED
      BY <1>3, <2>1 DEF GuestTear
  <1>4. CASE GuestWrite(k)
    BY <1>0, <1>4 DEF GuestWrite
  <1>5. CASE GuestReturns(k)
    BY <1>0, <1>5 DEF GuestReturns, Ops
  <1>6. CASE GuestRaises(k)
    BY <1>0, <1>6 DEF GuestRaises, Ops
  <1>7. CASE GuestCut(k)
    BY <1>0, <1>7 DEF GuestCut, Ops
  <1>8. CASE ReadMirror(k)
    BY <1>0, <1>8 DEF ReadMirror
  <1>9. QED
    BY <1>1, <1>2, <1>3, <1>4, <1>5, <1>6, <1>7, <1>8 DEF InsideAction

\* Each step after which a caller is idle is a departure.
LEMMA DepartsKind ==
  ASSUME NEW k \in Callers, DepartsAction(k)
  PROVE  Departs(k)
  <1> USE DEF Departs, Locked
  <1>1. CASE EnterClosed(k)
    BY <1>1 DEF EnterClosed, CanLock
  <1>2. CASE EnterClose(k)
    BY <1>2 DEF EnterClose, CanLock
  <1>3. CASE EnterRefused(k)
    BY <1>3 DEF EnterRefused, CanLock
  <1>4. CASE RunAnswers(k)
    BY <1>4 DEF RunAnswers
  <1>5. CASE RunUndecodable(k)
    BY <1>5 DEF RunUndecodable
  <1>6. CASE RunRetires(k)
    BY <1>6 DEF RunRetires
  <1>7. CASE WheelSettles(k)
    BY <1>7 DEF WheelSettles
  <1>8. CASE ResetSettles(k)
    BY <1>8 DEF ResetSettles
  <1>9. CASE PipRetires(k)
    BY <1>9 DEF PipRetires
  <1>10. CASE PipRefuses(k)
    BY <1>10 DEF PipRefuses
  <1>11. CASE PipRestarts(k)
    BY <1>11 DEF PipRestarts
  <1>12. QED
    BY <1>1, <1>2, <1>3, <1>4, <1>5, <1>6, <1>7, <1>8, <1>9, <1>10, <1>11
       DEF DepartsAction

\* Every step is of one of five kinds.
LEMMA Kinds ==
  ASSUME Typed, [Next]_vars
  PROVE  \/ \E k \in Callers : Inside(k) \/ Departs(k) \/ Enter(k) \/ Begins(k)
         \/ Environment
  <1>1. ASSUME NEW k \in Callers, InsideAction(k) PROVE Inside(k)
    BY <1>1, InsideKind
  <1>2. ASSUME NEW k \in Callers, DepartsAction(k) PROVE Departs(k)
    BY <1>2, DepartsKind
  <1>3. ASSUME NEW s \in Sandboxes, NewSandbox(s) PROVE Environment
    BY <1>3 DEF NewSandbox, Environment
  <1>4. ASSUME EngineClose PROVE Environment
    BY <1>4 DEF EngineClose, Environment
  <1>5. ASSUME UNCHANGED vars PROVE Environment
    BY <1>5 DEF vars, sandboxVars, Environment
  <1>6. QED
    BY <1>1, <1>2, <1>3, <1>4, <1>5, NextCases DEF InsideAction, DepartsAction, Begins

-----------------------------------------------------------------------------
(* Types. *)

\* A method that returns leaves the callers and the mutexes well typed.
LEMMA ReturnTyped ==
  ASSUME TypeOK, NEW k \in Callers, Return(k)
  PROVE  /\ mu' \in [Sandboxes -> Callers \cup {Free}]
         /\ pc' \in [Callers -> Steps] /\ op' \in [Callers -> Ops]
         /\ on' \in [Callers -> Sandboxes \cup {NoSandbox}]
         /\ cell' \in [Callers -> Results \cup {NoCell}]
         /\ call' \in [Callers -> {"ok", "raised", "cut"}]
         /\ payload' \in [Callers -> Contents]
  BY DEF TypeOK, Return, Goto, Steps, GuestSteps, Ops, Contents

\* An answer of one of the kinds RunCode gives leaves the outcomes well typed.
LEMMA AnswerTyped ==
  ASSUME TypeOK, NEW k \in Callers,
         NEW result \in Results \cup {"pending", "ErrClosed", "failed", "undecoded"},
         Answer(k, result)
  PROVE  outcome' \in [Cells -> Results \cup {"pending", "ErrClosed", "failed", "undecoded"}]
  BY DEF TypeOK, Answer

\* closeLocked leaves the sandboxes well typed.
LEMMA CloseTyped ==
  ASSUME TypeOK, NEW s \in Sandboxes, CloseLocked(s)
  PROVE  /\ status' \in [Sandboxes -> {"absent", "open", "closed"}]
         /\ inst' \in [Sandboxes -> {"none", "live", "dead", "closed"}]
         /\ globals' \in [Sandboxes -> SUBSET Cells]
  BY DEF TypeOK, CloseLocked

\* Removing a mirror after reading it leaves the mirrors well typed.
LEMMA ConsumeTyped ==
  ASSUME TypeOK, NEW k \in Callers, Consume(k)
  PROVE  mirror' \in [Roots \X {"run", "pip"} -> Contents]
  BY DEF TypeOK, Consume, RemoveMirror, Contents

\* Every step of the system leaves its state well typed.
LEMMA TypeStep ==
  ASSUME Typed, [Next]_vars
  PROVE  TypeOK'
  <1>1. ASSUME NEW k \in Callers, pc[k] # "idle"
        PROVE  on[k] \in Sandboxes /\ cell[k] \in Cells \cup {Internal, NoCell}
    BY <1>1 DEF Typed, Placed
  <1>2. ASSUME NEW k \in Callers, NEW s \in Sandboxes, NEW o \in Ops,
               NEW c \in Results \cup {NoCell}, Start(k, s, o, c)
        PROVE  TypeOK'
    BY <1>2 DEF Typed, TypeOK, Start, Goto, Steps, sandboxVars
  <1>3. ASSUME NEW k \in Callers, InsideAction(k) PROVE TypeOK'
    <2> USE RootAssumption DEF Typed, TypeOK, Goto, Steps, GuestSteps, HostStep, Contents,
            guestFrame, sandboxVars, File
    <2>1. on[k] \in Sandboxes
      BY <1>1, <1>3 DEF InsideAction, GuestBody, GuestOpen, GuestTear, GuestWrite,
         GuestReturns, GuestRaises, GuestCut, ReadMirror
    <2>2. CASE GuestBody(k)
      <3>1. globals' \in [Sandboxes -> SUBSET Cells]
        BY <2>1, <2>2 DEF GuestBody, Placed
      <3>2. QED
        BY <2>2, <3>1 DEF GuestBody
    <2>3. CASE GuestOpen(k)
      BY <2>3 DEF GuestOpen
    <2>4. CASE GuestTear(k)
      BY <2>4 DEF GuestTear
    <2>5. CASE GuestWrite(k)
      <3>1. cell[k] \in Results
        BY <2>5 DEF GuestWrite, Placed, Results, Locked
      <3>2. QED
        BY <2>5, <3>1 DEF GuestWrite
    <2>6. CASE GuestReturns(k)
      BY <2>6 DEF GuestReturns
    <2>7. CASE GuestRaises(k)
      BY <2>7 DEF GuestRaises
    <2>8. CASE GuestCut(k)
      BY <2>8 DEF GuestCut
    <2>9. CASE ReadMirror(k)
      <3>1. mirror[File(k)] \in Contents
        BY <2>1
      <3>2. payload' \in [Callers -> Contents]
        BY <2>9, <3>1 DEF ReadMirror
      <3>3. QED
        BY <2>9, <3>2 DEF ReadMirror
    <2>10. QED
      BY <1>3, <2>2, <2>3, <2>4, <2>5, <2>6, <2>7, <2>8, <2>9 DEF InsideAction
  <1>4. ASSUME NEW k \in Callers, DepartsAction(k) PROVE TypeOK'
    <2>1. on[k] \in Sandboxes /\ Return(k)
      BY <1>1, <1>4 DEF DepartsAction, EnterClosed, EnterClose, EnterRefused, RunAnswers,
         RunUndecodable, RunRetires, WheelSettles, ResetSettles, PipRetires, PipRefuses,
         PipRestarts
    <2>2. /\ status' \in [Sandboxes -> {"absent", "open", "closed"}]
          /\ inst' \in [Sandboxes -> {"none", "live", "dead", "closed"}]
      <3>1. \/ UNCHANGED <<status, inst>>
            \/ CloseLocked(on[k])
            \/ /\ UNCHANGED status
               /\ \/ inst' = [inst EXCEPT ![on[k]] = "live"]
                  \/ inst' = [inst EXCEPT ![on[k]] = "closed"]
        BY <1>4, DepartsKind DEF Departs
      <3>2. QED
        BY <2>1, <3>1, CloseTyped DEF Typed, TypeOK
    <2>3. globals' \in [Sandboxes -> SUBSET Cells]
      <3>1. \/ UNCHANGED globals \/ CloseLocked(on[k])
            \/ globals' = [globals EXCEPT ![on[k]] = {}]
        BY <1>4 DEF DepartsAction, EnterClosed, EnterClose, EnterRefused, RunAnswers,
           RunUndecodable, RunRetires, WheelSettles, ResetSettles, PipRetires, PipRefuses,
           PipRestarts
      <3>2. QED
        BY <2>1, <3>1, CloseTyped DEF Typed, TypeOK
    <2>4. mirror' \in [Roots \X {"run", "pip"} -> Contents]
      <3>1. UNCHANGED mirror \/ Consume(k) \/ RemoveMirror(File(k))
        BY <1>4 DEF DepartsAction, EnterClosed, EnterClose, EnterRefused, RunAnswers,
           RunUndecodable, RunRetires, WheelSettles, ResetSettles, PipRetires, PipRefuses,
           PipRestarts
      <3>2. QED
        BY <3>1, ConsumeTyped DEF Typed, TypeOK, RemoveMirror, Contents
    <2>5. outcome' \in [Cells -> Results \cup {"pending", "ErrClosed", "failed", "undecoded"}]
      <3>1. \/ UNCHANGED outcome
            \/ Answer(k, "ErrClosed") \/ Answer(k, "failed") \/ Answer(k, "undecoded")
            \/ payload[k] \in Results /\ Answer(k, payload[k])
            \/ op[k] = "run" /\ pc[k] = "decide" /\ Answer(k, cell[k])
        BY <1>4 DEF DepartsAction, EnterClosed, EnterClose, EnterRefused, RunAnswers,
           RunUndecodable, RunRetires, WheelSettles, ResetSettles, PipRetires, PipRefuses,
           PipRestarts
      <3>2. op[k] = "run" /\ pc[k] = "decide" => cell[k] \in Results
        BY DEF Typed, Placed, Results
      <3>3. QED
        BY <3>1, <3>2, AnswerTyped DEF Typed, TypeOK
    <2>6. engineClosed' = engineClosed
      BY <1>4 DEF DepartsAction, EnterClosed, EnterClose, EnterRefused, RunAnswers,
         RunUndecodable, RunRetires, WheelSettles, ResetSettles, PipRetires, PipRefuses,
         PipRestarts
    <2>7. QED
      BY <2>1, <2>2, <2>3, <2>4, <2>5, <2>6, ReturnTyped DEF Typed, TypeOK
  <1>5. ASSUME NEW k \in Callers, Enter(k) PROVE TypeOK'
    <2>1. mirror' \in [Roots \X {"run", "pip"} -> Contents]
      BY <1>5 DEF Enter, RemoveMirror, Typed, TypeOK, Contents
    <2>2. pc' \in [Callers -> Steps] /\ call' \in [Callers -> {"ok", "raised", "cut"}]
      <3>1. \/ pc' = [pc EXCEPT ![k] = "body"] /\ UNCHANGED call
            \/ \E step \in {"read", "settle"} :
                 pc' = [pc EXCEPT ![k] = step] /\ call' = [call EXCEPT ![k] = "cut"]
        BY <1>5 DEF Enter, Goto, HostStep
      <3>2. QED
        BY <3>1 DEF Steps, GuestSteps, Typed, TypeOK
    <2>3. mu' \in [Sandboxes -> Callers \cup {Free}]
      BY <1>5 DEF Enter, Typed, TypeOK
    <2>4. UNCHANGED <<status, inst, globals, op, on, cell, payload, outcome, engineClosed>>
      BY <1>5 DEF Enter
    <2>5. QED
      BY <2>1, <2>2, <2>3, <2>4 DEF Typed, TypeOK
  <1>6. ASSUME NEW s \in Sandboxes, NewSandbox(s) PROVE TypeOK'
    BY <1>6 DEF NewSandbox, callerVars, Typed, TypeOK
  <1>7. ASSUME EngineClose PROVE TypeOK'
    BY <1>7 DEF EngineClose, callerVars, Typed, TypeOK
  <1>8. ASSUME UNCHANGED vars PROVE TypeOK'
    BY <1>8 DEF vars, sandboxVars, callerVars, Typed, TypeOK
  <1>9. QED
    BY <1>2, <1>3, <1>4, <1>5, <1>6, <1>7, <1>8, NextCases DEF InsideAction, DepartsAction

-----------------------------------------------------------------------------
(* The layers that hold for any roots. *)

\* What a caller's place says of its call is kept.
LEMMA PlacedStep ==
  ASSUME Typed, [Next]_vars
  PROVE  Placed'
  <1> USE TokenAssumption DEF Placed, Locked, GuestSteps
  <1>0. /\ pc \in [Callers -> Steps] /\ op \in [Callers -> Ops]
        /\ on \in [Callers -> Sandboxes \cup {NoSandbox}]
        /\ cell \in [Callers -> Results \cup {NoCell}]
        /\ status \in [Sandboxes -> {"absent", "open", "closed"}]
        /\ inst \in [Sandboxes -> {"none", "live", "dead", "closed"}]
        /\ mu \in [Sandboxes -> Callers \cup {Free}]
        /\ Placed
    BY DEF Typed, TypeOK
  <1>1. ASSUME NEW k \in Callers, Inside(k) PROVE Placed'
    <2>1. on[k] \in Sandboxes /\ status[on[k]] # "absent"
      BY <1>0, <1>1 DEF Inside
    <2>2. \A s \in Sandboxes : status[s] = "absent" => inst'[s] = inst[s]
      BY <1>0, <1>1, <2>1 DEF Inside
    <2>3. QED
      BY <1>0, <1>1, <2>1, <2>2 DEF Inside, Steps
  <1>2. ASSUME NEW k \in Callers, Departs(k) PROVE Placed'
    <2>1. on[k] \in Sandboxes /\ status[on[k]] # "absent"
      BY <1>0, <1>2 DEF Departs
    <2>2. /\ \A s \in Sandboxes : status'[s] = "absent" <=> status[s] = "absent"
          /\ \A s \in Sandboxes : s # on[k] => inst'[s] = inst[s]
      BY <1>0, <1>2, <2>1 DEF Departs, CloseLocked
    <2>3. \A s \in Sandboxes : mu[s] = Free => mu'[s] = Free
      BY <1>0, <1>2 DEF Departs, Return
    <2>4. /\ pc'[k] = "idle" /\ on'[k] = NoSandbox /\ cell'[k] = NoCell
          /\ \A j \in Callers : j # k =>
               pc'[j] = pc[j] /\ on'[j] = on[j] /\ cell'[j] = cell[j] /\ op'[j] = op[j]
      BY <1>0, <1>2 DEF Departs, Return, Goto
    <2>5. QED
      BY <1>0, <2>1, <2>2, <2>3, <2>4
  <1>3. ASSUME NEW k \in Callers, Enter(k) PROVE Placed'
    <2>1. /\ pc[k] = "enter" /\ status[on[k]] = "open" /\ op[k] # "close"
          /\ UNCHANGED <<status, inst, on, op, cell>>
          /\ mu' = [mu EXCEPT ![on[k]] = k]
      BY <1>3 DEF Enter
    <2>2. /\ \A j \in Callers : j # k => pc'[j] = pc[j]
          /\ pc'[k] \in {"body", "read", "settle"}
          /\ pc'[k] = "read" => op[k] \in {"run", "pip"}
          /\ pc'[k] = "settle" => op[k] \notin {"run", "pip"}
      BY <1>0, <1>3 DEF Enter, Goto, HostStep
    <2>3. QED
      BY <1>0, <2>1, <2>2 DEF Ops
  <1>4. ASSUME NEW k \in Callers, NEW s \in Sandboxes, NEW o \in Ops,
               NEW c \in Results \cup {NoCell}, Suits(o, c), Start(k, s, o, c)
        PROVE  Placed'
    BY <1>0, <1>4 DEF Start, Suits, Goto, sandboxVars
  <1>5. ASSUME Environment PROVE Placed'
    <2>1. \A s \in Sandboxes : status'[s] = "absent" => status[s] = "absent" /\ inst'[s] = inst[s]
      BY <1>0, <1>5 DEF Environment
    <2>2. \A s \in Sandboxes : status[s] # "absent" => status'[s] # "absent"
      BY <1>0, <1>5 DEF Environment
    <2>3. UNCHANGED <<pc, op, on, cell, mu>>
      BY <1>5 DEF Environment, callerVars
    <2>4. QED
      BY <1>0, <2>1, <2>2, <2>3
  <1>6. QED
    BY <1>1, <1>2, <1>3, <1>4, <1>5, Kinds DEF Begins

\* Mutexes are handed over correctly.
LEMMA HeldStep ==
  ASSUME Typed, Held, [Next]_vars
  PROVE  Held'
  <1> USE TokenAssumption DEF Held, Locked, GuestSteps
  <1>0. /\ pc \in [Callers -> Steps]
        /\ on \in [Callers -> Sandboxes \cup {NoSandbox}]
        /\ status \in [Sandboxes -> {"absent", "open", "closed"}]
        /\ mu \in [Sandboxes -> Callers \cup {Free}]
        /\ \A k \in Callers : pc[k] # "idle" => on[k] \in Sandboxes
    BY DEF Typed, TypeOK, Placed
  <1>1. ASSUME NEW k \in Callers, Inside(k) PROVE Held'
    BY <1>0, <1>1 DEF Inside
  <1>2. ASSUME NEW k \in Callers, Departs(k) PROVE Held'
    <2>1. on[k] \in Sandboxes /\ (mu[on[k]] = k \/ mu[on[k]] = Free)
      BY <1>0, <1>2 DEF Departs
    <2>2. /\ pc'[k] = "idle"
          /\ \A j \in Callers : j # k => pc'[j] = pc[j] /\ on'[j] = on[j]
          /\ \A s \in Sandboxes : mu'[s] = IF mu[s] = k THEN Free ELSE mu[s]
      BY <1>0, <1>2 DEF Departs, Return, Goto
    <2>3. \A s \in Sandboxes : s # on[k] => status'[s] = status[s]
      BY <1>0, <1>2, <2>1 DEF Departs, CloseLocked
    <2>4. ASSUME NEW j \in Callers, j # k, pc[j] \in Locked PROVE on[j] # on[k]
      BY <1>0, <2>1, <2>4
    <2>5. QED
      BY <1>0, <2>1, <2>2, <2>3, <2>4
  <1>3. ASSUME NEW k \in Callers, Enter(k) PROVE Held'
    <2>1. /\ pc[k] = "enter" /\ status[on[k]] = "open" /\ mu[on[k]] = Free
          /\ UNCHANGED <<status, on>>
          /\ mu' = [mu EXCEPT ![on[k]] = k]
      BY <1>3 DEF Enter, CanLock
    <2>2. /\ \A j \in Callers : j # k => pc'[j] = pc[j]
          /\ pc'[k] \in Locked
      BY <1>0, <1>3 DEF Enter, Goto, HostStep
    <2>3. QED
      BY <1>0, <2>1, <2>2
  <1>4. ASSUME NEW k \in Callers, NEW s \in Sandboxes, NEW o \in Ops,
               NEW c \in Results \cup {NoCell}, Start(k, s, o, c)
        PROVE  Held'
    BY <1>0, <1>4 DEF Start, Goto, sandboxVars
  <1>5. ASSUME Environment PROVE Held'
    <2>1. \A s \in Sandboxes : status[s] = "open" => status'[s] = "open"
      BY <1>0, <1>5 DEF Environment
    <2>2. UNCHANGED <<pc, on, mu>>
      BY <1>5 DEF Environment, callerVars
    <2>3. QED
      BY <1>0, <2>1, <2>2
  <1>6. QED
    BY <1>1, <1>2, <1>3, <1>4, <1>5, Kinds DEF Begins

\* No one closes or replaces an instance but the caller that holds its sandbox.
LEMMA AliveStep ==
  ASSUME Typed, Held, Alive, [Next]_vars
  PROVE  Alive'
  <1> USE TokenAssumption DEF Alive, Locked, GuestSteps
  <1>0. /\ pc \in [Callers -> Steps]
        /\ on \in [Callers -> Sandboxes \cup {NoSandbox}]
        /\ inst \in [Sandboxes -> {"none", "live", "dead", "closed"}]
        /\ \A k \in Callers : pc[k] # "idle" => on[k] \in Sandboxes /\ status[on[k]] # "absent"
        /\ \A k \in Callers : pc[k] \in Locked => mu[on[k]] = k
    BY DEF Typed, TypeOK, Placed, Held
  <1>1. ASSUME NEW k \in Callers, Inside(k) PROVE Alive'
    BY <1>0, <1>1 DEF Inside
  <1>2. ASSUME NEW k \in Callers, Departs(k) PROVE Alive'
    <2>1. on[k] \in Sandboxes /\ (mu[on[k]] = k \/ mu[on[k]] = Free)
      BY <1>0, <1>2 DEF Departs
    <2>2. /\ pc'[k] = "idle"
          /\ \A j \in Callers : j # k => pc'[j] = pc[j] /\ on'[j] = on[j]
      BY <1>0, <1>2 DEF Departs, Return, Goto
    <2>3. \A s \in Sandboxes : s # on[k] => inst'[s] = inst[s]
      BY <1>0, <1>2, <2>1 DEF Departs, CloseLocked
    <2>4. ASSUME NEW j \in Callers, j # k, pc[j] \in Locked PROVE on[j] # on[k]
      BY <1>0, <2>1, <2>4
    <2>5. QED
      BY <1>0, <2>1, <2>2, <2>3, <2>4
  <1>3. ASSUME NEW k \in Callers, Enter(k) PROVE Alive'
    <2>1. /\ UNCHANGED <<inst, on>>
          /\ \A j \in Callers : j # k => pc'[j] = pc[j]
          /\ pc'[k] \in GuestSteps => inst[on[k]] = "live"
      BY <1>0, <1>3 DEF Enter, Goto, HostStep
    <2>2. QED
      BY <1>0, <2>1
  <1>4. ASSUME NEW k \in Callers, NEW s \in Sandboxes, NEW o \in Ops,
               NEW c \in Results \cup {NoCell}, Start(k, s, o, c)
        PROVE  Alive'
    BY <1>0, <1>4 DEF Start, Goto, sandboxVars
  <1>5. ASSUME Environment PROVE Alive'
    <2>1. \A s \in Sandboxes : status[s] # "absent" /\ inst[s] \in {"live", "dead"}
                                 => inst'[s] \in {"live", "dead"}
      BY <1>0, <1>5 DEF Environment
    <2>2. UNCHANGED <<pc, on>>
      BY <1>5 DEF Environment, callerVars
    <2>3. QED
      BY <1>0, <2>1, <2>2
  <1>6. QED
    BY <1>1, <1>2, <1>3, <1>4, <1>5, Kinds DEF Begins

-----------------------------------------------------------------------------
(* What holds for any roots. *)

\* The layers that need nothing of the roots.
Guarded == Typed /\ Held /\ Alive

\* Before any sandbox is made, no caller is in a call and no mutex is held.
LEMMA GuardedInit == Init => Guarded
  <1> SUFFICES ASSUME Init PROVE Guarded
    OBVIOUS
  <1>1. TypeOK
    BY DEF Init, TypeOK, Steps, Ops, Contents, Results
  <1>2. /\ \A k \in Callers : pc[k] = "idle" /\ on[k] = NoSandbox /\ cell[k] = NoCell
        /\ \A s \in Sandboxes : inst[s] = "none" /\ mu[s] = Free
    BY DEF Init
  <1>3. Placed /\ Held /\ Alive
    BY <1>2 DEF Placed, Held, Alive, Locked, GuestSteps
  <1>4. QED
    BY <1>1, <1>3 DEF Guarded, Typed

\* The layers together are inductive.
LEMMA GuardedStep == Guarded /\ [Next]_vars => Guarded'
  <1> SUFFICES ASSUME Guarded, [Next]_vars PROVE Guarded'
    OBVIOUS
  <1>1. Typed /\ Held /\ Alive
    BY DEF Guarded
  <1>2. TypeOK' /\ Placed' /\ Held' /\ Alive'
    BY <1>1, TypeStep, PlacedStep, HeldStep, AliveStep
  <1>3. QED
    BY <1>2 DEF Guarded, Typed

\* And so they hold in every reachable state.
LEMMA GuardedAlways == Spec => []Guarded
  BY GuardedInit, GuardedStep, PTL DEF Spec

\* Every reachable state of the sandboxes, of the callers and of the mirrors is
\* well typed, for any number of them and any assignment of roots.
THEOREM SandboxTypeCorrect == Spec => []TypeOK
  <1>1. Guarded => TypeOK
    BY DEF Guarded, Typed
  <1>2. QED
    BY <1>1, GuardedAlways, PTL

\* Sandbox.mu does its work: the instance in which the guest works for one caller
\* is not closed, retired or replaced by another, whatever the roots are.
THEOREM GuestExclusive == Spec => []Exclusive
  <1>1. Guarded => Exclusive
    BY DEF Guarded, Held, Alive, Exclusive, Locked
  <1>2. QED
    BY <1>1, GuardedAlways, PTL

\* No globals shrink but those of the sandbox of the caller that takes the step,
\* when its method is Reset or PipInstall or the sandbox is closed.
LEMMA EffectsStep ==
  ASSUME Guarded, [Next]_vars, NEW s \in Sandboxes, ~(globals[s] \subseteq globals'[s])
  PROVE  status'[s] = "closed" \/ \E k \in Callers : mu[s] = k /\ op[k] \in {"reset", "pip"}
  <1> DEFINE Loses(k) == status'[s] = "closed" \/ (mu[s] = k /\ op[k] \in {"reset", "pip"})
  <1>0. /\ globals \in [Sandboxes -> SUBSET Cells]
        /\ status \in [Sandboxes -> {"absent", "open", "closed"}]
        /\ \A k \in Callers : pc[k] \in Locked => mu[on[k]] = k
        /\ globals' # globals
    BY DEF Guarded, Typed, TypeOK, Held
  <1>1. ASSUME NEW k \in Callers, GuestBody(k) PROVE Loses(k)
    <2>1. pc[k] \in Locked
      BY <1>1 DEF GuestBody, Locked, GuestSteps
    <2>2. s = on[k]
      BY <1>0, <1>1 DEF GuestBody
    <2>3. op[k] = "run" => globals'[s] = globals[s] \cup {cell[k]}
      BY <1>0, <1>1, <2>2 DEF GuestBody
    <2>4. op[k] \notin {"run", "reset"} => globals'[s] = globals[s]
      BY <1>0, <1>1, <2>2 DEF GuestBody
    <2>5. QED
      BY <1>0, <2>1, <2>2, <2>3, <2>4
  <1>2. ASSUME NEW k \in Callers, CloseLocked(on[k]) PROVE status'[s] = "closed"
    BY <1>0, <1>2 DEF CloseLocked
  <1>3. ASSUME NEW k \in Callers, PipRestarts(k) PROVE Loses(k)
    BY <1>0, <1>3 DEF PipRestarts, Locked
  <1>4. ASSUME NEW k \in Callers, InsideAction(k) PROVE Loses(k)
    BY <1>0, <1>1, <1>4 DEF InsideAction, GuestOpen, GuestTear, GuestWrite, GuestReturns,
       GuestRaises, GuestCut, ReadMirror, sandboxVars
  <1>5. ASSUME NEW k \in Callers, DepartsAction(k) PROVE Loses(k)
    BY <1>0, <1>2, <1>3, <1>5 DEF DepartsAction, EnterClosed, EnterClose, EnterRefused,
       RunAnswers, RunUndecodable, RunRetires, WheelSettles, ResetSettles, PipRetires, PipRefuses
  <1>6. /\ \A k \in Callers : ~Enter(k)
        /\ \A k \in Callers, t \in Sandboxes, o \in Ops, c \in Results \cup {NoCell} :
             ~Start(k, t, o, c)
        /\ \A t \in Sandboxes : ~NewSandbox(t)
        /\ ~EngineClose /\ ~UNCHANGED vars
    BY <1>0 DEF Enter, Start, NewSandbox, EngineClose, vars, sandboxVars
  <1>7. QED
    BY <1>4, <1>5, <1>6, NextCases DEF InsideAction, DepartsAction

\* Variables and imports outlive the call that made them, unless Reset or
\* PipInstall holds the sandbox or the sandbox is closed.
THEOREM EffectsSurvive == Spec => EffectsKept
  <1>1. Guarded /\ [Next]_vars =>
          [\A s \in Sandboxes : ~(globals[s] \subseteq globals'[s]) =>
             \/ status'[s] = "closed"
             \/ \E k \in Callers : mu[s] = k /\ op[k] \in {"reset", "pip"}]_vars
    BY EffectsStep
  <1>2. QED
    BY <1>1, GuardedAlways, PTL DEF Spec, EffectsKept

-----------------------------------------------------------------------------
(* What holds when every sandbox has a root of its own. *)

\* Caller k is past Enter, or can enter.
Works(k) == pc[k] \in Locked \/ (pc[k] = "enter" /\ mu[on[k]] = Free)

\* A step of caller k leaves other callers, sandboxes and mirrors alone.
Aside(k) ==
  /\ \A j \in Callers : j # k =>
       /\ pc'[j] = pc[j] /\ on'[j] = on[j] /\ op'[j] = op[j] /\ cell'[j] = cell[j]
       /\ payload'[j] = payload[j] /\ call'[j] = call[j]
  /\ \A s \in Sandboxes : s # on[k] =>
       status'[s] = status[s] /\ mu'[s] = mu[s] /\ globals'[s] = globals[s]
  /\ \A f \in Roots \X {"run", "pip"} : f # File(k) => mirror'[f] = mirror[f]

\* The steps of a caller in its call touch its own sandbox and mirror.
LEMMA AsideStep ==
  ASSUME Guarded, NEW k \in Callers, InsideAction(k) \/ DepartsAction(k) \/ Enter(k)
  PROVE  Aside(k) /\ Works(k) /\ on[k] \in Sandboxes
  <1> USE DEF Locked, GuestSteps
  <1>0. /\ pc \in [Callers -> Steps] /\ op \in [Callers -> Ops]
        /\ on \in [Callers -> Sandboxes \cup {NoSandbox}]
        /\ cell \in [Callers -> Results \cup {NoCell}]
        /\ status \in [Sandboxes -> {"absent", "open", "closed"}]
        /\ mu \in [Sandboxes -> Callers \cup {Free}]
        /\ globals \in [Sandboxes -> SUBSET Cells]
        /\ mirror \in [Roots \X {"run", "pip"} -> Contents]
        /\ call \in [Callers -> {"ok", "raised", "cut"}]
        /\ payload \in [Callers -> Contents]
        /\ \A s \in Sandboxes : mu[s] # Free => on[mu[s]] = s
    BY DEF Guarded, Typed, TypeOK, Held
  <1>1. Works(k)
    BY DEF InsideAction, GuestBody, GuestOpen, GuestTear, GuestWrite, GuestReturns, GuestRaises,
       GuestCut, ReadMirror, DepartsAction, EnterClosed, EnterClose, EnterRefused, RunAnswers,
       RunUndecodable, RunRetires, WheelSettles, ResetSettles, PipRetires, PipRefuses,
       PipRestarts, Enter, CanLock, Works
  <1>2. on[k] \in Sandboxes
    BY <1>1 DEF Works, Guarded, Typed, Placed
  <1>3. CASE InsideAction(k)
    <2> USE <1>3 DEF InsideAction, GuestBody, GuestOpen, GuestTear, GuestWrite, GuestReturns,
            GuestRaises, GuestCut, ReadMirror, guestFrame, sandboxVars, Goto
    <2>1. UNCHANGED <<on, op, cell, mu, status>>
      OBVIOUS
    <2>2. UNCHANGED pc \/ \E x : pc' = [pc EXCEPT ![k] = x]
      OBVIOUS
    <2>3. UNCHANGED call \/ \E x : call' = [call EXCEPT ![k] = x]
      OBVIOUS
    <2>4. UNCHANGED payload \/ \E x : payload' = [payload EXCEPT ![k] = x]
      OBVIOUS
    <2>5. UNCHANGED globals \/ \E x : globals' = [globals EXCEPT ![on[k]] = x]
      OBVIOUS
    <2>6. UNCHANGED mirror \/ \E x : mirror' = [mirror EXCEPT ![File(k)] = x]
      OBVIOUS
    <2>7. \A j \in Callers : j # k =>
            pc'[j] = pc[j] /\ call'[j] = call[j] /\ payload'[j] = payload[j]
      BY ONLY <1>0, <2>2, <2>3, <2>4
    <2>8. \A s \in Sandboxes : s # on[k] => globals'[s] = globals[s]
      BY ONLY <1>0, <2>5
    <2>9. \A f \in Roots \X {"run", "pip"} : f # File(k) => mirror'[f] = mirror[f]
      BY ONLY <1>0, <2>6
    <2>10. QED
      BY ONLY <1>1, <1>2, <2>1, <2>7, <2>8, <2>9 DEF Aside
  <1>4. CASE Enter(k)
    <2>1. /\ UNCHANGED <<on, op, cell, status, globals, payload>>
          /\ mu' = [mu EXCEPT ![on[k]] = k]
          /\ \E x : pc' = [pc EXCEPT ![k] = x]
          /\ UNCHANGED call \/ \E x : call' = [call EXCEPT ![k] = x]
          /\ UNCHANGED mirror \/ \E x : mirror' = [mirror EXCEPT ![File(k)] = x]
      BY <1>4 DEF Enter, Goto, RemoveMirror
    <2>2. \A j \in Callers : j # k => pc'[j] = pc[j] /\ call'[j] = call[j]
      BY <1>0, <2>1
    <2>3. \A f \in Roots \X {"run", "pip"} : f # File(k) => mirror'[f] = mirror[f]
      BY <1>0, <2>1
    <2>4. \A s \in Sandboxes : s # on[k] => mu'[s] = mu[s]
      BY <1>0, <2>1
    <2>5. QED
      BY <1>1, <1>2, <2>1, <2>2, <2>3, <2>4 DEF Aside
  <1>5. CASE DepartsAction(k)
    <2>1. /\ Return(k)
          /\ \/ UNCHANGED <<status, globals>> \/ CloseLocked(on[k])
             \/ UNCHANGED status /\ globals' = [globals EXCEPT ![on[k]] = {}]
          /\ UNCHANGED mirror \/ Consume(k) \/ RemoveMirror(File(k))
      BY <1>5 DEF DepartsAction, EnterClosed, EnterClose, EnterRefused, RunAnswers,
         RunUndecodable, RunRetires, WheelSettles, ResetSettles, PipRetires, PipRefuses,
         PipRestarts
    <2>2. \A j \in Callers : j # k =>
            /\ pc'[j] = pc[j] /\ on'[j] = on[j] /\ op'[j] = op[j] /\ cell'[j] = cell[j]
            /\ payload'[j] = payload[j] /\ call'[j] = call[j]
      BY <1>0, <2>1 DEF Return, Goto
    <2>3. \A s \in Sandboxes : s # on[k] => mu'[s] = mu[s]
      BY <1>0, <2>1, TokenAssumption DEF Return
    <2>4. \A s \in Sandboxes : s # on[k] => status'[s] = status[s] /\ globals'[s] = globals[s]
      BY <1>0, <2>1 DEF CloseLocked
    <2>5. \A f \in Roots \X {"run", "pip"} : f # File(k) => mirror'[f] = mirror[f]
      BY <1>0, <2>1 DEF Consume, RemoveMirror
    <2>6. QED
      BY <1>1, <1>2, <2>2, <2>3, <2>4, <2>5 DEF Aside
  <1>6. QED
    BY <1>1, <1>2, <1>3, <1>4, <1>5

\* With a root of its own no sandbox has the mirror that another's caller uses.
LEMMA FilesApart ==
  ASSUME RootsPrivate, Guarded, NEW k \in Callers, on[k] \in Sandboxes, NEW s \in Sandboxes,
         s # on[k], NEW kind \in {"run", "pip"}
  PROVE  /\ <<RootOf[s], kind>> \in Roots \X {"run", "pip"}
         /\ <<RootOf[s], kind>> # File(k)
  BY RootAssumption DEF RootsPrivate, File

\* While one caller works, what another knows of its mirror stays so.
LEMMA OthersMirror ==
  ASSUME RootsPrivate, Guarded, Mirrored, NEW k \in Callers, Aside(k), Works(k),
         on[k] \in Sandboxes
  PROVE  /\ \A j \in Callers : j # k /\ pc'[j] \in Locked => MirrorOf(j)'
         /\ \A s \in Sandboxes : s # on[k] /\ status'[s] # "closed" /\ mu'[s] = Free =>
              \A kind \in {"run", "pip"} : mirror'[<<RootOf[s], kind>>] = NoFile
  <1>1. ASSUME NEW j \in Callers, j # k, pc'[j] \in Locked PROVE MirrorOf(j)'
    <2>1. /\ pc[j] \in Locked /\ on'[j] = on[j] /\ op'[j] = op[j] /\ pc'[j] = pc[j]
          /\ cell'[j] = cell[j] /\ payload'[j] = payload[j]
      BY <1>1 DEF Aside
    <2>2. mu[on[j]] = j /\ on[j] \in Sandboxes
      BY <2>1 DEF Guarded, Held, Typed, Placed, Locked, GuestSteps
    <2>3. on[j] # on[k]
      BY <1>1, <2>1, <2>2, TokenAssumption DEF Works, Guarded, Held
    <2>4. /\ mirror'[File(j)] = mirror[File(j)]
          /\ mirror'[OtherFile(j)] = mirror[OtherFile(j)]
      <3>1. ASSUME NEW kind \in {"run", "pip"}
            PROVE  mirror'[<<RootOf[on[j]], kind>>] = mirror[<<RootOf[on[j]], kind>>]
        BY <2>2, <2>3, FilesApart DEF Aside
      <3>2. QED
        BY <3>1 DEF File, OtherFile
    <2>5. File(j)' = File(j) /\ OtherFile(j)' = OtherFile(j)
      BY <2>1 DEF File, OtherFile
    <2>6. mirror'[File(j)'] = mirror[File(j)] /\ mirror'[OtherFile(j)'] = mirror[OtherFile(j)]
      BY <2>4, <2>5
    <2>7. MirrorOf(j)
      BY <2>1 DEF Mirrored
    <2>8. mirror'[OtherFile(j)'] = mirror[OtherFile(j)]
      BY <2>4, <2>5
    <2>9. /\ mirror'[OtherFile(j)'] = NoFile
          /\ op'[j] = "reset" => mirror'[File(j)'] = NoFile
          /\ pc'[j] \in {"body", "open"} => mirror'[File(j)'] = NoFile
      BY <2>1, <2>6, <2>7, <2>8 DEF MirrorOf
    <2>10. /\ pc'[j] = "write" => mirror'[File(j)'] \in {Empty, Torn}
           /\ pc'[j] = "return" /\ op'[j] # "reset" => mirror'[File(j)'] = cell'[j]
      BY <2>1, <2>6, <2>7 DEF MirrorOf
    <2>11. /\ mirror'[File(j)'] \in {NoFile, Empty, Torn, cell'[j]}
           /\ pc'[j] = "decide" => payload'[j] = mirror'[File(j)']
      BY <2>1, <2>6, <2>7 DEF MirrorOf
    <2>12. QED
      BY <2>9, <2>10, <2>11 DEF MirrorOf
  <1>2. ASSUME NEW s \in Sandboxes, s # on[k], status'[s] # "closed", mu'[s] = Free,
               NEW kind \in {"run", "pip"}
        PROVE  mirror'[<<RootOf[s], kind>>] = NoFile
    <2>1. status[s] # "closed" /\ mu[s] = Free
      BY <1>2 DEF Aside
    <2>2. mirror[<<RootOf[s], kind>>] = NoFile
      BY <2>1 DEF Mirrored
    <2>3. <<RootOf[s], kind>> \in Roots \X {"run", "pip"} /\ <<RootOf[s], kind>> # File(k)
      BY <1>2, FilesApart
    <2>4. QED
      BY <2>2, <2>3 DEF Aside
  <1>3. QED
    BY <1>1, <1>2

\* No other call holds the mutex of the sandbox in which caller k works, and the
\* mirror of the call of k is where only this call puts anything.
LEMMA MirrorFacts ==
  ASSUME Guarded, Mirrored, NEW k \in Callers, pc[k] \in Locked
  PROVE  /\ MirrorOf(k) /\ mu[on[k]] = k /\ on[k] \in Sandboxes
         /\ File(k) \in Roots \X {"run", "pip"}
         /\ mirror \in [Roots \X {"run", "pip"} -> Contents]
         /\ pc \in [Callers -> Steps] /\ payload \in [Callers -> Contents]
         /\ File(k) # OtherFile(k)
         /\ <<RootOf[on[k]], "run">> \in {File(k), OtherFile(k)}
         /\ <<RootOf[on[k]], "pip">> \in {File(k), OtherFile(k)}
  <1>1. /\ MirrorOf(k) /\ mu[on[k]] = k
        /\ mirror \in [Roots \X {"run", "pip"} -> Contents]
        /\ pc \in [Callers -> Steps] /\ payload \in [Callers -> Contents]
    BY DEF Mirrored, Guarded, Held, Typed, TypeOK
  <1>2. on[k] \in Sandboxes
    BY DEF Guarded, Typed, Placed, Locked, GuestSteps
  <1>3. RootOf[on[k]] \in Roots
    BY <1>2, RootAssumption
  <1>4. QED
    BY <1>1, <1>2, <1>3 DEF File, OtherFile

\* A step inside a call keeps what is known of its mirror.
LEMMA MirrorInside ==
  ASSUME RootsPrivate, Guarded, Mirrored, NEW k \in Callers, InsideAction(k)
  PROVE  MirrorOf(k)' /\ mu'[on[k]] = k
  <1>1. pc[k] \in Locked
    BY DEF InsideAction, GuestBody, GuestOpen, GuestTear, GuestWrite, GuestReturns, GuestRaises,
       GuestCut, ReadMirror, Locked, GuestSteps
  <1>2. /\ UNCHANGED <<on, op, cell, mu>>
        /\ mirror'[OtherFile(k)] = mirror[OtherFile(k)]
    BY <1>1, MirrorFacts DEF InsideAction, GuestBody, GuestOpen, GuestTear, GuestWrite,
       GuestReturns, GuestRaises, GuestCut, ReadMirror, guestFrame, sandboxVars
  <1>3. File(k)' = File(k) /\ OtherFile(k)' = OtherFile(k)
    BY <1>2 DEF File, OtherFile
  <1>4. /\ MirrorOf(k) /\ mu[on[k]] = k
        /\ File(k) \in Roots \X {"run", "pip"}
        /\ mirror \in [Roots \X {"run", "pip"} -> Contents]
        /\ pc \in [Callers -> Steps] /\ payload \in [Callers -> Contents]
    BY <1>1, MirrorFacts
  <1>5. /\ pc[k] \in {"open", "write"} => op[k] # "reset"
        /\ op[k] # "reset" => HostStep(k) \in {"read", "settle"}
        /\ HostStep(k) \in {"read", "settle"}
    BY DEF Guarded, Typed, Placed, HostStep
  <1> DEFINE m == mirror[File(k)]
             n == mirror'[File(k)]
  \* The conjuncts of MirrorOf, for the next state.
  <1>6. ASSUME /\ op[k] = "reset" => n = NoFile
               /\ pc'[k] \in {"body", "open"} => n = NoFile
               /\ pc'[k] = "write" => n \in {Empty, Torn}
               /\ pc'[k] = "return" /\ op[k] # "reset" => n = cell[k]
               /\ n \in {NoFile, Empty, Torn, cell[k]}
               /\ pc'[k] = "decide" => payload'[k] = n
        PROVE  MirrorOf(k)'
    <2>1. mirror'[File(k)'] = n /\ mirror'[OtherFile(k)'] = NoFile
      BY <1>2, <1>3, <1>4 DEF MirrorOf
    <2>2. cell'[k] = cell[k] /\ op'[k] = op[k]
      BY <1>2
    <2>3. QED
      BY <1>6, <2>1, <2>2 DEF MirrorOf
  <1>7. CASE GuestBody(k)
    <2>1. n = m /\ pc[k] = "body" /\ pc'[k] = IF op[k] = "reset" THEN "return" ELSE "open"
      BY <1>4, <1>7 DEF GuestBody, Goto
    <2>2. QED
      BY <1>2, <1>4, <1>6, <2>1 DEF MirrorOf
  <1>8. CASE GuestOpen(k)
    <2>1. n = Empty /\ pc[k] = "open" /\ pc'[k] = "write"
      BY <1>4, <1>8 DEF GuestOpen, Goto
    <2>2. QED
      BY <1>2, <1>4, <1>5, <1>6, <2>1 DEF MirrorOf
  <1>9. CASE GuestTear(k)
    <2>1. n = Torn /\ pc[k] = "write" /\ pc'[k] = "write"
      BY <1>4, <1>9 DEF GuestTear
    <2>2. QED
      BY <1>2, <1>4, <1>5, <1>6, <2>1 DEF MirrorOf
  <1>10. CASE GuestWrite(k)
    <2>1. n = cell[k] /\ pc[k] = "write" /\ pc'[k] = "return"
      BY <1>4, <1>10 DEF GuestWrite, Goto
    <2>2. QED
      BY <1>2, <1>4, <1>5, <1>6, <2>1 DEF MirrorOf
  <1>11. CASE GuestReturns(k) \/ GuestRaises(k) \/ GuestCut(k)
    <2>1. n = m /\ pc'[k] = HostStep(k)
      BY <1>4, <1>11 DEF GuestReturns, GuestRaises, GuestCut, Goto
    <2>2. QED
      BY <1>2, <1>4, <1>5, <1>6, <2>1 DEF MirrorOf
  <1>12. CASE ReadMirror(k)
    <2>1. n = m /\ pc'[k] = "decide" /\ payload'[k] = m
      BY <1>4, <1>12 DEF ReadMirror, Goto
    <2>2. QED
      BY <1>2, <1>4, <1>6, <2>1 DEF MirrorOf
  <1>13. QED
    BY <1>2, <1>4, <1>7, <1>8, <1>9, <1>10, <1>11, <1>12 DEF InsideAction

\* A method that returns leaves its sandbox without a mirror, or closed.
LEMMA MirrorDeparts ==
  ASSUME RootsPrivate, Guarded, Mirrored, NEW k \in Callers, DepartsAction(k),
         status'[on[k]] # "closed", NEW kind \in {"run", "pip"}
  PROVE  mirror'[<<RootOf[on[k]], kind>>] = NoFile
  <1>1. status \in [Sandboxes -> {"absent", "open", "closed"}]
    BY DEF Guarded, Typed, TypeOK
  <1>2. on[k] \in Sandboxes
    BY AsideStep
  <1>3. CASE pc[k] = "enter"
    <2>1. ~CloseLocked(on[k]) /\ status[on[k]] = "open"
      BY <1>1, <1>2, <1>3 DEF DepartsAction, EnterClosed, EnterClose, EnterRefused, RunAnswers,
         RunUndecodable, RunRetires, WheelSettles, ResetSettles, PipRetires, PipRefuses,
         PipRestarts, CloseLocked
    <2>2. UNCHANGED mirror /\ mu[on[k]] = Free
      BY <1>3, <2>1 DEF DepartsAction, EnterClosed, EnterClose, EnterRefused, RunAnswers,
         RunUndecodable, RunRetires, WheelSettles, ResetSettles, PipRetires, PipRefuses,
         PipRestarts, CanLock
    <2>3. QED
      BY <1>2, <2>1, <2>2 DEF Mirrored
  <1>4. CASE pc[k] # "enter"
    <2>1. pc[k] \in Locked
      BY <1>4 DEF DepartsAction, EnterClosed, EnterClose, EnterRefused, RunAnswers,
         RunUndecodable, RunRetires, WheelSettles, ResetSettles, PipRetires, PipRefuses,
         PipRestarts, Locked
    <2>2. \/ pc[k] = "decide" /\ Consume(k)
          \/ RemoveMirror(File(k))
          \/ op[k] = "reset" /\ UNCHANGED mirror
      BY <1>4 DEF DepartsAction, EnterClosed, EnterClose, EnterRefused, RunAnswers,
         RunUndecodable, RunRetires, WheelSettles, ResetSettles, PipRetires, PipRefuses,
         PipRestarts
    <2>3. mirror'[File(k)] = NoFile
      BY <2>1, <2>2, MirrorFacts DEF Consume, RemoveMirror, MirrorOf
    <2>4. mirror'[OtherFile(k)] = NoFile
      BY <2>1, <2>2, MirrorFacts DEF Consume, RemoveMirror, MirrorOf
    <2>5. QED
      BY <2>1, <2>3, <2>4, MirrorFacts
  <1>5. QED
    BY <1>3, <1>4

\* A call starts with both mirrors of its sandbox gone.
LEMMA MirrorEnters ==
  ASSUME RootsPrivate, Guarded, Mirrored, NEW k \in Callers, Enter(k)
  PROVE  MirrorOf(k)' /\ mu'[on[k]] = k
  <1>1. on[k] \in Sandboxes /\ RootOf[on[k]] \in Roots
    BY AsideStep, RootAssumption
  <1>2. /\ mirror \in [Roots \X {"run", "pip"} -> Contents]
        /\ mu \in [Sandboxes -> Callers \cup {Free}] /\ pc \in [Callers -> Steps]
    BY DEF Guarded, Typed, TypeOK
  <1>3. status[on[k]] = "open" /\ mu[on[k]] = Free
    BY DEF Enter, CanLock
  <1>4. \A kind \in {"run", "pip"} : mirror[<<RootOf[on[k]], kind>>] = NoFile
    BY <1>1, <1>3 DEF Mirrored
  <1>5. mirror[File(k)] = NoFile /\ mirror[OtherFile(k)] = NoFile
    BY <1>4 DEF File, OtherFile
  <1>6. UNCHANGED mirror \/ RemoveMirror(File(k))
    BY DEF Enter
  <1>7. mirror'[File(k)] = NoFile /\ mirror'[OtherFile(k)] = NoFile
    BY <1>1, <1>2, <1>5, <1>6 DEF RemoveMirror, File, OtherFile
  <1>8. UNCHANGED <<on, op, cell>> /\ pc'[k] \notin {"write", "return", "decide"}
    BY <1>2 DEF Enter, Goto, HostStep
  <1>9. File(k)' = File(k) /\ OtherFile(k)' = OtherFile(k)
    BY <1>8 DEF File, OtherFile
  <1>10. mirror'[File(k)'] = NoFile /\ mirror'[OtherFile(k)'] = NoFile
    BY <1>7, <1>9
  <1>11. MirrorOf(k)'
    BY <1>8, <1>10 DEF MirrorOf
  <1>12. QED
    BY <1>1, <1>2, <1>11 DEF Enter

\* What mirrors hold, in use and not, is kept by every step.
LEMMA MirroredStep ==
  ASSUME RootsPrivate, Guarded, Mirrored, [Next]_vars
  PROVE  Mirrored'
  <1>0. /\ pc \in [Callers -> Steps] /\ op \in [Callers -> Ops]
        /\ on \in [Callers -> Sandboxes \cup {NoSandbox}]
        /\ cell \in [Callers -> Results \cup {NoCell}]
        /\ status \in [Sandboxes -> {"absent", "open", "closed"}]
    BY DEF Guarded, Typed, TypeOK
  <1>1. ASSUME NEW k \in Callers, InsideAction(k) \/ Enter(k) PROVE Mirrored'
    <2>1. /\ \A j \in Callers : j # k /\ pc'[j] \in Locked => MirrorOf(j)'
          /\ \A s \in Sandboxes : s # on[k] /\ status'[s] # "closed" /\ mu'[s] = Free =>
               \A kind \in {"run", "pip"} : mirror'[<<RootOf[s], kind>>] = NoFile
      BY <1>1, AsideStep, OthersMirror
    <2>2. MirrorOf(k)' /\ mu'[on[k]] # Free
      BY <1>1, MirrorInside, MirrorEnters, TokenAssumption
    <2>3. QED
      BY <2>1, <2>2 DEF Mirrored, Locked, GuestSteps
  <1>2. ASSUME NEW k \in Callers, DepartsAction(k) PROVE Mirrored'
    <2>1. /\ \A j \in Callers : j # k /\ pc'[j] \in Locked => MirrorOf(j)'
          /\ \A s \in Sandboxes : s # on[k] /\ status'[s] # "closed" /\ mu'[s] = Free =>
               \A kind \in {"run", "pip"} : mirror'[<<RootOf[s], kind>>] = NoFile
      BY <1>2, AsideStep, OthersMirror
    <2>2. pc'[k] \notin Locked
      BY <1>0, <1>2, DepartsKind DEF Departs, Return, Goto, Locked, GuestSteps
    <2>3. status'[on[k]] # "closed" =>
            \A kind \in {"run", "pip"} : mirror'[<<RootOf[on[k]], kind>>] = NoFile
      BY <1>2, MirrorDeparts
    <2>4. QED
      BY <2>1, <2>2, <2>3 DEF Mirrored, Locked, GuestSteps
  \* The other steps are of callers that are in no call, or of the Engine.
  <1>3. ASSUME UNCHANGED <<mirror, mu>>,
               \A s \in Sandboxes : status'[s] # "closed" => status[s] # "closed",
               \A k \in Callers : pc'[k] \in Locked =>
                 /\ pc[k] \in Locked /\ pc'[k] = pc[k] /\ on'[k] = on[k] /\ op'[k] = op[k]
                 /\ cell'[k] = cell[k] /\ payload'[k] = payload[k]
        PROVE  Mirrored'
    <2>1. ASSUME NEW k \in Callers, pc'[k] \in Locked PROVE MirrorOf(k)'
      <3>1. /\ MirrorOf(k) /\ pc'[k] = pc[k] /\ op'[k] = op[k] /\ on'[k] = on[k]
            /\ cell'[k] = cell[k] /\ payload'[k] = payload[k]
        BY <1>3, <2>1 DEF Mirrored
      <3>2. File(k)' = File(k) /\ OtherFile(k)' = OtherFile(k)
        BY <3>1 DEF File, OtherFile
      <3>3. mirror'[File(k)'] = mirror[File(k)] /\ mirror'[OtherFile(k)'] = mirror[OtherFile(k)]
        BY <1>3, <3>2
      <3>4. QED
        BY <3>1, <3>3 DEF MirrorOf
    <2>2. QED
      BY <1>3, <2>1 DEF Mirrored, Locked, GuestSteps
  <1>4. ASSUME NEW k \in Callers, NEW s \in Sandboxes, NEW o \in Ops,
               NEW c \in Results \cup {NoCell}, Start(k, s, o, c)
        PROVE  Mirrored'
    <2>1. /\ \A j \in Callers : j # k =>
               pc'[j] = pc[j] /\ on'[j] = on[j] /\ op'[j] = op[j] /\ cell'[j] = cell[j]
          /\ pc'[k] \notin Locked /\ UNCHANGED <<payload, mirror, mu, status>>
      BY <1>0, <1>4 DEF Start, Goto, sandboxVars, Locked, GuestSteps
    <2>2. QED
      BY <1>3, <2>1
  <1>5. ASSUME Environment PROVE Mirrored'
    <2>1. /\ UNCHANGED <<pc, on, op, cell, payload, mirror, mu>>
          /\ \A s \in Sandboxes : status'[s] # "closed" => status[s] # "closed"
      BY <1>0, <1>5 DEF Environment, callerVars
    <2>2. QED
      BY <1>3, <2>1
  <1>6. ASSUME NEW s \in Sandboxes, NewSandbox(s) PROVE Environment
    BY <1>6 DEF NewSandbox, Environment
  <1>7. EngineClose => Environment
    BY DEF EngineClose, Environment
  <1>8. UNCHANGED vars => Environment
    BY DEF vars, sandboxVars, Environment
  <1>9. QED
    BY <1>1, <1>2, <1>4, <1>5, <1>6, <1>7, <1>8, NextCases DEF InsideAction, DepartsAction

\* All layers.
Private == Guarded /\ Mirrored

\* With roots of their own, what is known of the mirrors holds as well.
LEMMA PrivateAlways == ASSUME RootsPrivate PROVE Spec => []Private
  <1>1. ASSUME Init PROVE Private
    <2>1. RootOf \in [Sandboxes -> Roots]
      BY RootAssumption
    <2>2. Mirrored
      BY <1>1, <2>1 DEF Init, Mirrored, Locked, GuestSteps
    <2>3. QED
      BY <1>1, <2>2, GuardedInit DEF Private
  <1>2. ASSUME Private, [Next]_vars PROVE Private'
    BY <1>2, GuardedStep, MirroredStep DEF Private
  <1>3. QED
    BY <1>1, <1>2, PTL DEF Spec

\* Between two calls an open sandbox with a root of its own has no mirror, so no
\* later call can read an earlier one's result.
THEOREM MirrorsConsumed == ASSUME RootsPrivate PROVE Spec => []MirrorConsumed
  <1>1. Private => MirrorConsumed
    BY DEF Private, Mirrored, MirrorConsumed
  <1>2. QED
    BY <1>1, PrivateAlways, PTL

\* The result a step gives for a cell is that of the cell whose call it ends.
LEMMA AnswerStep ==
  ASSUME RootsPrivate, Private, OwnAnswer, [Next]_vars
  PROVE  OwnAnswer'
  <1>0. outcome \in [Cells -> Results \cup {"pending", "ErrClosed", "failed", "undecoded"}]
    BY DEF Private, Guarded, Typed, TypeOK
  <1>1. CASE UNCHANGED outcome
    BY <1>1 DEF OwnAnswer
  <1>2. ASSUME NEW k \in Callers,
               NEW result \in {"ErrClosed", "failed", "undecoded"} \cup {cell[k]},
               Answer(k, result)
        PROVE  OwnAnswer'
    <2>1. result \in Results => result = cell[k]
      BY TokenAssumption DEF Results
    <2>2. QED
      BY <1>0, <1>2, <2>1 DEF Answer, OwnAnswer
  <1>3. ASSUME NEW k \in Callers, pc[k] = "decide", payload[k] \in Results
        PROVE  payload[k] = cell[k]
    <2>1. pc[k] \in Locked
      BY <1>3 DEF Locked
    <2>2. MirrorOf(k)
      BY <2>1 DEF Private, Mirrored
    <2>3. QED
      BY <1>3, <2>2, TokenAssumption DEF MirrorOf, Results
  <1>4. ASSUME NEW k \in Callers, DepartsAction(k) PROVE OwnAnswer'
    <2>1. \/ UNCHANGED outcome
          \/ Answer(k, "ErrClosed") \/ Answer(k, "failed") \/ Answer(k, "undecoded")
          \/ pc[k] = "decide" /\ payload[k] \in Results /\ Answer(k, payload[k])
          \/ Answer(k, cell[k])
      BY <1>4 DEF DepartsAction, EnterClosed, EnterClose, EnterRefused, RunAnswers,
         RunUndecodable, RunRetires, WheelSettles, ResetSettles, PipRetires, PipRefuses,
         PipRestarts
    <2>2. QED
      BY <1>1, <1>2, <1>3, <2>1
  <1>5. ASSUME NEW k \in Callers, Inside(k) \/ Enter(k) \/ Begins(k) PROVE UNCHANGED outcome
    BY <1>5 DEF Inside, Enter, Begins, Start
  <1>6. ASSUME NEW k \in Callers, InsideAction(k) PROVE Inside(k)
    BY <1>6, InsideKind DEF Private, Guarded
  <1>7. QED
    BY <1>1, <1>4, <1>5, <1>6, NextCases DEF InsideAction, DepartsAction, Begins, NewSandbox,
       EngineClose, vars

\* With roots of their own, sandboxes answer every cell with that cell's result.
THEOREM AnswersOwn == ASSUME RootsPrivate PROVE Spec => []OwnAnswer
  <1>1. Init => OwnAnswer
    BY TokenAssumption DEF Init, OwnAnswer, Results
  <1>2. ASSUME Private, OwnAnswer, [Next]_vars PROVE OwnAnswer'
    BY <1>2, AnswerStep
  <1>3. QED
    BY <1>1, <1>2, PrivateAlways, PTL DEF Spec

-----------------------------------------------------------------------------
(* A cell is answered after it ran. *)

\* Each cell is in one call, until that call answers it.
LEMMA CellsApartStep ==
  ASSUME Guarded, CellsApart, [Next]_vars
  PROVE  CellsApart'
  <1>0. /\ pc \in [Callers -> Steps] /\ cell \in [Callers -> Results \cup {NoCell}]
        /\ outcome \in [Cells -> Results \cup {"pending", "ErrClosed", "failed", "undecoded"}]
    BY DEF Guarded, Typed, TypeOK
  <1>1. ASSUME UNCHANGED <<cell, outcome>> PROVE CellsApart'
    BY <1>1 DEF CellsApart
  <1>2. ASSUME NEW k \in Callers, DepartsAction(k) PROVE CellsApart'
    <2>1. /\ cell'[k] = NoCell
          /\ \A j \in Callers : j # k => cell'[j] = cell[j]
      BY <1>0, <1>2, DepartsKind DEF Departs, Return
    <2>2. UNCHANGED outcome \/ \E result : Answer(k, result)
      BY <1>2 DEF DepartsAction, EnterClosed, EnterClose, EnterRefused, RunAnswers,
         RunUndecodable, RunRetires, WheelSettles, ResetSettles, PipRetires, PipRefuses,
         PipRestarts
    <2>3. \A c \in Cells : c # cell[k] => outcome'[c] = outcome[c]
      BY <1>0, <2>2 DEF Answer
    <2>4. QED
      BY <2>1, <2>3, TokenAssumption DEF CellsApart
  <1>3. ASSUME NEW k \in Callers, NEW s \in Sandboxes, NEW o \in Ops,
               NEW c \in Results \cup {NoCell}, Suits(o, c), Start(k, s, o, c)
        PROVE  CellsApart'
    <2>1. /\ cell'[k] = c /\ UNCHANGED outcome
          /\ \A j \in Callers : j # k => cell'[j] = cell[j]
      BY <1>0, <1>3 DEF Start
    <2>2. c \in Cells => outcome[c] = "pending" /\ \A j \in Callers : cell[j] # c
      BY <1>3, TokenAssumption DEF Suits, Fresh
    <2>3. QED
      BY <2>1, <2>2 DEF CellsApart
  <1>4. ASSUME NEW k \in Callers, InsideAction(k) PROVE UNCHANGED <<cell, outcome>>
    BY <1>4, InsideKind DEF Guarded, Inside
  <1>5. ASSUME NEW k \in Callers, Enter(k) PROVE UNCHANGED <<cell, outcome>>
    BY <1>5 DEF Enter
  <1>6. QED
    BY <1>1, <1>2, <1>3, <1>4, <1>5, NextCases DEF InsideAction, DepartsAction, NewSandbox,
       EngineClose, vars, callerVars

\* What a working call knows of its cell's effects, no other call takes away.
LEMMA OthersRan ==
  ASSUME RootsPrivate, Private, Ran, NEW k \in Callers, Aside(k), Works(k), on[k] \in Sandboxes,
         NEW j \in Callers, j # k, op'[j] = "run"
  PROVE  /\ pc'[j] \in {"open", "write", "return"} => cell'[j] \in globals'[on'[j]]
         /\ pc'[j] \in {"read", "decide"} /\ (call'[j] = "ok" \/ mirror'[File(j)'] # NoFile)
              => cell'[j] \in globals'[on'[j]]
  <1>1. /\ pc'[j] = pc[j] /\ on'[j] = on[j] /\ op'[j] = op[j] /\ cell'[j] = cell[j]
        /\ call'[j] = call[j]
    BY DEF Aside
  <1>2. ASSUME pc[j] \in Locked
        PROVE  globals'[on[j]] = globals[on[j]] /\ mirror'[File(j)] = mirror[File(j)]
    <2>1. mu[on[j]] = j /\ on[j] \in Sandboxes
      BY <1>2 DEF Private, Guarded, Held, Typed, Placed, Locked, GuestSteps
    <2>2. on[j] # on[k]
      BY <1>2, <2>1, TokenAssumption DEF Works, Private, Guarded, Held
    <2>3. ASSUME NEW kind \in {"run", "pip"}
          PROVE  mirror'[<<RootOf[on[j]], kind>>] = mirror[<<RootOf[on[j]], kind>>]
      BY <2>1, <2>2, FilesApart DEF Aside, Private
    <2>4. QED
      BY <2>1, <2>2, <2>3 DEF Aside, File
  <1>3. File(j)' = File(j)
    BY <1>1 DEF File
  <1>4. pc[j] \in {"open", "write", "return", "read", "decide"} => pc[j] \in Locked
    BY DEF Locked, GuestSteps
  <1>5. QED
    BY <1>1, <1>2, <1>3, <1>4 DEF Ran

\* The body of a cell runs before its result is written or returned.
LEMMA RanInside ==
  ASSUME Private, Ran, NEW k \in Callers, InsideAction(k), op'[k] = "run"
  PROVE  /\ pc'[k] \in {"open", "write", "return"} => cell'[k] \in globals'[on'[k]]
         /\ pc'[k] \in {"read", "decide"} /\ (call'[k] = "ok" \/ mirror'[File(k)'] # NoFile)
              => cell'[k] \in globals'[on'[k]]
  <1>1. pc[k] \in Locked
    BY DEF InsideAction, GuestBody, GuestOpen, GuestTear, GuestWrite, GuestReturns, GuestRaises,
       GuestCut, ReadMirror, Locked, GuestSteps
  <1>2. /\ MirrorOf(k) /\ on[k] \in Sandboxes /\ pc \in [Callers -> Steps]
    BY <1>1, MirrorFacts DEF Private
  <1>3. globals \in [Sandboxes -> SUBSET Cells] /\ call \in [Callers -> {"ok", "raised", "cut"}]
    BY DEF Private, Guarded, Typed, TypeOK
  <1>4. /\ on'[k] = on[k] /\ cell'[k] = cell[k] /\ op[k] = "run" /\ File(k)' = File(k)
        /\ cell[k] \in Cells
    BY <1>1 DEF InsideAction, GuestBody, GuestOpen, GuestTear, GuestWrite, GuestReturns,
       GuestRaises, GuestCut, ReadMirror, guestFrame, sandboxVars, File, Private, Guarded, Typed,
       Placed,
       Locked, GuestSteps
  <1>5. CASE GuestBody(k)
    <2>1. pc'[k] = "open" /\ cell[k] \in globals'[on[k]]
      BY <1>2, <1>3, <1>4, <1>5 DEF GuestBody, Goto
    <2>2. QED
      BY <1>4, <2>1
  <1>6. ASSUME UNCHANGED globals, pc[k] \in {"open", "write", "return"}
        PROVE  cell'[k] \in globals'[on'[k]]
    BY <1>4, <1>6 DEF Ran
  <1>7. CASE GuestOpen(k) \/ GuestTear(k) \/ GuestWrite(k) \/ GuestReturns(k) \/ GuestRaises(k)
    BY <1>6, <1>7 DEF GuestOpen, GuestTear, GuestWrite, GuestReturns, GuestRaises
  <1>8. CASE GuestCut(k)
    <2>1. pc[k] \in GuestSteps /\ UNCHANGED <<globals, mirror>> /\ call'[k] = "cut"
          /\ pc'[k] = "read"
      BY <1>2, <1>3, <1>4, <1>8 DEF GuestCut, Goto, HostStep
    <2>2. pc[k] = "body" => mirror'[File(k)'] = NoFile
      BY <1>2, <1>4, <2>1 DEF MirrorOf
    <2>3. QED
      BY <1>6, <2>1, <2>2 DEF GuestSteps
  <1>9. CASE ReadMirror(k)
    <2>1. pc[k] = "read" /\ pc'[k] = "decide" /\ UNCHANGED <<globals, mirror, call>>
      BY <1>2, <1>9 DEF ReadMirror, Goto, sandboxVars
    <2>2. QED
      BY <1>4, <2>1 DEF Ran
  <1>10. QED
    BY <1>5, <1>7, <1>8, <1>9 DEF InsideAction

\* And so the effects of every running cell stay known.
LEMMA RanStep ==
  ASSUME RootsPrivate, Private, Ran, [Next]_vars
  PROVE  Ran'
  <1>0. /\ pc \in [Callers -> Steps] /\ op \in [Callers -> Ops]
        /\ on \in [Callers -> Sandboxes \cup {NoSandbox}]
        /\ cell \in [Callers -> Results \cup {NoCell}]
        /\ call \in [Callers -> {"ok", "raised", "cut"}]
    BY DEF Private, Guarded, Typed, TypeOK
  <1>1. ASSUME NEW k \in Callers, InsideAction(k) PROVE Ran'
    BY <1>1, AsideStep, OthersRan, RanInside DEF Ran, Private
  <1>2. ASSUME NEW k \in Callers, Enter(k) PROVE Ran'
    <2>1. /\ pc'[k] \notin {"open", "write", "return"}
          /\ pc'[k] \in {"read", "decide"} => call'[k] = "cut"
      BY <1>0, <1>2 DEF Enter, Goto, HostStep
    <2>2. mirror'[File(k)'] = NoFile \/ op'[k] # "run"
      <3>1. MirrorOf(k)' /\ File(k)' = File(k) /\ UNCHANGED op
        BY <1>2, MirrorEnters DEF Private, Enter, File
      <3>2. on[k] \in Sandboxes /\ RootOf[on[k]] \in Roots
        BY <1>2, AsideStep, RootAssumption DEF Private
      <3>3. op[k] = "run" => mirror' = [mirror EXCEPT ![File(k)] = NoFile]
        BY <1>2 DEF Enter, RemoveMirror
      <3>4. op[k] = "run" => mirror'[File(k)] = NoFile
        BY <3>2, <3>3 DEF File, Private, Guarded, Typed, TypeOK
      <3>5. QED
        BY <3>1, <3>4
    <2>3. op'[k] = "run" => cell'[k] \in Cells
      BY <1>2 DEF Enter, Private, Guarded, Typed, Placed
    <2>4. QED
      BY <1>2, <2>1, <2>2, <2>3, AsideStep, OthersRan, TokenAssumption DEF Ran, Private
  <1>3. ASSUME NEW k \in Callers, DepartsAction(k) PROVE Ran'
    <2>1. pc'[k] = "idle"
      BY <1>0, <1>3, DepartsKind DEF Departs, Return, Goto
    <2>2. QED
      BY <1>3, <2>1, AsideStep, OthersRan DEF Ran, Private
  <1>4. ASSUME NEW k \in Callers, NEW s \in Sandboxes, NEW o \in Ops,
               NEW c \in Results \cup {NoCell}, Start(k, s, o, c)
        PROVE  Ran'
    <2>1. /\ pc'[k] = "enter" /\ UNCHANGED <<globals, mirror, call>>
          /\ \A j \in Callers : j # k =>
               pc'[j] = pc[j] /\ on'[j] = on[j] /\ op'[j] = op[j] /\ cell'[j] = cell[j]
      BY <1>0, <1>4 DEF Start, Goto, sandboxVars
    <2>2. \A j \in Callers : j # k => File(j)' = File(j)
      BY <2>1 DEF File
    <2>3. QED
      BY <2>1, <2>2 DEF Ran
  <1>5. ASSUME UNCHANGED <<callerVars, globals, mirror>> PROVE Ran'
    BY <1>5 DEF Ran, callerVars, File
  <1>6. QED
    BY <1>1, <1>2, <1>3, <1>4, <1>5, NextCases DEF InsideAction, DepartsAction, NewSandbox,
       EngineClose, vars, sandboxVars

\* A result is given for a cell only by the call that ran it.
LEMMA AnsweredStep ==
  ASSUME Private, CellsApart, Ran, [Next]_vars, NEW k \in Callers,
         cell[k] \in Cells, outcome[cell[k]] = "pending", outcome'[cell[k]] = cell[k]
  PROVE  cell[k] \in globals[on[k]]
  <1>0. /\ outcome \in [Cells -> Results \cup {"pending", "ErrClosed", "failed", "undecoded"}]
        /\ cell[k] \notin {"pending", "ErrClosed", "failed", "undecoded"}
    BY TokenAssumption DEF Private, Guarded, Typed, TypeOK
  <1>1. outcome' # outcome
    BY <1>0
  <1>2. ASSUME NEW j \in Callers, NEW result, Answer(j, result) PROVE j = k /\ result = cell[k]
    <2>1. j = k
      BY <1>0, <1>2 DEF Answer, CellsApart
    <2>2. QED
      BY <1>0, <1>2, <2>1 DEF Answer
  <1>3. ASSUME NEW j \in Callers, RunAnswers(j) PROVE cell[k] \in globals[on[k]]
    <2>1. /\ pc[j] = "decide" /\ op[j] = "run"
          /\ \/ payload[j] \in Results /\ Answer(j, payload[j])
             \/ call[j] = "ok" /\ Answer(j, cell[j])
      BY <1>3 DEF RunAnswers
    <2>2. j = k
      BY <1>2, <2>1
    <2>3. MirrorOf(k)
      BY <2>1, <2>2 DEF Private, Mirrored, Locked
    <2>4. call[k] = "ok" \/ mirror[File(k)] # NoFile
      BY <1>2, <2>1, <2>2, <2>3, TokenAssumption DEF MirrorOf, Results
    <2>5. QED
      BY <2>1, <2>2, <2>4 DEF Ran
  <1>4. ASSUME NEW j \in Callers, DepartsAction(j) PROVE RunAnswers(j)
    <2>1. ~Answer(j, "ErrClosed") /\ ~Answer(j, "failed") /\ ~Answer(j, "undecoded")
      BY <1>0, <1>2
    <2>2. QED
      BY <1>1, <1>4, <2>1 DEF DepartsAction, EnterClosed, EnterClose, EnterRefused,
         RunUndecodable, RunRetires, WheelSettles, ResetSettles, PipRetires, PipRefuses,
         PipRestarts
  <1>5. ASSUME NEW j \in Callers, InsideAction(j) PROVE FALSE
    BY <1>1, <1>5, InsideKind DEF Private, Guarded, Inside
  <1>6. ASSUME NEW j \in Callers, Enter(j) PROVE FALSE
    BY <1>1, <1>6 DEF Enter
  <1>7. QED
    BY <1>1, <1>3, <1>4, <1>5, <1>6, NextCases DEF InsideAction, DepartsAction, Start, NewSandbox,
       EngineClose, vars

\* Cells stay apart and the effects of those that ran stay known.
LEMMA RanAlways == ASSUME RootsPrivate PROVE Spec => [](Private /\ CellsApart /\ Ran)
  <1>1. ASSUME Init PROVE CellsApart /\ Ran
    BY <1>1, TokenAssumption DEF Init, CellsApart, Ran
  <1>2. ASSUME Private, CellsApart, Ran, [Next]_vars PROVE CellsApart' /\ Ran'
    BY <1>2, CellsApartStep, RanStep DEF Private
  <1>3. QED
    BY <1>1, <1>2, PrivateAlways, PTL DEF Spec

\* With roots of their own, sandboxes give a result only for a cell that ran to
\* its end: no call that was cut off or raised passes for a success.
THEOREM AnswersAfterRun == ASSUME RootsPrivate PROVE Spec => AnsweredAfterRun
  <1>1. ASSUME Private, CellsApart, Ran, [Next]_vars
        PROVE  [\A k \in Callers :
                  /\ cell[k] \in Cells /\ outcome[cell[k]] = "pending"
                  /\ outcome'[cell[k]] = cell[k]
                  => cell[k] \in globals[on[k]]]_vars
    BY <1>1, AnsweredStep
  <1>2. QED
    BY <1>1, RanAlways, PTL DEF Spec, AnsweredAfterRun

-----------------------------------------------------------------------------
(* The sandboxes keep their contract. *)

\* Where a caller stands once the body of its cell has ended or was cut off.
After == {"open", "write", "return", "read", "decide"}

\* A cell with effects and no answer is in the call that ran it.
Attended ==
  \A s \in Sandboxes, c \in Cells : c \in globals[s] /\ outcome[c] = "pending" =>
    \E k \in Callers : cell[k] = c /\ on[k] = s /\ pc[k] \in After

\* While a call of a cell goes on it stays so, and when it ends the cell is answered.
LEMMA AttendedStep ==
  ASSUME Guarded, CellsApart, Attended, [Next]_vars
  PROVE  Attended'
  <1>0. /\ pc \in [Callers -> Steps] /\ globals \in [Sandboxes -> SUBSET Cells]
        /\ outcome \in [Cells -> Results \cup {"pending", "ErrClosed", "failed", "undecoded"}]
        /\ on \in [Callers -> Sandboxes \cup {NoSandbox}]
        /\ cell \in [Callers -> Results \cup {NoCell}]
        /\ Typed
    BY DEF Guarded, Typed, TypeOK
  <1>1. ASSUME UNCHANGED <<globals, outcome>>, NEW k \in Callers,
               \A j \in Callers : j # k => UNCHANGED <<cell[j], on[j], pc[j]>>,
               pc[k] \notin After
        PROVE  Attended'
    BY <1>1 DEF Attended
  <1>2. ASSUME NEW k \in Callers, InsideAction(k) PROVE Attended'
    <2>1. /\ UNCHANGED <<cell, on, outcome>> /\ Inside(k)
          /\ \A j \in Callers : j # k => pc'[j] = pc[j]
      BY <1>0, <1>2, InsideKind DEF Inside
    <2>2. cell[k] \in Cells => op[k] = "run" /\ pc[k] \in After \cup {"body"}
      BY <1>0, <2>1, TokenAssumption DEF Inside, Placed, Typed, Locked, GuestSteps, After
    <2>3. op[k] = "run" => pc'[k] \in After
      BY <1>0, <1>2 DEF InsideAction, GuestBody, GuestOpen, GuestTear, GuestWrite, GuestReturns,
         GuestRaises, GuestCut, ReadMirror, guestFrame, Goto, HostStep, After
    <2>4. ASSUME NEW s \in Sandboxes, NEW c \in globals'[s], c \notin globals[s]
          PROVE  s = on[k] /\ c = cell[k] /\ op[k] = "run"
      BY <1>0, <1>2, <2>4 DEF InsideAction, GuestBody, GuestOpen, GuestTear, GuestWrite,
         GuestReturns, GuestRaises, GuestCut, ReadMirror, guestFrame, sandboxVars
    <2>5. ASSUME NEW s \in Sandboxes, NEW c \in Cells, c \in globals'[s], outcome'[c] = "pending"
          PROVE  \E j \in Callers : cell'[j] = c /\ on'[j] = s /\ pc'[j] \in After
      <3>1. CASE c \in globals[s]
        <4>1. PICK j \in Callers : cell[j] = c /\ on[j] = s /\ pc[j] \in After
          BY <2>1, <2>5, <3>1 DEF Attended
        <4>2. pc'[j] \in After
          BY <2>1, <2>2, <2>3, <4>1
        <4> QED
          BY <2>1, <4>1, <4>2
      <3>2. CASE c \notin globals[s]
        BY <2>1, <2>3, <2>4, <2>5, <3>2
      <3> QED
        BY <3>1, <3>2
    <2> QED
      BY <2>5 DEF Attended
  <1>3. ASSUME NEW k \in Callers, DepartsAction(k) PROVE Attended'
    <2>1. \A j \in Callers : j # k => UNCHANGED <<cell[j], on[j], pc[j]>>
      BY <1>0, <1>3, DepartsKind DEF Departs, Return, Goto
    <2>2. /\ \A s \in Sandboxes : globals'[s] \subseteq globals[s]
          /\ UNCHANGED outcome \/ \E result : Answer(k, result)
      BY <1>0, <1>3 DEF DepartsAction, EnterClosed, EnterClose, EnterRefused, RunAnswers,
         RunUndecodable, RunRetires, WheelSettles, ResetSettles, PipRetires, PipRefuses,
         PipRestarts, CloseLocked
    <2>3. cell[k] \in Cells => outcome'[cell[k]] # "pending"
      <3>1. cell[k] \in Cells => op[k] = "run"
        BY <1>0, TokenAssumption DEF Typed, Placed
      <3>2. op[k] = "run" =>
              \/ Answer(k, "ErrClosed") \/ Answer(k, "failed") \/ Answer(k, "undecoded")
              \/ payload[k] \in Results /\ Answer(k, payload[k])
              \/ Answer(k, cell[k])
        BY <1>3 DEF DepartsAction, EnterClosed, EnterClose, EnterRefused, RunAnswers,
           RunUndecodable, RunRetires, WheelSettles, ResetSettles, PipRetires, PipRefuses,
           PipRestarts
      <3>3. ASSUME NEW result \in Results \cup {"ErrClosed", "failed", "undecoded"},
                   cell[k] \in Cells, Answer(k, result)
            PROVE  outcome'[cell[k]] # "pending"
        BY <1>0, <3>3, TokenAssumption DEF Answer, Results
      <3> QED
        BY <3>1, <3>2, <3>3 DEF Results
    <2>4. \A c \in Cells : c # cell[k] => outcome'[c] = outcome[c]
      BY <1>0, <2>2 DEF Answer
    <2> QED
      BY <2>1, <2>2, <2>3, <2>4 DEF Attended
  <1>4. ASSUME NEW k \in Callers, Enter(k) PROVE Attended'
    <2>1. /\ UNCHANGED <<globals, outcome>> /\ pc[k] \notin After
          /\ \A j \in Callers : j # k => UNCHANGED <<cell[j], on[j], pc[j]>>
      BY <1>0, <1>4 DEF Enter, Goto, After
    <2> QED
      BY <1>1, <2>1
  <1>5. ASSUME NEW k \in Callers, NEW s \in Sandboxes, NEW o \in Ops,
               NEW c \in Results \cup {NoCell}, Start(k, s, o, c)
        PROVE  Attended'
    <2>1. /\ UNCHANGED <<globals, outcome>> /\ pc[k] \notin After
          /\ \A j \in Callers : j # k => UNCHANGED <<cell[j], on[j], pc[j]>>
      BY <1>0, <1>5 DEF Start, Goto, After, sandboxVars
    <2> QED
      BY <1>1, <2>1
  <1>6. ASSUME UNCHANGED <<callerVars, globals, outcome>> PROVE Attended'
    BY <1>6 DEF Attended, callerVars
  <1> QED
    BY <1>2, <1>3, <1>4, <1>5, <1>6, NextCases DEF InsideAction, DepartsAction, NewSandbox,
       EngineClose, vars, sandboxVars

\* What the contract asks of a step: everything known of the calls.
Kept == Private /\ CellsApart /\ Ran /\ Attended

\* A cell that a sandbox has underway is the one of the caller that holds it.
LEMMA UnderwayHeld ==
  ASSUME Kept, NEW s \in Sandboxes, NEW c \in Cells, Contract!Underway(s, c)
  PROVE  \E k \in Callers : mu[s] = k /\ cell[k] = c /\ on[k] = s /\ pc[k] \in After
                            /\ op[k] = "run"
  <1>1. PICK k \in Callers : cell[k] = c /\ on[k] = s /\ pc[k] \in After
    BY DEF Kept, Attended, Contract!Underway
  <1>2. pc[k] \in Locked /\ pc[k] # "idle"
    BY <1>1 DEF After, Locked, GuestSteps
  <1>3. mu[s] = k
    BY <1>1, <1>2 DEF Kept, Private, Guarded, Held
  <1>4. op[k] = "run"
    BY <1>1, <1>2, TokenAssumption DEF Kept, Private, Guarded, Typed, Placed
  <1> QED
    BY <1>1, <1>3, <1>4

\* Nothing is underway in a sandbox whose mutex is free, or whose holder runs no cell.
LEMMA NoneUnderway ==
  ASSUME Kept, NEW s \in Sandboxes, mu[s] = Free \/ op[mu[s]] # "run", NEW c \in Cells
  PROVE  ~Contract!Underway(s, c)
  BY UnderwayHeld, TokenAssumption

\* A cell in a call has no effects but those the call had in its sandbox.
LEMMA EffectsOfCall ==
  ASSUME Kept, NEW k \in Callers, cell[k] \in Cells, NEW s \in Sandboxes, cell[k] \in globals[s]
  PROVE  s = on[k] /\ pc[k] \in After
  <1>1. outcome[cell[k]] = "pending"
    BY DEF Kept, CellsApart
  <1>2. PICK j \in Callers : cell[j] = cell[k] /\ on[j] = s /\ pc[j] \in After
    BY <1>1 DEF Kept, Attended
  <1>3. j = k
    BY <1>2 DEF Kept, CellsApart
  <1> QED
    BY <1>2, <1>3

\* What the contract does when caller k's guest runs or resets, or a call ends.
LEMMA InsideKeepsContract ==
  ASSUME Kept, NEW k \in Callers, InsideAction(k)
  PROVE  [Contract!Next]_<<status, globals, outcome>>
  <1> DEFINE s == on[k]
  <1>1. /\ UNCHANGED <<status, outcome>> /\ pc[k] \in Locked
    BY InsideKind DEF Kept, Private, Guarded, Inside
  <1>2. s \in Sandboxes /\ status[s] = "open" /\ mu[s] = k
    BY <1>1 DEF Kept, Private, Guarded, Typed, Placed, Held, Locked, GuestSteps
  <1>3. CASE GuestBody(k) /\ op[k] = "run"
    <2>1. pc[k] = "body" /\ globals' = [globals EXCEPT ![s] = @ \cup {cell[k]}]
      BY <1>3 DEF GuestBody
    <2>2. cell[k] \in Cells
      BY <1>3, <2>1 DEF Kept, Private, Guarded, Typed, Placed
    <2>3. outcome[cell[k]] = "pending"
      BY <2>2 DEF Kept, CellsApart
    <2>4. \A t \in Sandboxes : cell[k] \notin globals[t]
      BY <2>1, <2>2, EffectsOfCall DEF After
    <2>5. ASSUME NEW d \in Cells PROVE ~Contract!Underway(s, d)
      <3> SUFFICES ASSUME Contract!Underway(s, d) PROVE FALSE
        OBVIOUS
      <3>1. cell[k] = d /\ pc[k] \in After
        BY <1>2, UnderwayHeld
      <3> QED
        BY <2>1, <3>1 DEF After
    <2>6. Contract!Run(s, cell[k])
      BY <1>1, <1>2, <2>1, <2>3, <2>4, <2>5 DEF Contract!Run
    <2> QED
      BY <1>2, <2>2, <2>6 DEF Contract!Next
  <1>4. CASE GuestBody(k) /\ op[k] = "reset"
    <2>1. \A d \in Cells : ~Contract!Underway(s, d)
      BY <1>2, <1>4, NoneUnderway
    <2>2. globals' = [globals EXCEPT ![s] = {}]
      BY <1>4 DEF GuestBody
    <2>3. Contract!Clear(s)
      BY <1>1, <1>2, <2>1, <2>2 DEF Contract!Clear
    <2> QED
      BY <1>2, <2>3 DEF Contract!Next
  <1>5. CASE UNCHANGED globals
    BY <1>1, <1>5
  <1>6. ASSUME GuestBody(k), op[k] \notin {"run", "reset"} PROVE UNCHANGED globals
    <2>1. globals' = [globals EXCEPT ![s] = @]
      BY <1>6 DEF GuestBody
    <2> QED
      BY <1>2, <2>1 DEF Kept, Private, Guarded, Typed, TypeOK
  <1>7. GuestBody(k) \/ UNCHANGED globals
    BY DEF InsideAction, GuestOpen, GuestTear, GuestWrite, GuestReturns, GuestRaises, GuestCut,
       ReadMirror, guestFrame, sandboxVars
  <1> QED
    BY <1>3, <1>4, <1>5, <1>6, <1>7

\* Where a departing caller's sandbox stands.
LEMMA Departing ==
  ASSUME Kept, NEW k \in Callers, DepartsAction(k)
  PROVE  /\ on[k] \in Sandboxes
         /\ pc[k] \in Locked => status[on[k]] = "open" /\ mu[on[k]] = k
         /\ pc[k] = "enter" => mu[on[k]] = Free
         /\ op[k] # "run" => cell[k] \notin Cells
         /\ op[k] = "run" => cell[k] \in Cells /\ outcome[cell[k]] = "pending"
  <1>1. pc[k] \in Locked \/ (pc[k] = "enter" /\ mu[on[k]] = Free)
    BY DepartsKind DEF Departs
  <1>2. pc[k] # "idle"
    BY <1>1 DEF Locked, GuestSteps
  <1>3. /\ on[k] \in Sandboxes
        /\ op[k] = "run" => cell[k] \in Cells
        /\ op[k] # "run" => cell[k] \notin Cells
    BY <1>2, TokenAssumption DEF Kept, Private, Guarded, Typed, Placed
  <1>4. pc[k] = "enter" => mu[on[k]] = Free
    BY <1>1 DEF Locked, GuestSteps
  <1> QED
    BY <1>3, <1>4 DEF Kept, Private, Guarded, Held, CellsApart

\* A call that finds its sandbox closed refuses its cell; a refused installation
\* and an answerless Reset or PipInstall change nothing of the contract.
LEMMA EntersKeepContract ==
  ASSUME Kept, NEW k \in Callers, EnterClosed(k) \/ EnterClose(k) \/ EnterRefused(k)
  PROVE  [Contract!Next]_<<status, globals, outcome>>
  <1> DEFINE s == on[k]
  <1>0. pc[k] = "enter" /\ mu[s] = Free
    BY DEF EnterClosed, EnterClose, EnterRefused, CanLock
  <1>1. s \in Sandboxes
    BY Departing DEF DepartsAction
  <1>2. CASE EnterClosed(k) /\ op[k] = "run"
    <2>1. cell[k] \in Cells /\ outcome[cell[k]] = "pending"
      BY <1>2, Departing DEF DepartsAction
    <2>2. \A t \in Sandboxes : cell[k] \notin globals[t]
      BY <1>0, <2>1, EffectsOfCall DEF After
    <2>3. outcome' = [outcome EXCEPT ![cell[k]] = "ErrClosed"] /\ status[s] = "closed"
          /\ UNCHANGED <<status, globals>>
      BY <1>2, <2>1 DEF EnterClosed, Answer
    <2>4. Contract!Refuse(s, cell[k])
      BY <2>1, <2>2, <2>3 DEF Contract!Refuse
    <2> QED
      BY <1>1, <2>1, <2>4 DEF Contract!Next
  <1>3. CASE EnterClosed(k) /\ op[k] # "run"
    <2>1. cell[k] \notin Cells
      BY <1>3, Departing DEF DepartsAction
    <2> QED
      BY <1>3, <2>1 DEF EnterClosed, Answer
  <1>4. CASE EnterClose(k)
    <2>1. \A d \in Cells : ~Contract!Underway(s, d)
      BY <1>0, <1>1, NoneUnderway
    <2>2. Contract!Close(s)
      BY <1>4, <2>1 DEF EnterClose, CloseLocked, Contract!Close, Contract!Ends
    <2> QED
      BY <1>1, <2>2 DEF Contract!Next
  <1>5. CASE EnterRefused(k)
    BY <1>5 DEF EnterRefused
  <1> QED
    BY <1>2, <1>3, <1>4, <1>5

\* RunCode replies with the result of a cell that ran, or ends the sandbox.
LEMMA RunKeepsContract ==
  ASSUME Kept, NEW k \in Callers, RunAnswers(k) \/ RunUndecodable(k) \/ RunRetires(k)
  PROVE  [Contract!Next]_<<status, globals, outcome>>
  <1> DEFINE s == on[k]  c == cell[k]
  <1>0. pc[k] = "decide" /\ op[k] = "run"
    BY DEF RunAnswers, RunUndecodable, RunRetires
  <1>1. pc[k] \in Locked
    BY <1>0 DEF Locked
  <1>2. /\ s \in Sandboxes /\ status[s] = "open" /\ mu[s] = k
        /\ c \in Cells /\ outcome[c] = "pending"
    BY <1>0, <1>1, Departing DEF DepartsAction
  <1>3. MirrorOf(k)
    BY <1>1 DEF Kept, Private, Mirrored
  <1>4. c \in {NoFile, Empty, Torn} => FALSE
    BY <1>2, TokenAssumption
  <1>5. payload[k] # NoFile \/ call[k] = "ok" => Contract!Underway(s, c)
    BY <1>0, <1>2, <1>3 DEF Kept, Ran, MirrorOf, Contract!Underway
  <1>6. CASE RunAnswers(k)
    <2>1. /\ UNCHANGED <<status, globals>>
          /\ \/ payload[k] \in Results /\ Answer(k, payload[k])
             \/ call[k] = "ok" /\ Answer(k, c)
      BY <1>6 DEF RunAnswers
    <2>2. payload[k] \in Results => payload[k] = c /\ payload[k] # NoFile
      BY <1>0, <1>3, TokenAssumption DEF MirrorOf, Results
    <2>3. Contract!Underway(s, c) /\ outcome' = [outcome EXCEPT ![c] = c]
      BY <1>2, <1>5, <2>1, <2>2 DEF Answer
    <2>4. Contract!Reply(s, c)
      BY <2>1, <2>3 DEF Contract!Reply
    <2> QED
      BY <1>2, <2>4 DEF Contract!Next
  <1>7. CASE RunUndecodable(k)
    <2>1. /\ UNCHANGED <<status, globals>> /\ payload[k] # NoFile
          /\ outcome' = [outcome EXCEPT ![c] = "undecoded"]
      BY <1>2, <1>7, TokenAssumption DEF RunUndecodable, Answer, Torn, NoFile
    <2>2. Contract!Reply(s, c)
      BY <1>5, <2>1 DEF Contract!Reply
    <2> QED
      BY <1>2, <2>2 DEF Contract!Next
  <1>8. CASE RunRetires(k)
    <2>1. outcome' = [outcome EXCEPT ![c] = "failed"] /\ Contract!Ends(s)
      BY <1>2, <1>8 DEF RunRetires, Answer, CloseLocked, Contract!Ends
    <2>2. ASSUME NEW t \in Sandboxes, NEW d \in Cells, Contract!Underway(t, d), d = c \/ t = s
          PROVE  d = c /\ t = s
      <3>1. CASE d = c
        BY <1>2, <2>2, <3>1, EffectsOfCall DEF Contract!Underway
      <3>2. CASE t = s
        BY <1>2, <2>2, <3>2, UnderwayHeld
      <3> QED
        BY <2>2, <3>1, <3>2
    <2>3. Contract!Fail(s, c)
      BY <1>2, <2>1, <2>2 DEF Contract!Fail
    <2> QED
      BY <1>2, <2>3 DEF Contract!Next
  <1> QED
    BY <1>6, <1>7, <1>8

\* An installation and a Reset answer no cell; what they close or clear runs none.
LEMMA OthersKeepContract ==
  ASSUME Kept, NEW k \in Callers,
         \/ WheelSettles(k) \/ ResetSettles(k)
         \/ PipRetires(k) \/ PipRefuses(k) \/ PipRestarts(k)
  PROVE  [Contract!Next]_<<status, globals, outcome>>
  <1> DEFINE s == on[k]
  <1>0. pc[k] \in {"settle", "decide"} /\ op[k] # "run" /\ UNCHANGED outcome
    BY DEF WheelSettles, ResetSettles, PipRetires, PipRefuses, PipRestarts
  <1>1. s \in Sandboxes /\ status[s] = "open" /\ mu[s] = k
    BY <1>0, Departing DEF DepartsAction, Locked
  <1>2. \A d \in Cells : ~Contract!Underway(s, d)
    BY <1>0, <1>1, NoneUnderway
  <1>3. \/ UNCHANGED <<status, globals>> \/ CloseLocked(s)
        \/ UNCHANGED status /\ globals' = [globals EXCEPT ![s] = {}]
    BY DEF WheelSettles, ResetSettles, PipRetires, PipRefuses, PipRestarts
  <1>4. ASSUME CloseLocked(s) PROVE Contract!Close(s)
    BY <1>0, <1>1, <1>2, <1>4 DEF CloseLocked, Contract!Close, Contract!Ends
  <1>5. ASSUME UNCHANGED status, globals' = [globals EXCEPT ![s] = {}] PROVE Contract!Clear(s)
    BY <1>0, <1>1, <1>2, <1>5 DEF Contract!Clear
  <1> QED
    BY <1>0, <1>1, <1>3, <1>4, <1>5 DEF Contract!Next

\* With roots of their own, the sandboxes of an Engine do what SandboxContract
\* says: however calls interleave and wherever the guest is cut off, each cell
\* runs at most once and whole, in a sandbox nobody clears or closes before it is
\* answered; it is refused only if it never ran; and a failed call ends its sandbox.
THEOREM SandboxKeepsContract == ASSUME RootsPrivate PROVE Spec => ImplementsContract
  <1>1. ASSUME Init PROVE Contract!Init /\ Attended
    BY <1>1 DEF Init, Contract!Init, Attended
  <1>2. ASSUME Kept, [Next]_vars PROVE Attended'
    BY <1>2, AttendedStep DEF Kept, Private
  <1>3. ASSUME Kept, [Next]_vars PROVE [Contract!Next]_<<status, globals, outcome>>
    <2>1. ASSUME NEW k \in Callers, DepartsAction(k)
          PROVE  [Contract!Next]_<<status, globals, outcome>>
      BY <1>3, <2>1, EntersKeepContract, RunKeepsContract, OthersKeepContract DEF DepartsAction
    <2>2. ASSUME NEW s \in Sandboxes, NewSandbox(s) PROVE Contract!Next
      <3>1. Contract!Create(s)
        BY <2>2 DEF NewSandbox, Contract!Create
      <3> QED
        BY <3>1 DEF Contract!Next
    <2>3. ASSUME NEW k \in Callers, Enter(k) PROVE UNCHANGED <<status, globals, outcome>>
      BY <2>3 DEF Enter
    <2>4. ASSUME NEW k \in Callers, NEW s \in Sandboxes, NEW o \in Ops,
                 NEW c \in Results \cup {NoCell}, Start(k, s, o, c)
          PROVE  UNCHANGED <<status, globals, outcome>>
      BY <2>4 DEF Start, sandboxVars
    <2>5. ASSUME EngineClose \/ UNCHANGED vars PROVE UNCHANGED <<status, globals, outcome>>
      BY <2>5 DEF EngineClose, vars, sandboxVars
    <2> QED
      BY <1>3, <2>1, <2>2, <2>3, <2>4, <2>5, InsideKeepsContract, NextCases
         DEF InsideAction, DepartsAction
  <1>4. Private /\ CellsApart /\ Ran /\ Attended <=> Kept
    BY DEF Kept
  <1> QED
    BY <1>1, <1>2, <1>3, <1>4, RanAlways, PTL
       DEF Spec, ImplementsContract, Contract!Spec, Contract!vars

\* What the contract's steps add up to holds of the sandboxes: no cell runs twice
\* or in two sandboxes, and none that RunCode refused with ErrClosed ever ran.
THEOREM CellsRunOnce == ASSUME RootsPrivate PROVE Spec => []Contract!CellsOnce
  <1>1. Init => Contract!CellsOnce
    BY DEF Init, Contract!CellsOnce, Contract!Underway
  <1>2. ASSUME TypeOK, Contract!CellsOnce, [Contract!Next]_<<status, globals, outcome>>
        PROVE  Contract!CellsOnce'
    <2> USE DEF Contract!CellsOnce, Contract!Underway
    <2>0. /\ status \in [Sandboxes -> {"absent", "open", "closed"}]
          /\ globals \in [Sandboxes -> SUBSET Cells]
          /\ outcome \in [Cells -> Results \cup {"pending", "ErrClosed", "failed", "undecoded"}]
          /\ \A c \in Cells : c \notin {"pending", "ErrClosed"}
      BY <1>2, TokenAssumption DEF TypeOK
    <2>1. CASE UNCHANGED <<status, globals, outcome>>
      BY <1>2, <2>1
    <2>2. ASSUME NEW s \in Sandboxes, NEW c \in Cells, Contract!Run(s, c)
          PROVE  Contract!CellsOnce'
      <3>1. /\ globals'[s] = globals[s] \cup {c} /\ status[s] = "open"
            /\ \A t \in Sandboxes : t # s => globals'[t] = globals[t]
            /\ UNCHANGED <<status, outcome>> /\ outcome[c] = "pending"
            /\ \A t \in Sandboxes : c \notin globals[t]
            /\ \A d \in Cells : ~(d \in globals[s] /\ outcome[d] = "pending")
        BY <2>0, <2>2 DEF Contract!Run
      <3>2. \A d \in Cells, t \in Sandboxes :
              d \in globals'[t] <=> d \in globals[t] \/ (d = c /\ t = s)
        BY <3>1
      <3>3. \A d \in Cells : \A t, u \in Sandboxes : d \in globals'[t] \cap globals'[u] => t = u
        BY <1>2, <3>1, <3>2
      <3>4. \A d \in Cells : outcome'[d] = "ErrClosed" => \A t \in Sandboxes : d \notin globals'[t]
        BY <1>2, <3>1, <3>2
      <3>5. \A t \in Sandboxes : \A d, e \in Cells :
              /\ d \in globals'[t] /\ outcome'[d] = "pending"
              /\ e \in globals'[t] /\ outcome'[e] = "pending"
              => d = e
        BY <1>2, <3>1, <3>2
      <3>6. \A t \in Sandboxes : status'[t] # "open" => globals'[t] = {}
        BY <1>2, <3>1
      <3> QED
        BY <3>3, <3>4, <3>5, <3>6
    <2>3. ASSUME NEW s \in Sandboxes, NEW c \in Cells,
                 Contract!Reply(s, c) \/ Contract!Refuse(s, c)
          PROVE  Contract!CellsOnce'
      <3>1. /\ UNCHANGED <<status, globals>> /\ outcome'[c] # "pending"
            /\ \A d \in Cells : d # c => outcome'[d] = outcome[d]
            /\ outcome'[c] = "ErrClosed" => \A t \in Sandboxes : c \notin globals[t]
        BY <2>0, <2>3 DEF Contract!Reply, Contract!Refuse
      <3> QED
        BY <1>2, <3>1
    <2>4. ASSUME NEW s \in Sandboxes, globals' = [globals EXCEPT ![s] = {}],
                 UNCHANGED status \/ status' = [status EXCEPT ![s] = "closed"],
                 \/ UNCHANGED outcome
                 \/ \E c \in Cells : outcome' = [outcome EXCEPT ![c] = "failed"]
          PROVE  Contract!CellsOnce'
      <3>1. /\ globals'[s] = {}
            /\ \A t \in Sandboxes : t # s => globals'[t] = globals[t] /\ status'[t] = status[t]
            /\ \A d \in Cells : outcome'[d] \in {outcome[d], "failed"}
        BY <2>0, <2>4
      <3>2. \A d \in Cells : \A t, u \in Sandboxes : d \in globals'[t] \cap globals'[u] => t = u
        BY <1>2, <3>1
      <3>3. \A d \in Cells : outcome'[d] = "ErrClosed" => \A t \in Sandboxes : d \notin globals'[t]
        BY <1>2, <3>1
      <3>4. \A t \in Sandboxes : \A d, e \in Cells :
              /\ d \in globals'[t] /\ outcome'[d] = "pending"
              /\ e \in globals'[t] /\ outcome'[e] = "pending"
              => d = e
        BY <1>2, <3>1
      <3>5. \A t \in Sandboxes : status'[t] # "open" => globals'[t] = {}
        BY <1>2, <3>1
      <3> QED
        BY <3>2, <3>3, <3>4, <3>5
    <2>5. ASSUME NEW s \in Sandboxes, Contract!Create(s) PROVE Contract!CellsOnce'
      <3>1. /\ UNCHANGED <<globals, outcome>>
            /\ \A t \in Sandboxes : t # s => status'[t] = status[t]
            /\ status[s] # "open"
        BY <2>0, <2>5 DEF Contract!Create
      <3> QED
        BY <1>2, <3>1
    <2>6. ASSUME NEW s \in Sandboxes, NEW c \in Cells, Contract!Fail(s, c)
          PROVE  Contract!CellsOnce'
      BY <2>4, <2>6 DEF Contract!Fail, Contract!Ends
    <2>7. ASSUME NEW s \in Sandboxes, Contract!Clear(s) \/ Contract!Close(s)
          PROVE  Contract!CellsOnce'
      BY <2>4, <2>7 DEF Contract!Clear, Contract!Close, Contract!Ends
    <2> HIDE DEF Contract!CellsOnce
    <2> QED
      BY <1>2, <2>1, <2>2, <2>3, <2>5, <2>6, <2>7 DEF Contract!Next
  <1>3. TypeOK /\ Contract!CellsOnce /\ [Contract!Next]_<<status, globals, outcome>>
        => Contract!CellsOnce'
    BY <1>2
  <1> QED
    BY <1>1, <1>3, SandboxTypeCorrect, SandboxKeepsContract, PTL
       DEF Spec, ImplementsContract, Contract!Spec, Contract!vars
=============================================================================

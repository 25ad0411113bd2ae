------------------------ MODULE ContextServerProofs ------------------------
(***************************************************************************)
(* Proofs about ContextServer for every set of handlers and contexts and   *)
(* every cap.  The invariants are proved in layers, each relative to the   *)
(* ones before it: types, the cap, where contexts may be, who holds the    *)
(* lock of a sandbox, and on top of these the properties of interest.      *)
(***************************************************************************)
EXTENDS ContextServer, FiniteSetTheorems, TLAPS

USE DEF vars, registryVars, sandboxVars, handlerVars, reaperVars, hostVars

-----------------------------------------------------------------------------
(* The layers of the inductive invariant. *)

\* A handler has a context exactly when it is past newContext.
Targeted ==
  \A h \in Handlers :
    target[h] = NoContext <=> pc[h] \in {"idle", "newContext", "newSandbox"}

Typed == TypeOK /\ Targeted

\* The cap needs the registry to be finite.
RegistryCapped == IsFiniteSet(contexts) /\ CapRespected

\* Contexts that are anywhere were made: NewSandbox draws an id new to all.
Made ==
  /\ \A h \in Handlers : target[h] \in Contexts => sandbox[target[h]] # "absent"
  /\ \A c \in contexts \cup expired \cup closing : sandbox[c] # "absent"

\* The places a context can be in do not overlap: a context about to be
\* published is known to its handler only, and one that is to be closed has
\* left the registry.
Apart ==
  /\ \A h \in Handlers : pc[h] = "publish" =>
        /\ sandbox[target[h]] = "open"
        /\ target[h] \notin contexts \cup expired \cup closing
        /\ \A g \in Handlers \ {h} : target[g] # target[h]
  /\ \A h \in Handlers : pc[h] = "close" => target[h] \notin contexts
  /\ contexts \cap expired = {}
  /\ ServerClosed => contexts = {}
  /\ ~ServerClosed => closing = {}

\* A running cell holds the lock of an open sandbox.
CellsLocked ==
  \A h \in Handlers : pc[h] = "cell" =>
    mutex[target[h]] = h /\ sandbox[target[h]] = "open"

\* Forget is reached with the sandbox closed, so that it cannot orphan a live one, but
\* for one whose result could not be decoded.
ForgetAfterClose ==
  \A h \in Handlers : pc[h] = "forget" =>
    sandbox[target[h]] = "closed" \/ target[h] \in undecoded

\* How far the shutdown is, and what is settled by then.
ShutdownOrder ==
  /\ reaperDone => ServerClosed /\ expired = {}
  /\ host \in {"closing", "engineClosed"} => reaperDone
  /\ EngineClosed => closing = {}

\* Where contexts and cells may be, and who is bound to close a live interpreter.
Structure == Typed /\ Made /\ Apart /\ CellsLocked
Ownership == Structure /\ ForgetAfterClose /\ DecodedOwned

-----------------------------------------------------------------------------
(* Types. *)

\* Every step keeps the types: ids, sandboxes, locks and program counters stay
\* in their ranges, only registered contexts have an age, and a handler has a
\* context from the moment newContext or a lookup gave it one.
LEMMA TypeStep == Typed /\ [Next]_vars => Typed'
  <1> SUFFICES ASSUME Typed, [Next]_vars PROVE Typed'
    OBVIOUS
  <1> USE SupplyAssumption DEF Typed, TypeOK, Targeted, Steps, Phases
  <1>1. ASSUME NEW h \in Handlers, NEW c \in Contexts, HandleExecute(h, c)
        PROVE Typed'
    BY <1>1 DEF HandleExecute, Goto
  <1>2. ASSUME NEW h \in Handlers, NEW c \in Contexts, HandleDeleteContext(h, c)
        PROVE Typed'
    BY <1>2 DEF HandleDeleteContext, Drop, Goto
  <1>3. ASSUME NEW h \in Handlers, ExecuteDefault(h) PROVE Typed'
    BY <1>3 DEF ExecuteDefault, Goto
  <1>4. ASSUME NEW h \in Handlers, HandleCreateContext(h) PROVE Typed'
    BY <1>4 DEF HandleCreateContext, Goto
  <1>5. ASSUME NEW h \in Handlers, AdmitContext(h) PROVE Typed'
    BY <1>5 DEF AdmitContext, Goto
  <1>6. ASSUME NEW h \in Handlers, RefuseContext(h) PROVE Typed'
    BY <1>6 DEF RefuseContext, Respond, Goto
  <1>7. ASSUME NEW h \in Handlers, NEW c \in Contexts, NewSandbox(h, c)
        PROVE Typed'
    BY <1>7 DEF NewSandbox, Goto
  <1>8. ASSUME NEW h \in Handlers, NewSandboxFails(h) PROVE Typed'
    BY <1>8 DEF NewSandboxFails, Respond, Goto
  <1>9. ASSUME NEW h \in Handlers, Publish(h) PROVE Typed'
    BY <1>9 DEF Publish, Respond, Goto
  <1>10. ASSUME NEW h \in Handlers, Overflow(h) PROVE Typed'
    BY <1>10 DEF Overflow, Goto
  <1>11. ASSUME NEW h \in Handlers, SetDefault(h) PROVE Typed'
    BY <1>11 DEF SetDefault, Goto
  <1>12. ASSUME NEW h \in Handlers, CellReturns(h) PROVE Typed'
    BY <1>12 DEF CellReturns, CellEnds, Goto
  <1>13. ASSUME NEW h \in Handlers, CellRetires(h) PROVE Typed'
    BY <1>13 DEF CellRetires, CellEnds, Goto
  <1>14. ASSUME NEW h \in Handlers, CellUndecodable(h) PROVE Typed'
    BY <1>14 DEF CellUndecodable, CellEnds, Goto
  <1>15. ASSUME NEW h \in Handlers, Touch(h) PROVE Typed'
    BY <1>15 DEF Touch, Respond, Goto
  <1>16. ASSUME NEW h \in Handlers, Forget(h) PROVE Typed'
    BY <1>16 DEF Forget, Respond, Drop, Goto
  <1>17. ASSUME NEW h \in Handlers, BeginCell(h) PROVE Typed'
    BY <1>17 DEF BeginCell, Goto
  <1>18. ASSUME NEW h \in Handlers, FindClosed(h) PROVE Typed'
    BY <1>18 DEF FindClosed, Goto
  <1>19. ASSUME NEW h \in Handlers, FindEngineClosed(h) PROVE Typed'
    BY <1>19 DEF FindEngineClosed, SandboxClose, Goto
  <1>20. ASSUME NEW h \in Handlers, CloseSandbox(h) PROVE Typed'
    BY <1>20 DEF CloseSandbox, Respond, SandboxClose, Goto
  <1>21. ASSUME NEW c \in Contexts, Age(c) PROVE Typed'
    BY <1>21 DEF Age
  <1>22. ASSUME Reap PROVE Typed'
    BY <1>22 DEF Reap, Drop
  <1>23. ASSUME NEW c \in Contexts, ReaperClose(c) PROVE Typed'
    BY <1>23 DEF ReaperClose, SandboxClose
  <1>24. ASSUME ReaperStop PROVE Typed'
    BY <1>24 DEF ReaperStop
  <1>25. ASSUME Shutdown PROVE Typed'
    BY <1>25 DEF Shutdown
  <1>26. ASSUME ServerClose PROVE Typed'
    BY <1>26 DEF ServerClose
  <1>27. ASSUME AwaitReaper PROVE Typed'
    BY <1>27 DEF AwaitReaper
  <1>28. ASSUME NEW c \in Contexts, HostClose(c) PROVE Typed'
    BY <1>28 DEF HostClose, SandboxClose
  <1>29. ASSUME EngineClose PROVE Typed'
    BY <1>29 DEF EngineClose
  <1>30. CASE UNCHANGED vars
    BY <1>30
  <1>31. CASE Exit
    BY <1>31 DEF Exit
  <1>32. QED
    BY <1>1, <1>2, <1>3, <1>4, <1>5, <1>6, <1>7, <1>8, <1>9, <1>10, <1>11,
       <1>12, <1>13, <1>14, <1>15,
       <1>16, <1>17, <1>18, <1>19, <1>20, <1>21, <1>22, <1>23, <1>24, <1>25,
       <1>26, <1>27, <1>28, <1>29, <1>30, <1>31
      DEF Next, Goroutines, Handler, Request, Proceed, RunCode, Reaper, Host,
          Exit, Stop

\* The types of the server's state hold in every reachable state.
THEOREM TypeCorrect == Spec => []TypeOK
  <1>1. Init => Typed
    BY SupplyAssumption DEF Init, Typed, TypeOK, Targeted, Steps, Phases
  <1>2. Typed => TypeOK
    BY DEF Typed
  <1>3. QED
    BY <1>1, <1>2, TypeStep, PTL DEF Spec

-----------------------------------------------------------------------------
(* The cap. *)

\* Contexts that leave the registry never break the cap.
LEMMA ShrinkingKeepsCap ==
  ASSUME RegistryCapped, contexts' \subseteq contexts
  PROVE  RegistryCapped'
  <1>1. IsFiniteSet(contexts') /\ Cardinality(contexts') <= Cardinality(contexts)
    BY FS_Subset DEF RegistryCapped
  <1>2. Cardinality(contexts) \in Nat /\ Cardinality(contexts') \in Nat
    BY <1>1, FS_CardinalityType DEF RegistryCapped
  <1>3. QED
    BY <1>1, <1>2, MaxContextsAssumption DEF RegistryCapped, CapRespected

\* A context is published in a critical section that has checked for room.
LEMMA PublishKeepsCap ==
  ASSUME RegistryCapped, NEW h \in Handlers, Publish(h)
  PROVE  RegistryCapped'
  <1>1. contexts' = contexts \cup {target[h]} /\ Cardinality(contexts) < MaxContexts
    BY DEF Publish, HasRoom
  <1>2. /\ IsFiniteSet(contexts')
        /\ \/ Cardinality(contexts') = Cardinality(contexts)
           \/ Cardinality(contexts') = Cardinality(contexts) + 1
    BY <1>1, FS_AddElement DEF RegistryCapped
  <1>3. Cardinality(contexts) \in Nat
    BY FS_CardinalityType DEF RegistryCapped
  <1>4. QED
    BY <1>1, <1>2, <1>3, MaxContextsAssumption DEF RegistryCapped, CapRespected

\* Nothing but Publish adds to the registry.
LEMMA RegistryShrinks ==
  ASSUME [Next]_vars, ~ \E h \in Handlers : Publish(h)
  PROVE  contexts' \subseteq contexts
    BY DEF Next, Goroutines, Handler, Request, Proceed, RunCode, Reaper, Host,
      Exit, Stop,
      CellEnds, Drop, HandleExecute, HandleDeleteContext, ExecuteDefault,
      HandleCreateContext, AdmitContext, RefuseContext, NewSandbox,
      NewSandboxFails, Overflow, SetDefault, CellReturns, CellRetires,
      CellUndecodable, Touch, Forget, BeginCell, FindClosed, FindEngineClosed,
      CloseSandbox, Age, Reap, ReaperClose, ReaperStop, Shutdown, ServerClose,
      AwaitReaper, HostClose, EngineClose

\* So every step keeps the cap.
LEMMA CapStep == RegistryCapped /\ [Next]_vars => RegistryCapped'
  BY RegistryShrinks, ShrinkingKeepsCap, PublishKeepsCap

\* The registry never exceeds MaxContexts, however many requests create
\* contexts at the same time.
THEOREM CapHolds == Spec => []CapRespected
  <1>1. Init => RegistryCapped
    BY MaxContextsAssumption, FS_EmptySet DEF Init, RegistryCapped, CapRespected
  <1>2. RegistryCapped => CapRespected
    BY DEF RegistryCapped
  <1>3. QED
    BY <1>1, <1>2, CapStep, PTL DEF Spec

-----------------------------------------------------------------------------
(* Where contexts are, and who holds their locks. *)

\* Contexts come into being in NewSandbox, before anybody else sees them.
LEMMA MadeStep ==
  Typed /\ Made
    /\ [Next]_vars => Made'
  <1> SUFFICES ASSUME Typed, Made, [Next]_vars
               PROVE  Made'
    OBVIOUS
  <1> USE SupplyAssumption DEF Typed, TypeOK, Targeted, Steps, Phases,
        ServerClosed, EngineClosed, Made
  <1>1. ASSUME NEW h \in Handlers, NEW c \in Contexts, HandleExecute(h, c)
        PROVE Made'
    BY <1>1 DEF HandleExecute, Goto
  <1>2. ASSUME NEW h \in Handlers, NEW c \in Contexts, HandleDeleteContext(h, c)
        PROVE Made'
    BY <1>2 DEF HandleDeleteContext, Drop, Goto
  <1>3. ASSUME NEW h \in Handlers, ExecuteDefault(h) PROVE Made'
    BY <1>3 DEF ExecuteDefault, Goto
  <1>4. ASSUME NEW h \in Handlers, HandleCreateContext(h) PROVE Made'
    BY <1>4 DEF HandleCreateContext, Goto
  <1>5. ASSUME NEW h \in Handlers, AdmitContext(h) PROVE Made'
    BY <1>5 DEF AdmitContext, Goto, HasRoom
  <1>6. ASSUME NEW h \in Handlers, RefuseContext(h) PROVE Made'
    BY <1>6 DEF RefuseContext, Respond, Goto, HasRoom
  <1>7. ASSUME NEW h \in Handlers, NEW c \in Contexts, NewSandbox(h, c)
        PROVE Made'
    BY <1>7 DEF NewSandbox, Goto
  <1>8. ASSUME NEW h \in Handlers, NewSandboxFails(h) PROVE Made'
    BY <1>8 DEF NewSandboxFails, Respond, Goto
  <1>9. ASSUME NEW h \in Handlers, Publish(h) PROVE Made'
    BY <1>9 DEF Publish, Respond, Goto, HasRoom
  <1>10. ASSUME NEW h \in Handlers, Overflow(h) PROVE Made'
    BY <1>10 DEF Overflow, Goto, HasRoom
  <1>11. ASSUME NEW h \in Handlers, SetDefault(h) PROVE Made'
    BY <1>11 DEF SetDefault, Goto
  <1>12. ASSUME NEW h \in Handlers, CellReturns(h) PROVE Made'
    BY <1>12 DEF CellReturns, CellEnds, Goto
  <1>13. ASSUME NEW h \in Handlers, CellRetires(h) PROVE Made'
    BY <1>13 DEF CellRetires, CellEnds, Goto
  <1>14. ASSUME NEW h \in Handlers, CellUndecodable(h) PROVE Made'
    BY <1>14 DEF CellUndecodable, CellEnds, Goto
  <1>15. ASSUME NEW h \in Handlers, Touch(h) PROVE Made'
    BY <1>15 DEF Touch, Respond, Goto
  <1>16. ASSUME NEW h \in Handlers, Forget(h) PROVE Made'
    BY <1>16 DEF Forget, Respond, Drop, Goto
  <1>17. ASSUME NEW h \in Handlers, BeginCell(h) PROVE Made'
    BY <1>17 DEF BeginCell, Goto, CanLock
  <1>18. ASSUME NEW h \in Handlers, FindClosed(h) PROVE Made'
    BY <1>18 DEF FindClosed, Goto, CanLock
  <1>19. ASSUME NEW h \in Handlers, FindEngineClosed(h) PROVE Made'
    BY <1>19 DEF FindEngineClosed, SandboxClose, Goto, CanLock
  <1>20. ASSUME NEW h \in Handlers, CloseSandbox(h) PROVE Made'
    BY <1>20 DEF CloseSandbox, Respond, SandboxClose, Goto, CanLock
  <1>21. ASSUME NEW c \in Contexts, Age(c) PROVE Made'
    BY <1>21 DEF Age
  <1>22. ASSUME Reap PROVE Made'
    BY <1>22 DEF Reap, Drop
  <1>23. ASSUME NEW c \in Contexts, ReaperClose(c) PROVE Made'
    BY <1>23 DEF ReaperClose, SandboxClose, CanLock
  <1>24. ASSUME ReaperStop PROVE Made'
    BY <1>24 DEF ReaperStop
  <1>25. ASSUME Shutdown PROVE Made'
    BY <1>25 DEF Shutdown
  <1>26. ASSUME ServerClose PROVE Made'
    BY <1>26 DEF ServerClose
  <1>27. ASSUME AwaitReaper PROVE Made'
    BY <1>27 DEF AwaitReaper
  <1>28. ASSUME NEW c \in Contexts, HostClose(c) PROVE Made'
    BY <1>28 DEF HostClose, SandboxClose, CanLock
  <1>29. ASSUME EngineClose PROVE Made'
    BY <1>29 DEF EngineClose
  <1>30. CASE UNCHANGED vars
    BY <1>30
  <1>31. CASE Exit
    BY <1>31 DEF Exit
  <1>32. QED
    BY <1>1, <1>2, <1>3, <1>4, <1>5, <1>6, <1>7, <1>8, <1>9, <1>10, <1>11,
       <1>12, <1>13, <1>14, <1>15,
       <1>16, <1>17, <1>18, <1>19, <1>20, <1>21, <1>22, <1>23, <1>24, <1>25,
       <1>26, <1>27, <1>28, <1>29, <1>30, <1>31
      DEF Next, Goroutines, Handler, Request, Proceed, RunCode, Reaper, Host,
          Exit, Stop

\* No step puts a context in two places at once.
LEMMA ApartStep ==
  Typed /\ Made /\ Apart
    /\ [Next]_vars => Apart'
  <1> SUFFICES ASSUME Typed, Made, Apart, [Next]_vars
               PROVE  Apart'
    OBVIOUS
  <1> USE SupplyAssumption DEF Typed, TypeOK, Targeted, Steps, Phases,
        ServerClosed, EngineClosed, Made, Apart
  <1>1. ASSUME NEW h \in Handlers, NEW c \in Contexts, HandleExecute(h, c)
        PROVE Apart'
    BY <1>1 DEF HandleExecute, Goto
  <1>2. ASSUME NEW h \in Handlers, NEW c \in Contexts, HandleDeleteContext(h, c)
        PROVE Apart'
    BY <1>2 DEF HandleDeleteContext, Drop, Goto
  <1>3. ASSUME NEW h \in Handlers, ExecuteDefault(h) PROVE Apart'
    BY <1>3 DEF ExecuteDefault, Goto
  <1>4. ASSUME NEW h \in Handlers, HandleCreateContext(h) PROVE Apart'
    BY <1>4 DEF HandleCreateContext, Goto
  <1>5. ASSUME NEW h \in Handlers, AdmitContext(h) PROVE Apart'
    BY <1>5 DEF AdmitContext, Goto, HasRoom
  <1>6. ASSUME NEW h \in Handlers, RefuseContext(h) PROVE Apart'
    BY <1>6 DEF RefuseContext, Respond, Goto, HasRoom
  <1>7. ASSUME NEW h \in Handlers, NEW c \in Contexts, NewSandbox(h, c)
        PROVE Apart'
    BY <1>7 DEF NewSandbox, Goto
  <1>8. ASSUME NEW h \in Handlers, NewSandboxFails(h) PROVE Apart'
    BY <1>8 DEF NewSandboxFails, Respond, Goto
  <1>9. ASSUME NEW h \in Handlers, Publish(h) PROVE Apart'
    BY <1>9 DEF Publish, Respond, Goto, HasRoom
  <1>10. ASSUME NEW h \in Handlers, Overflow(h) PROVE Apart'
    BY <1>10 DEF Overflow, Goto, HasRoom
  <1>11. ASSUME NEW h \in Handlers, SetDefault(h) PROVE Apart'
    BY <1>11 DEF SetDefault, Goto
  <1>12. ASSUME NEW h \in Handlers, CellReturns(h) PROVE Apart'
    BY <1>12 DEF CellReturns, CellEnds, Goto
  <1>13. ASSUME NEW h \in Handlers, CellRetires(h) PROVE Apart'
    BY <1>13 DEF CellRetires, CellEnds, Goto
  <1>14. ASSUME NEW h \in Handlers, CellUndecodable(h) PROVE Apart'
    BY <1>14 DEF CellUndecodable, CellEnds, Goto
  <1>15. ASSUME NEW h \in Handlers, Touch(h) PROVE Apart'
    BY <1>15 DEF Touch, Respond, Goto
  <1>16. ASSUME NEW h \in Handlers, Forget(h) PROVE Apart'
    BY <1>16 DEF Forget, Respond, Drop, Goto
  <1>17. ASSUME NEW h \in Handlers, BeginCell(h) PROVE Apart'
    BY <1>17 DEF BeginCell, Goto, CanLock
  <1>18. ASSUME NEW h \in Handlers, FindClosed(h) PROVE Apart'
    BY <1>18 DEF FindClosed, Goto, CanLock
  <1>19. ASSUME NEW h \in Handlers, FindEngineClosed(h) PROVE Apart'
    BY <1>19 DEF FindEngineClosed, SandboxClose, Goto, CanLock
  <1>20. ASSUME NEW h \in Handlers, CloseSandbox(h) PROVE Apart'
    BY <1>20 DEF CloseSandbox, Respond, SandboxClose, Goto, CanLock
  <1>21. ASSUME NEW c \in Contexts, Age(c) PROVE Apart'
    BY <1>21 DEF Age
  <1>22. ASSUME Reap PROVE Apart'
    BY <1>22 DEF Reap, Drop
  <1>23. ASSUME NEW c \in Contexts, ReaperClose(c) PROVE Apart'
    BY <1>23 DEF ReaperClose, SandboxClose, CanLock
  <1>24. ASSUME ReaperStop PROVE Apart'
    BY <1>24 DEF ReaperStop
  <1>25. ASSUME Shutdown PROVE Apart'
    BY <1>25 DEF Shutdown
  <1>26. ASSUME ServerClose PROVE Apart'
    BY <1>26 DEF ServerClose
  <1>27. ASSUME AwaitReaper PROVE Apart'
    BY <1>27 DEF AwaitReaper
  <1>28. ASSUME NEW c \in Contexts, HostClose(c) PROVE Apart'
    BY <1>28 DEF HostClose, SandboxClose, CanLock
  <1>29. ASSUME EngineClose PROVE Apart'
    BY <1>29 DEF EngineClose
  <1>30. CASE UNCHANGED vars
    BY <1>30
  <1>31. CASE Exit
    BY <1>31 DEF Exit
  <1>32. QED
    BY <1>1, <1>2, <1>3, <1>4, <1>5, <1>6, <1>7, <1>8, <1>9, <1>10, <1>11,
       <1>12, <1>13, <1>14, <1>15,
       <1>16, <1>17, <1>18, <1>19, <1>20, <1>21, <1>22, <1>23, <1>24, <1>25,
       <1>26, <1>27, <1>28, <1>29, <1>30, <1>31
      DEF Next, Goroutines, Handler, Request, Proceed, RunCode, Reaper, Host,
          Exit, Stop

\* No step takes the lock or the interpreter from a running cell.
LEMMA CellsLockedStep ==
  Typed /\ Made /\ Apart /\ CellsLocked
    /\ [Next]_vars => CellsLocked'
  <1> SUFFICES ASSUME Typed, Made, Apart, CellsLocked, [Next]_vars
               PROVE  CellsLocked'
    OBVIOUS
  <1> USE SupplyAssumption DEF Typed, TypeOK, Targeted, Steps, Phases,
        ServerClosed, EngineClosed, Made, Apart, CellsLocked
  <1>1. ASSUME NEW h \in Handlers, NEW c \in Contexts, HandleExecute(h, c)
        PROVE CellsLocked'
    BY <1>1 DEF HandleExecute, Goto
  <1>2. ASSUME NEW h \in Handlers, NEW c \in Contexts, HandleDeleteContext(h, c)
        PROVE CellsLocked'
    BY <1>2 DEF HandleDeleteContext, Drop, Goto
  <1>3. ASSUME NEW h \in Handlers, ExecuteDefault(h) PROVE CellsLocked'
    BY <1>3 DEF ExecuteDefault, Goto
  <1>4. ASSUME NEW h \in Handlers, HandleCreateContext(h) PROVE CellsLocked'
    BY <1>4 DEF HandleCreateContext, Goto
  <1>5. ASSUME NEW h \in Handlers, AdmitContext(h) PROVE CellsLocked'
    BY <1>5 DEF AdmitContext, Goto, HasRoom
  <1>6. ASSUME NEW h \in Handlers, RefuseContext(h) PROVE CellsLocked'
    BY <1>6 DEF RefuseContext, Respond, Goto, HasRoom
  <1>7. ASSUME NEW h \in Handlers, NEW c \in Contexts, NewSandbox(h, c)
        PROVE CellsLocked'
    BY <1>7 DEF NewSandbox, Goto
  <1>8. ASSUME NEW h \in Handlers, NewSandboxFails(h) PROVE CellsLocked'
    BY <1>8 DEF NewSandboxFails, Respond, Goto
  <1>9. ASSUME NEW h \in Handlers, Publish(h) PROVE CellsLocked'
    BY <1>9 DEF Publish, Respond, Goto, HasRoom
  <1>10. ASSUME NEW h \in Handlers, Overflow(h) PROVE CellsLocked'
    BY <1>10 DEF Overflow, Goto, HasRoom
  <1>11. ASSUME NEW h \in Handlers, SetDefault(h) PROVE CellsLocked'
    BY <1>11 DEF SetDefault, Goto
  <1>12. ASSUME NEW h \in Handlers, CellReturns(h) PROVE CellsLocked'
    BY <1>12 DEF CellReturns, CellEnds, Goto
  <1>13. ASSUME NEW h \in Handlers, CellRetires(h) PROVE CellsLocked'
    BY <1>13 DEF CellRetires, CellEnds, Goto
  <1>14. ASSUME NEW h \in Handlers, CellUndecodable(h) PROVE CellsLocked'
    BY <1>14 DEF CellUndecodable, CellEnds, Goto
  <1>15. ASSUME NEW h \in Handlers, Touch(h) PROVE CellsLocked'
    BY <1>15 DEF Touch, Respond, Goto
  <1>16. ASSUME NEW h \in Handlers, Forget(h) PROVE CellsLocked'
    BY <1>16 DEF Forget, Respond, Drop, Goto
  <1>17. ASSUME NEW h \in Handlers, BeginCell(h) PROVE CellsLocked'
    BY <1>17 DEF BeginCell, Goto, CanLock
  <1>18. ASSUME NEW h \in Handlers, FindClosed(h) PROVE CellsLocked'
    BY <1>18 DEF FindClosed, Goto, CanLock
  <1>19. ASSUME NEW h \in Handlers, FindEngineClosed(h) PROVE CellsLocked'
    BY <1>19 DEF FindEngineClosed, SandboxClose, Goto, CanLock
  <1>20. ASSUME NEW h \in Handlers, CloseSandbox(h) PROVE CellsLocked'
    BY <1>20 DEF CloseSandbox, Respond, SandboxClose, Goto, CanLock
  <1>21. ASSUME NEW c \in Contexts, Age(c) PROVE CellsLocked'
    BY <1>21 DEF Age
  <1>22. ASSUME Reap PROVE CellsLocked'
    BY <1>22 DEF Reap, Drop
  <1>23. ASSUME NEW c \in Contexts, ReaperClose(c) PROVE CellsLocked'
    BY <1>23 DEF ReaperClose, SandboxClose, CanLock
  <1>24. ASSUME ReaperStop PROVE CellsLocked'
    BY <1>24 DEF ReaperStop
  <1>25. ASSUME Shutdown PROVE CellsLocked'
    BY <1>25 DEF Shutdown
  <1>26. ASSUME ServerClose PROVE CellsLocked'
    BY <1>26 DEF ServerClose
  <1>27. ASSUME AwaitReaper PROVE CellsLocked'
    BY <1>27 DEF AwaitReaper
  <1>28. ASSUME NEW c \in Contexts, HostClose(c) PROVE CellsLocked'
    BY <1>28 DEF HostClose, SandboxClose, CanLock
  <1>29. ASSUME EngineClose PROVE CellsLocked'
    BY <1>29 DEF EngineClose
  <1>30. CASE UNCHANGED vars
    BY <1>30
  <1>31. CASE Exit
    BY <1>31 DEF Exit
  <1>32. QED
    BY <1>1, <1>2, <1>3, <1>4, <1>5, <1>6, <1>7, <1>8, <1>9, <1>10, <1>11,
       <1>12, <1>13, <1>14, <1>15,
       <1>16, <1>17, <1>18, <1>19, <1>20, <1>21, <1>22, <1>23, <1>24, <1>25,
       <1>26, <1>27, <1>28, <1>29, <1>30, <1>31
      DEF Next, Goroutines, Handler, Request, Proceed, RunCode, Reaper, Host,
          Exit, Stop

\* Types, places and locks are as described in every reachable state.
LEMMA StructureInvariant == Spec => []Structure
  <1>1. Init => Structure
    BY SupplyAssumption DEF Init, Structure, Typed, TypeOK, Targeted, Steps,
       Phases, Made, Apart, CellsLocked, ServerClosed
  <1>2. Structure /\ [Next]_vars => Structure'
    BY TypeStep, MadeStep, ApartStep, CellsLockedStep DEF Structure
  <1>3. QED
    BY <1>1, <1>2, PTL DEF Spec

\* Cells are alone in their interpreter, and nobody closes it under them.
THEOREM CellsIsolated == Spec => []CellIsolation
  <1>1. Structure => CellIsolation
    BY DEF Structure, CellsLocked, CellIsolation
  <1>2. QED
    BY <1>1, StructureInvariant, PTL

-----------------------------------------------------------------------------
(* Live interpreters have an owner, retired ones leave the registry. *)

\* A handler goes to forget with its sandbox closed, and closed is final, or with one
\* that is open and undecoded until it is closed.
LEMMA ForgetStep ==
  Typed /\ Made /\ ForgetAfterClose
    /\ [Next]_vars => ForgetAfterClose'
  <1> SUFFICES ASSUME Typed, Made, ForgetAfterClose, [Next]_vars
               PROVE  ForgetAfterClose'
    OBVIOUS
  <1> USE SupplyAssumption DEF Typed, TypeOK, Targeted, Steps, Phases,
        ServerClosed, EngineClosed, Made, ForgetAfterClose
  <1>1. ASSUME NEW h \in Handlers, NEW c \in Contexts, HandleExecute(h, c)
        PROVE ForgetAfterClose'
    BY <1>1 DEF HandleExecute, Goto
  <1>2. ASSUME NEW h \in Handlers, NEW c \in Contexts, HandleDeleteContext(h, c)
        PROVE ForgetAfterClose'
    BY <1>2 DEF HandleDeleteContext, Drop, Goto
  <1>3. ASSUME NEW h \in Handlers, ExecuteDefault(h) PROVE ForgetAfterClose'
    BY <1>3 DEF ExecuteDefault, Goto
  <1>4. ASSUME NEW h \in Handlers, HandleCreateContext(h)
        PROVE ForgetAfterClose'
    BY <1>4 DEF HandleCreateContext, Goto
  <1>5. ASSUME NEW h \in Handlers, AdmitContext(h) PROVE ForgetAfterClose'
    BY <1>5 DEF AdmitContext, Goto, HasRoom
  <1>6. ASSUME NEW h \in Handlers, RefuseContext(h) PROVE ForgetAfterClose'
    BY <1>6 DEF RefuseContext, Respond, Goto, HasRoom
  <1>7. ASSUME NEW h \in Handlers, NEW c \in Contexts, NewSandbox(h, c)
        PROVE ForgetAfterClose'
    BY <1>7 DEF NewSandbox, Goto
  <1>8. ASSUME NEW h \in Handlers, NewSandboxFails(h) PROVE ForgetAfterClose'
    BY <1>8 DEF NewSandboxFails, Respond, Goto
  <1>9. ASSUME NEW h \in Handlers, Publish(h) PROVE ForgetAfterClose'
    BY <1>9 DEF Publish, Respond, Goto, HasRoom
  <1>10. ASSUME NEW h \in Handlers, Overflow(h) PROVE ForgetAfterClose'
    BY <1>10 DEF Overflow, Goto, HasRoom
  <1>11. ASSUME NEW h \in Handlers, SetDefault(h) PROVE ForgetAfterClose'
    BY <1>11 DEF SetDefault, Goto
  <1>12. ASSUME NEW h \in Handlers, CellReturns(h) PROVE ForgetAfterClose'
    BY <1>12 DEF CellReturns, CellEnds, Goto
  <1>13. ASSUME NEW h \in Handlers, CellRetires(h) PROVE ForgetAfterClose'
    BY <1>13 DEF CellRetires, CellEnds, Goto
  <1>14. ASSUME NEW h \in Handlers, CellUndecodable(h) PROVE ForgetAfterClose'
    BY <1>14 DEF CellUndecodable, CellEnds, Goto
  <1>15. ASSUME NEW h \in Handlers, Touch(h) PROVE ForgetAfterClose'
    BY <1>15 DEF Touch, Respond, Goto
  <1>16. ASSUME NEW h \in Handlers, Forget(h) PROVE ForgetAfterClose'
    BY <1>16 DEF Forget, Respond, Drop, Goto
  <1>17. ASSUME NEW h \in Handlers, BeginCell(h) PROVE ForgetAfterClose'
    BY <1>17 DEF BeginCell, Goto, CanLock
  <1>18. ASSUME NEW h \in Handlers, FindClosed(h) PROVE ForgetAfterClose'
    BY <1>18 DEF FindClosed, Goto, CanLock
  <1>19. ASSUME NEW h \in Handlers, FindEngineClosed(h) PROVE ForgetAfterClose'
    BY <1>19 DEF FindEngineClosed, SandboxClose, Goto, CanLock
  <1>20. ASSUME NEW h \in Handlers, CloseSandbox(h) PROVE ForgetAfterClose'
    BY <1>20 DEF CloseSandbox, Respond, SandboxClose, Goto, CanLock
  <1>21. ASSUME NEW c \in Contexts, Age(c) PROVE ForgetAfterClose'
    BY <1>21 DEF Age
  <1>22. ASSUME Reap PROVE ForgetAfterClose'
    BY <1>22 DEF Reap, Drop
  <1>23. ASSUME NEW c \in Contexts, ReaperClose(c) PROVE ForgetAfterClose'
    BY <1>23 DEF ReaperClose, SandboxClose, CanLock
  <1>24. ASSUME ReaperStop PROVE ForgetAfterClose'
    BY <1>24 DEF ReaperStop
  <1>25. ASSUME Shutdown PROVE ForgetAfterClose'
    BY <1>25 DEF Shutdown
  <1>26. ASSUME ServerClose PROVE ForgetAfterClose'
    BY <1>26 DEF ServerClose
  <1>27. ASSUME AwaitReaper PROVE ForgetAfterClose'
    BY <1>27 DEF AwaitReaper
  <1>28. ASSUME NEW c \in Contexts, HostClose(c) PROVE ForgetAfterClose'
    BY <1>28 DEF HostClose, SandboxClose, CanLock
  <1>29. ASSUME EngineClose PROVE ForgetAfterClose'
    BY <1>29 DEF EngineClose
  <1>30. CASE UNCHANGED vars
    BY <1>30
  <1>31. CASE Exit
    BY <1>31 DEF Exit
  <1>32. QED
    BY <1>1, <1>2, <1>3, <1>4, <1>5, <1>6, <1>7, <1>8, <1>9, <1>10, <1>11,
       <1>12, <1>13, <1>14, <1>15,
       <1>16, <1>17, <1>18, <1>19, <1>20, <1>21, <1>22, <1>23, <1>24, <1>25,
       <1>26, <1>27, <1>28, <1>29, <1>30, <1>31
      DEF Next, Goroutines, Handler, Request, Proceed, RunCode, Reaper, Host,
          Exit, Stop

\* No step loses sight of a live interpreter.
LEMMA OwnedStep ==
  Typed /\ Made /\ Apart /\ ForgetAfterClose /\ DecodedOwned
    /\ [Next]_vars => DecodedOwned'
  <1> SUFFICES ASSUME Typed, Made, Apart, ForgetAfterClose, DecodedOwned, [Next]_vars
               PROVE  DecodedOwned'
    OBVIOUS
  <1> USE SupplyAssumption DEF Typed, TypeOK, Targeted, Steps, Phases,
        ServerClosed, EngineClosed, Made, Apart, ForgetAfterClose,
        DecodedOwned, Owned
  <1>1. ASSUME NEW h \in Handlers, NEW c \in Contexts, HandleExecute(h, c)
        PROVE DecodedOwned'
    BY <1>1 DEF HandleExecute, Goto
  <1>2. ASSUME NEW h \in Handlers, NEW c \in Contexts, HandleDeleteContext(h, c)
        PROVE DecodedOwned'
    BY <1>2 DEF HandleDeleteContext, Drop, Goto
  <1>3. ASSUME NEW h \in Handlers, ExecuteDefault(h) PROVE DecodedOwned'
    BY <1>3 DEF ExecuteDefault, Goto
  <1>4. ASSUME NEW h \in Handlers, HandleCreateContext(h)
        PROVE DecodedOwned'
    BY <1>4 DEF HandleCreateContext, Goto
  <1>5. ASSUME NEW h \in Handlers, AdmitContext(h) PROVE DecodedOwned'
    BY <1>5 DEF AdmitContext, Goto, HasRoom
  <1>6. ASSUME NEW h \in Handlers, RefuseContext(h) PROVE DecodedOwned'
    BY <1>6 DEF RefuseContext, Respond, Goto, HasRoom
  <1>7. ASSUME NEW h \in Handlers, NEW c \in Contexts, NewSandbox(h, c)
        PROVE DecodedOwned'
    BY <1>7 DEF NewSandbox, Goto
  <1>8. ASSUME NEW h \in Handlers, NewSandboxFails(h) PROVE DecodedOwned'
    BY <1>8 DEF NewSandboxFails, Respond, Goto
  <1>9. ASSUME NEW h \in Handlers, Publish(h) PROVE DecodedOwned'
    BY <1>9 DEF Publish, Respond, Goto, HasRoom
  <1>10. ASSUME NEW h \in Handlers, Overflow(h) PROVE DecodedOwned'
    BY <1>10 DEF Overflow, Goto, HasRoom
  <1>11. ASSUME NEW h \in Handlers, SetDefault(h) PROVE DecodedOwned'
    BY <1>11 DEF SetDefault, Goto
  <1>12. ASSUME NEW h \in Handlers, CellReturns(h) PROVE DecodedOwned'
    BY <1>12 DEF CellReturns, CellEnds, Goto
  <1>13. ASSUME NEW h \in Handlers, CellRetires(h) PROVE DecodedOwned'
    BY <1>13 DEF CellRetires, CellEnds, Goto
  <1>14. ASSUME NEW h \in Handlers, CellUndecodable(h) PROVE DecodedOwned'
    BY <1>14 DEF CellUndecodable, CellEnds, Goto
  <1>15. ASSUME NEW h \in Handlers, Touch(h) PROVE DecodedOwned'
    BY <1>15 DEF Touch, Respond, Goto
  <1>16. ASSUME NEW h \in Handlers, Forget(h) PROVE DecodedOwned'
    BY <1>16 DEF Forget, Respond, Drop, Goto
  <1>17. ASSUME NEW h \in Handlers, BeginCell(h) PROVE DecodedOwned'
    BY <1>17 DEF BeginCell, Goto, CanLock
  <1>18. ASSUME NEW h \in Handlers, FindClosed(h) PROVE DecodedOwned'
    BY <1>18 DEF FindClosed, Goto, CanLock
  <1>19. ASSUME NEW h \in Handlers, FindEngineClosed(h) PROVE DecodedOwned'
    BY <1>19 DEF FindEngineClosed, SandboxClose, Goto, CanLock
  <1>20. ASSUME NEW h \in Handlers, CloseSandbox(h) PROVE DecodedOwned'
    BY <1>20 DEF CloseSandbox, Respond, SandboxClose, Goto, CanLock
  <1>21. ASSUME NEW c \in Contexts, Age(c) PROVE DecodedOwned'
    BY <1>21 DEF Age
  <1>22. ASSUME Reap PROVE DecodedOwned'
    BY <1>22 DEF Reap, Drop
  <1>23. ASSUME NEW c \in Contexts, ReaperClose(c) PROVE DecodedOwned'
    BY <1>23 DEF ReaperClose, SandboxClose, CanLock
  <1>24. ASSUME ReaperStop PROVE DecodedOwned'
    BY <1>24 DEF ReaperStop
  <1>25. ASSUME Shutdown PROVE DecodedOwned'
    BY <1>25 DEF Shutdown
  <1>26. ASSUME ServerClose PROVE DecodedOwned'
    BY <1>26 DEF ServerClose
  <1>27. ASSUME AwaitReaper PROVE DecodedOwned'
    BY <1>27 DEF AwaitReaper
  <1>28. ASSUME NEW c \in Contexts, HostClose(c) PROVE DecodedOwned'
    BY <1>28 DEF HostClose, SandboxClose, CanLock
  <1>29. ASSUME EngineClose PROVE DecodedOwned'
    BY <1>29 DEF EngineClose
  <1>30. CASE UNCHANGED vars
    BY <1>30
  <1>31. CASE Exit
    BY <1>31 DEF Exit
  <1>32. QED
    BY <1>1, <1>2, <1>3, <1>4, <1>5, <1>6, <1>7, <1>8, <1>9, <1>10, <1>11,
       <1>12, <1>13, <1>14, <1>15,
       <1>16, <1>17, <1>18, <1>19, <1>20, <1>21, <1>22, <1>23, <1>24, <1>25,
       <1>26, <1>27, <1>28, <1>29, <1>30, <1>31
      DEF Next, Goroutines, Handler, Request, Proceed, RunCode, Reaper, Host,
          Exit, Stop

\* And so is the ownership of live interpreters.
LEMMA OwnershipInvariant == Spec => []Ownership
  <1>1. Init => Ownership
    BY SupplyAssumption DEF Init, Ownership, Structure, Typed, TypeOK, Targeted,
       Steps, Phases, Made, Apart, CellsLocked, ServerClosed, ForgetAfterClose,
       DecodedOwned
  <1>2. Ownership /\ [Next]_vars => Ownership'
    BY TypeStep, MadeStep, ApartStep, CellsLockedStep, ForgetStep, OwnedStep
       DEF Ownership, Structure
  <1>3. QED
    BY <1>1, <1>2, PTL DEF Spec

\* No order of deletes, sweeps, failures and shutdown loses a live interpreter, but
\* for one whose result could not be decoded.
THEOREM SandboxesOwned == Spec => []DecodedOwned
  <1>1. Ownership => DecodedOwned
    BY DEF Ownership
  <1>2. QED
    BY <1>1, OwnershipInvariant, PTL

\* No step leaves a retired interpreter in the registry for long.
LEMMA DeadStep ==
  Typed /\ Made /\ Apart /\ CellsLocked /\ DeadContextForgotten
    /\ [Next]_vars => DeadContextForgotten'
  <1> SUFFICES ASSUME Typed, Made, Apart, CellsLocked, DeadContextForgotten, [Next]_vars
               PROVE  DeadContextForgotten'
    OBVIOUS
  <1> USE SupplyAssumption DEF Typed, TypeOK, Targeted, Steps, Phases,
        ServerClosed, EngineClosed, Made, Apart, CellsLocked,
        DeadContextForgotten
  <1>1. ASSUME NEW h \in Handlers, NEW c \in Contexts, HandleExecute(h, c)
        PROVE DeadContextForgotten'
    BY <1>1 DEF HandleExecute, Goto
  <1>2. ASSUME NEW h \in Handlers, NEW c \in Contexts, HandleDeleteContext(h, c)
        PROVE DeadContextForgotten'
    BY <1>2 DEF HandleDeleteContext, Drop, Goto
  <1>3. ASSUME NEW h \in Handlers, ExecuteDefault(h) PROVE DeadContextForgotten'
    BY <1>3 DEF ExecuteDefault, Goto
  <1>4. ASSUME NEW h \in Handlers, HandleCreateContext(h)
        PROVE DeadContextForgotten'
    BY <1>4 DEF HandleCreateContext, Goto
  <1>5. ASSUME NEW h \in Handlers, AdmitContext(h) PROVE DeadContextForgotten'
    BY <1>5 DEF AdmitContext, Goto, HasRoom
  <1>6. ASSUME NEW h \in Handlers, RefuseContext(h) PROVE DeadContextForgotten'
    BY <1>6 DEF RefuseContext, Respond, Goto, HasRoom
  <1>7. ASSUME NEW h \in Handlers, NEW c \in Contexts, NewSandbox(h, c)
        PROVE DeadContextForgotten'
    BY <1>7 DEF NewSandbox, Goto
  <1>8. ASSUME NEW h \in Handlers, NewSandboxFails(h)
        PROVE DeadContextForgotten'
    BY <1>8 DEF NewSandboxFails, Respond, Goto
  <1>9. ASSUME NEW h \in Handlers, Publish(h) PROVE DeadContextForgotten'
    BY <1>9 DEF Publish, Respond, Goto, HasRoom
  <1>10. ASSUME NEW h \in Handlers, Overflow(h) PROVE DeadContextForgotten'
    BY <1>10 DEF Overflow, Goto, HasRoom
  <1>11. ASSUME NEW h \in Handlers, SetDefault(h) PROVE DeadContextForgotten'
    BY <1>11 DEF SetDefault, Goto
  <1>12. ASSUME NEW h \in Handlers, CellReturns(h) PROVE DeadContextForgotten'
    BY <1>12 DEF CellReturns, CellEnds, Goto
  <1>13. ASSUME NEW h \in Handlers, CellRetires(h) PROVE DeadContextForgotten'
    BY <1>13 DEF CellRetires, CellEnds, Goto
  <1>14. ASSUME NEW h \in Handlers, CellUndecodable(h)
         PROVE DeadContextForgotten'
    BY <1>14 DEF CellUndecodable, CellEnds, Goto
  <1>15. ASSUME NEW h \in Handlers, Touch(h) PROVE DeadContextForgotten'
    BY <1>15 DEF Touch, Respond, Goto
  <1>16. ASSUME NEW h \in Handlers, Forget(h) PROVE DeadContextForgotten'
    BY <1>16 DEF Forget, Respond, Drop, Goto
  <1>17. ASSUME NEW h \in Handlers, BeginCell(h) PROVE DeadContextForgotten'
    BY <1>17 DEF BeginCell, Goto, CanLock
  <1>18. ASSUME NEW h \in Handlers, FindClosed(h) PROVE DeadContextForgotten'
    BY <1>18 DEF FindClosed, Goto, CanLock
  <1>19. ASSUME NEW h \in Handlers, FindEngineClosed(h)
         PROVE DeadContextForgotten'
    BY <1>19 DEF FindEngineClosed, SandboxClose, Goto, CanLock
  <1>20. ASSUME NEW h \in Handlers, CloseSandbox(h) PROVE DeadContextForgotten'
    BY <1>20 DEF CloseSandbox, Respond, SandboxClose, Goto, CanLock
  <1>21. ASSUME NEW c \in Contexts, Age(c) PROVE DeadContextForgotten'
    BY <1>21 DEF Age
  <1>22. ASSUME Reap PROVE DeadContextForgotten'
    BY <1>22 DEF Reap, Drop
  <1>23. ASSUME NEW c \in Contexts, ReaperClose(c) PROVE DeadContextForgotten'
    BY <1>23 DEF ReaperClose, SandboxClose, CanLock
  <1>24. ASSUME ReaperStop PROVE DeadContextForgotten'
    BY <1>24 DEF ReaperStop
  <1>25. ASSUME Shutdown PROVE DeadContextForgotten'
    BY <1>25 DEF Shutdown
  <1>26. ASSUME ServerClose PROVE DeadContextForgotten'
    BY <1>26 DEF ServerClose
  <1>27. ASSUME AwaitReaper PROVE DeadContextForgotten'
    BY <1>27 DEF AwaitReaper
  <1>28. ASSUME NEW c \in Contexts, HostClose(c) PROVE DeadContextForgotten'
    BY <1>28 DEF HostClose, SandboxClose, CanLock
  <1>29. ASSUME EngineClose PROVE DeadContextForgotten'
    BY <1>29 DEF EngineClose
  <1>30. CASE UNCHANGED vars
    BY <1>30
  <1>31. CASE Exit
    BY <1>31 DEF Exit
  <1>32. QED
    BY <1>1, <1>2, <1>3, <1>4, <1>5, <1>6, <1>7, <1>8, <1>9, <1>10, <1>11,
       <1>12, <1>13, <1>14, <1>15,
       <1>16, <1>17, <1>18, <1>19, <1>20, <1>21, <1>22, <1>23, <1>24, <1>25,
       <1>26, <1>27, <1>28, <1>29, <1>30, <1>31
      DEF Next, Goroutines, Handler, Request, Proceed, RunCode, Reaper, Host,
          Exit, Stop

\* A context whose interpreter was retired is registered only while the
\* handler that is to forget it has not done so.
THEOREM DeadForgotten == Spec => []DeadContextForgotten
  <1>1. Init => DeadContextForgotten
    BY DEF Init, DeadContextForgotten
  <1>2. Structure /\ DeadContextForgotten /\ [Next]_vars => DeadContextForgotten'
    BY DeadStep DEF Structure
  <1>3. QED
    BY <1>1, <1>2, StructureInvariant, PTL DEF Spec

-----------------------------------------------------------------------------
(* The default context, and the shutdown. *)

\* No request replaces a default that is still registered.
THEOREM DefaultIsStable == Spec => DefaultStable
  <1>1. Typed /\ [Next]_vars =>
          [\A c \in contexts \cap contexts' : defaultID = c => defaultID' = c]_vars
    <2> SUFFICES ASSUME Typed, [Next]_vars, NEW c \in contexts \cap contexts',
                        defaultID = c
                 PROVE  defaultID' = c
      OBVIOUS
    <2> QED
      BY SupplyAssumption DEF Typed, TypeOK, Next, Goroutines, Exit, Handler,
        Request, Proceed, RunCode, Reaper, Host, Stop, CellEnds, Drop, HandleExecute,
        HandleDeleteContext, ExecuteDefault, HandleCreateContext, AdmitContext,
        RefuseContext, NewSandbox, NewSandboxFails, Publish, Overflow,
        SetDefault, CellReturns, CellRetires, CellUndecodable, Touch, Forget,
        BeginCell, FindClosed, FindEngineClosed, CloseSandbox, Age, Reap,
        ReaperClose, ReaperStop, Shutdown, ServerClose, AwaitReaper, HostClose,
        EngineClose
  <1>2. Init => Typed
    BY SupplyAssumption DEF Init, Typed, TypeOK, Targeted, Steps, Phases
  <1>3. QED
    BY <1>1, <1>2, TypeStep, PTL DEF Spec, DefaultStable

\* The shutdown goes through its phases in order.
LEMMA ShutdownStep ==
  Typed /\ ShutdownOrder
    /\ [Next]_vars => ShutdownOrder'
  <1> SUFFICES ASSUME Typed, ShutdownOrder, [Next]_vars
               PROVE  ShutdownOrder'
    OBVIOUS
  <1> USE SupplyAssumption DEF Typed, TypeOK, Targeted, Steps, Phases,
        ServerClosed, EngineClosed, ShutdownOrder
  <1>1. ASSUME NEW h \in Handlers, NEW c \in Contexts, HandleExecute(h, c)
        PROVE ShutdownOrder'
    BY <1>1 DEF HandleExecute, Goto
  <1>2. ASSUME NEW h \in Handlers, NEW c \in Contexts, HandleDeleteContext(h, c)
        PROVE ShutdownOrder'
    BY <1>2 DEF HandleDeleteContext, Drop, Goto
  <1>3. ASSUME NEW h \in Handlers, ExecuteDefault(h) PROVE ShutdownOrder'
    BY <1>3 DEF ExecuteDefault, Goto
  <1>4. ASSUME NEW h \in Handlers, HandleCreateContext(h) PROVE ShutdownOrder'
    BY <1>4 DEF HandleCreateContext, Goto
  <1>5. ASSUME NEW h \in Handlers, AdmitContext(h) PROVE ShutdownOrder'
    BY <1>5 DEF AdmitContext, Goto, HasRoom
  <1>6. ASSUME NEW h \in Handlers, RefuseContext(h) PROVE ShutdownOrder'
    BY <1>6 DEF RefuseContext, Respond, Goto, HasRoom
  <1>7. ASSUME NEW h \in Handlers, NEW c \in Contexts, NewSandbox(h, c)
        PROVE ShutdownOrder'
    BY <1>7 DEF NewSandbox, Goto
  <1>8. ASSUME NEW h \in Handlers, NewSandboxFails(h) PROVE ShutdownOrder'
    BY <1>8 DEF NewSandboxFails, Respond, Goto
  <1>9. ASSUME NEW h \in Handlers, Publish(h) PROVE ShutdownOrder'
    BY <1>9 DEF Publish, Respond, Goto, HasRoom
  <1>10. ASSUME NEW h \in Handlers, Overflow(h) PROVE ShutdownOrder'
    BY <1>10 DEF Overflow, Goto, HasRoom
  <1>11. ASSUME NEW h \in Handlers, SetDefault(h) PROVE ShutdownOrder'
    BY <1>11 DEF SetDefault, Goto
  <1>12. ASSUME NEW h \in Handlers, CellReturns(h) PROVE ShutdownOrder'
    BY <1>12 DEF CellReturns, CellEnds, Goto
  <1>13. ASSUME NEW h \in Handlers, CellRetires(h) PROVE ShutdownOrder'
    BY <1>13 DEF CellRetires, CellEnds, Goto
  <1>14. ASSUME NEW h \in Handlers, CellUndecodable(h) PROVE ShutdownOrder'
    BY <1>14 DEF CellUndecodable, CellEnds, Goto
  <1>15. ASSUME NEW h \in Handlers, Touch(h) PROVE ShutdownOrder'
    BY <1>15 DEF Touch, Respond, Goto
  <1>16. ASSUME NEW h \in Handlers, Forget(h) PROVE ShutdownOrder'
    BY <1>16 DEF Forget, Respond, Drop, Goto
  <1>17. ASSUME NEW h \in Handlers, BeginCell(h) PROVE ShutdownOrder'
    BY <1>17 DEF BeginCell, Goto, CanLock
  <1>18. ASSUME NEW h \in Handlers, FindClosed(h) PROVE ShutdownOrder'
    BY <1>18 DEF FindClosed, Goto, CanLock
  <1>19. ASSUME NEW h \in Handlers, FindEngineClosed(h) PROVE ShutdownOrder'
    BY <1>19 DEF FindEngineClosed, SandboxClose, Goto, CanLock
  <1>20. ASSUME NEW h \in Handlers, CloseSandbox(h) PROVE ShutdownOrder'
    BY <1>20 DEF CloseSandbox, Respond, SandboxClose, Goto, CanLock
  <1>21. ASSUME NEW c \in Contexts, Age(c) PROVE ShutdownOrder'
    BY <1>21 DEF Age
  <1>22. ASSUME Reap PROVE ShutdownOrder'
    BY <1>22 DEF Reap, Drop
  <1>23. ASSUME NEW c \in Contexts, ReaperClose(c) PROVE ShutdownOrder'
    BY <1>23 DEF ReaperClose, SandboxClose, CanLock
  <1>24. ASSUME ReaperStop PROVE ShutdownOrder'
    BY <1>24 DEF ReaperStop
  <1>25. ASSUME Shutdown PROVE ShutdownOrder'
    BY <1>25 DEF Shutdown
  <1>26. ASSUME ServerClose PROVE ShutdownOrder'
    BY <1>26 DEF ServerClose
  <1>27. ASSUME AwaitReaper PROVE ShutdownOrder'
    BY <1>27 DEF AwaitReaper
  <1>28. ASSUME NEW c \in Contexts, HostClose(c) PROVE ShutdownOrder'
    BY <1>28 DEF HostClose, SandboxClose, CanLock
  <1>29. ASSUME EngineClose PROVE ShutdownOrder'
    BY <1>29 DEF EngineClose
  <1>30. CASE UNCHANGED vars
    BY <1>30
  <1>31. CASE Exit
    BY <1>31 DEF Exit
  <1>32. QED
    BY <1>1, <1>2, <1>3, <1>4, <1>5, <1>6, <1>7, <1>8, <1>9, <1>10, <1>11,
       <1>12, <1>13, <1>14, <1>15,
       <1>16, <1>17, <1>18, <1>19, <1>20, <1>21, <1>22, <1>23, <1>24, <1>25,
       <1>26, <1>27, <1>28, <1>29, <1>30, <1>31
      DEF Next, Goroutines, Handler, Request, Proceed, RunCode, Reaper, Host,
          Exit, Stop

\* The Engine is closed after every sandbox that is not in the hands of a
\* handler still in flight, however the shutdown races with requests.
THEOREM EngineClosesAfterOthers == Spec => []LeftToHandlers
  <1>1. Init => ShutdownOrder
    BY DEF Init, ShutdownOrder, ServerClosed, EngineClosed
  <1>2. Ownership => Typed
    BY DEF Ownership, Structure
  <1>3. Ownership /\ ShutdownOrder => LeftToHandlers
    BY DEF Ownership, Structure, Apart, ShutdownOrder, DecodedOwned, Owned,
       LeftToHandlers, EngineClosed, ServerClosed
  <1>4. QED
    BY <1>1, <1>2, <1>3, ShutdownStep, OwnershipInvariant, PTL DEF Spec

-----------------------------------------------------------------------------
(* The server implements ContextLifecycle. *)

\* The contexts of the abstract registry are those of the concrete one.
LEMMA RegisteredIsContexts ==
  ASSUME Typed, Made PROVE Lifecycle!Registered = contexts
  BY DEF Typed, TypeOK, Made, Lifecycle!Registered, PhaseOf, Standing

\* A step that moves one context and leaves the others and the server's life
\* alone is a Move of the abstract specification.
LEMMA OneMoves ==
  ASSUME NEW c \in Contexts, NEW from, NEW to,
         Standing(c) = from, Standing(c)' = to,
         \A d \in Contexts \ {c} : Standing(d)' = Standing(d),
         ServerClosed' = ServerClosed
  PROVE  Lifecycle!Move(c, from, to)
  BY DEF Lifecycle!Move, PhaseOf

\* A step that moves no context maps to a stutter.
LEMMA NoneMoves ==
  ASSUME \A d \in Contexts : Standing(d)' = Standing(d), ServerClosed' = ServerClosed
  PROVE  UNCHANGED Lifecycle!vars
  BY DEF Lifecycle!vars, PhaseOf

\* What the steps leave alone: the standing of a context depends on its
\* sandbox, its registration and the handlers about to publish it.
LEMMA StandingFrame ==
  ASSUME NEW d \in Contexts, sandbox'[d] = sandbox[d],
         d \in contexts <=> d \in contexts', Fresh(d) <=> Fresh(d)'
  PROVE  Standing(d)' = Standing(d)
  BY DEF Standing

\* Steps that only pass requests on, age contexts or wait.
LEMMA StutterStep ==
  ASSUME Typed, Made, Apart, CellsLocked
  PROVE  /\ \A h \in Handlers :
             \/ ExecuteDefault(h) \/ HandleCreateContext(h) \/ AdmitContext(h)
             \/ RefuseContext(h) \/ NewSandboxFails(h) \/ SetDefault(h)
             \/ CellReturns(h) \/ CellUndecodable(h) \/ Touch(h)
             \/ BeginCell(h) \/ FindClosed(h)
             \/ (\E c \in Contexts : HandleExecute(h, c))
             => UNCHANGED Lifecycle!vars
         /\ (\E c \in Contexts : Age(c)) \/ ReaperStop \/ Shutdown \/ AwaitReaper
              \/ EngineClose \/ Exit \/ UNCHANGED vars
            => UNCHANGED Lifecycle!vars
  <1> USE DEF Typed, TypeOK, Targeted, Steps, Phases
  <1> DEFINE Frame == /\ sandbox' = sandbox /\ contexts' = contexts
                      /\ \A d \in Contexts : Fresh(d) <=> Fresh(d)'
                      /\ ServerClosed' = ServerClosed
  <1>1. Frame => UNCHANGED Lifecycle!vars
    BY StandingFrame, NoneMoves
  <1>2. ASSUME NEW h \in Handlers, NEW c \in Contexts, HandleExecute(h, c)
        PROVE Frame
    BY <1>2 DEF HandleExecute, Goto, Fresh, ServerClosed
  <1>3. ASSUME NEW h \in Handlers, ExecuteDefault(h) PROVE Frame
    BY <1>3 DEF ExecuteDefault, Goto, Fresh, ServerClosed
  <1>4. ASSUME NEW h \in Handlers, HandleCreateContext(h) PROVE Frame
    BY <1>4 DEF HandleCreateContext, Goto, Fresh, ServerClosed
  <1>5. ASSUME NEW h \in Handlers, AdmitContext(h) PROVE Frame
    BY <1>5 DEF AdmitContext, Goto, Fresh, ServerClosed
  <1>6. ASSUME NEW h \in Handlers, RefuseContext(h) PROVE Frame
    BY <1>6 DEF RefuseContext, Respond, Goto, Fresh, ServerClosed
  <1>7. ASSUME NEW h \in Handlers, NewSandboxFails(h) PROVE Frame
    BY <1>7 DEF NewSandboxFails, Respond, Goto, Fresh, ServerClosed
  <1>8. ASSUME NEW h \in Handlers, SetDefault(h) PROVE Frame
    BY <1>8 DEF SetDefault, Goto, Fresh, ServerClosed
  <1>9. ASSUME NEW h \in Handlers, CellReturns(h) PROVE Frame
    BY <1>9 DEF CellReturns, CellEnds, Goto, Fresh, ServerClosed
  <1>10. ASSUME NEW h \in Handlers, CellUndecodable(h) PROVE Frame
    BY <1>10 DEF CellUndecodable, CellEnds, Goto, Fresh, ServerClosed
  <1>11. ASSUME NEW h \in Handlers, Touch(h) PROVE Frame
    BY <1>11 DEF Touch, Respond, Goto, Fresh, ServerClosed
  <1>12. ASSUME NEW h \in Handlers, BeginCell(h) PROVE Frame
    BY <1>12 DEF BeginCell, Goto, Fresh, ServerClosed
  <1>13. ASSUME NEW h \in Handlers, FindClosed(h) PROVE Frame
    BY <1>13 DEF FindClosed, Goto, Fresh, ServerClosed
  <1>14. ASSUME NEW c \in Contexts, Age(c) PROVE Frame
    BY <1>14 DEF Age, Fresh, ServerClosed
  <1>15. ASSUME ReaperStop PROVE Frame
    BY <1>15 DEF ReaperStop, Fresh, ServerClosed
  <1>16. ASSUME Shutdown PROVE Frame
    BY <1>16 DEF Shutdown, Fresh, ServerClosed
  <1>17. ASSUME AwaitReaper PROVE Frame
    BY <1>17 DEF AwaitReaper, Fresh, ServerClosed
  <1>18. ASSUME EngineClose PROVE Frame
    BY <1>18 DEF EngineClose, Fresh, ServerClosed
  <1>19. UNCHANGED vars \/ Exit => Frame
    BY DEF Exit, Fresh, ServerClosed
  <1> HIDE DEF Frame
  <1>20. QED
    BY <1>1, <1>2, <1>3, <1>4, <1>5, <1>6, <1>7, <1>8, <1>9, <1>10, <1>11,
      <1>12, <1>13, <1>14, <1>15, <1>16, <1>17, <1>18, <1>19

\* NewSandbox makes a fresh context.
LEMMA CreateStep ==
  ASSUME Typed, Made, Apart, CellsLocked,
         NEW h \in Handlers, NEW c \in Contexts, NewSandbox(h, c)
  PROVE  Lifecycle!Create(c)
  <1>1. /\ ServerClosed' = ServerClosed
        /\ \A d \in Contexts \ {c} :
             /\ sandbox'[d] = sandbox[d]
             /\ d \in contexts <=> d \in contexts'
             /\ Fresh(d) <=> Fresh(d)'
    BY SupplyAssumption DEF Typed, TypeOK, Targeted, Made, Apart, CellsLocked,
       ServerClosed, Fresh,
       NewSandbox, Goto
  <1>2. \A d \in Contexts \ {c} : Standing(d)' = Standing(d)
    BY <1>1, StandingFrame
  <1>3. /\ sandbox[c] = "absent"
        /\ sandbox'[c] = "open" /\ c \notin contexts' /\ Fresh(c)'
    BY SupplyAssumption DEF Typed, TypeOK, Targeted, Made, Apart, CellsLocked,
       Fresh,
       NewSandbox, Goto
  <1>4. Standing(c) = "absent" /\ Standing(c)' = "fresh"
    BY <1>3 DEF Standing
  <1>5. Lifecycle!Move(c, "absent", "fresh")
    BY <1>1, <1>2, <1>4, OneMoves
  <1>6. QED
    BY <1>5 DEF Lifecycle!Create

\* The abstract module counts as this one does.
LEMMA SameCardinality ==
  ASSUME NEW S PROVE Lifecycle!Cardinality(S) = Cardinality(S)
  BY DEF Lifecycle!Cardinality, Cardinality

\* Publish registers it: there is room, and the server is not shut.
LEMMA RegisterStep ==
  ASSUME Typed, Made, Apart, CellsLocked,
         NEW h \in Handlers, NEW c \in Contexts, target[h] = c, Publish(h)
  PROVE  Lifecycle!Register(c)
  <1>1. /\ ServerClosed' = ServerClosed
        /\ \A d \in Contexts \ {c} :
             /\ sandbox'[d] = sandbox[d]
             /\ d \in contexts <=> d \in contexts'
             /\ Fresh(d) <=> Fresh(d)'
    BY SupplyAssumption DEF Typed, TypeOK, Targeted, Made, Apart, CellsLocked,
       ServerClosed, Fresh,
       Publish, Respond, Goto, HasRoom
  <1>2. \A d \in Contexts \ {c} : Standing(d)' = Standing(d)
    BY <1>1, StandingFrame
  <1>3. /\ sandbox[c] = "open" /\ c \notin contexts /\ Fresh(c)
        /\ sandbox'[c] = "open" /\ c \in contexts'
    BY SupplyAssumption DEF Typed, TypeOK, Targeted, Made, Apart, CellsLocked,
       Fresh,
       Publish, Respond, Goto, HasRoom
  <1>4. Standing(c) = "fresh" /\ Standing(c)' = "registered"
    BY <1>3 DEF Standing
  <1>5. Lifecycle!Move(c, "fresh", "registered")
    BY <1>1, <1>2, <1>4, OneMoves
  <1>6. QED
    BY <1>5, RegisteredIsContexts, SameCardinality DEF Lifecycle!Register,
       Publish, HasRoom

\* A context that found no room is retired.
LEMMA DiscardStep ==
  ASSUME Typed, Made, Apart, CellsLocked,
         NEW h \in Handlers, NEW c \in Contexts, target[h] = c, Overflow(h)
  PROVE  Lifecycle!Discard(c)
  <1>1. /\ ServerClosed' = ServerClosed
        /\ \A d \in Contexts \ {c} :
             /\ sandbox'[d] = sandbox[d]
             /\ d \in contexts <=> d \in contexts'
             /\ Fresh(d) <=> Fresh(d)'
    BY SupplyAssumption DEF Typed, TypeOK, Targeted, Made, Apart, CellsLocked,
       ServerClosed, Fresh,
       Overflow, Goto, HasRoom
  <1>2. \A d \in Contexts \ {c} : Standing(d)' = Standing(d)
    BY <1>1, StandingFrame
  <1>3. /\ sandbox[c] = "open" /\ c \notin contexts /\ Fresh(c)
        /\ sandbox'[c] = "open" /\ c \notin contexts' /\ ~Fresh(c)'
    BY SupplyAssumption DEF Typed, TypeOK, Targeted, Made, Apart, CellsLocked,
       Fresh,
       Overflow, Goto, HasRoom
  <1>4. Standing(c) = "fresh" /\ Standing(c)' = "retired"
    BY <1>3 DEF Standing
  <1>5. Lifecycle!Move(c, "fresh", "retired")
    BY <1>1, <1>2, <1>4, OneMoves
  <1>6. QED
    BY <1>5 DEF Lifecycle!Discard

\* A cell that fails retires its context, whether or not it is still registered.
LEMMA TrapStep ==
  ASSUME Typed, Made, Apart, CellsLocked,
         NEW h \in Handlers, NEW c \in Contexts, target[h] = c, CellRetires(h)
  PROVE  Lifecycle!Trap(c)
  <1>1. /\ ServerClosed' = ServerClosed
        /\ \A d \in Contexts \ {c} :
             /\ sandbox'[d] = sandbox[d]
             /\ d \in contexts <=> d \in contexts'
             /\ Fresh(d) <=> Fresh(d)'
    BY SupplyAssumption DEF Typed, TypeOK, Targeted, Made, Apart, CellsLocked,
       ServerClosed, Fresh,
       CellRetires, CellEnds, Goto
  <1>2. \A d \in Contexts \ {c} : Standing(d)' = Standing(d)
    BY <1>1, StandingFrame
  <1>3. CASE c \in contexts
    <2>1. /\ sandbox[c] = "open"
          /\ sandbox'[c] = "closed" /\ c \in contexts'
      BY <1>3, SupplyAssumption DEF Typed, TypeOK, Targeted, Made, Apart,
         CellsLocked, Fresh,
         CellRetires, CellEnds, Goto
    <2>2. Standing(c) = "registered" /\ Standing(c)' = "dead"
      BY <1>3, <2>1 DEF Standing
    <2>3. QED
      BY <1>1, <1>2, <2>2, OneMoves DEF Lifecycle!Trap
  <1>4. CASE c \notin contexts
    <2>1. /\ sandbox[c] = "open" /\ ~Fresh(c)
          /\ sandbox'[c] = "closed" /\ c \notin contexts'
      BY <1>4, SupplyAssumption DEF Typed, TypeOK, Targeted, Made, Apart,
         CellsLocked, Fresh,
         CellRetires, CellEnds, Goto
    <2>2. Standing(c) = "retired" /\ Standing(c)' = "closed"
      BY <1>4, <2>1 DEF Standing
    <2>3. QED
      BY <1>1, <1>2, <2>2, OneMoves DEF Lifecycle!Trap
  <1>5. QED
    BY <1>3, <1>4 DEF Targeted, Typed, TypeOK

\* So does a cell that finds the engine closed.
LEMMA EngineTrapStep ==
  ASSUME Typed, Made, Apart, CellsLocked,
         NEW h \in Handlers, NEW c \in Contexts, target[h] = c, FindEngineClosed(h)
  PROVE  Lifecycle!Trap(c)
  <1>1. /\ ServerClosed' = ServerClosed
        /\ \A d \in Contexts \ {c} :
             /\ sandbox'[d] = sandbox[d]
             /\ d \in contexts <=> d \in contexts'
             /\ Fresh(d) <=> Fresh(d)'
    BY SupplyAssumption DEF Typed, TypeOK, Targeted, Made, Apart, CellsLocked,
       ServerClosed, Fresh,
       FindEngineClosed, SandboxClose, Goto, CanLock
  <1>2. \A d \in Contexts \ {c} : Standing(d)' = Standing(d)
    BY <1>1, StandingFrame
  <1>3. CASE c \in contexts
    <2>1. /\ sandbox[c] = "open"
          /\ sandbox'[c] = "closed" /\ c \in contexts'
      BY <1>3, SupplyAssumption DEF Typed, TypeOK, Targeted, Made, Apart,
         CellsLocked, Fresh,
         FindEngineClosed, SandboxClose, Goto, CanLock
    <2>2. Standing(c) = "registered" /\ Standing(c)' = "dead"
      BY <1>3, <2>1 DEF Standing
    <2>3. QED
      BY <1>1, <1>2, <2>2, OneMoves DEF Lifecycle!Trap
  <1>4. CASE c \notin contexts
    <2>1. /\ sandbox[c] = "open" /\ ~Fresh(c)
          /\ sandbox'[c] = "closed" /\ c \notin contexts'
      BY <1>4, SupplyAssumption DEF Typed, TypeOK, Targeted, Made, Apart,
         CellsLocked, Fresh,
         FindEngineClosed, SandboxClose, Goto, CanLock
    <2>2. Standing(c) = "retired" /\ Standing(c)' = "closed"
      BY <1>4, <2>1 DEF Standing
    <2>3. QED
      BY <1>1, <1>2, <2>2, OneMoves DEF Lifecycle!Trap
  <1>5. QED
    BY <1>3, <1>4 DEF Targeted, Typed, TypeOK

\* A handler closes what it withdrew, unless a failing cell did so before.
LEMMA CloseStep ==
  ASSUME Typed, Made, Apart, CellsLocked,
         NEW h \in Handlers, NEW c \in Contexts, target[h] = c, CloseSandbox(h)
  PROVE  Lifecycle!Close(c) \/ UNCHANGED Lifecycle!vars
  <1>1. /\ ServerClosed' = ServerClosed
        /\ \A d \in Contexts \ {c} :
             /\ sandbox'[d] = sandbox[d]
             /\ d \in contexts <=> d \in contexts'
             /\ Fresh(d) <=> Fresh(d)'
    BY SupplyAssumption DEF Typed, TypeOK, Targeted, Made, Apart, CellsLocked,
       ServerClosed, Fresh,
       CloseSandbox, Respond, SandboxClose, Goto, CanLock
  <1>2. \A d \in Contexts \ {c} : Standing(d)' = Standing(d)
    BY <1>1, StandingFrame
  <1>3. CASE sandbox[c] = "open"
    <2>1. /\ c \notin contexts /\ ~Fresh(c)
          /\ sandbox'[c] = "closed" /\ c \notin contexts'
      BY <1>3, SupplyAssumption DEF Typed, TypeOK, Targeted, Made, Apart,
         CellsLocked, Fresh,
         CloseSandbox, Respond, SandboxClose, Goto, CanLock
    <2>2. Standing(c) = "retired" /\ Standing(c)' = "closed"
      BY <1>3, <2>1 DEF Standing
    <2>3. QED
      BY <1>1, <1>2, <2>2, OneMoves DEF Lifecycle!Close
  <1>4. CASE sandbox[c] = "closed"
    <2>1. /\ c \notin contexts
          /\ sandbox'[c] = "closed" /\ c \notin contexts'
      BY <1>4, SupplyAssumption DEF Typed, TypeOK, Targeted, Made, Apart,
         CellsLocked, Fresh,
         CloseSandbox, Respond, SandboxClose, Goto, CanLock
    <2>2. Standing(c) = "closed" /\ Standing(c)' = "closed"
      BY <1>4, <2>1 DEF Standing
    <2>3. QED
      BY <1>1, <1>2, <2>2, NoneMoves
  <1>5. QED
    BY <1>3, <1>4 DEF Targeted, Typed, TypeOK, Made, Apart, CloseSandbox

\* So does the reaper.
LEMMA ReaperCloseStep ==
  ASSUME Typed, Made, Apart, CellsLocked,
         NEW c \in Contexts, ReaperClose(c)
  PROVE  Lifecycle!Close(c) \/ UNCHANGED Lifecycle!vars
  <1>1. /\ ServerClosed' = ServerClosed
        /\ \A d \in Contexts \ {c} :
             /\ sandbox'[d] = sandbox[d]
             /\ d \in contexts <=> d \in contexts'
             /\ Fresh(d) <=> Fresh(d)'
    BY SupplyAssumption DEF Typed, TypeOK, Targeted, Made, Apart, CellsLocked,
       ServerClosed, Fresh,
       ReaperClose, SandboxClose, CanLock
  <1>2. \A d \in Contexts \ {c} : Standing(d)' = Standing(d)
    BY <1>1, StandingFrame
  <1>3. CASE sandbox[c] = "open"
    <2>1. /\ c \notin contexts /\ ~Fresh(c)
          /\ sandbox'[c] = "closed" /\ c \notin contexts'
      BY <1>3, SupplyAssumption DEF Typed, TypeOK, Targeted, Made, Apart,
         CellsLocked, Fresh,
         ReaperClose, SandboxClose, CanLock
    <2>2. Standing(c) = "retired" /\ Standing(c)' = "closed"
      BY <1>3, <2>1 DEF Standing
    <2>3. QED
      BY <1>1, <1>2, <2>2, OneMoves DEF Lifecycle!Close
  <1>4. CASE sandbox[c] = "closed"
    <2>1. /\ c \notin contexts
          /\ sandbox'[c] = "closed" /\ c \notin contexts'
      BY <1>4, SupplyAssumption DEF Typed, TypeOK, Targeted, Made, Apart,
         CellsLocked, Fresh,
         ReaperClose, SandboxClose, CanLock
    <2>2. Standing(c) = "closed" /\ Standing(c)' = "closed"
      BY <1>4, <2>1 DEF Standing
    <2>3. QED
      BY <1>1, <1>2, <2>2, NoneMoves
  <1>5. QED
    BY <1>3, <1>4 DEF Targeted, Typed, TypeOK, Made, Apart, ReaperClose

\* And so does Server.Close.
LEMMA HostCloseStep ==
  ASSUME Typed, Made, Apart, CellsLocked,
         NEW c \in Contexts, HostClose(c)
  PROVE  Lifecycle!Close(c) \/ UNCHANGED Lifecycle!vars
  <1>1. /\ ServerClosed' = ServerClosed
        /\ \A d \in Contexts \ {c} :
             /\ sandbox'[d] = sandbox[d]
             /\ d \in contexts <=> d \in contexts'
             /\ Fresh(d) <=> Fresh(d)'
    BY SupplyAssumption DEF Typed, TypeOK, Targeted, Made, Apart, CellsLocked,
       ServerClosed, Fresh,
       HostClose, SandboxClose, CanLock
  <1>2. \A d \in Contexts \ {c} : Standing(d)' = Standing(d)
    BY <1>1, StandingFrame
  <1>3. CASE sandbox[c] = "open"
    <2>1. /\ c \notin contexts /\ ~Fresh(c)
          /\ sandbox'[c] = "closed" /\ c \notin contexts'
      BY <1>3, SupplyAssumption DEF Typed, TypeOK, Targeted, Made, Apart,
         CellsLocked, Fresh,
         HostClose, SandboxClose, CanLock
    <2>2. Standing(c) = "retired" /\ Standing(c)' = "closed"
      BY <1>3, <2>1 DEF Standing
    <2>3. QED
      BY <1>1, <1>2, <2>2, OneMoves DEF Lifecycle!Close
  <1>4. CASE sandbox[c] = "closed"
    <2>1. /\ c \notin contexts
          /\ sandbox'[c] = "closed" /\ c \notin contexts'
      BY <1>4, SupplyAssumption DEF Typed, TypeOK, Targeted, Made, Apart,
         CellsLocked, Fresh,
         HostClose, SandboxClose, CanLock
    <2>2. Standing(c) = "closed" /\ Standing(c)' = "closed"
      BY <1>4, <2>1 DEF Standing
    <2>3. QED
      BY <1>1, <1>2, <2>2, NoneMoves
  <1>5. QED
    BY <1>3, <1>4 DEF Targeted, Typed, TypeOK, Made, Apart, HostClose

\* Contexts that leave the registry are withdrawn: a live one is to be closed.
LEMMA LeavingIsWithdrawal ==
  ASSUME Typed, Made, Apart, NEW S \in SUBSET contexts,
         contexts' = contexts \ S, sandbox' = sandbox,
         \A d \in Contexts : Fresh(d) <=> Fresh(d)'
  PROVE  Lifecycle!Withdrawn(S)
  <1>1. \A d \in Contexts \ S : Standing(d)' = Standing(d)
    BY StandingFrame DEF Typed, TypeOK
  <1>2. ASSUME NEW d \in Contexts, d \in S
        PROVE  Standing(d)' = IF Standing(d) = "dead" THEN "closed" ELSE "retired"
    <2>1. sandbox[d] \in {"open", "closed"} /\ ~Fresh(d) /\ d \in contexts
      BY <1>2 DEF Typed, TypeOK, Made, Apart, Fresh
    <2>2. sandbox'[d] = sandbox[d] /\ ~Fresh(d)' /\ d \notin contexts'
      BY <1>2, <2>1
    <2>3. QED
      BY <2>1, <2>2 DEF Standing
  <1>3. QED
    BY <1>1, <1>2 DEF Lifecycle!Withdrawn, PhaseOf

\* A delete and a sweep withdraw what they take, a forget what is still there.
LEMMA WithdrawStep ==
  ASSUME Typed, Made, Apart, NEW S \in SUBSET contexts, S # {},
         contexts' = contexts \ S, sandbox' = sandbox, host' = host,
         \A d \in Contexts : Fresh(d) <=> Fresh(d)'
  PROVE  Lifecycle!Next
  <1>1. Lifecycle!Withdraw(S)
    BY LeavingIsWithdrawal DEF Lifecycle!Withdraw, ServerClosed
  <1>2. S \in SUBSET Lifecycle!Registered
    BY RegisteredIsContexts
  <1>3. QED
    BY <1>1, <1>2 DEF Lifecycle!Next

\* Server.Close withdraws all that is registered and shuts the server.
LEMMA ShutStep ==
  ASSUME Typed, Made, Apart, ServerClose
  PROVE  Lifecycle!Shut
  <1>1. Lifecycle!Withdrawn(contexts)
    <2>1. contexts' = contexts \ contexts /\ sandbox' = sandbox
      BY DEF ServerClose
    <2>2. \A d \in Contexts : Fresh(d) <=> Fresh(d)'
      BY DEF ServerClose, Fresh
    <2>3. QED
      BY <2>1, <2>2, LeavingIsWithdrawal
  <1>2. ~ServerClosed /\ ServerClosed' = TRUE
    BY DEF ServerClose, ServerClosed
  <1>3. QED
    BY <1>1, <1>2, RegisteredIsContexts DEF Lifecycle!Shut

\* Every step of the server is a step of ContextLifecycle or changes nothing
\* that module speaks of.
LEMMA RefinementStep ==
  Structure /\ [Next]_vars => [Lifecycle!Next]_(Lifecycle!vars)
  <1> SUFFICES ASSUME Typed, Made, Apart, CellsLocked, [Next]_vars
               PROVE  Lifecycle!Next \/ UNCHANGED Lifecycle!vars
    BY DEF Structure
  <1> DEFINE Goal == Lifecycle!Next \/ UNCHANGED Lifecycle!vars
  <1>1. ASSUME NEW h \in Handlers, Request(h) PROVE Goal
    <2>1. ASSUME NEW c \in Contexts, HandleDeleteContext(h, c) PROVE Goal
      <3>1. {c} \in SUBSET contexts /\ contexts' = contexts \ {c} /\ sandbox' = sandbox
              /\ host' = host
        BY <2>1 DEF HandleDeleteContext, Drop
      <3>2. \A d \in Contexts : Fresh(d) <=> Fresh(d)'
        BY <2>1 DEF HandleDeleteContext, Goto, Fresh, Typed, TypeOK
      <3>3. QED
        BY <3>1, <3>2, WithdrawStep
    <2>2. QED
      BY <1>1, <2>1, StutterStep DEF Request
  <1>2. ASSUME NEW h \in Handlers, Proceed(h) PROVE Goal
    <2>1. ASSUME NEW c \in Contexts, NewSandbox(h, c) PROVE Goal
      BY <2>1, CreateStep DEF Lifecycle!Next
    <2>2. pc[h] \notin {"idle", "newContext", "newSandbox"} => target[h] \in Contexts
      BY DEF Typed, TypeOK, Targeted
    <2>3. CASE Publish(h)
      BY <2>2, <2>3, RegisterStep DEF Lifecycle!Next, Publish
    <2>4. CASE Overflow(h)
      BY <2>2, <2>4, DiscardStep DEF Lifecycle!Next, Overflow
    <2>5. CASE CellRetires(h)
      BY <2>2, <2>5, TrapStep DEF Lifecycle!Next, CellRetires, CellEnds
    <2>6. CASE Forget(h)
      <3>1. contexts' = contexts \ {target[h]} /\ sandbox' = sandbox /\ host' = host
        BY <2>6 DEF Forget, Drop
      <3>2. \A d \in Contexts : Fresh(d) <=> Fresh(d)'
        BY <2>6 DEF Forget, Respond, Goto, Fresh, Typed, TypeOK
      <3>3. CASE target[h] \in contexts
        BY <3>1, <3>2, <3>3, WithdrawStep
      <3>4. CASE target[h] \notin contexts
        <4>1. contexts' = contexts
          BY <3>1, <3>4
        <4>2. QED
          BY <3>1, <3>2, <4>1, StandingFrame, NoneMoves DEF ServerClosed
      <3>5. QED
        BY <3>3, <3>4
    <2>7. QED
      BY <1>2, <2>1, <2>3, <2>4, <2>5, <2>6, StutterStep DEF Proceed
  <1>3. ASSUME NEW h \in Handlers, RunCode(h) \/ CloseSandbox(h) PROVE Goal
    <2>1. target[h] \in Contexts
      BY <1>3 DEF RunCode, BeginCell, FindClosed, FindEngineClosed,
         CloseSandbox,
         Typed, TypeOK, Targeted
    <2>2. CASE FindEngineClosed(h)
      BY <2>1, <2>2, EngineTrapStep DEF Lifecycle!Next
    <2>3. CASE CloseSandbox(h)
      BY <2>1, <2>3, CloseStep DEF Lifecycle!Next
    <2>4. QED
      BY <1>3, <2>2, <2>3, StutterStep DEF RunCode
  <1>4. CASE Reaper
    <2>1. ASSUME NEW c \in Contexts, ReaperClose(c) PROVE Goal
      BY <2>1, ReaperCloseStep DEF Lifecycle!Next
    <2>2. CASE Reap
      <3>1. /\ stale \in SUBSET contexts /\ stale # {} /\ contexts' = contexts \ stale
            /\ sandbox' = sandbox /\ host' = host
        BY <2>2 DEF Reap, Drop, Typed, TypeOK
      <3>2. \A d \in Contexts : Fresh(d) <=> Fresh(d)'
        BY <2>2 DEF Reap, Fresh
      <3>3. QED
        BY <3>1, <3>2, WithdrawStep
    <2>3. QED
      BY <1>4, <2>1, <2>2, StutterStep DEF Reaper
  <1>5. CASE Host
    <2>1. ASSUME NEW c \in Contexts, HostClose(c) PROVE Goal
      BY <2>1, HostCloseStep DEF Lifecycle!Next
    <2>2. CASE ServerClose
      BY <2>2, ShutStep DEF Lifecycle!Next
    <2>3. QED
      BY <1>5, <2>1, <2>2, StutterStep DEF Host
  <1>6. CASE (\E c \in Contexts : Age(c)) \/ Exit \/ Stop \/ UNCHANGED vars
    BY <1>6, StutterStep DEF Stop
  <1>7. QED
    BY <1>1, <1>2, <1>3, <1>4, <1>5, <1>6 DEF Next, Goroutines, Handler

\* The server implements ContextLifecycle: each context is registered at most
\* once, under the cap and before the shutdown, and once withdrawn is never
\* seen again.
THEOREM ServerRefinesLifecycle == Spec => Refinement
  <1>1. Init => Lifecycle!Init
    BY DEF Init, Lifecycle!Init, PhaseOf, Standing, ServerClosed
  <1>2. QED
    BY <1>1, RefinementStep, StructureInvariant, PTL
       DEF Spec, Refinement, Lifecycle!Spec
=============================================================================

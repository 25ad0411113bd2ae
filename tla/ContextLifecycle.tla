-------------------------- MODULE ContextLifecycle --------------------------
(***************************************************************************)
(* What the context server promises about the life of one Python context,  *)
(* with the requests, the locks and the reaper left out.  A context is     *)
(* made fresh, registered for clients to use unless the server is full or  *)
(* shut, and withdrawn for good before or after its interpreter is closed. *)
(***************************************************************************)
EXTENDS Naturals, FiniteSets

CONSTANTS Contexts,     \* every context the server may ever make
          MaxContexts   \* ServerConfig.MaxContexts

VARIABLES phase,  \* where each context stands
          shut    \* Server.Close has begun

vars == <<phase, shut>>

\* A phase is "absent", "fresh", "registered", "dead", "retired" or "closed".
\* fresh: instantiated and not yet in the registry.  registered: clients can
\* reach it.  dead: still registered although its interpreter was retired.
\* retired: nobody can reach it and its interpreter is still to be closed.
Registered == {c \in Contexts : phase[c] \in {"registered", "dead"}}

Init == /\ phase = [c \in Contexts |-> "absent"]
        /\ shut = FALSE

Move(c, from, to) == /\ phase[c] = from
                     /\ phase' = [phase EXCEPT ![c] = to]
                     /\ UNCHANGED shut

Create(c) == Move(c, "absent", "fresh")

Register(c) == /\ ~shut
               /\ Cardinality(Registered) < MaxContexts
               /\ Move(c, "fresh", "registered")

\* The registry turned the fresh context down.
Discard(c) == Move(c, "fresh", "retired")

\* Several contexts may leave the registry in one step (an idle sweep).
Withdrawn(S) == phase' = [c \in Contexts |->
                   IF c \in S
                   THEN IF phase[c] = "dead" THEN "closed" ELSE "retired"
                   ELSE phase[c]]

Withdraw(S) == Withdrawn(S) /\ UNCHANGED shut

\* The interpreter of a context dies under a running cell.
Trap(c) == \/ Move(c, "registered", "dead")
           \/ Move(c, "retired", "closed")

Close(c) == Move(c, "retired", "closed")

\* Everything still registered leaves the registry as the server shuts.
Shut == /\ ~shut
        /\ shut' = TRUE
        /\ Withdrawn(Registered)

Next == \/ \E c \in Contexts : \/ Create(c)
                               \/ Register(c)
                               \/ Discard(c)
                               \/ Trap(c)
                               \/ Close(c)
        \/ \E S \in SUBSET Registered : S # {} /\ Withdraw(S)
        \/ Shut

Spec == Init /\ [][Next]_vars

=============================================================================

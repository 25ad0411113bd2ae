-------------------------- MODULE SandboxContract --------------------------
(***************************************************************************)
(* What an Engine promises about its sandboxes and the cells they run,     *)
(* with callers, locks, instances and mirrors left out.  A cell runs in a  *)
(* sandbox at most once and at one moment: nothing clears or closes the    *)
(* sandbox between that moment and the answer.  It is answered once: with  *)
(* a result if it ran, with ErrClosed only if it never did; and if its     *)
(* call failed, the sandbox ends with it.                                  *)
(***************************************************************************)
CONSTANTS Sandboxes,  \* every sandbox the Engine may ever make
          Cells       \* every cell that may ever be run

VARIABLES state,    \* each sandbox is absent, open or closed
          effects,  \* the cells whose effects each sandbox has
          answer    \* pending, or what RunCode returned: for a result, the cell it is of

vars == <<state, effects, answer>>

Init == /\ state = [s \in Sandboxes |-> "absent"]
        /\ effects = [s \in Sandboxes |-> {}]
        /\ answer = [c \in Cells |-> "pending"]

\* A cell has run and is not answered.
Underway(s, c) == c \in effects[s] /\ answer[c] = "pending"

Create(s) == /\ state[s] = "absent"
             /\ state' = [state EXCEPT ![s] = "open"]
             /\ UNCHANGED <<effects, answer>>

\* One cell at a time, and each in one sandbox.
Run(s, c) == /\ state[s] = "open" /\ answer[c] = "pending"
             /\ \A t \in Sandboxes : c \notin effects[t]
             /\ \A d \in Cells : ~Underway(s, d)
             /\ effects' = [effects EXCEPT ![s] = @ \cup {c}]
             /\ UNCHANGED <<state, answer>>

\* The result of a cell that ran, or that it cannot be decoded.
Reply(s, c) == /\ Underway(s, c)
               /\ \/ answer' = [answer EXCEPT ![c] = c]
                  \/ answer' = [answer EXCEPT ![c] = "undecoded"]
               /\ UNCHANGED <<state, effects>>

\* RunCode finds a closed sandbox.
Refuse(s, c) == /\ state[s] = "closed" /\ answer[c] = "pending"
                /\ \A t \in Sandboxes : c \notin effects[t]
                /\ answer' = [answer EXCEPT ![c] = "ErrClosed"]
                /\ UNCHANGED <<state, effects>>

\* A sandbox ends with the effects it has.
Ends(s) == /\ state[s] = "open"
           /\ state' = [state EXCEPT ![s] = "closed"]
           /\ effects' = [effects EXCEPT ![s] = {}]

\* The call of a cell fails, whether the cell ran or not.
Fail(s, c) == /\ answer[c] = "pending"
              /\ \A t \in Sandboxes, d \in Cells :
                   Underway(t, d) /\ (d = c \/ t = s) => d = c /\ t = s
              /\ Ends(s)
              /\ answer' = [answer EXCEPT ![c] = "failed"]

\* Reset, or the restart after pip.
Clear(s) == /\ state[s] = "open"
            /\ \A c \in Cells : ~Underway(s, c)
            /\ effects' = [effects EXCEPT ![s] = {}]
            /\ UNCHANGED <<state, answer>>

\* Close, or the end of a sandbox whose wheel or pip could not be run.
Close(s) == /\ \A c \in Cells : ~Underway(s, c)
            /\ Ends(s)
            /\ UNCHANGED answer

Next == \E s \in Sandboxes :
          \/ Create(s) \/ Clear(s) \/ Close(s)
          \/ \E c \in Cells : Run(s, c) \/ Reply(s, c) \/ Refuse(s, c) \/ Fail(s, c)

Spec == Init /\ [][Next]_vars
-----------------------------------------------------------------------------
\* What the steps add up to: a cell has effects in one sandbox at most and none
\* if it was refused, a sandbox has one cell underway at most, and a sandbox that
\* is not open has nothing.
CellsOnce ==
  /\ \A c \in Cells : \A s, t \in Sandboxes : c \in effects[s] \cap effects[t] => s = t
  /\ \A c \in Cells : answer[c] = "ErrClosed" => \A s \in Sandboxes : c \notin effects[s]
  /\ \A s \in Sandboxes : \A c, d \in Cells : Underway(s, c) /\ Underway(s, d) => c = d
  /\ \A s \in Sandboxes : state[s] # "open" => effects[s] = {}
=============================================================================

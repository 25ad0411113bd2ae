----------------------------- MODULE HttpRequest -----------------------------
(***************************************************************************)
(* The request function of guest/pycage_http.py: one HTTP request over the *)
(* resources of wasi:http.  Any call of the host may fail.  A resource that *)
(* is not given away and not dropped when request raises is dropped with   *)
(* the local variable that holds it.                                       *)
(*                                                                         *)
(* An operator whose name has an underscore is a faulty variant of the     *)
(* definition after it that no action uses.                                *)
(***************************************************************************)
EXTENDS Naturals, Sequences

CONSTANTS
  Chunks,    \* into how many writes the largest request body is cut
  Incoming   \* how many reads the longest response takes

ASSUME HttpAssumption == Chunks \in Nat /\ Incoming \in Nat

\* The local variables that hold resources, in the order in which a frame
\* releases them.
Locals == <<"request_headers", "outgoing", "outgoing_body", "output", "future",
            "pollable", "incoming", "incoming_body", "stream">>
Resources == {Locals[i] : i \in DOMAIN Locals}

\* A child must be dropped before its parent is dropped or finished.
Children == {<<"outgoing_body", "output">>, <<"future", "pollable">>,
             <<"incoming_body", "stream">>}

VARIABLES
  at,        \* the next call of the host
  res,       \* what became of each resource
  body,      \* how many chunks are to be written, and how many were
  arrives,   \* how many chunks the response has, and how many were read
  resolved,  \* what future.get returned
  outcome    \* what request returned or raised

httpVars == <<at, res, body, arrives, resolved, outcome>>

HttpTypeOK ==
  /\ at \in {"idle", "headers", "build", "open", "write", "finish", "handle", "get",
             "block", "check", "consume", "read", "release", "unwind"}
  /\ res \in [Resources -> {"none", "alive", "given", "dropped"}]
  /\ body \in [whole : 0..Chunks, done : 0..Chunks]
  /\ arrives \in [whole : 0..Incoming, done : 0..Incoming]
  /\ resolved \in {"none", "response", "error"}
  /\ outcome \in {"none", "response", "raised"}

HttpInit ==
  /\ at = "idle"
  /\ res = [r \in Resources |-> "none"]
  /\ body = [whole |-> 0, done |-> 0]
  /\ arrives = [whole |-> 0, done |-> 0]
  /\ resolved = "none" /\ outcome = "none"

Now(step, next) == at = step /\ at' = next

\* An exception: what the with and finally blocks did not drop, the frame will.
Raises == at' = "unwind" /\ UNCHANGED <<body, arrives, resolved, outcome>>

Becomes(changes) == res' = [r \in Resources |-> IF r \in DOMAIN changes THEN changes[r] ELSE res[r]]

-----------------------------------------------------------------------------
\* ValueError for a URL that is not http or https is raised before any resource
\* exists.
Call ==
  /\ at = "idle"
  /\ \/ at' = "headers" /\ outcome' = "none"
     \/ at' = "idle" /\ outcome' = "raised"
  /\ res' = [r \in Resources |-> "none"]
  /\ body' \in [whole : 0..Chunks, done : {0}]
  /\ arrives' \in [whole : 0..Incoming, done : {0}]
  /\ resolved' = "none"

MakeHeaders ==
  /\ at = "headers"
  /\ Becomes([request_headers |-> "alive"])
  /\ (at' = "build" /\ UNCHANGED <<body, arrives, resolved, outcome>>) \/ Raises

\* OutgoingRequest takes the headers; the setters may refuse.
BuildRequest ==
  /\ at = "build"
  /\ Becomes([request_headers |-> "given", outgoing |-> "alive"])
  /\ \/ at' \in {"open", "handle"} /\ UNCHANGED <<body, arrives, resolved, outcome>>
     \/ Raises

OpenBody ==
  /\ at = "open"
  /\ \/ /\ at' = "write" /\ Becomes([outgoing_body |-> "alive", output |-> "alive"])
        /\ UNCHANGED <<body, arrives, resolved, outcome>>
     \/ (UNCHANGED res \/ Becomes([outgoing_body |-> "alive"])) /\ Raises

WriteChunk ==
  /\ Now("write", "write") /\ body.done < body.whole
  /\ body' = [body EXCEPT !.done = @ + 1]
  /\ UNCHANGED <<res, arrives, resolved, outcome>>

\* The body is finished although a write failed.
WriteFails_Finishes ==
  /\ Now("write", "finish") /\ body.done < body.whole
  /\ Becomes([output |-> "dropped"])
  /\ UNCHANGED <<body, arrives, resolved, outcome>>

\* finally drops the stream.
WriteFails ==
  /\ at = "write" /\ body.done < body.whole
  /\ Becomes([output |-> "dropped"]) /\ Raises

WriteEnds ==
  /\ Now("write", "finish") /\ body.done = body.whole
  /\ Becomes([output |-> "dropped"])
  /\ UNCHANGED <<body, arrives, resolved, outcome>>

FinishBody ==
  /\ at = "finish"
  /\ Becomes([outgoing_body |-> "given"])
  /\ (at' = "handle" /\ UNCHANGED <<body, arrives, resolved, outcome>>) \/ Raises

Handle ==
  /\ at = "handle"
  /\ \/ /\ at' = "get" /\ Becomes([outgoing |-> "given", future |-> "alive"])
        /\ UNCHANGED <<body, arrives, resolved, outcome>>
     \/ Becomes([outgoing |-> "given"]) /\ Raises

\* The first get may find nothing yet; the one after block always finds something.
Get ==
  /\ at = "get"
  /\ \/ /\ res["pollable"] = "none" /\ at' = "block"
        /\ Becomes([pollable |-> "alive"]) /\ UNCHANGED resolved
     \/ at' = "check" /\ resolved' \in {"response", "error"} /\ UNCHANGED res
  /\ UNCHANGED <<body, arrives, outcome>>

\* finally drops the pollable.
Block ==
  /\ at = "block"
  /\ Becomes([pollable |-> "dropped"])
  /\ (at' = "get" /\ UNCHANGED <<body, arrives, resolved, outcome>>) \/ Raises

\* OSError
Check ==
  /\ at = "check"
  /\ \/ /\ resolved = "response" /\ at' = "consume"
        /\ Becomes([incoming |-> "alive"])
        /\ UNCHANGED <<body, arrives, resolved, outcome>>
     \/ resolved = "error" /\ UNCHANGED res /\ Raises

Consume ==
  /\ at = "consume"
  /\ \/ /\ at' = "read" /\ Becomes([incoming_body |-> "alive", stream |-> "alive"])
        /\ UNCHANGED <<body, arrives, resolved, outcome>>
     \/ (UNCHANGED res \/ Becomes([incoming_body |-> "alive"])) /\ Raises

ReadChunk ==
  /\ Now("read", "read") /\ arrives.done < arrives.whole
  /\ arrives' = [arrives EXCEPT !.done = @ + 1]
  /\ UNCHANGED <<res, body, resolved, outcome>>

\* Without the finally, the frame would release the body before the stream.
ReadFails_Unguarded ==
  /\ at = "read" /\ UNCHANGED res /\ Raises

\* StreamError_Closed ends the loop, and finally drops the stream.
ReadEnds ==
  /\ Now("read", "release") /\ arrives.done = arrives.whole
  /\ Becomes([stream |-> "dropped"])
  /\ UNCHANGED <<body, arrives, resolved, outcome>>

\* Every error of the stream counts as its end.
ReadFails_Ends ==
  /\ Now("read", "release")
  /\ Becomes([stream |-> "dropped"])
  /\ UNCHANGED <<body, arrives, resolved, outcome>>

ReadFails ==
  /\ at = "read"
  /\ Becomes([stream |-> "dropped"]) /\ Raises

\* finish takes the body; it and what follows may fail like any call of the host.
Release ==
  /\ at = "release"
  /\ \/ /\ at' = "idle" /\ outcome' = "response"
        /\ Becomes([incoming_body |-> "given", incoming |-> "dropped", future |-> "dropped"])
        /\ UNCHANGED <<body, arrives, resolved>>
     \/ Becomes([incoming_body |-> "given"]) /\ Raises
     \/ Becomes([incoming_body |-> "given", incoming |-> "dropped"]) /\ Raises

\* The frame releases its variables in their order.
Unwind ==
  /\ at = "unwind"
  /\ IF \E r \in Resources : res[r] = "alive"
     THEN /\ \E i \in DOMAIN Locals :
               /\ res[Locals[i]] = "alive"
               /\ \A j \in 1..(i - 1) : res[Locals[j]] # "alive"
               /\ res' = [res EXCEPT ![Locals[i]] = "dropped"]
          /\ UNCHANGED <<at, outcome>>
     ELSE at' = "idle" /\ outcome' = "raised" /\ UNCHANGED res
  /\ UNCHANGED <<body, arrives, resolved>>

\* What request does after it was called.
HttpStep ==
  \/ MakeHeaders \/ BuildRequest \/ OpenBody \/ WriteChunk \/ WriteFails \/ WriteEnds
  \/ FinishBody \/ Handle \/ Get \/ Block \/ Check \/ Consume
  \/ ReadChunk \/ ReadEnds \/ ReadFails \/ Release \/ Unwind

-----------------------------------------------------------------------------
\* No resource is dropped, finished or given away while a child of it is alive,
\* on whatever path request is left: the host would trap.
ChildrenFirst ==
  [][\A pair \in Children :
       res[pair[1]] = "alive" /\ res'[pair[1]] # "alive" => res[pair[2]] # "alive"]_httpVars

\* The host is told that a request body is complete only when all of it was
\* written; a response is returned only when all of it was read; and when request
\* is left, no resource is left over.
CompleteOnly ==
  /\ res["outgoing_body"] = "given" => body.done = body.whole
  /\ outcome = "response" => resolved = "response" /\ arrives.done = arrives.whole
  /\ at = "idle" => \A r \in Resources : res[r] # "alive"
=============================================================================

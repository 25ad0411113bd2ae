----------------------------- MODULE GuestProofs -----------------------------
(***************************************************************************)
(* Proofs about Guest and HttpRequest, for bodies and responses of any     *)
(* length and any names and modules.                                       *)
(*                                                                         *)
(* The resources of a request follow from where request is: Holding says   *)
(* which are alive at each of its calls, and Progress what has been written *)
(* and read by then.  The adapter follows from what the flag promises      *)
(* (Flagged), and from what the cells reloaded since.                      *)
(***************************************************************************)
EXTENDS Guest, TLAPS

\* Which resources are alive at each call of the host.
HeldAt(place) ==
  CASE place \in {"idle", "headers"} -> {}
    [] place = "build" -> {"request_headers"}
    [] place \in {"open", "handle"} -> {"outgoing"}
    [] place = "write" -> {"outgoing", "outgoing_body", "output"}
    [] place = "finish" -> {"outgoing", "outgoing_body"}
    [] place \in {"get", "check"} -> {"future"}
    [] place = "block" -> {"future", "pollable"}
    [] place = "consume" -> {"future", "incoming"}
    [] place = "read" -> {"future", "incoming", "incoming_body", "stream"}
    [] place = "release" -> {"future", "incoming", "incoming_body"}

Leaves == {"output", "pollable", "stream"}

\* When an exception unwinds request, what has a parent is gone already.
Holding ==
  /\ at # "unwind" => \A r \in Resources : (res[r] = "alive") <=> (r \in HeldAt(at))
  /\ at = "unwind" => \A r \in Leaves : res[r] # "alive"

Progress ==
  /\ at = "finish" => body.done = body.whole
  /\ res["outgoing_body"] = "given" => body.done = body.whole
  /\ at \in {"consume", "read", "release"} => resolved = "response"
  /\ at = "release" => arrives.done = arrives.whole
  /\ at # "idle" => outcome = "none"
  /\ outcome = "response" => resolved = "response" /\ arrives.done = arrives.whole

RequestInv == HttpTypeOK /\ Holding /\ Progress

\* A request is under way only while the code of a cell runs.
Nested == phase # "execute" => at = "idle"

LEMMA ResourcesAre ==
  Resources = {"request_headers", "outgoing", "outgoing_body", "output", "future",
               "pollable", "incoming", "incoming_body", "stream"}
<1>1. DOMAIN Locals = 1..9
  BY DEF Locals
<1> QED
  BY <1>1, SMT DEF Resources, Locals

LEMMA LocalsAre == \A i \in DOMAIN Locals : Locals[i] \in Resources
  BY DEF Resources

-----------------------------------------------------------------------------
(* One request. *)

LEMMA HttpInitInv == HttpInit => RequestInv
  BY ResourcesAre, HttpAssumption
  DEF HttpInit, RequestInv, HttpTypeOK, Holding, Progress, HeldAt, Leaves

\* A call starts from nothing.
LEMMA CallInv == ASSUME RequestInv, Call PROVE RequestInv'
  BY ResourcesAre, HttpAssumption
  DEF Call, RequestInv, HttpTypeOK, Holding, Progress, HeldAt, Leaves

LEMMA StepTyped == ASSUME HttpTypeOK, HttpStep PROVE HttpTypeOK'
<1> USE HttpAssumption, ResourcesAre DEF HttpTypeOK, Now, Becomes, Raises
<1>1. CASE MakeHeaders BY <1>1 DEF MakeHeaders
<1>2. CASE BuildRequest BY <1>2 DEF BuildRequest
<1>3. CASE OpenBody BY <1>3 DEF OpenBody
<1>4. CASE WriteChunk BY <1>4 DEF WriteChunk
<1>5. CASE WriteFails BY <1>5 DEF WriteFails
<1>6. CASE WriteEnds BY <1>6 DEF WriteEnds
<1>7. CASE FinishBody BY <1>7 DEF FinishBody
<1>8. CASE Handle BY <1>8 DEF Handle
<1>9. CASE Get BY <1>9 DEF Get
<1>10. CASE Block BY <1>10 DEF Block
<1>11. CASE Check BY <1>11 DEF Check
<1>12. CASE Consume BY <1>12 DEF Consume
<1>13. CASE ReadChunk BY <1>13 DEF ReadChunk
<1>14. CASE ReadEnds BY <1>14 DEF ReadEnds
<1>15. CASE ReadFails BY <1>15 DEF ReadFails
<1>16. CASE Release BY <1>16 DEF Release
<1>17. CASE Unwind BY <1>17, LocalsAre DEF Unwind
<1> QED
  BY <1>1, <1>2, <1>3, <1>4, <1>5, <1>6, <1>7, <1>8, <1>9, <1>10, <1>11, <1>12, <1>13,
     <1>14, <1>15, <1>16, <1>17 DEF HttpStep

AliveIs(now) == \A r \in Resources : (res[r] = "alive") <=> (r \in now)

LEMMA HeldIs ==
  /\ HeldAt("idle") = {}
  /\ HeldAt("headers") = {}
  /\ HeldAt("build") = {"request_headers"}
  /\ HeldAt("open") = {"outgoing"}
  /\ HeldAt("handle") = {"outgoing"}
  /\ HeldAt("write") = {"outgoing", "outgoing_body", "output"}
  /\ HeldAt("finish") = {"outgoing", "outgoing_body"}
  /\ HeldAt("get") = {"future"}
  /\ HeldAt("check") = {"future"}
  /\ HeldAt("block") = {"future", "pollable"}
  /\ HeldAt("consume") = {"future", "incoming"}
  /\ HeldAt("read") = {"future", "incoming", "incoming_body", "stream"}
  /\ HeldAt("release") = {"future", "incoming", "incoming_body"}
  BY DEF HeldAt

\* Between two calls of the host, HeldAt says what is alive.
LEMMA HeldBefore ==
  ASSUME Holding, at # "unwind"
  PROVE  AliveIs(HeldAt(at))
  BY DEF Holding, AliveIs

\* What is alive after a step must be what HeldAt says, or no leaf.
LEMMA HoldsAfter ==
  ASSUME NEW now, AliveIs(now)',
         at' # "unwind" => now = HeldAt(at'),
         at' = "unwind" => \A r \in Leaves : r \notin now,
         Leaves \subseteq Resources
  PROVE  Holding'
  BY DEF Holding, AliveIs

LEMMA LeavesAre == Leaves \subseteq Resources
  BY ResourcesAre DEF Leaves

LEMMA StepHolding == ASSUME RequestInv, HttpStep PROVE Holding'
<1>1. CASE MakeHeaders
  <2>1. /\ at = "headers" /\ at' \in {"build", "unwind"}
        /\ Becomes([request_headers |-> "alive"])
    BY <1>1 DEF MakeHeaders, Now, Raises
  <2>2. AliveIs({})
    BY <2>1, HeldBefore, HeldIs DEF RequestInv
  <2>3. \A r \in Resources : res'[r] = IF r = "request_headers" THEN "alive" ELSE res[r]
    BY <2>1 DEF Becomes
  <2>4. AliveIs({"request_headers"})'
    BY <2>3, <2>2 DEF AliveIs
  <2> QED
    BY <2>1, <2>4, HoldsAfter, HeldIs, LeavesAre DEF Leaves
<1>2. CASE BuildRequest
  <2>1. /\ at = "build" /\ at' \in {"open", "handle", "unwind"}
        /\ Becomes([request_headers |-> "given", outgoing |-> "alive"])
    BY <1>2 DEF BuildRequest, Now, Raises
  <2>2. AliveIs({"request_headers"})
    BY <2>1, HeldBefore, HeldIs DEF RequestInv
  <2>3. \A r \in Resources :
          res'[r] = IF r = "request_headers" THEN "given"
                    ELSE IF r = "outgoing" THEN "alive"
                    ELSE res[r]
    BY <2>1 DEF Becomes
  <2>4. AliveIs({"outgoing"})'
    BY <2>3, <2>2 DEF AliveIs
  <2> QED
    BY <2>1, <2>4, HoldsAfter, HeldIs, LeavesAre DEF Leaves
<1>3. CASE OpenBody
  <2>1. /\ at = "open"
        /\ \/ at' = "write" /\ Becomes([outgoing_body |-> "alive", output |-> "alive"])
           \/ at' = "unwind" /\ UNCHANGED res
           \/ at' = "unwind" /\ Becomes([outgoing_body |-> "alive"])
    BY <1>3 DEF OpenBody, Now, Raises
  <2>2. AliveIs({"outgoing"})
    BY <2>1, HeldBefore, HeldIs DEF RequestInv
  <2>3. CASE at' = "write" /\ Becomes([outgoing_body |-> "alive", output |-> "alive"])
    <3>1. \A r \in Resources :
            res'[r] = IF r = "outgoing_body" THEN "alive"
                      ELSE IF r = "output" THEN "alive"
                      ELSE res[r]
      BY <2>3 DEF Becomes
    <3>2. AliveIs({"outgoing", "outgoing_body", "output"})'
      BY <3>1, <2>2 DEF AliveIs
    <3> QED
      BY <2>3, <3>2, HoldsAfter, HeldIs, LeavesAre DEF Leaves
  <2>4. CASE at' = "unwind" /\ UNCHANGED res
    <3>1. AliveIs({"outgoing"})'
      BY <2>4, <2>2 DEF AliveIs
    <3> QED
      BY <2>4, <3>1, HoldsAfter, HeldIs, LeavesAre DEF Leaves
  <2>5. CASE at' = "unwind" /\ Becomes([outgoing_body |-> "alive"])
    <3>1. \A r \in Resources : res'[r] = IF r = "outgoing_body" THEN "alive" ELSE res[r]
      BY <2>5 DEF Becomes
    <3>2. AliveIs({"outgoing", "outgoing_body"})'
      BY <3>1, <2>2 DEF AliveIs
    <3> QED
      BY <2>5, <3>2, HoldsAfter, HeldIs, LeavesAre DEF Leaves
  <2> QED
    BY <2>1, <2>3, <2>4, <2>5
<1>4. CASE WriteChunk
  <2>1. at = "write" /\ at' = "write" /\ UNCHANGED res
    BY <1>4 DEF WriteChunk, Now, Raises
  <2>2. AliveIs({"outgoing", "outgoing_body", "output"})
    BY <2>1, HeldBefore, HeldIs DEF RequestInv
  <2>3. AliveIs({"outgoing", "outgoing_body", "output"})'
    BY <2>1, <2>2 DEF AliveIs
  <2> QED
    BY <2>1, <2>3, HoldsAfter, HeldIs, LeavesAre DEF Leaves
<1>5. CASE WriteFails
  <2>1. at = "write" /\ at' = "unwind" /\ Becomes([output |-> "dropped"])
    BY <1>5 DEF WriteFails, Now, Raises
  <2>2. AliveIs({"outgoing", "outgoing_body", "output"})
    BY <2>1, HeldBefore, HeldIs DEF RequestInv
  <2>3. \A r \in Resources : res'[r] = IF r = "output" THEN "dropped" ELSE res[r]
    BY <2>1 DEF Becomes
  <2>4. AliveIs({"outgoing", "outgoing_body"})'
    BY <2>3, <2>2 DEF AliveIs
  <2> QED
    BY <2>1, <2>4, HoldsAfter, HeldIs, LeavesAre DEF Leaves
<1>6. CASE WriteEnds
  <2>1. at = "write" /\ at' = "finish" /\ Becomes([output |-> "dropped"])
    BY <1>6 DEF WriteEnds, Now, Raises
  <2>2. AliveIs({"outgoing", "outgoing_body", "output"})
    BY <2>1, HeldBefore, HeldIs DEF RequestInv
  <2>3. \A r \in Resources : res'[r] = IF r = "output" THEN "dropped" ELSE res[r]
    BY <2>1 DEF Becomes
  <2>4. AliveIs({"outgoing", "outgoing_body"})'
    BY <2>3, <2>2 DEF AliveIs
  <2> QED
    BY <2>1, <2>4, HoldsAfter, HeldIs, LeavesAre DEF Leaves
<1>7. CASE FinishBody
  <2>1. /\ at = "finish" /\ at' \in {"handle", "unwind"}
        /\ Becomes([outgoing_body |-> "given"])
    BY <1>7 DEF FinishBody, Now, Raises
  <2>2. AliveIs({"outgoing", "outgoing_body"})
    BY <2>1, HeldBefore, HeldIs DEF RequestInv
  <2>3. \A r \in Resources : res'[r] = IF r = "outgoing_body" THEN "given" ELSE res[r]
    BY <2>1 DEF Becomes
  <2>4. AliveIs({"outgoing"})'
    BY <2>3, <2>2 DEF AliveIs
  <2> QED
    BY <2>1, <2>4, HoldsAfter, HeldIs, LeavesAre DEF Leaves
<1>8. CASE Handle
  <2>1. /\ at = "handle"
        /\ \/ at' = "get" /\ Becomes([outgoing |-> "given", future |-> "alive"])
           \/ at' = "unwind" /\ Becomes([outgoing |-> "given"])
    BY <1>8 DEF Handle, Now, Raises
  <2>2. AliveIs({"outgoing"})
    BY <2>1, HeldBefore, HeldIs DEF RequestInv
  <2>3. CASE at' = "get" /\ Becomes([outgoing |-> "given", future |-> "alive"])
    <3>1. \A r \in Resources :
            res'[r] = IF r = "outgoing" THEN "given"
                      ELSE IF r = "future" THEN "alive"
                      ELSE res[r]
      BY <2>3 DEF Becomes
    <3>2. AliveIs({"future"})'
      BY <3>1, <2>2 DEF AliveIs
    <3> QED
      BY <2>3, <3>2, HoldsAfter, HeldIs, LeavesAre DEF Leaves
  <2>4. CASE at' = "unwind" /\ Becomes([outgoing |-> "given"])
    <3>1. \A r \in Resources : res'[r] = IF r = "outgoing" THEN "given" ELSE res[r]
      BY <2>4 DEF Becomes
    <3>2. AliveIs({})'
      BY <3>1, <2>2 DEF AliveIs
    <3> QED
      BY <2>4, <3>2, HoldsAfter, HeldIs, LeavesAre DEF Leaves
  <2> QED
    BY <2>1, <2>3, <2>4
<1>9. CASE Get
  <2>1. /\ at = "get"
        /\ \/ at' = "block" /\ Becomes([pollable |-> "alive"])
           \/ at' = "check" /\ UNCHANGED res
    BY <1>9 DEF Get, Now, Raises
  <2>2. AliveIs({"future"})
    BY <2>1, HeldBefore, HeldIs DEF RequestInv
  <2>3. CASE at' = "block" /\ Becomes([pollable |-> "alive"])
    <3>1. \A r \in Resources : res'[r] = IF r = "pollable" THEN "alive" ELSE res[r]
      BY <2>3 DEF Becomes
    <3>2. AliveIs({"future", "pollable"})'
      BY <3>1, <2>2 DEF AliveIs
    <3> QED
      BY <2>3, <3>2, HoldsAfter, HeldIs, LeavesAre DEF Leaves
  <2>4. CASE at' = "check" /\ UNCHANGED res
    <3>1. AliveIs({"future"})'
      BY <2>4, <2>2 DEF AliveIs
    <3> QED
      BY <2>4, <3>1, HoldsAfter, HeldIs, LeavesAre DEF Leaves
  <2> QED
    BY <2>1, <2>3, <2>4
<1>10. CASE Block
  <2>1. at = "block" /\ at' \in {"get", "unwind"} /\ Becomes([pollable |-> "dropped"])
    BY <1>10 DEF Block, Now, Raises
  <2>2. AliveIs({"future", "pollable"})
    BY <2>1, HeldBefore, HeldIs DEF RequestInv
  <2>3. \A r \in Resources : res'[r] = IF r = "pollable" THEN "dropped" ELSE res[r]
    BY <2>1 DEF Becomes
  <2>4. AliveIs({"future"})'
    BY <2>3, <2>2 DEF AliveIs
  <2> QED
    BY <2>1, <2>4, HoldsAfter, HeldIs, LeavesAre DEF Leaves
<1>11. CASE Check
  <2>1. /\ at = "check"
        /\ \/ at' = "consume" /\ Becomes([incoming |-> "alive"])
           \/ at' = "unwind" /\ UNCHANGED res
    BY <1>11 DEF Check, Now, Raises
  <2>2. AliveIs({"future"})
    BY <2>1, HeldBefore, HeldIs DEF RequestInv
  <2>3. CASE at' = "consume" /\ Becomes([incoming |-> "alive"])
    <3>1. \A r \in Resources : res'[r] = IF r = "incoming" THEN "alive" ELSE res[r]
      BY <2>3 DEF Becomes
    <3>2. AliveIs({"future", "incoming"})'
      BY <3>1, <2>2 DEF AliveIs
    <3> QED
      BY <2>3, <3>2, HoldsAfter, HeldIs, LeavesAre DEF Leaves
  <2>4. CASE at' = "unwind" /\ UNCHANGED res
    <3>1. AliveIs({"future"})'
      BY <2>4, <2>2 DEF AliveIs
    <3> QED
      BY <2>4, <3>1, HoldsAfter, HeldIs, LeavesAre DEF Leaves
  <2> QED
    BY <2>1, <2>3, <2>4
<1>12. CASE Consume
  <2>1. /\ at = "consume"
        /\ \/ at' = "read" /\ Becomes([incoming_body |-> "alive", stream |-> "alive"])
           \/ at' = "unwind" /\ UNCHANGED res
           \/ at' = "unwind" /\ Becomes([incoming_body |-> "alive"])
    BY <1>12 DEF Consume, Now, Raises
  <2>2. AliveIs({"future", "incoming"})
    BY <2>1, HeldBefore, HeldIs DEF RequestInv
  <2>3. CASE at' = "read" /\ Becomes([incoming_body |-> "alive", stream |-> "alive"])
    <3>1. \A r \in Resources :
            res'[r] = IF r = "incoming_body" THEN "alive"
                      ELSE IF r = "stream" THEN "alive"
                      ELSE res[r]
      BY <2>3 DEF Becomes
    <3>2. AliveIs({"future", "incoming", "incoming_body", "stream"})'
      BY <3>1, <2>2 DEF AliveIs
    <3> QED
      BY <2>3, <3>2, HoldsAfter, HeldIs, LeavesAre DEF Leaves
  <2>4. CASE at' = "unwind" /\ UNCHANGED res
    <3>1. AliveIs({"future", "incoming"})'
      BY <2>4, <2>2 DEF AliveIs
    <3> QED
      BY <2>4, <3>1, HoldsAfter, HeldIs, LeavesAre DEF Leaves
  <2>5. CASE at' = "unwind" /\ Becomes([incoming_body |-> "alive"])
    <3>1. \A r \in Resources : res'[r] = IF r = "incoming_body" THEN "alive" ELSE res[r]
      BY <2>5 DEF Becomes
    <3>2. AliveIs({"future", "incoming", "incoming_body"})'
      BY <3>1, <2>2 DEF AliveIs
    <3> QED
      BY <2>5, <3>2, HoldsAfter, HeldIs, LeavesAre DEF Leaves
  <2> QED
    BY <2>1, <2>3, <2>4, <2>5
<1>13. CASE ReadChunk
  <2>1. at = "read" /\ at' = "read" /\ UNCHANGED res
    BY <1>13 DEF ReadChunk, Now, Raises
  <2>2. AliveIs({"future", "incoming", "incoming_body", "stream"})
    BY <2>1, HeldBefore, HeldIs DEF RequestInv
  <2>3. AliveIs({"future", "incoming", "incoming_body", "stream"})'
    BY <2>1, <2>2 DEF AliveIs
  <2> QED
    BY <2>1, <2>3, HoldsAfter, HeldIs, LeavesAre DEF Leaves
<1>14. CASE ReadEnds
  <2>1. at = "read" /\ at' = "release" /\ Becomes([stream |-> "dropped"])
    BY <1>14 DEF ReadEnds, Now, Raises
  <2>2. AliveIs({"future", "incoming", "incoming_body", "stream"})
    BY <2>1, HeldBefore, HeldIs DEF RequestInv
  <2>3. \A r \in Resources : res'[r] = IF r = "stream" THEN "dropped" ELSE res[r]
    BY <2>1 DEF Becomes
  <2>4. AliveIs({"future", "incoming", "incoming_body"})'
    BY <2>3, <2>2 DEF AliveIs
  <2> QED
    BY <2>1, <2>4, HoldsAfter, HeldIs, LeavesAre DEF Leaves
<1>15. CASE ReadFails
  <2>1. at = "read" /\ at' = "unwind" /\ Becomes([stream |-> "dropped"])
    BY <1>15 DEF ReadFails, Now, Raises
  <2>2. AliveIs({"future", "incoming", "incoming_body", "stream"})
    BY <2>1, HeldBefore, HeldIs DEF RequestInv
  <2>3. \A r \in Resources : res'[r] = IF r = "stream" THEN "dropped" ELSE res[r]
    BY <2>1 DEF Becomes
  <2>4. AliveIs({"future", "incoming", "incoming_body"})'
    BY <2>3, <2>2 DEF AliveIs
  <2> QED
    BY <2>1, <2>4, HoldsAfter, HeldIs, LeavesAre DEF Leaves
<1>16. CASE Release
  <2> DEFINE Body == [incoming_body |-> "given"]
             Response == [incoming_body |-> "given", incoming |-> "dropped"]
             All == [incoming_body |-> "given", incoming |-> "dropped", future |-> "dropped"]
  <2>1. /\ at = "release"
        /\ \/ at' = "idle" /\ Becomes(All)
           \/ at' = "unwind" /\ (Becomes(Body) \/ Becomes(Response))
    BY <1>16 DEF Release, Raises
  <2>2. AliveIs({"future", "incoming", "incoming_body"})
    BY <2>1, HeldBefore, HeldIs DEF RequestInv
  <2>3. CASE at' = "idle" /\ Becomes(All)
    <3>1. \A r \in Resources :
            res'[r] = IF r = "incoming_body" THEN "given"
                      ELSE IF r = "incoming" THEN "dropped"
                      ELSE IF r = "future" THEN "dropped"
                      ELSE res[r]
      BY <2>3 DEF Becomes
    <3>2. AliveIs({})'
      BY <3>1, <2>2 DEF AliveIs
    <3> QED
      BY <2>3, <3>2, HoldsAfter, HeldIs, LeavesAre DEF Leaves
  <2>4. CASE at' = "unwind" /\ Becomes(Body)
    <3>1. \A r \in Resources : res'[r] = IF r = "incoming_body" THEN "given" ELSE res[r]
      BY <2>4 DEF Becomes
    <3>2. AliveIs({"future", "incoming"})'
      BY <3>1, <2>2 DEF AliveIs
    <3> QED
      BY <2>4, <3>2, HoldsAfter, HeldIs, LeavesAre DEF Leaves
  <2>5. CASE at' = "unwind" /\ Becomes(Response)
    <3>1. \A r \in Resources :
            res'[r] = IF r = "incoming_body" THEN "given"
                      ELSE IF r = "incoming" THEN "dropped"
                      ELSE res[r]
      BY <2>5 DEF Becomes
    <3>2. AliveIs({"future"})'
      BY <3>1, <2>2 DEF AliveIs
    <3> QED
      BY <2>5, <3>2, HoldsAfter, HeldIs, LeavesAre DEF Leaves
  <2> QED
    BY <2>1, <2>3, <2>4, <2>5
<1>17. CASE Unwind
  <2>1. CASE \E r \in Resources : res[r] = "alive"
    <3>1. PICK i \in DOMAIN Locals : res' = [res EXCEPT ![Locals[i]] = "dropped"]
      BY <1>17, <2>1 DEF Unwind
    <3>2. at = "unwind" /\ at' = "unwind"
      BY <1>17, <2>1 DEF Unwind
    <3>3. \A r \in Resources : res'[r] = "alive" => res[r] = "alive"
      BY <3>1, LocalsAre DEF RequestInv, HttpTypeOK
    <3>4. \A r \in Leaves : res'[r] # "alive"
      BY <3>2, <3>3, LeavesAre DEF RequestInv, Holding
    <3> QED
      BY <3>2, <3>4 DEF Holding
  <2>2. CASE \A r \in Resources : res[r] # "alive"
    <3>1. at' = "idle" /\ res' = res
      BY <1>17, <2>2 DEF Unwind
    <3>2. AliveIs({})'
      BY <2>2, <3>1 DEF AliveIs
    <3> QED
      BY <3>1, <3>2, HoldsAfter, HeldIs, LeavesAre
  <2> QED
    BY <2>1, <2>2
<1> QED
  BY <1>1, <1>2, <1>3, <1>4, <1>5, <1>6, <1>7, <1>8, <1>9, <1>10, <1>11, <1>12, <1>13,
     <1>14, <1>15, <1>16, <1>17 DEF HttpStep

LEMMA StepProgress == ASSUME RequestInv, HttpStep PROVE Progress'
<1> USE HttpAssumption, ResourcesAre
    DEF RequestInv, HttpTypeOK, Now, Becomes, Raises, Holding, HeldAt, Progress
<1>1. CASE MakeHeaders BY <1>1 DEF MakeHeaders
<1>2. CASE BuildRequest BY <1>2 DEF BuildRequest
<1>3. CASE OpenBody BY <1>3 DEF OpenBody
<1>4. CASE WriteChunk BY <1>4 DEF WriteChunk
<1>5. CASE WriteFails BY <1>5 DEF WriteFails
<1>6. CASE WriteEnds BY <1>6 DEF WriteEnds
<1>7. CASE FinishBody BY <1>7 DEF FinishBody
<1>8. CASE Handle BY <1>8 DEF Handle
<1>9. CASE Get BY <1>9 DEF Get
<1>10. CASE Block BY <1>10 DEF Block
<1>11. CASE Check BY <1>11 DEF Check
<1>12. CASE Consume BY <1>12 DEF Consume
<1>13. CASE ReadChunk BY <1>13 DEF ReadChunk
<1>14. CASE ReadEnds BY <1>14 DEF ReadEnds
<1>15. CASE ReadFails BY <1>15 DEF ReadFails
<1>16. CASE Release BY <1>16 DEF Release
<1>17. CASE Unwind BY <1>17, LocalsAre DEF Unwind
<1> QED
  BY <1>1, <1>2, <1>3, <1>4, <1>5, <1>6, <1>7, <1>8, <1>9, <1>10, <1>11, <1>12, <1>13,
     <1>14, <1>15, <1>16, <1>17 DEF HttpStep

LEMMA StepInv == ASSUME RequestInv, HttpStep PROVE RequestInv'
  BY StepTyped, StepHolding, StepProgress DEF RequestInv

\* A step ends the life of no resource whose child is alive.
LEMMA StepChildren ==
  ASSUME RequestInv, HttpStep, NEW pair \in Children,
         res[pair[1]] = "alive", res'[pair[1]] # "alive"
  PROVE  res[pair[2]] # "alive"
<1> USE ResourcesAre
    DEF RequestInv, HttpTypeOK, Now, Becomes, Raises, Holding, HeldAt, Leaves, Children
<1>1. CASE MakeHeaders BY <1>1 DEF MakeHeaders
<1>2. CASE BuildRequest BY <1>2 DEF BuildRequest
<1>3. CASE OpenBody BY <1>3 DEF OpenBody
<1>4. CASE WriteChunk BY <1>4 DEF WriteChunk
<1>5. CASE WriteFails BY <1>5 DEF WriteFails
<1>6. CASE WriteEnds BY <1>6 DEF WriteEnds
<1>7. CASE FinishBody BY <1>7 DEF FinishBody
<1>8. CASE Handle BY <1>8 DEF Handle
<1>9. CASE Get BY <1>9 DEF Get
<1>10. CASE Block BY <1>10 DEF Block
<1>11. CASE Check BY <1>11 DEF Check
<1>12. CASE Consume BY <1>12 DEF Consume
<1>13. CASE ReadChunk BY <1>13 DEF ReadChunk
<1>14. CASE ReadEnds BY <1>14 DEF ReadEnds
<1>15. CASE ReadFails BY <1>15 DEF ReadFails
<1>16. CASE Release BY <1>16 DEF Release
<1>17. CASE Unwind BY <1>17 DEF Unwind
<1> QED
  BY <1>1, <1>2, <1>3, <1>4, <1>5, <1>6, <1>7, <1>8, <1>9, <1>10, <1>11, <1>12, <1>13,
     <1>14, <1>15, <1>16, <1>17 DEF HttpStep

-----------------------------------------------------------------------------
(* The cells around it. *)

\* What the flag promises: requests.sessions sends through the host unless it was
\* reloaded after requests.adapters, and it would take the adapter again unless
\* requests.adapters was reloaded.
Flagged ==
  http.patched => /\ reloaded # "both" => http.sessions = "wasi"
                  /\ reloaded = "nothing" => http.adapters = "wasi"

GuestInv == GuestTypeOK /\ RequestInv /\ Nested

LEMMA InitGuest == Init => GuestInv
<1> SUFFICES ASSUME Init PROVE GuestInv
  OBVIOUS
<1>1. RequestInv /\ Nested
  BY HttpInitInv DEF Init, Nested, HttpInit
<1>2. GuestTypeOK
  BY <1>1 DEF Init, GuestTypeOK, RequestInv, NotImported, NoResult
<1> QED
  BY <1>1, <1>2 DEF GuestInv

LEMMA Restarts == ASSUME Restart PROVE RequestInv'
<1>1. HttpInit'
  BY DEF Restart, HttpInit
<1> QED
  BY <1>1, HttpInitInv, PTL

\* The request changes in steps of its own, begins, fails, or goes with its interpreter.
LEMMA RequestKept == ASSUME GuestInv, [Next]_vars PROVE RequestInv'
<1> USE DEF GuestInv, GuestTypeOK
<1>1. CASE UNCHANGED httpVars
  BY <1>1 DEF httpVars, RequestInv, HttpTypeOK, Holding, Progress, HeldAt
<1>2. CASE Request
  BY <1>2, StepInv DEF Request
<1>3. CASE \E how \in {"request", "requests"} : Send(how)
  BY <1>3, CallInv DEF Send
<1>4. CASE RequestRaises
  BY <1>4 DEF RequestRaises, RequestInv, HttpTypeOK, Holding, Progress, HeldAt
<1>5. CASE Restart
  BY <1>5, Restarts
<1> QED
  BY <1>1, <1>2, <1>3, <1>4, <1>5
  DEF Next, vars, RunCode, InstallRequestsAdapter, Raise, ImportRequests, ForgetRequests,
      LastExpression, Display, EncodeRunResult, InstallModules, Reset, PackageChanges,
      Bind, ImportWheel, Reload, Goto

\* What an import finds is what there was or the package as it is delivered.
Copies == [adapters : {"none", "stock", "wasi"}, sessions : {"none", "stock", "wasi"},
           patched : BOOLEAN]

LEMMA CopiesAre == Stock \in Copies /\ Wasi \in Copies
<1>1. Stock \in Copies
  BY DEF Copies, Stock
<1>2. Wasi \in Copies
  BY DEF Copies, Wasi
<1> QED
  BY <1>1, <1>2

LEMMA FoundTyped == ASSUME http \in Copies, NEW found \in {http, Stock} PROVE found \in Copies
  BY CopiesAre

LEMMA ImportTyped == ASSUME http \in Copies, ImportRequests PROVE http' \in Copies
<1>1. CASE \E found \in {http, Stock} : http' = found
  BY <1>1, FoundTyped
<1>2. CASE UNCHANGED http
  BY <1>2
<1> QED
  BY <1>1, <1>2 DEF ImportRequests

LEMMA AdapterTyped == ASSUME http \in Copies, InstallRequestsAdapter PROVE http' \in Copies
<1>1. CASE \E found \in {http, Stock} : http' = found \/ http' = Wasi
  BY <1>1, FoundTyped, CopiesAre
<1>2. CASE UNCHANGED http
  BY <1>2
<1> QED
  BY <1>1, <1>2 DEF InstallRequestsAdapter, PatchRequests

Outcomes == [outputs : {"none", "text", "rich", "bytes"}, error : BOOLEAN]

Rest ==
  /\ phase \in {"idle", "adapter", "execute", "display", "encode", "trapped"}
  /\ globals \subseteq Names
  /\ wheels \in [Modules -> {"none", "imports", "raises"}]
  /\ loaded \subseteq Modules
  /\ package \in {"none", "partial", "raises", "whole"}
  /\ http \in Copies
  /\ reloaded \in {"nothing", "adapters", "both"}
  /\ via \in {"request", "requests"}
  /\ value \in {"none", "plain", "rich", "mute", "bytes"}
  /\ result \in Outcomes

LEMMA TypesAre == GuestTypeOK <=> HttpTypeOK /\ Rest
  BY Zenon DEF GuestTypeOK, Rest, Copies, Outcomes

LEMMA EmptyTyped == NotImported \in Copies /\ NoResult \in Outcomes
<1>1. NotImported \in Copies
  BY DEF NotImported, Copies
<1>2. NoResult \in Outcomes
  BY DEF NoResult, Outcomes
<1> QED
  BY <1>1, <1>2

LEMMA FailsTyped ==
  ASSUME result \in Outcomes, Fails
  PROVE  result' \in Outcomes /\ phase' \in {"encode", "trapped"}
  BY DEF Fails, Outcomes

LEMMA ReloadTyped ==
  ASSUME http \in Copies, reloaded \in {"nothing", "adapters", "both"},
         NEW module \in {"adapters", "sessions"}, Reload(module)
  PROVE  http' \in Copies /\ reloaded' \in {"nothing", "adapters", "both"}
<1>1. CASE http' = [http EXCEPT !.adapters = "stock"]
  BY <1>1 DEF Copies, Reload, Reloads
<1>2. CASE http' = [http EXCEPT !.sessions = http.adapters]
  BY <1>2 DEF Copies, Reload, Reloads
<1>3. CASE UNCHANGED <<http, reloaded>>
  BY <1>3
<1> QED
  BY <1>1, <1>2, <1>3 DEF Reload, Reloads

LEMMA DisplayTyped ==
  ASSUME result \in Outcomes, Display
  PROVE  result' \in Outcomes /\ phase' \in {"encode", "trapped"}
<1>1. CASE Fails
  BY <1>1, FailsTyped
<1>2. ASSUME NEW outputs \in {"none", "text", "rich", "bytes"},
             result' = [result EXCEPT !.outputs = outputs]
      PROVE  result' \in Outcomes
  BY <1>2 DEF Outcomes
<1> QED
  BY <1>1, <1>2 DEF Display

LEMMA RestKept == ASSUME GuestInv, [Next]_vars PROVE Rest'
<1> USE DEF Rest, Goto
<1> Rest
  BY TypesAre DEF GuestInv
<1>1. CASE RunCode BY <1>1, EmptyTyped DEF RunCode
<1>2. CASE InstallRequestsAdapter
  BY <1>2, AdapterTyped, FailsTyped DEF InstallRequestsAdapter, PatchRequests
<1>3. CASE \E n \in Names : Bind(n) BY <1>3 DEF Bind
<1>4. CASE Raise BY <1>4, FailsTyped DEF Raise
<1>5. CASE \E m \in Modules : ImportWheel(m) BY <1>5, FailsTyped DEF ImportWheel
<1>6. CASE ImportRequests
  BY <1>6, ImportTyped, FailsTyped DEF ImportRequests
<1>7. CASE ForgetRequests BY <1>7, EmptyTyped DEF ForgetRequests
<1>8. CASE \E module \in {"adapters", "sessions"} : Reload(module)
  BY <1>8, ReloadTyped, FailsTyped DEF Reload
<1>9. CASE \E how \in {"request", "requests"} : Send(how) BY <1>9 DEF Send
<1>10. CASE Request BY <1>10 DEF Request, guestVars
<1>11. CASE RequestRaises BY <1>11, FailsTyped DEF RequestRaises
<1>12. CASE LastExpression BY <1>12 DEF LastExpression
<1>13. CASE Display BY <1>13, DisplayTyped DEF Display
<1>14. CASE EncodeRunResult BY <1>14 DEF EncodeRunResult
<1>15. CASE InstallModules BY <1>15 DEF InstallModules
<1>16. CASE Reset BY <1>16 DEF Reset
<1>17. CASE PackageChanges BY <1>17 DEF PackageChanges
<1>18. CASE Restart BY <1>18, EmptyTyped DEF Restart
<1>19. CASE UNCHANGED vars BY <1>19 DEF vars, guestVars
<1> QED
  BY <1>1, <1>2, <1>3, <1>4, <1>5, <1>6, <1>7, <1>8, <1>9, <1>10, <1>11, <1>12, <1>13,
     <1>14, <1>15, <1>16, <1>17, <1>18, <1>19 DEF Next

LEMMA TypesKept == ASSUME GuestInv, [Next]_vars PROVE GuestTypeOK'
<1>1. HttpTypeOK'
  BY RequestKept DEF RequestInv
<1>2. Rest'
  BY RestKept
<1> QED
  BY <1>1, <1>2, TypesAre, PTL

\* Nothing leaves the cell in the middle of a request.
LEMMA NestedKept == ASSUME GuestInv, [Next]_vars PROVE Nested'
<1> USE DEF GuestInv, Nested, Goto, Fails, Executing, httpVars
<1>1. CASE UNCHANGED vars BY <1>1 DEF vars, guestVars
<1>2. CASE Request BY <1>2 DEF Request, guestVars
<1>3. CASE Restart BY <1>3 DEF Restart
<1> QED
  BY <1>1, <1>2, <1>3
  DEF Next, RunCode, InstallRequestsAdapter, Raise, ImportRequests, ForgetRequests, Send,
      RequestRaises, LastExpression, Display, EncodeRunResult, InstallModules, Reset,
      PackageChanges, Bind, ImportWheel, Reload

LEMMA InvKept == GuestInv /\ [Next]_vars => GuestInv'
  BY RequestKept, TypesKept, NestedKept DEF GuestInv

LEMMA Invariance == Spec => []GuestInv
  BY InitGuest, InvKept, PTL DEF Spec

\* Guest and HttpRequest have the types they state.
THEOREM GuestTypeCorrect == Spec => []GuestTypeOK
  BY Invariance, PTL DEF GuestInv

\* A request body counts as complete only when it was written, a response only
\* when it was read, and no resource is left over, for bodies of any length.
THEOREM CompleteHolds == Spec => []CompleteOnly
<1>1. GuestInv => CompleteOnly
  BY DEF GuestInv, RequestInv, Holding, HeldAt, Progress, CompleteOnly
<1> QED
  BY <1>1, Invariance, PTL

\* Children are dropped before their parents, on every path that leaves request.
THEOREM ChildrenHold == Spec => ChildrenFirst
<1> DEFINE Kept == \A pair \in Children :
              res[pair[1]] = "alive" /\ res'[pair[1]] # "alive" => res[pair[2]] # "alive"
<1>1. ASSUME GuestInv, [Next]_vars, UNCHANGED res PROVE Kept
  BY <1>1
<1>2. ASSUME GuestInv, at = "idle" PROVE Kept
  <2>1. \A r \in Resources : res[r] # "alive"
    BY <1>2 DEF GuestInv, RequestInv, Holding, HeldAt
  <2> QED
    BY <2>1, ResourcesAre DEF Children
<1>3. ASSUME GuestInv, Request PROVE Kept
  BY <1>3, StepChildren DEF Request, GuestInv
<1>4. ASSUME GuestInv, Restart PROVE Kept
  BY <1>2, <1>4 DEF Restart, GuestInv, Nested
<1>5. ASSUME GuestInv, [Next]_vars PROVE Kept
  <2> USE DEF Goto, Executing, httpVars
  <2>1. CASE UNCHANGED vars BY <1>1, <1>5, <2>1 DEF vars
  <2>2. CASE Next
    BY <1>1, <1>2, <1>3, <1>4, <1>5, <2>2
    DEF Next, RunCode, InstallRequestsAdapter, Raise, ImportRequests, ForgetRequests, Send,
        RequestRaises, LastExpression, Display, EncodeRunResult, InstallModules, Reset,
        PackageChanges, Bind, ImportWheel, Reload
  <2> QED
    BY <1>5, <2>1, <2>2
<1>6. GuestInv /\ [Next]_vars => [Kept]_httpVars
  BY <1>5
<1> QED
  BY <1>6, Invariance, PTL DEF Spec, ChildrenFirst

LEMMA FlaggedKept == ASSUME GuestInv, Flagged, [Next]_vars PROVE Flagged'
<1> USE DEF GuestInv, GuestTypeOK, Flagged, NotImported, Stock, Wasi
<1>1. CASE UNCHANGED <<http, reloaded>>
  BY <1>1
<1>2. CASE InstallRequestsAdapter
  BY <1>2 DEF InstallRequestsAdapter, Imports, PatchRequests
<1>3. CASE ImportRequests
  BY <1>3 DEF ImportRequests, Imports
<1>4. CASE ForgetRequests
  BY <1>4 DEF ForgetRequests
<1>5. CASE \E module \in {"adapters", "sessions"} : Reload(module)
  <2>1. PICK module \in {"adapters", "sessions"} : Reload(module)
    BY <1>5
  <2>2. CASE UNCHANGED <<http, reloaded>>
    BY <2>2
  <2>3. CASE module = "adapters" /\ Reloads(module)
    BY <2>3 DEF Reloads
  <2>4. CASE module = "sessions" /\ Reloads(module)
    BY <2>4 DEF Reloads
  <2> QED
    BY <2>1, <2>2, <2>3, <2>4 DEF Reload
<1>6. CASE Restart
  BY <1>6 DEF Restart
<1> QED
  BY <1>1, <1>2, <1>3, <1>4, <1>5, <1>6
  DEF Next, vars, guestVars, RunCode, Raise, Send, Request, RequestRaises, LastExpression,
      Display, EncodeRunResult, InstallModules, Reset, PackageChanges, Bind, ImportWheel

\* Unless cells reloaded requests.adapters and after it requests.sessions since
\* requests was patched, the code of each cell starts with requests sending through
\* the host, for any names and modules and requests of any length.
THEOREM AdapterHolds == Spec => AdapterUnlessReloaded
<1> DEFINE Placed == phase = "adapter" /\ phase' = "execute" /\ reloaded # "both"
                       => \/ http'.sessions = "wasi"
                          \/ http'.sessions = "none" /\ package # "whole"
<1>1. Init => Flagged
  BY DEF Init, Flagged, NotImported
<1>2. GuestInv /\ Flagged /\ [Next]_vars => Flagged'
  BY FlaggedKept
<1>3. Spec => []Flagged
  BY <1>1, <1>2, Invariance, PTL DEF Spec
<1>4. ASSUME GuestInv, Flagged, [Next]_vars PROVE [Placed]_vars
  <2> SUFFICES ASSUME phase = "adapter", phase' = "execute", reloaded # "both", Next
               PROVE  Placed
    BY <1>4
  <2>1. InstallRequestsAdapter
    BY DEF Next, RunCode, Raise, ImportRequests, ForgetRequests, Send, Request, guestVars,
           RequestRaises, LastExpression, Display, EncodeRunResult, InstallModules, Reset,
           PackageChanges, Bind, ImportWheel, Reload, Restart, Goto, Executing
  <2> QED
    BY <1>4, <2>1
    DEF InstallRequestsAdapter, Imports, PatchRequests, NoRequests, Flagged, Wasi, Stock,
        Fails, GuestInv, GuestTypeOK
<1> QED
  BY <1>3, <1>4, Invariance, PTL DEF Spec, AdapterUnlessReloaded
=============================================================================

----------------------------- MODULE QueueLemmas -----------------------------
(***************************************************************************)
(* Queues in which nothing is twice: what appending to one and taking its  *)
(* head make of the set of its entries.  The proofs about the event loops  *)
(* speak of their queues of handles in these terms.                        *)
(***************************************************************************)
EXTENDS Naturals, Sequences, TLAPS

Entries(q) == {q[i] : i \in DOMAIN q}

NoRepeats(q) == \A i, j \in DOMAIN q : q[i] = q[j] => i = j

LEMMA EmptyQueue == Entries(<<>>) = {} /\ NoRepeats(<<>>)
  BY DEF Entries, NoRepeats

LEMMA SingleQueue ==
  ASSUME NEW e PROVE Entries(<<e>>) = {e} /\ NoRepeats(<<e>>)
<1>1. DOMAIN <<e>> = {1} /\ <<e>>[1] = e
  OBVIOUS
<1> QED
  BY <1>1 DEF Entries, NoRepeats

LEMMA NonemptyQueue ==
  ASSUME NEW S, NEW q \in Seq(S), Entries(q) = {} PROVE q = <<>>
<1>1. CASE Len(q) = 0
  BY <1>1
<1>2. CASE Len(q) # 0
  <2>1. 1 \in DOMAIN q
    BY <1>2
  <2> QED
    BY <2>1 DEF Entries
<1> QED
  BY <1>1, <1>2

LEMMA EntriesTyped ==
  ASSUME NEW S, NEW q \in Seq(S) PROVE Entries(q) \subseteq S
  BY DEF Entries

LEMMA AppendQueue ==
  ASSUME NEW S, NEW q \in Seq(S), NEW e \in S
  PROVE  /\ Append(q, e) \in Seq(S)
         /\ Entries(Append(q, e)) = Entries(q) \cup {e}
         /\ NoRepeats(q) /\ e \notin Entries(q) => NoRepeats(Append(q, e))
<1> DEFINE r == Append(q, e)
<1>1. /\ r \in Seq(S) /\ DOMAIN q = 1..Len(q) /\ DOMAIN r = 1..(Len(q) + 1) /\ Len(q) \in Nat
      /\ r[Len(q) + 1] = e
      /\ \A i \in DOMAIN q : r[i] = q[i]
  OBVIOUS
<1>2. Entries(r) = Entries(q) \cup {e}
  <2>1. ASSUME NEW i \in DOMAIN r PROVE r[i] \in Entries(q) \cup {e}
    <3>1. CASE i = Len(q) + 1
      BY <1>1, <3>1
    <3>2. CASE i \in DOMAIN q
      BY <1>1, <3>2 DEF Entries
    <3> QED
      BY <1>1, <3>1, <3>2
  <2>2. ASSUME NEW i \in DOMAIN q PROVE q[i] \in Entries(r)
    <3>1. i \in DOMAIN r /\ r[i] = q[i]
      BY <1>1
    <3> QED
      BY <3>1 DEF Entries
  <2>3. e \in Entries(r)
    <3>1. Len(q) + 1 \in DOMAIN r
      BY <1>1
    <3> QED
      BY <1>1, <3>1 DEF Entries
  <2> QED
    BY <2>1, <2>2, <2>3 DEF Entries
<1>3. ASSUME NoRepeats(q), e \notin Entries(q), NEW i \in DOMAIN r, NEW j \in DOMAIN r, r[i] = r[j]
      PROVE  i = j
  <2>1. \A k \in DOMAIN q : r[k] # e
    BY <1>1, <1>3 DEF Entries
  <2> QED
    BY <1>1, <1>3, <2>1 DEF NoRepeats
<1> QED
  BY <1>1, <1>2, <1>3 DEF NoRepeats

LEMMA TakeQueue ==
  ASSUME NEW S, NEW q \in Seq(S), q # <<>>, NoRepeats(q)
  PROVE  /\ Head(q) \in S /\ Tail(q) \in Seq(S)
         /\ Head(q) \in Entries(q)
         /\ Entries(Tail(q)) = Entries(q) \ {Head(q)}
         /\ NoRepeats(Tail(q))
<1> DEFINE r == Tail(q)
<1>1. /\ DOMAIN q = 1..Len(q) /\ Len(q) \in Nat /\ Len(q) >= 1
      /\ DOMAIN r = 1..(Len(q) - 1)
      /\ \A i \in DOMAIN r : r[i] = q[i + 1]
      /\ Head(q) = q[1] /\ r \in Seq(S) /\ Head(q) \in S
  OBVIOUS
<1>2. ASSUME NEW i \in DOMAIN r PROVE r[i] \in Entries(q) \ {Head(q)}
  <2>1. i + 1 \in DOMAIN q /\ i + 1 # 1 /\ 1 \in DOMAIN q
    BY <1>1
  <2> QED
    BY <1>1, <2>1 DEF Entries, NoRepeats
<1>3. ASSUME NEW i \in DOMAIN q, q[i] # Head(q) PROVE q[i] \in Entries(r)
  <2>1. i - 1 \in DOMAIN r /\ r[i - 1] = q[i]
    BY <1>1, <1>3
  <2> QED
    BY <2>1 DEF Entries
<1>4. Entries(r) = Entries(q) \ {Head(q)}
  BY <1>2, <1>3 DEF Entries
<1>5. Head(q) \in Entries(q)
  BY <1>1 DEF Entries
<1>6. ASSUME NEW i \in DOMAIN r, NEW j \in DOMAIN r, r[i] = r[j] PROVE i = j
  <2>1. i + 1 \in DOMAIN q /\ j + 1 \in DOMAIN q /\ q[i + 1] = q[j + 1]
    BY <1>1, <1>6
  <2> QED
    BY <1>1, <2>1 DEF NoRepeats
<1> QED
  BY <1>1, <1>4, <1>5, <1>6 DEF NoRepeats
=============================================================================

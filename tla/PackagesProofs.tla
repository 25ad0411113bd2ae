---------------------------- MODULE PackagesProofs ----------------------------
(***************************************************************************)
(* Proofs about Packages, for any packages, dependencies and files.        *)
(*                                                                         *)
(* Carried says where the files of an installation are at each of its      *)
(* steps.  Covered says why a dependency without a marker has been looked  *)
(* for, or still will be.  Below says, for a set that holds what markers   *)
(* lead to, that only a member of it may be lacking without an error.      *)
(***************************************************************************)
EXTENDS Packages, SequenceTheorems, TLAPS

-----------------------------------------------------------------------------
(* Types. *)

LEMMA CallTyped ==
  ASSUME NEW n \in Names, NEW m \in BOOLEAN
  PROVE  [name |-> n, marked |-> m, left |-> Dependencies(n)] \in Calls
  BY DEF Calls, Dependencies

LEMMA LeftTyped ==
  ASSUME stack \in Seq(Calls), stack # <<>>, NEW n
  PROVE  [stack EXCEPT ![Len(stack)].left = @ \ {n}] \in Seq(Calls)
<1>1. Len(stack) \in 1..Len(stack) /\ stack[Len(stack)] \in Calls
  BY EmptySeq
<1>2. [stack[Len(stack)] EXCEPT !.left = @ \ {n}] \in Calls
  BY <1>1 DEF Calls
<1> QED
  BY <1>1, <1>2

LEMMA BelowTyped ==
  ASSUME stack \in Seq(Calls), stack # <<>>
  PROVE  Below \in Seq(Calls)
  BY EmptySeq DEF Below

LEMMA TopTyped ==
  ASSUME stack \in Seq(Calls), stack # <<>>
  PROVE  Top \in Calls /\ Top.name \in Names
<1>1. Top \in Calls
  BY EmptySeq DEF Top
<1> QED
  BY <1>1 DEF Calls

LEMMA TakenTyped ==
  ASSUME TypeOK, NEW n, Taken(n)
  PROVE  ahead' \subseteq Names /\ stack' \in Seq(Calls) /\ asked' = asked
  BY LeftTyped DEF TypeOK, Taken

\* The stack without the call that a download pushes.
Without(n) == IF stack = <<>> THEN stack ELSE [stack EXCEPT ![Len(stack)].left = @ \ {n}]
CallOf(n, marked) == [name |-> n, marked |-> marked, left |-> Dependencies(n)]

LEMMA DownloadPushes ==
  ASSUME TypeOK, NEW n \in Names, NEW marked \in BOOLEAN, Download(n, marked)
  PROVE  /\ Without(n) \in Seq(Calls) /\ CallOf(n, marked) \in Calls
         /\ stack' = Append(Without(n), CallOf(n, marked))
<1>1. Without(n) \in Seq(Calls)
  BY LeftTyped DEF Without, TypeOK
<1>2. CallOf(n, marked) \in Calls
  BY CallTyped DEF CallOf
<1>3. CASE stack = <<>>
  <2>1. stack' = <<CallOf(n, marked)>>
    BY <1>3 DEF Download, CallOf
  <2> QED
    BY <1>1, <1>2, <1>3, <2>1 DEF Without
<1>4. CASE stack # <<>>
  BY <1>1, <1>2, <1>4 DEF Download, Without, CallOf
<1> QED
  BY <1>1, <1>2, <1>3, <1>4

LEMMA InitTyped == Init => TypeOK
  BY PackagesAssumption DEF Init, TypeOK

LEMMA StepTyped == ASSUME TypeOK, [Next]_vars PROVE TypeOK'
<1> USE PackagesAssumption
    DEF TypeOK, fixedVars, prefetchVars, fileVars, Ready, Goto, Of, AllFiles, Movable, Forget
<1>1. CASE PipInstall
  <2>1. installs' \in 0..MaxInstalls
    BY <1>1 DEF PipInstall
  <2>2. /\ asked' \subseteq Names /\ ahead' \subseteq Names /\ seen' \subseteq Names
        /\ wheelhouse' \subseteq Names /\ failing' \subseteq Names /\ cut' \subseteq Names
    BY <1>1 DEF PipInstall
  <2>3. stack' = <<>> \/ stack' = stack
    BY <1>1 DEF PipInstall
  <2>4. step' \in {"prefetch", "failed", "pip"}
    BY <1>1 DEF PipInstall
  <2>5. UNCHANGED <<pypi, needs, native, staged, delivered, site, current>>
    BY <1>1 DEF PipInstall
  <2>6. stack' \in Seq(Calls)
    <3>1. CASE stack' = <<>> BY <3>1, EmptySeq
    <3>2. CASE stack' = stack BY <3>2
    <3> QED
      BY <2>3, <3>1, <3>2
  <2> QED
    BY <2>1, <2>2, <2>4, <2>5, <2>6
<1>2. CASE Return BY <1>2, BelowTyped DEF Return
<1>3. CASE Unwind
  <2>1. Top.name \in Names
    BY <1>3, TopTyped DEF Unwind
  <2> QED
    BY <1>3, <2>1, BelowTyped DEF Unwind, Raised
<1>4. CASE PrefetchFails BY <1>4 DEF PrefetchFails
<1>5. CASE PrefetchEnds BY <1>5 DEF PrefetchEnds
<1>6. CASE GuestPip BY <1>6 DEF GuestPip
<1>7. CASE MoveFails BY <1>7 DEF MoveFails
<1>8. CASE MoveEnds BY <1>8 DEF MoveEnds
<1>9. CASE Restart BY <1>9 DEF Restart
<1>10. CASE Unpack BY <1>10 DEF Unpack
<1>11. CASE UnpackFails BY <1>11 DEF UnpackFails
<1>12. CASE UnpackEnds BY <1>12 DEF UnpackEnds
<1>13. CASE Refresh BY <1>13 DEF Refresh
<1>14. ASSUME NEW name \in Names, NEW marked \in BOOLEAN, AlreadySeen(name, marked)
       PROVE  TypeOK'
  BY <1>14, TakenTyped DEF AlreadySeen
<1>15. ASSUME NEW name \in Names, NEW marked \in BOOLEAN, FetchFails(name, marked)
       PROVE  TypeOK'
  BY <1>15, TakenTyped DEF FetchFails, Raised
<1>16. ASSUME NEW name \in Names, NEW marked \in BOOLEAN, Download(name, marked)
       PROVE  TypeOK'
  <2>1. stack' \in Seq(Calls)
    BY <1>16, DownloadPushes, AppendProperties
  <2> QED
    BY <1>16, <2>1 DEF Download
<1>17. CASE \E file \in AllFiles : Move(file) BY <1>17 DEF Move
<1>18. CASE \E name \in Names : InstallWheel(name) BY <1>18 DEF InstallWheel
<1>19. CASE UNCHANGED vars BY <1>19 DEF vars
<1> QED
  BY <1>1, <1>2, <1>3, <1>4, <1>5, <1>6, <1>7, <1>8, <1>9, <1>10, <1>11, <1>12, <1>13,
     <1>14, <1>15, <1>16, <1>17, <1>18, <1>19 DEF Next

\* Packages has the types it states.
THEOREM PackagesTypeCorrect == Spec => []TypeOK
  BY InitTyped, StepTyped, PTL DEF Spec

-----------------------------------------------------------------------------
(* Files. *)

\* Where the files of the installation are.
Carried ==
  /\ step = "move" => delivered \subseteq (staged \ Strays) \cup site
  /\ step = "restart" => delivered \subseteq site /\ staged \subseteq Strays
  /\ step = "refresh" => delivered \subseteq site
  /\ InstalledWhole

LEMMA StepCarried == ASSUME Carried, [Next]_vars PROVE Carried'
<1> USE DEF Carried, InstalledWhole, fixedVars, prefetchVars, fileVars, Ready, Goto, Of, Movable,
            Forget
<1>1. CASE PipInstall BY <1>1 DEF PipInstall
<1>2. CASE Return BY <1>2 DEF Return
<1>3. CASE Unwind BY <1>3 DEF Unwind, Raised
<1>4. CASE PrefetchFails BY <1>4 DEF PrefetchFails
<1>5. CASE PrefetchEnds BY <1>5 DEF PrefetchEnds
<1>6. CASE GuestPip BY <1>6 DEF GuestPip
<1>7. CASE MoveFails BY <1>7 DEF MoveFails
<1>8. CASE MoveEnds BY <1>8 DEF MoveEnds
<1>9. CASE Restart BY <1>9 DEF Restart
<1>10. CASE Unpack BY <1>10 DEF Unpack
<1>11. CASE UnpackFails BY <1>11 DEF UnpackFails
<1>12. CASE UnpackEnds BY <1>12 DEF UnpackEnds
<1>13. CASE Refresh BY <1>13 DEF Refresh
<1>14. ASSUME NEW name \in Names, NEW marked \in BOOLEAN,
              \/ AlreadySeen(name, marked) \/ FetchFails(name, marked) \/ Download(name, marked)
       PROVE  Carried'
  BY <1>14 DEF AlreadySeen, FetchFails, Download, Raised
<1>15. CASE \E file \in AllFiles : Move(file) BY <1>15 DEF Move
<1>16. CASE \E name \in Names : InstallWheel(name) BY <1>16 DEF InstallWheel
<1>17. CASE UNCHANGED vars BY <1>17 DEF vars
<1> QED
  BY <1>1, <1>2, <1>3, <1>4, <1>5, <1>6, <1>7, <1>8, <1>9, <1>10, <1>11, <1>12, <1>13,
     <1>14, <1>15, <1>16, <1>17 DEF Next

\* An installation that reports success has brought to /site-packages all files of the
\* wheel, or all that pip staged below a directory site-packages; pip's left none of
\* these in the stage, and the interpreter sees them.
THEOREM InstalledWholeHolds == Spec => []InstalledWhole
<1>1. Init => Carried
  BY DEF Init, Carried, InstalledWhole
<1>2. Carried /\ [Next]_vars => Carried'
  BY StepCarried
<1>3. Carried => InstalledWhole
  BY DEF Carried
<1> QED
  BY <1>1, <1>2, <1>3, PTL DEF Spec

-----------------------------------------------------------------------------
(* Dependencies. *)

Awaited(name, dependency) ==
  \E i \in DOMAIN stack : stack[i].name = name /\ dependency \in stack[i].left

\* The package whose call is about to raise.
Leaving == IF step = "raising" /\ stack # <<>> THEN {Top.name} ELSE {}

Covered ==
  \A name \in wheelhouse \ (cut \cup failing \cup Leaving), dependency \in Names :
    needs[<<name, dependency>>] = "required" =>
      dependency \in seen \/ Awaited(name, dependency)

CoveredAsked ==
  step = "prefetch" \/ stack # <<>> => \A name \in asked \ ahead : name \in seen

Walks == step \in {"prefetch", "raising"}

Walking ==
  /\ Walks => Covered /\ CoveredAsked
  /\ step = "prefetch" => failing = {}
  /\ step = "pip" /\ pypi =>
       /\ \A name \in wheelhouse \ cut, dependency \in Names :
            needs[<<name, dependency>>] = "required" => dependency \in seen
       /\ asked \subseteq seen

\* A requirement that the running call takes is the only one it stops to await.
LEMMA TakenAwaited ==
  ASSUME TypeOK, NEW n, Taken(n), NEW name, NEW dependency,
         stack # <<>> /\ name = Top.name => dependency # n,
         Awaited(name, dependency)
  PROVE  Awaited(name, dependency)'
<1>1. CASE stack = <<>>
  BY <1>1 DEF Taken, Awaited
<1>2. CASE stack # <<>>
  <2>1. stack' = [stack EXCEPT ![Len(stack)].left = @ \ {n}]
    BY <1>2 DEF Taken
  <2>2. PICK i \in DOMAIN stack : stack[i].name = name /\ dependency \in stack[i].left
    BY DEF Awaited
  <2>3. stack[i] \in Calls /\ i \in DOMAIN stack'
    BY <2>1, <2>2 DEF TypeOK
  <2>4. i = Len(stack) => dependency # n
    BY <1>2, <2>2 DEF Top
  <2>5. stack'[i].name = name /\ dependency \in stack'[i].left
    BY <2>1, <2>2, <2>3, <2>4 DEF TypeOK, Calls
  <2> QED
    BY <2>3, <2>5 DEF Awaited
<1> QED
  BY <1>1, <1>2

\* A call that returns awaits nothing but what was left to it.
LEMMA BelowAwaited ==
  ASSUME TypeOK, stack # <<>>, stack' = Below, NEW name, NEW dependency,
         Awaited(name, dependency)
  PROVE  \/ Awaited(name, dependency)'
         \/ name = Top.name /\ dependency \in Top.left
<1>1. PICK i \in DOMAIN stack : stack[i].name = name /\ dependency \in stack[i].left
  BY DEF Awaited
<1>2. CASE i = Len(stack)
  BY <1>1, <1>2 DEF Top
<1>3. CASE i # Len(stack)
  <2>1. i \in DOMAIN stack' /\ stack'[i] = stack[i]
    BY <1>1, <1>3, EmptySeq DEF Below, TypeOK
  <2> QED
    BY <1>1, <2>1 DEF Awaited
<1> QED
  BY <1>2, <1>3

LEMMA WithoutIs ==
  ASSUME TypeOK, NEW n, NEW i \in DOMAIN stack
  PROVE  /\ i \in DOMAIN Without(n)
         /\ Without(n)[i].name = stack[i].name
         /\ stack[i].left \ {n} \subseteq Without(n)[i].left
<1>1. stack \in Seq(Calls) /\ stack[i] \in Calls
  BY DEF TypeOK
<1>2. Without(n) = [stack EXCEPT ![Len(stack)].left = @ \ {n}]
  BY <1>1, EmptySeq DEF Without
<1>3. DOMAIN Without(n) = DOMAIN stack
  BY <1>1, <1>2
<1>4. CASE i = Len(stack)
  <2>1. Without(n)[i] = [stack[i] EXCEPT !.left = @ \ {n}]
    BY <1>1, <1>2, <1>4
  <2> QED
    BY <1>1, <1>3, <2>1 DEF Calls
<1>5. CASE i # Len(stack)
  BY <1>1, <1>2, <1>3, <1>5
<1> QED
  BY <1>4, <1>5

LEMMA PushIs ==
  ASSUME NEW s \in Seq(Calls), NEW c \in Calls, NEW t, t = Append(s, c)
  PROVE  /\ Len(s) + 1 \in DOMAIN t /\ t[Len(s) + 1] = c
         /\ \A i \in DOMAIN s : i \in DOMAIN t /\ t[i] = s[i]
  OBVIOUS

\* After a requirement was taken: it is seen, or it has a marker, or its call raises.
LEMMA CoveredTaken ==
  ASSUME TypeOK, Covered, step = "prefetch", NEW n \in Names, Taken(n),
         stack # <<>> => \/ n \in seen'
                         \/ needs[<<Top.name, n>>] # "required"
                         \/ step' = "raising",
         UNCHANGED <<needs, wheelhouse>>, seen \subseteq seen',
         cut \cup failing \subseteq (cut \cup failing)'
  PROVE  Covered'
<1> SUFFICES ASSUME NEW name \in wheelhouse, name \notin (cut \cup failing)', name \notin Leaving',
                    NEW dependency \in Names,
                    needs[<<name, dependency>>] = "required", dependency \notin seen'
             PROVE  Awaited(name, dependency)'
  BY DEF Covered
<1>1. dependency \notin seen /\ name \notin cut \cup failing \cup Leaving
  BY DEF Leaving
<1>2. Awaited(name, dependency)
  BY <1>1 DEF Covered
<1>3. ASSUME stack # <<>>, name = Top.name, dependency = n
      PROVE  FALSE
  <2>1. step' = "raising"
    BY <1>3
  <2>2. stack' = [stack EXCEPT ![Len(stack)].left = @ \ {n}]
    BY <1>3 DEF Taken
  <2>3. stack \in Seq(Calls) /\ Len(stack) \in DOMAIN stack /\ stack[Len(stack)] \in Calls
    BY <1>3, EmptySeq DEF TypeOK
  <2>4. stack' # <<>> /\ Len(stack') = Len(stack) /\ stack'[Len(stack)].name = Top.name
    BY <2>2, <2>3 DEF Top, Calls
  <2>5. name \in Leaving'
    BY <1>3, <2>1, <2>4 DEF Leaving, Top
  <2> QED
    BY <2>5
<1> QED
  BY <1>2, <1>3, TakenAwaited

LEMMA StepWalking == ASSUME TypeOK, Walking, [Next]_vars PROVE Walking'
<1> USE DEF Walking, Walks, fixedVars, prefetchVars, fileVars, Ready, Goto, Forget
<1>1. CASE PipInstall
  BY <1>1 DEF PipInstall, Covered, CoveredAsked
<1>2. CASE Return
  <2>1. Top.left = {} /\ stack # <<>> /\ stack' = Below /\ step = "prefetch"
    BY <1>2 DEF Return
  <2>2. Covered'
    BY <1>2, <2>1, BelowAwaited DEF Return, Covered, Leaving
  <2> QED
    BY <1>2, <2>2 DEF Return, CoveredAsked
<1>3. CASE Unwind
  <2>1. /\ stack # <<>> /\ stack' = Below /\ step = "raising"
        /\ cut' \cup failing' = cut \cup failing \cup {Top.name}
        /\ step' = "prefetch" => failing' = {}
        /\ step' \in {"prefetch", "raising"}
    BY <1>3 DEF Unwind, Raised
  <2>2. Covered'
    BY <1>3, <2>1, BelowAwaited DEF Unwind, Covered, Leaving
  <2> QED
    BY <1>3, <2>1, <2>2 DEF Unwind, CoveredAsked
<1>4. CASE PrefetchEnds
  <2>1. \A name, dependency : ~Awaited(name, dependency)
    BY <1>4 DEF PrefetchEnds, Awaited
  <2> QED
    BY <1>4, <2>1 DEF PrefetchEnds, Covered, CoveredAsked, Leaving
<1>5. ASSUME NEW n \in Names, NEW marked \in BOOLEAN, AlreadySeen(n, marked)
      PROVE  Walking'
  <2>1. Covered'
    BY <1>5, CoveredTaken DEF AlreadySeen
  <2> QED
    BY <1>5, <2>1 DEF AlreadySeen, CoveredAsked, Taken
<1>6. ASSUME NEW n \in Names, NEW marked \in BOOLEAN, FetchFails(n, marked)
      PROVE  Walking'
  <2>1. /\ step = "prefetch" /\ step' \in {"prefetch", "raising"}
        /\ step' = "prefetch" => failing' = {}
        /\ cut' \cup failing' = cut \cup failing
        /\ marked \/ step' = "raising"
        /\ seen \subseteq seen' /\ Taken(n)
        /\ stack = <<>> => marked = FALSE
        /\ stack # <<>> /\ marked => needs[<<Top.name, n>>] = "marker"
    BY <1>6 DEF FetchFails, Raised, NextRequirement
  <2>2. Covered'
    BY <1>6, <2>1, CoveredTaken DEF FetchFails
  <2>3. CoveredAsked'
    <3>1. CASE stack = <<>>
      BY <2>1, <3>1 DEF CoveredAsked, Taken
    <3>2. CASE stack # <<>>
      BY <2>1, <3>2 DEF CoveredAsked, Taken
    <3> QED
      BY <3>1, <3>2
  <2> QED
    BY <2>1, <2>2, <2>3
<1>7. ASSUME NEW n \in Names, NEW marked \in BOOLEAN, Download(n, marked)
      PROVE  Walking'
  <2>1. Covered'
    <3> SUFFICES ASSUME NEW name \in wheelhouse' \ (cut \cup failing), NEW dependency \in Names,
                        needs[<<name, dependency>>] = "required", dependency \notin seen'
                 PROVE  Awaited(name, dependency)'
      BY <1>7 DEF Covered, Download
    <3>1. /\ stack' = Append(Without(n), CallOf(n, marked))
          /\ Without(n) \in Seq(Calls) /\ CallOf(n, marked) \in Calls
      BY <1>7, DownloadPushes
    <3>2. CASE name = n
      <4>1. PICK i \in DOMAIN stack' : stack'[i] = CallOf(n, marked)
        BY <3>1, PushIs
      <4>2. dependency \in Dependencies(n)
        BY <1>7, <3>2 DEF Dependencies, Download
      <4>3. stack'[i].name = name /\ dependency \in stack'[i].left
        BY <3>2, <4>1, <4>2 DEF CallOf
      <4> QED
        BY <4>1, <4>3 DEF Awaited
    <3>3. CASE name # n
      <4>1. /\ dependency # n /\ dependency \notin seen
            /\ name \in wheelhouse \ (cut \cup failing \cup Leaving)
        BY <1>7, <3>3 DEF Download, Leaving
      <4>2. Awaited(name, dependency)
        BY <1>7, <4>1 DEF Covered, Download
      <4>3. PICK i \in DOMAIN stack : stack[i].name = name /\ dependency \in stack[i].left
        BY <4>2 DEF Awaited
      <4>4. i \in DOMAIN Without(n) /\ Without(n)[i].name = name /\ dependency \in Without(n)[i].left
        BY <4>1, <4>3, WithoutIs
      <4>5. i \in DOMAIN stack' /\ stack'[i] = Without(n)[i]
        BY <3>1, <4>4, PushIs
      <4> QED
        BY <4>4, <4>5 DEF Awaited
    <3> QED
      BY <3>2, <3>3
  <2>2. CoveredAsked'
    BY <1>7 DEF Download, CoveredAsked
  <2> QED
    BY <1>7, <2>1, <2>2 DEF Download
<1>8. CASE UNCHANGED vars
  <2>1. \A name, dependency : Awaited(name, dependency)' <=> Awaited(name, dependency)
    BY <1>8 DEF vars, Awaited
  <2>2. Leaving' = Leaving
    BY <1>8 DEF vars, Leaving, Top
  <2> QED
    BY <1>8, <2>1, <2>2 DEF vars, Covered, CoveredAsked
<1> QED
  BY <1>1, <1>2, <1>3, <1>4, <1>5, <1>6, <1>7, <1>8
  DEF Next, PrefetchFails, GuestPip, MoveFails, MoveEnds, Restart, Unpack, UnpackFails,
      UnpackEnds, Refresh, Move, InstallWheel

-----------------------------------------------------------------------------
(* Markers. *)

\* Each call was made by the one before it, and the wheels of both are there.
Linked(calls, i) ==
  /\ calls[i].name \in wheelhouse /\ calls[i].left \subseteq Dependencies(calls[i].name)
  /\ calls[i].marked => i > 1
  /\ i > 1 => LET need == needs[<<calls[i - 1].name, calls[i].name>>]
              IN need # "none" /\ (calls[i].marked => need = "marker")

Chained == \A i \in DOMAIN stack : Linked(stack, i)

\* For a set that holds what markers lead to: what could not be had, and who gave up,
\* is in it, or will be when the error comes to a caller that is in it.
Within(packages) ==
  /\ cut \subseteq packages
  /\ step # "raising" => seen \ wheelhouse \subseteq packages
  /\ step = "raising" /\ stack # <<>> /\ Top.name \in packages =>
       (seen \ wheelhouse) \cup failing \subseteq packages

Excused ==
  /\ Walks => Chained
  /\ Walks \/ (step = "pip" /\ pypi) =>
       \A packages \in SUBSET Names : Optional(packages) => Within(packages)

LEMMA WithoutSame ==
  ASSUME TypeOK, NEW n
  PROVE  /\ Len(Without(n)) = Len(stack) /\ DOMAIN Without(n) = DOMAIN stack
         /\ \A i \in DOMAIN stack :
              /\ Without(n)[i].name = stack[i].name
              /\ Without(n)[i].marked = stack[i].marked
              /\ Without(n)[i].left \subseteq stack[i].left
<1>1. CASE stack = <<>>
  BY <1>1 DEF Without
<1>2. CASE stack # <<>>
  <2>1. Without(n) = [stack EXCEPT ![Len(stack)].left = @ \ {n}] /\ stack \in Seq(Calls)
    BY <1>2 DEF Without, TypeOK
  <2>2. Len(Without(n)) = Len(stack) /\ DOMAIN Without(n) = DOMAIN stack
    BY <2>1
  <2>3. ASSUME NEW i \in DOMAIN stack
        PROVE  /\ Without(n)[i].name = stack[i].name
               /\ Without(n)[i].marked = stack[i].marked
               /\ Without(n)[i].left \subseteq stack[i].left
    <3>1. stack[i] \in Calls
      BY <2>1
    <3>2. \/ Without(n)[i] = stack[i]
          \/ Without(n)[i] = [stack[i] EXCEPT !.left = @ \ {n}]
      BY <2>1
    <3> QED
      BY <3>1, <3>2 DEF Calls
  <2> QED
    BY <2>2, <2>3
<1> QED
  BY <1>1, <1>2

\* Taking a requirement off leaves the calls linked.
LEMMA WithoutLinked ==
  ASSUME TypeOK, Chained, NEW n
  PROVE  \A i \in DOMAIN Without(n) : Linked(Without(n), i)
<1> SUFFICES ASSUME NEW i \in DOMAIN stack PROVE Linked(Without(n), i)
  BY WithoutSame
<1>1. Linked(stack, i)
  BY DEF Chained
<1>2. i > 1 => i - 1 \in DOMAIN stack
  BY DEF TypeOK
<1> QED
  BY <1>1, <1>2, WithoutSame DEF Linked

LEMMA ChainTaken ==
  ASSUME TypeOK, Chained, NEW n, Taken(n), UNCHANGED <<needs, wheelhouse>>
  PROVE  Chained'
<1>1. stack' = Without(n)
  BY DEF Taken, Without
<1> QED
  BY <1>1, WithoutLinked DEF Chained, Linked, Dependencies

LEMMA ChainBelow ==
  ASSUME TypeOK, Chained, stack # <<>>, stack' = Below, UNCHANGED <<needs, wheelhouse>>
  PROVE  Chained'
<1> SUFFICES ASSUME NEW i \in DOMAIN stack' PROVE Linked(stack, i)'
  BY DEF Chained
<1>1. i \in DOMAIN stack /\ stack'[i] = stack[i] /\ (i > 1 => stack'[i - 1] = stack[i - 1])
  BY EmptySeq DEF Below, TypeOK
<1>2. Linked(stack, i)
  BY <1>1 DEF Chained
<1> QED
  BY <1>1, <1>2 DEF Linked, Dependencies

LEMMA ChainPush ==
  ASSUME TypeOK, Chained, NEW n \in Names, NEW marked \in BOOLEAN, Download(n, marked)
  PROVE  Chained'
<1>1. /\ stack' = Append(Without(n), CallOf(n, marked))
      /\ Without(n) \in Seq(Calls) /\ CallOf(n, marked) \in Calls
  BY DownloadPushes
<1>2. UNCHANGED needs /\ wheelhouse' = wheelhouse \cup {n}
  BY DEF Download, fixedVars
<1>3. ASSUME NEW i \in DOMAIN stack PROVE Linked(stack, i)'
  <2>1. Linked(Without(n), i)
    BY <1>3, WithoutLinked, WithoutSame
  <2>2. stack'[i] = Without(n)[i] /\ (i > 1 => stack'[i - 1] = Without(n)[i - 1])
    BY <1>1, <1>3, WithoutSame DEF TypeOK
  <2> QED
    BY <1>2, <2>1, <2>2 DEF Linked, Dependencies
<1>4. ASSUME NEW i, i = Len(stack) + 1 PROVE Linked(stack, i)'
  <2>1. stack'[i] = CallOf(n, marked)
    BY <1>1, <1>4, WithoutSame
  <2>2. CASE stack = <<>>
    <3>1. marked = FALSE /\ i = 1
      BY <1>4, <2>2 DEF Download, NextRequirement
    <3> QED
      BY <1>2, <2>1, <3>1 DEF Linked, CallOf, Dependencies
  <2>3. CASE stack # <<>>
    <3>1. Len(stack) \in DOMAIN stack
      BY <2>3, EmptySeq DEF TypeOK
    <3>2. stack'[i - 1].name = Top.name /\ i > 1
      BY <1>1, <1>4, <3>1, WithoutSame DEF Top, TypeOK
    <3>3. n \in Top.left /\ marked = (needs[<<Top.name, n>>] = "marker")
      BY <2>3 DEF Download, NextRequirement
    <3>4. needs[<<Top.name, n>>] # "none"
      BY <3>1, <3>3 DEF Chained, Linked, Dependencies, Top
    <3>5. stack'[i].name = n /\ stack'[i].left = Dependencies(n) /\ stack'[i].marked = marked
      BY <2>1 DEF CallOf
    <3>6. LET need == needs'[<<stack'[i - 1].name, stack'[i].name>>]
          IN need # "none" /\ (stack'[i].marked => need = "marker")
      BY <1>2, <3>2, <3>3, <3>4, <3>5
    <3> QED
      BY <1>2, <3>2, <3>5, <3>6 DEF Linked, Dependencies
  <2> QED
    BY <2>2, <2>3
<1>5. DOMAIN stack' = DOMAIN stack \cup {Len(stack) + 1}
  BY <1>1, WithoutSame DEF TypeOK
<1> QED
  BY <1>3, <1>4, <1>5 DEF Chained

\* What the wheelhouse gains makes no set hold that did not hold before.
LEMMA OptionalBefore ==
  ASSUME UNCHANGED needs, wheelhouse \subseteq wheelhouse', NEW packages, Optional(packages)'
  PROVE  Optional(packages)
  BY DEF Optional

LEMMA StepExcused == ASSUME TypeOK, Walking, Excused, [Next]_vars PROVE Excused'
<1> USE DEF Excused, Walks, fixedVars, prefetchVars, fileVars, Goto, Forget
<1>1. CASE PipInstall
  <2>1. CASE step' = "prefetch"
    BY <1>1, <2>1 DEF PipInstall, Chained, Within
  <2>2. CASE step' # "prefetch"
    BY <1>1, <2>2 DEF PipInstall
  <2> QED
    BY <2>1, <2>2
<1>2. CASE Return
  <2>1. stack # <<>> /\ stack' = Below /\ UNCHANGED <<needs, wheelhouse>>
    BY <1>2 DEF Return
  <2>2. Chained'
    BY <1>2, <2>1, ChainBelow DEF Return
  <2> QED
    BY <1>2, <2>1, <2>2, OptionalBefore DEF Return, Within
<1>3. CASE Unwind
  <2>1. /\ stack # <<>> /\ stack' = Below /\ step = "raising"
        /\ UNCHANGED <<needs, wheelhouse, seen>>
        /\ IF Top.marked THEN step' = "prefetch" /\ cut' = cut \cup failing \cup {Top.name}
           ELSE step' = "raising" /\ failing' = failing \cup {Top.name} /\ cut' = cut
    BY <1>3 DEF Unwind, Raised
  <2>2. Chained'
    BY <2>1, ChainBelow
  <2>3. Len(stack) \in DOMAIN stack /\ Linked(stack, Len(stack)) /\ Top.name \in Names
    BY <2>1, EmptySeq, TopTyped DEF TypeOK, Chained
  <2>4. Len(stack) > 1 =>
          /\ Len(stack) - 1 \in DOMAIN stack /\ stack[Len(stack) - 1] \in Calls
          /\ stack[Len(stack) - 1].name \in wheelhouse /\ stack[Len(stack) - 1].name \in Names
          /\ needs[<<stack[Len(stack) - 1].name, Top.name>>] # "none"
          /\ Top.marked => needs[<<stack[Len(stack) - 1].name, Top.name>>] = "marker"
    <3> SUFFICES ASSUME Len(stack) > 1
                 PROVE  /\ Len(stack) - 1 \in DOMAIN stack /\ stack[Len(stack) - 1] \in Calls
                        /\ stack[Len(stack) - 1].name \in wheelhouse
                        /\ stack[Len(stack) - 1].name \in Names
                        /\ needs[<<stack[Len(stack) - 1].name, Top.name>>] # "none"
                        /\ Top.marked => needs[<<stack[Len(stack) - 1].name, Top.name>>] = "marker"
      OBVIOUS
    <3>1. Len(stack) - 1 \in DOMAIN stack /\ stack[Len(stack) - 1] \in Calls
      BY <2>1 DEF TypeOK
    <3>2. Linked(stack, Len(stack) - 1)
      BY <2>1, <3>1 DEF Excused, Chained
    <3> QED
      BY <2>3, <3>1, <3>2 DEF Linked, Calls, Top
  <2>5. ASSUME NEW packages \in SUBSET Names, Optional(packages)' PROVE Within(packages)'
    <3>1. Optional(packages) /\ Within(packages)
      BY <2>1, <2>5, OptionalBefore
    <3>2. CASE Top.marked
      <4>1. Top.name \in packages
        BY <2>3, <2>4, <3>1, <3>2 DEF Linked, Optional, Top
      <4> QED
        BY <2>1, <3>1, <3>2, <4>1 DEF Within
    <3>3. CASE ~Top.marked
      <4>1. ASSUME stack' # <<>>, Top'.name \in packages
            PROVE  Top.name \in packages
        <5>1. Len(stack) > 1 /\ Top' = stack[Len(stack) - 1]
          BY <2>1, <2>3, <4>1 DEF Below, Top, TypeOK
        <5> QED
          BY <2>3, <2>4, <3>1, <4>1, <5>1 DEF Optional
      <4> QED
        BY <2>1, <3>1, <3>3, <4>1 DEF Within
    <3> QED
      BY <3>2, <3>3
  <2> QED
    BY <2>1, <2>2, <2>5
<1>4. CASE PrefetchEnds
  BY <1>4, OptionalBefore DEF PrefetchEnds, Within
<1>5. ASSUME NEW n \in Names, NEW marked \in BOOLEAN, AlreadySeen(n, marked)
      PROVE  Excused'
  <2>1. Chained'
    BY <1>5, ChainTaken DEF AlreadySeen
  <2> QED
    BY <1>5, <2>1, OptionalBefore DEF AlreadySeen, Within
<1>6. ASSUME NEW n \in Names, NEW marked \in BOOLEAN, FetchFails(n, marked)
      PROVE  Excused'
  <2>1. /\ step = "prefetch" /\ Taken(n) /\ UNCHANGED <<needs, wheelhouse, cut>>
        /\ seen' \subseteq seen \cup {n}
        /\ step' = (IF marked THEN "prefetch" ELSE "raising") /\ failing' = {}
    BY <1>6 DEF FetchFails, Raised
  <2>2. Chained'
    BY <2>1, ChainTaken
  <2>3. ASSUME NEW packages \in SUBSET Names, Optional(packages)' PROVE Within(packages)'
    <3>1. Optional(packages) /\ Within(packages)
      BY <2>1, <2>3, OptionalBefore
    <3>2. stack # <<>> => /\ Top.name \in wheelhouse /\ Top.name \in Names
                          /\ needs[<<Top.name, n>>] # "none"
                          /\ marked => needs[<<Top.name, n>>] = "marker"
      <4>1. stack # <<>> => Linked(stack, Len(stack))
        BY <2>1, EmptySeq DEF Chained, TypeOK
      <4> QED
        BY <1>6, <4>1, TopTyped DEF FetchFails, NextRequirement, Linked, Top, Dependencies, TypeOK
    <3>3. CASE marked
      <4>1. stack # <<>>
        BY <1>6, <3>3 DEF FetchFails, NextRequirement
      <4>2. n \in packages
        BY <3>1, <3>2, <3>3, <4>1 DEF Optional
      <4> QED
        BY <2>1, <3>1, <3>3, <4>2 DEF Within
    <3>4. CASE ~marked
      <4>1. ASSUME stack' # <<>>, Top'.name \in packages
            PROVE  n \in packages
        <5>1. stack # <<>>
          BY <2>1, <4>1 DEF Taken
        <5>2. stack' = Without(n) /\ Len(stack) \in DOMAIN stack
          BY <2>1, <5>1, EmptySeq DEF Taken, Without, TypeOK
        <5>3. Top'.name = Top.name
          BY <5>2, WithoutSame DEF Top
        <5> QED
          BY <3>1, <3>2, <4>1, <5>1, <5>3 DEF Optional
      <4> QED
        BY <2>1, <3>1, <3>4, <4>1 DEF Within
    <3> QED
      BY <3>3, <3>4
  <2> QED
    BY <2>1, <2>2, <2>3
<1>7. ASSUME NEW n \in Names, NEW marked \in BOOLEAN, Download(n, marked)
      PROVE  Excused'
  <2>1. Chained'
    BY <1>7, ChainPush DEF Download
  <2>2. /\ UNCHANGED <<needs, cut, step>> /\ step = "prefetch"
        /\ seen' = seen \cup {n} /\ wheelhouse' = wheelhouse \cup {n}
    BY <1>7 DEF Download
  <2> QED
    BY <2>1, <2>2, OptionalBefore DEF Within
<1>8. CASE UNCHANGED vars
  <2>1. Chained' <=> Chained
    BY <1>8 DEF vars, Chained, Linked, Dependencies
  <2> QED
    BY <1>8, <2>1, OptionalBefore DEF vars, Within, Top
<1> QED
  BY <1>1, <1>2, <1>3, <1>4, <1>5, <1>6, <1>7, <1>8
  DEF Next, PrefetchFails, GuestPip, MoveFails, MoveEnds, Restart, Unpack, UnpackFails,
      UnpackEnds, Refresh, Move, InstallWheel

\* When pip starts, a dependency without a marker and a requirement of the caller are
\* missing only where a marker leads, and only after an error there.
THEOREM PrefetchCompletes == Spec => []PrefetchComplete
<1>1. Init => Walking /\ Excused
  BY DEF Init, Walking, Walks, Excused
<1>2. TypeOK /\ Walking /\ Excused /\ [Next]_vars => Walking' /\ Excused'
  BY StepWalking, StepExcused
<1>3. ASSUME TypeOK, Walking, Excused PROVE PrefetchComplete
  <2> SUFFICES ASSUME step = "pip", pypi PROVE PrefetchComplete
    BY DEF PrefetchComplete
  <2>1. ASSUME NEW packages \in SUBSET Names, Optional(packages)
        PROVE  (seen \ wheelhouse) \cup cut \subseteq packages
    BY <1>3, <2>1 DEF Excused, Within
  <2>2. ASSUME NEW name \in wheelhouse, NEW dependency \in Names \ wheelhouse,
               needs[<<name, dependency>>] = "required"
        PROVE  /\ dependency \in seen \/ name \in cut
               /\ BelowMarker(dependency)
    <3>1. dependency \in seen \/ name \in cut
      BY <1>3, <2>2 DEF Walking
    <3>2. ASSUME NEW packages \in SUBSET Names, Optional(packages) PROVE dependency \in packages
      BY <2>1, <2>2, <3>1, <3>2 DEF Optional
    <3> QED
      BY <3>1, <3>2 DEF BelowMarker
  <2>3. ASSUME NEW name \in asked \ wheelhouse PROVE name \in seen /\ BelowMarker(name)
    BY <1>3, <2>1, <2>3 DEF Walking, BelowMarker
  <2> QED
    BY <2>2, <2>3 DEF PrefetchComplete
<1> QED
  BY <1>1, <1>2, <1>3, PackagesTypeCorrect, PTL DEF Spec
=============================================================================

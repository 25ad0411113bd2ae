------------------------------- MODULE Packages -------------------------------
(***************************************************************************)
(* How packages reach /site-packages of one sandbox: pypi_downloader.go,   *)
(* when the engine has it, fills the wheelhouse by a depth-first walk of   *)
(* the dependencies, the pip of the guest stages what it installs from     *)
(* there or finds itself, pip.go moves the staged files and packages.go    *)
(* unpacks single wheels.                                                  *)
(*                                                                         *)
(* The mutex of the sandbox is held throughout, so that one installation   *)
(* is under way at a time; each request of the network, each write and     *)
(* each call of the guest may fail.                                        *)
(*                                                                         *)
(* An operator whose name has an underscore is a faulty variant of the     *)
(* definition after it that no action uses.                                *)
(***************************************************************************)
EXTENDS Naturals, Sequences, FiniteSets

CONSTANTS
  Names,         \* of packages
  Files,         \* the files of a package, a set of numbers
  Graphs,        \* of dependencies: functions from Names \X Names to how one needs the other
  MayBeNative,   \* the packages that may have a native file
  Strays,        \* the files that pip stages outside a directory site-packages: scripts, data
  MaxPackages,   \* maxResolvedPackages
  MaxInstalls    \* bound: how many installations the model begins

AllFiles == Names \X Files

ASSUME PackagesAssumption ==
  /\ Graphs \subseteq [Names \X Names -> {"none", "required", "marker"}]
  /\ MayBeNative \subseteq Names /\ Files \subseteq Nat /\ Strays \subseteq AllFiles
  /\ MaxPackages \in Nat /\ MaxInstalls \in Nat

VARIABLES
  pypi,        \* whether the engine has a downloader
  needs,       \* RequiresDist of every package; a marker follows a semicolon
  native,      \* the packages with a native file among theirs
  step,        \* what the host is doing
  asked,       \* the requirements of the caller that Prefetch does not skip
  ahead,       \* those it has not come to
  stack,       \* the calls of fetchRequirement that have downloaded their wheel
  seen,        \* the names fetchRequirement began to fetch
  wheelhouse,  \* the packages in /pycage-wheels
  failing,     \* the packages whose calls have raised the current error
  cut,         \* those whose error was ignored further up, because of a marker
  staged,      \* pip's files in /pycage-install and /tmp
  delivered,   \* the files that the last installation has to bring to /site-packages
  site,        \* the files in /site-packages
  current,     \* whether the interpreter's directory caches show what is there
  installs     \* how many installations have begun

prefetchVars == <<asked, ahead, stack, seen, wheelhouse, failing, cut>>
fileVars == <<staged, delivered, site, current>>
fixedVars == <<pypi, needs, native, installs>>
vars == <<step, prefetchVars, fileVars, fixedVars>>

IsNative(file) == file[1] \in native /\ \A n \in Files : n <= file[2]
Of(packages) == packages \X Files

Calls == [name : Names, marked : BOOLEAN, left : SUBSET Names]
Unneeded == [pair \in Names \X Names |-> "none"]

TypeOK ==
  /\ pypi \in BOOLEAN /\ needs \in Graphs \cup {Unneeded} /\ native \subseteq MayBeNative
  /\ step \in {"idle", "prefetch", "raising", "pip", "move", "restart", "installed",
               "unpack", "refresh", "unpacked", "failed", "closed"}
  /\ asked \subseteq Names /\ ahead \subseteq Names /\ stack \in Seq(Calls)
  /\ seen \subseteq Names /\ wheelhouse \subseteq Names
  /\ failing \subseteq Names /\ cut \subseteq Names
  /\ staged \subseteq AllFiles /\ delivered \subseteq AllFiles /\ site \subseteq AllFiles
  /\ current \in BOOLEAN /\ installs \in 0..MaxInstalls

\* Without the downloader nothing here depends on the graph.
Init ==
  /\ pypi \in BOOLEAN /\ needs \in (IF pypi THEN Graphs ELSE {Unneeded})
  /\ native \in SUBSET MayBeNative
  /\ step = "idle"
  /\ asked = {} /\ ahead = {} /\ stack = <<>> /\ seen = {} /\ wheelhouse = {}
  /\ failing = {} /\ cut = {}
  /\ staged = {} /\ delivered = {} /\ site = {} /\ current = TRUE /\ installs = 0

Ready == step \in {"idle", "installed", "unpacked", "failed"} /\ installs < MaxInstalls

Goto(from, to) == step = from /\ step' = to

-----------------------------------------------------------------------------
\* With the downloader: removeAll of the wheelhouse, and Prefetch begins; it skips
\* the requirements that begin with - or /.  Without: pip gets them as they are.
PipInstall ==
  /\ Ready /\ installs' = installs + 1
  /\ \/ /\ pypi /\ step' = "prefetch"
        /\ asked' \in SUBSET Names /\ ahead' = asked'
        /\ stack' = <<>> /\ seen' = {} /\ wheelhouse' = {} /\ failing' = {} /\ cut' = {}
     \/ /\ pypi /\ step' = "failed" /\ wheelhouse' \in SUBSET wheelhouse
        /\ UNCHANGED <<asked, ahead, stack, seen, failing, cut>>
     \/ ~pypi /\ step' = "pip" /\ UNCHANGED prefetchVars
  /\ UNCHANGED <<pypi, needs, native, fileVars>>

Top == stack[Len(stack)]
Below == SubSeq(stack, 1, Len(stack) - 1)

\* The next requirement of the running call, or of PipInstall's list.
NextRequirement(name, marked) ==
  IF stack = <<>> THEN name \in ahead /\ marked = FALSE
  ELSE name \in Top.left /\ marked = (needs[<<Top.name, name>>] = "marker")

\* The requirement has been dealt with whatever comes of it.
Taken(name) ==
  IF stack = <<>> THEN ahead' = ahead \ {name} /\ UNCHANGED <<asked, stack>>
  ELSE stack' = [stack EXCEPT ![Len(stack)].left = @ \ {name}] /\ UNCHANGED <<asked, ahead>>

\* Those of an extra are skipped.
Dependencies(name) == {d \in Names : needs[<<name, d>>] # "none"}

AlreadySeen(name, marked) ==
  /\ step = "prefetch" /\ NextRequirement(name, marked) /\ name \in seen
  /\ Taken(name)
  /\ UNCHANGED <<step, seen, wheelhouse, failing, cut, fileVars, fixedVars>>

\* The caller of fetchRequirement ignores the error of a dependency with a semicolon.
Raised(packages, marked) ==
  IF marked THEN step' = "prefetch" /\ failing' = {} /\ cut' = cut \cup packages
  ELSE step' = "raising" /\ failing' = packages /\ UNCHANGED cut

Full == Cardinality(seen) >= MaxPackages

\* The requirement is more than a name or an exact version, which is checked before
\* anything else, or there are too many packages; or the name is seen from now on and
\* has no metadata, no pure wheel, a wrong digest, or is too large.
FetchFails(name, marked) ==
  /\ step = "prefetch" /\ NextRequirement(name, marked)
  /\ Taken(name)
  /\ UNCHANGED seen \/ (name \notin seen /\ ~Full /\ seen' = seen \cup {name})
  /\ Raised({}, marked)
  /\ UNCHANGED <<wheelhouse, fileVars, fixedVars>>

Download(name, marked) ==
  /\ step = "prefetch" /\ NextRequirement(name, marked) /\ name \notin seen
  /\ ~Full
  /\ seen' = seen \cup {name} /\ wheelhouse' = wheelhouse \cup {name}
  /\ LET call == [name |-> name, marked |-> marked, left |-> Dependencies(name)]
     IN IF stack = <<>> THEN stack' = <<call>> /\ ahead' = ahead \ {name}
        ELSE /\ stack' = Append([stack EXCEPT ![Len(stack)].left = @ \ {name}], call)
             /\ UNCHANGED ahead
  /\ UNCHANGED <<step, asked, failing, cut, fileVars, fixedVars>>

Return ==
  /\ step = "prefetch" /\ stack # <<>> /\ Top.left = {}
  /\ stack' = Below
  /\ UNCHANGED <<step, asked, ahead, seen, wheelhouse, failing, cut, fileVars, fixedVars>>

\* Every error of a dependency is ignored.
Unwind_Ignores ==
  /\ step = "raising" /\ stack # <<>>
  /\ stack' = Below /\ Raised(failing \cup {Top.name}, TRUE)
  /\ UNCHANGED <<asked, ahead, seen, wheelhouse, fileVars, fixedVars>>

\* The running call raises what its dependency raised. Its wheel stays in the
\* wheelhouse, and the dependencies after that one are not fetched.
Unwind ==
  /\ step = "raising" /\ stack # <<>>
  /\ stack' = Below /\ Raised(failing \cup {Top.name}, Top.marked)
  /\ UNCHANGED <<asked, ahead, seen, wheelhouse, fileVars, fixedVars>>

\* pypiDownloadState goes with Prefetch; the wheelhouse stays.
Forget == asked' = {} /\ ahead' = {} /\ seen' = {} /\ failing' = {} /\ cut' = {}

PrefetchFails ==
  /\ Goto("raising", "failed") /\ stack = <<>>
  /\ Forget
  /\ UNCHANGED <<stack, wheelhouse, fileVars, fixedVars>>

PrefetchEnds ==
  /\ Goto("prefetch", "pip") /\ stack = <<>> /\ ahead = {}
  /\ UNCHANGED <<prefetchVars, fileVars, fixedVars>>

\* pip is given the wheels, or finds packages itself. It stages those that are not
\* installed already, fails after some of their files, or traps.
GuestPip ==
  /\ step = "pip"
  /\ LET offered == IF pypi THEN wheelhouse ELSE Names
     IN \/ \E packages \in SUBSET offered :
             /\ step' = "move" /\ delivered' = Of(packages) \ Strays
             /\ staged' = staged \cup Of(packages)
        \/ /\ step' \in {"failed", "closed"} /\ UNCHANGED delivered
           /\ \E some \in SUBSET Of(offered) : staged' = staged \cup some
  /\ Forget
  /\ UNCHANGED <<stack, wheelhouse, site, current, fixedVars>>

Movable(file) == file \in staged \ Strays /\ ~IsNative(file)

\* finalizePipTargetLocked goes through a Go map: any order.
Move(file) ==
  /\ step = "move" /\ Movable(file)
  /\ staged' = staged \ {file} /\ site' = site \cup {file} /\ current' = FALSE
  /\ UNCHANGED <<prefetchVars, step, delivered, fixedVars>>

\* A native file is skipped.
MoveFails_Skips ==
  /\ step = "move"
  /\ \E file \in staged \ Strays : IsNative(file) /\ staged' = staged \ {file}
  /\ UNCHANGED <<prefetchVars, step, delivered, site, current, fixedVars>>

\* A native file, a write or a listing that fails, or in the end nothing moved and
\* nothing there, nothing that can be imported, a source that is not UTF-8. What was
\* moved stays moved; a file that cannot be removed from the stage is in both places.
MoveFails ==
  /\ Goto("move", "failed")
  /\ \/ UNCHANGED <<site, current>>
     \/ \E file \in AllFiles : Movable(file) /\ site' = site \cup {file} /\ current' = FALSE
  /\ UNCHANGED <<prefetchVars, staged, delivered, fixedVars>>

\* What is not below a directory site-packages is passed over and stays staged.
MoveEnds ==
  /\ Goto("move", "restart") /\ staged \subseteq Strays /\ site # {}
  /\ UNCHANGED <<prefetchVars, fileVars, fixedVars>>

\* restartLocked: the new interpreter reads the directories anew.
Restart ==
  /\ step = "restart"
  /\ \/ step' = "installed" /\ current' = TRUE
     \/ step' = "failed" /\ UNCHANGED current
  /\ UNCHANGED <<prefetchVars, staged, delivered, site, fixedVars>>

\* InstallWheel has looked for native files before it writes the first; it writes all
\* of the archive below /site-packages.
InstallWheel(name) ==
  /\ Ready /\ name \notin native
  /\ step' = "unpack" /\ installs' = installs + 1
  /\ delivered' = Of({name})
  /\ UNCHANGED <<pypi, needs, native, prefetchVars, staged, site, current>>

\* In the order of the archive.
Unpack ==
  /\ step = "unpack"
  /\ \E file \in delivered \ site :
       /\ \A other \in delivered \ site : file[2] <= other[2]
       /\ site' = site \cup {file} /\ current' = FALSE
  /\ UNCHANGED <<prefetchVars, step, staged, delivered, fixedVars>>

\* A write that fails, a source that is not UTF-8, none that can be imported.
UnpackFails ==
  /\ Goto("unpack", "failed")
  /\ UNCHANGED <<prefetchVars, fileVars, fixedVars>>

UnpackEnds ==
  /\ Goto("unpack", "refresh") /\ delivered \subseteq site
  /\ UNCHANGED <<prefetchVars, fileVars, fixedVars>>

\* refreshGuestImportsLocked: a cell of the host's own; the sandbox is closed when
\* the call fails.  An exception in the cell, or one of the adapter before it runs,
\* is in a result that nobody reads.
Refresh ==
  /\ step = "refresh"
  /\ \/ step' = "unpacked" /\ (current' = TRUE \/ UNCHANGED current)
     \/ step' = "closed" /\ UNCHANGED current
  /\ UNCHANGED <<prefetchVars, staged, delivered, site, fixedVars>>

Next ==
  \/ PipInstall \/ Return \/ Unwind \/ PrefetchFails \/ PrefetchEnds \/ GuestPip
  \/ MoveFails \/ MoveEnds \/ Restart \/ Unpack \/ UnpackFails \/ UnpackEnds \/ Refresh
  \/ \E name \in Names, marked \in BOOLEAN :
       AlreadySeen(name, marked) \/ FetchFails(name, marked) \/ Download(name, marked)
  \/ \E file \in AllFiles : Move(file)
  \/ \E name \in Names : InstallWheel(name)

Spec == Init /\ [][Next]_vars

-----------------------------------------------------------------------------
\* A set of packages that has what packages of the wheelhouse need only under a
\* marker, and what its own packages need.
Optional(packages) ==
  /\ \A name \in wheelhouse, dependency \in Names :
       needs[<<name, dependency>>] = "marker" => dependency \in packages
  /\ \A name \in packages, dependency \in Names :
       needs[<<name, dependency>>] # "none" => dependency \in packages

\* Whether a marker leads to the package: it or a package above it has one.
BelowMarker(name) == \A packages \in SUBSET Names : Optional(packages) => name \in packages

\* When pip gets the wheelhouse, which it installs with --no-deps, a dependency
\* without a marker of a package that is there, or a requirement of the caller, is
\* missing only if a marker leads to it, and only after an error: it was looked for
\* and could not be had, or the package that needs it gave up.  Every other missing
\* package is an error of PipInstall.
PrefetchComplete ==
  step = "pip" /\ pypi =>
    /\ \A name \in wheelhouse, dependency \in Names \ wheelhouse :
         needs[<<name, dependency>>] = "required" =>
           /\ dependency \in seen \/ name \in cut
           /\ BelowMarker(dependency)
    /\ \A name \in asked \ wheelhouse : name \in seen /\ BelowMarker(name)

\* Whatever package could be fetched with all that it needs, its dependencies without
\* a marker are in the wheelhouse (fetchRequirement: "Marker-only and extra
\* dependencies are allowed to be absent from the wheelhouse").  A name that failed
\* below the marker of one package counts as seen for all others.
MarkersOnlyAbsent ==
  step = "pip" /\ pypi =>
    \A name \in wheelhouse \ cut, dependency \in Names :
      needs[<<name, dependency>>] = "required" => dependency \in wheelhouse

\* When an installation reports success, all files that it had to bring to
\* /site-packages are there: those of the wheel, or those that pip staged below a
\* directory site-packages. When it was pip's, no such file is left behind in the
\* stage, also none of an installation that failed before, and the interpreter sees
\* all of them.
InstalledWhole ==
  /\ step \in {"installed", "unpacked"} => delivered \subseteq site
  /\ step = "installed" => staged \subseteq Strays /\ current
=============================================================================

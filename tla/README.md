# A verification project for pycage

pycage runs untrusted Python in a CPython that is compiled to a WebAssembly
component, inside one Go process. This directory holds TLA+ modules translated from
the source, the TLC configurations that check them on small instances, and proofs that
TLAPS checks for every instance.

## 1. The system

| Component | State | Operations | Hard behaviour | What makes it correct |
|---|---|---|---|---|
| Context server (`server.go`) | registry of contexts, default id, closed flag; per context a sandbox, last use | execute, create and delete requests; idle reaper; Close | handlers, reaper and Close interleave; the lock is dropped around the slow NewSandbox and around every cell | cap kept, no interpreter lost, no dead context found, the default is one, everything closes |
| Engine and sandbox (`sandbox.go`) | instance, mutex, closed flag, engine's closed flag | NewSandbox, RunCode, Reset, Close, restart, Engine.Close | deadline or trap at any instruction of the guest; Engine.Close against running calls | one call at a time, a failed call is never taken for a success, a broken interpreter is retired |
| Guest interpreter (`guest/app.py`) | Python globals, imported modules, delivered modules | run_code, install_modules (pip_install), reset | being cut off between effect, mirror and return; cells that forget and reload modules; exceptions outside the `try` | state persists between cells, exceptions are results, requests go through the host |
| Result mirror (`sandbox.go`, `guest/app.py`, `filesystem.go`) | two files in the root filesystem | written by the guest; read and removed by the host | stale, torn or foreign content | what RunCode returns is the result of the cell it ran |
| Package installation (`packages.go`, `pip.go`) | `/site-packages`, staging directory, the interpreter's view of them | InstallWheel, PipInstall, finalize | failure in the middle, leftovers of the failure before, files that are passed over | success means that all that was to go to `/site-packages` is there; the interpreter sees what pip brought |
| PyPI prefetch (`pypi_downloader.go`) | names seen, wheelhouse | recursive download | cycles, limits, swallowed errors | what pip is given lacks only what an error below a marker left out; any other missing package is an error |
| Guest HTTP adapter (`guest/pycage_http.py`) | wasi:http resources, the patch of requests | one blocking request; install the adapter | any call of the host fails; the package changes below a running interpreter | each resource dropped once, children first; half a body is never a body |
| Poll loop (`guest/poll_loop.py`) | wakers, handles | run_until_complete; send, Stream, Sink | tasks interleave with pollables, cancellations, a stop; several writers of one Sink | no lost and no double wake-up, bytes flushed, failures have causes, the loop ends |
| componentize-py async support (`guest/componentize_py_async_support/`) | per call of an export: handles, futures, waitable set, count of pending tasks | first_poll, callback, spawn, await_result; reads, writes, exits and finalizers of streams and futures | tasks of several calls await and cancel each other; the collector finalizes at any moment | a call exits exactly when its work is done; handles dropped once, futures never without a value |
| Filesystem mounts (`filesystem.go`) | ordered mounts | resolve, read, write, remove, list | nested and overlapping mounts | a path reaches the deepest mount that holds it, read-only holds |
| Afero adapter (`aferofs.go`) | file offset, directory cursor | one afero call per operation | none of its own | faithful error codes |
| Command line (`cmd/pycage/main.go`) | - | run, serve, shutdown on a signal | order of the deferred closes | the Engine closes last |

How they interact. An HTTP request becomes a goroutine of the server that looks its context
up under `Server.mu`, releases it and calls `Sandbox.RunCode`, which holds `Sandbox.mu`
while the guest runs. The guest answers twice, by the value the component call returns and
by a file in the sandbox's root; the host prefers the file. The reaper goroutine and
`Server.Close` take contexts out of the registry under `Server.mu` and close their sandboxes
without it. `serveCommand` defers `server.Close` and then `engine.Close`. Inside the guest,
every cell begins with the installation of the HTTP adapter; the poll loop and the async
support are event loops for guest code that uses asyncio, over wasi:io/poll and over the
component model's waitables.

PROJECT.json lists every component with its status, and every hazard at its line.

## 2. Modules

| Module | Models | Used by |
|---|---|---|
| `ContextLifecycle` | abstract: the life of a context - absent, fresh, registered, dead or retired, closed - with a cap on the registered ones and a shutdown after which none is registered | refined by `ContextServer` |
| `ContextServer` | `server.go` with `serveCommand`'s shutdown; a sandbox is its mutex and whether it is open | `MCContextServer`, `ContextServerProofs` |
| `SandboxContract` | abstract: every sandbox is one interpreter that runs one whole cell at a time; what a cell's answer says of whether it ran | refined by `Sandbox` |
| `Sandbox` | `sandbox.go`, the calls of `packages.go` and `pip.go`, the exports of `guest/app.py`, the mirror | `MCSandbox`, `SandboxProofs` |
| `HttpRequest` | `request` of `pycage_http.py` with the resources it makes | `Guest` |
| `Guest` | `guest/app.py` and `install_requests_adapter`: a sequence of cells that send requests, between installations, resets and restarts | `MCGuest`, `GuestProofs` |
| `Packages` | `pypi_downloader.go`'s walk, PipInstall with and without it, pip's stage, `finalizePipTargetLocked`, InstallWheel's files | `MCPackages`, `PackagesProofs` |
| `PollLoop` | `poll_loop.py` with a client that sends a request, writers of its body and other tasks | `MCPollLoop`, `PollLoopProofs` |
| `AsyncLoop` | `componentize_py_async_support/__init__.py` | `AsyncEnds`, `AsyncLoopProofs` |
| `AsyncEnds` | `futures.py` and `streams.py` on top of `AsyncLoop`, which it implements | `MCAsync`, `AsyncEndsProofs` |
| `QueueLemmas` | lemmas about queues without repetitions: append, take the head, empty | `PollLoopProofs`, `AsyncLoopProofs` |
| `MC...` | symmetry sets, root assignments, graphs and bounds for TLC | the runs |
| `...Proofs` | the theorems about a module | - |

An operator whose name ends in an underscore and a word, such as `Exit_Eager`, is a faulty
variant of the definition that follows it; nothing uses it but PROJECT.json's mutants.

### 2.1 ContextServer

| Variable | Code |
|---|---|
| `contexts`, `defaultID` | `Server.contexts`, `Server.defaultID` (`NoContext` for `""`) |
| `stale` | the contexts whose `lastUsed` is before the cutoff |
| `sandbox`, `mutex` | `Sandbox.closed` (absent before NewSandbox), the holder of `Sandbox.mu` while a cell runs |
| `undecoded` | the open sandboxes with a result that RunCode could not decode; nothing in the code keeps them, the properties name them |
| `pc`, `target`, `lazy` | the place of a request in its handler, its context, whether it named none |
| `expired`, `reaperDone` | the local slice of `reapIdle`, the channel `done` |
| `host`, `closing` | how far `serveCommand` is on its way down, the local slice of `Server.Close` |
| `exited` | the process is gone |

One action is one stretch of code under one lock: a request that finds its context
(`HandleExecute`, `ExecuteDefault`), the two checks of the cap on either side of NewSandbox
(`AdmitContext`, `Publish`, `Overflow`), the assignment of the default (`SetDefault`), the
cell from lock to unlock (`BeginCell`, then `CellReturns`, `CellRetires` or
`CellUndecodable`), the locked parts after it (`Touch`, `Forget`). Time is two ages: `Age`
lets a context pass its idle timeout at any moment, and `Touch` and `Publish` make it fresh.
`closeLocked` is one action because the sandbox's mutex covers it.

`serveCommand` does not wait for its handlers before it closes the server and the Engine, so
requests may arrive and be in flight at every stage of `host`. Once the Engine is closed
`serveCommand` returns, and `Exit` ends the process under the handlers that are left; a
listener that fails is fatal and ends it without the deferred closes. After `Exit` nothing
moves. A program that embeds the server need not exit, so `Exit` has no fairness, and the
liveness properties say what happens unless the process exits first: it is the exit, and only
the exit, that leaves a request without an answer. A cell may
end in a result that the host cannot decode (`CellUndecodable`), which leaves its sandbox open.

### 2.2 Sandbox

`status`, `inst`, `mu`, `globals` are the fields of a sandbox and the effects its interpreter
holds; `mirror` is the two mirror files in each root; `pc`, `op`, `on`, `cell`, `call`,
`payload` are a caller's place and locals; `outcome` is what RunCode returned for each cell.
Every cell has a result of its own, so that a wrong answer is visible. A call goes through
`Enter` (lock, closed check, remove the mirror, start the guest), the guest's steps
(`GuestBody`, `GuestOpen`, `GuestTear`, `GuestWrite`, `GuestReturns`), and the host's
(`ReadMirror`, then one of the decisions). `GuestCut` can end the guest at each step, with or
without its module; `GuestRaises` is an exception outside the guest's own `try`. Opening the
mirror truncates it and a long result is written in several parts, so a cut leaves an empty
or a torn file. Between two steps other sandboxes act, which matters if `RootOf` gives them
the same root. `CloseLocked`, `RemoveMirror` and the unlock are operators that the actions
share, because they are functions the methods share. A Python exception in a cell is part of
the cell's result and needs no action; a cell that writes the mirror's file itself is not
modelled.

`SandboxContract` keeps of this only `status`, `globals` and `outcome` (as `state`, `effects`
and `answer`) and lets them change as callers may rely on: a cell runs (`Run`) when it has run
nowhere and no other cell is underway in the sandbox, nothing clears or closes the sandbox
until the cell is answered, a result or an undecodable one (`Reply`) is only for a cell that
ran, `ErrClosed` (`Refuse`) only for one that did not, and a call that failed ends its sandbox
in the same step (`Fail`). Locks, instances, Engine.Close and the mirror are steps it does not
see.

### 2.3 HttpRequest and Guest

`HttpRequest` goes through the calls of the host in their order (`at`); each may fail, and
then `Unwind` releases what the frame still holds in the order of its local variables. `res`
says for each resource whether it is alive, given away or dropped; `body` and `arrives` count
chunks written and read. `Children` are the resources that must go before their parents.
The calls with which a body that was read to its end is finished and left may fail like any
other. An exception releases the resources at once: a cell that keeps the exception, and with it the
frame, keeps them longer, in the same order.

`Guest` runs cells one after another. `http` says which `HTTPAdapter` the two modules of
requests hold and whether the flag `_pycage_wasi_http` is set; cells forget, import and
reload the modules, and `PackageChanges` replaces what is installed below the interpreter.
`reloaded` is which of the two modules cells have reloaded since the patch, up to
`requests.adapters` and after it `requests.sessions`; the code has no such variable,
`AdapterUnlessReloaded` needs it to say when the adapter is there.
`wheels`/`loaded` are what install_modules delivered and what was imported of it. The last
expression's `_repr_*_` methods, `repr`, `str` of an exception and the encoding of the result
may raise, each with the outcome the code gives it: the error of the result, or a trap.
`Sandbox` and `Guest` divide `run_code` between them: `Sandbox` sees it as steps at which the
host can cut it off, `Guest` as what its cells do to the interpreter.

### 2.4 Packages

`pypi` says whether the engine has a downloader. Without one, pip of the guest gets the
caller's requirements as they are. With one, `Prefetch` goes through them (`asked`, of which
`ahead` are still to come; what begins with `-` or `/` is skipped, so that any subset of the
names may be asked for) and pip gets the wheelhouse. The recursion of `fetchRequirement` is an
explicit `stack` of calls, each with the dependencies it has not come to; `needs` is a graph
chosen in the initial state, in which an edge may carry a marker. A requirement may be refused
before its name is looked at, also if the name was seen; a name is `seen` before its download.
An error unwinds the stack (`step = "raising"`) until a call whose requirement had a marker
ignores it; the packages it passed through stay in the wheelhouse without what they had left
(`failing`, then `cut`). All of this but the wheelhouse goes when pip is started (`Forget`).

`GuestPip` stages any part of what it was offered, because pip passes over what it finds
installed. `Move` takes the files out in any order (a Go map), `Unpack` writes those of a wheel
in the order of the archive; every one may fail and leave its work half done for the next
installation, `MoveFails` also with a file written and not removed from the stage. `Strays` are
the files that pip puts outside a directory `site-packages`, scripts and data: the move passes
over them. `delivered` is what the installation has to bring to `/site-packages`, and `current`
says whether the interpreter's directory caches show what is there.

### 2.5 PollLoop

`phase` is where `run_until_complete` is, `handles`, `waker`, `due` are its queue, its list of
wakers with what became of their futures, and what `poll.poll` returned; `stale` is an entry
whose pollable was dropped. `job` is where each task is in `send`, `Stream.next`, `Sink.send`
or `Sink.close`. A task's step ends where the coroutine awaits; the host (`Respond`,
`Arrive`, `Drain`) acts between any two actions. `Quits` is a task that raises SystemExit or
KeyboardInterrupt: the loop is left in the middle of its batch, and `lost` records the tasks
whose handles go with it. A loop that raised may be run again. The methods that the loop does
not have (`poll_loop.py:203-435`) are one action, `Unimplemented`.

### 2.6 AsyncLoop and AsyncEnds

`stage` says for each call of an export whether it is polled or waits for a callback; `set`,
`futures`, `handles`, `pending` are the fields of its `_FutureState`. `batch` and `cur` are
the locals of `_Loop.poll`. Tasks are made by the export's call, by `spawn`, or by
`create_task`; they call imports, await and cancel each other, also across calls. A trap ends
the component: `trap` says why.

`exception` says whether the loop's exception is set. `CallExceptionHandler` is asyncio's
report, at any moment of the guest, of a task that failed with nobody to await it, or of a
pending task that was destroyed. The latter has no exception, and the handler then stores
`None` over a failure that the loop has not seen yet (`__init__.py:100-101`): `erased` are the
counted tasks to which this happened. What the host does when a call exits without its result
is left out.

`AsyncEnds` adds the wrappers of streams and futures: `held` (the wrapper has its handle),
`armed` (its finalizer is attached), `native` (the handle), `duty` (the end a coroutine is
using). The collector takes a wrapper that no coroutine holds, at any moment, also between
two tasks. The finalizer of a FutureWriter spawns a task to write the default, unless the
user's `default()` raises or there is no context to spawn in: the handle is then `lost`. In
`__exit__` the same exception leaves the wrapper its handle. The specification is a step of
`AsyncLoop`, or none, with a change of the ends: `ImplementsLoop`.

## 3. Runs

Each run names its properties in PROJECT.json; each property has there a mutant of the code
that breaks it.

| Run | Instance | Shows |
|---|---|---|
| `server` | 2 handlers, 2 contexts, cap 1, undecodable results, fair | types, cap, dead contexts forgotten, cells isolated, default stable, ownership of interpreters, what Engine.Close leaves open, refinement of `ContextLifecycle`; requests are answered, retired interpreters closed, idle ones reclaimed, the shutdown ends |
| `sandbox` | 2 callers, 1 sandbox, 2 cells, fair | own answers, exclusion, consumed mirrors, effects kept, `SandboxContract` implemented; each call returns |
| `guest` | bodies and responses of up to 2 chunks, 1 name, 1 module, cells that reload either module of requests | resources dropped children first and none left over, only complete bodies and responses count, requests goes through the host in every cell unless cells reloaded both modules, sessions last |
| `packages` | with and without the downloader, 54 graphs of 3 packages, 2 files each, 2 of them strays, 1 package that may be native, 2 installations | what pip is given lacks only what an error below a marker left out; success means the whole installation |
| `poll_loop` | 2 writers of 2 bytes, 1 other task, 1 chunk of response, fair | no wake-up lost but with a batch that a task quit, none given twice, bytes flushed, failures have causes, the loop ends unless its root is lost or awaits a lost task |
| `async` | 2 calls, 3 tasks, 3 pauses; or 1 call, 1 end of any of the 6 kinds, 2 tasks and 2 pauses, or 3 tasks and no pause; fair | no lost task, no waiting call without a waitable unless it is abandoned, what is joined is awaited, exits complete but for erased failures, traps have causes, each call that is not abandoned exits; handles have one owner, no future dropped without a value, `AsyncLoop` implemented |
| `engine_closed_early`, `undecoded_leak` | 2 handlers, 2 contexts | findings about the server |
| `shared_root` | 2 callers and 2 sandboxes with one root | a finding about the sandbox |
| `blocked_send` | 1 writer of 1 byte, a server that answers after the body, fair | a finding about the poll loop |
| `reloaded_adapter` | as `guest`, 1 chunk each | a finding about the HTTP adapter |
| `seen_once` | as `packages`, 1 installation | a finding about the prefetch |

Bounds of the server and the sandbox. A race at the cap needs two creators and one place: two
handlers, two contexts, a cap of one. A context is used once in the model (its id is random in
the code, so it is never reused), hence the number of contexts bounds the length of a history;
two let one be retired or refused and one be made. Its safety properties are theorems for every
instance (section 5); what the run adds is that they are not vacuous, and liveness. Two callers
are enough for every interference on one mutex or one mirror; a third only waits. Two cells
tell an own result from another's, and `Internal` stands for results of no cell. With private
roots sandboxes share nothing but the Engine's flag, so one is enough; the run with a shared
root has two. Symmetry is over interchangeable callers and cells, never over sandboxes, whose
roots differ.

Bounds of the others. `Chunks` and `Incoming` of `Guest`: two writes tell a body that was cut
off from one that was not begun and one that is whole. `MaxInstalls` of `Packages`: the second
installation meets what the first left behind. In its graphs nobody needs the first package,
the other two may need each other, and it may need both, with or without a marker: that is
enough for a cycle, a chain, a marker above or below a failure, and a name that fails below the
marker of one package and is needed by another. `MaxPackages = 3` never bites; a requirement
that is refused has the effect that the limit has. Two packages have a stray besides a file
that is moved. `Chunk = 2` of `PollLoop` allows a partial write, and two
writers put one's bytes between the other's write and flush. `MaxPauses` bounds how often the
coroutines of `AsyncLoop` pause in all: three let two tasks of different calls wait while a
third yields. `MaxEnds` bounds the ends a guest is given; the six kinds do not interact but
through the tasks. `MCAsync!OneCallWithEnd` keeps a guest with an end to one call, and this to two
tasks that pause twice in all - one has an operation in progress, the other closes, cancels or
is to write a default - or to three that do not pause. Every safety property of these runs is a theorem
for every instance (section 5), so that the bounds matter for liveness only.

Deadlock is checked in every run but three. `ContextServer!Stop`, `Sandbox!NothingLeft`,
`PollLoop!Quiet` and `AsyncLoop!Quiet` are explicit stuttering steps where the program has
ended or waits for a host that has nothing to say. `packages` and `seen_once` stop when
`MaxInstalls` installations are over; in `blocked_send`, a loop that stands still is the finding.

Fairness. A goroutine that can run is run (weak fairness of a handler's own steps, of the
reaper, of the host). `sync.Mutex` hands over to a waiter that has waited for a millisecond,
so a waiter is not starved: strong fairness of taking a mutex. A cell ends, because RunCode,
PipInstall and InstallWheel set a deadline from `Config.Timeout` and the runtime stops a
guest whose context is done; Reset has no deadline of its own, but its guest code is two
statements. Requests, the passing of an idle timeout, and the signal to shut down are not
fair: they may never happen. PipInstall's Prefetch before the guest starts is assumed to end,
by the deadline of its HTTP client or of the caller's context. In the guest, one thread runs
everything and goes on as long as it can: weak fairness of the loop and its tasks together,
not of single tasks - the queue's order, not an assumption, lets each have its turn. Of the
host, `PollLoop` assumes that a server answers, data arrives or fails, and a full stream
drains or fails; `AsyncLoop` that a subtask or an operation on an end completes. Neither
assumes that calls are made or cancelled.

## 4. Findings

Six runs are ones that TLC must find violated; PROJECT.json quotes the sentence each
contradicts.

1. `engine_closed_early`: `serve` closes the Engine with handlers still in flight.
2. `undecoded_leak`: an undecodable result drops an open sandbox.
3. `shared_root`: sandboxes with one root take each other's results.
4. `blocked_send`: the poll loop blocks in `poll.poll` although a task is queued whose step
   the awaited response needs.

5. `reloaded_adapter`: a cell that reloads `requests.adapters` and then `requests.sessions`
   takes the HTTP adapter away, and the flag says that it is still there; the adapter is back
   when a cell deletes the modules from `sys.modules`, or after a restart.
6. `seen_once`: a package that failed below the marker of one package counts as seen for
   another that needs it without a marker; pip, which runs with `--no-deps`, is given the
   latter without it, and there is no error.

Other behaviour of the code that a reader may not expect, without a run of its own. The
models allow all of it unless the text says otherwise.

Of the server and the sandbox:

* the default id can be set after its context is gone; then every request without a context
  creates one (`server.go:354`);
* two concurrent first requests that name no context each make one and run in different ones;
  only one becomes the default (`server.go:344-358`);
* the reaper drops a context while its cell runs, and closes it after the cell (`server.go:142`);
* more interpreters than `MaxContexts` are live while they are created and while they wait to
  be closed;
* a call can be answered although its interpreter was closed by `Engine.Close` in the meantime;
* an exception outside the guest's `try` - of `str(exc)` (`guest/app.py:222`), of the encoding
  or of the write of the mirror (`guest/app.py:228`) - traps and retires the sandbox;
* a failed restart leaves an open sandbox with a closed instance, which its next call retires
  (`sandbox.go:228`);
* that PipInstall's restart loses the globals is documented (README.md:373-374);
  `EffectsKept` excepts it.

Of the packages:

* what `seen_once` shows of a dependency can happen to a requirement of the caller: its name
  failed below a marker before, and it is not fetched (`pypi_downloader.go:71`);
* a package stays in the wheelhouse when one of its dependencies raised, and the dependencies
  after that one are not fetched. If a marker further up ignores the error, pip installs the
  package without them (`cut` in `PrefetchComplete`);
* requirements that begin with `-` or `/` are skipped, and with the downloader they never reach
  pip (`pypi_downloader.go:48-50`): an installation can succeed without them;
* what pip stages outside a directory `site-packages`, scripts and data, stays in the stage
  when PipInstall reports success (`pip.go:146-160`);
* a file that was written to `/site-packages` and could not be removed from the stage is in both
  (`pip.go:170-175`), until a later PipInstall moves it again;
* the result of the cell with which InstallWheel refreshes the imports is not read
  (`packages.go:131`): it may have failed while InstallWheel reports success, so that
  `InstalledWhole` claims a fresh interpreter only of pip;
* a native file that pip staged stays in `/pycage-install` after the failure it causes, and
  makes every later PipInstall of the sandbox fail.

Of the HTTP adapter:

* a request's body is written with blocking calls before the request is handed to the host
  (`pycage_http.py:82`); a host that takes only so much before it has the request would block
  the cell until its deadline. The model has no such limit.

Of the event loops:

* a pollable whose task was cancelled makes the poll loop raise in the middle of its list, and
  the list then holds dropped pollables (`poll_loop.py:161`); `FailsForCause` says that only a
  cancellation does this;
* a task that raises SystemExit or KeyboardInterrupt leaves `run_until_complete` at once
  (`poll_loop.py:148`), and the handles after it in the batch are gone. A program that catches
  the exception and runs the loop again never steps their tasks again; if the root is among
  them, or awaits one of them, the loop spins without end. `NobodyForgotten` and `LoopReturns`
  name exactly these tasks (`lost`);
* a task that was spawned and is cancelled never counts down, and its call never exits
  (`__init__.py:440`); a subtask that returns to a cancelled task traps (`__init__.py:482`); a
  plain task that still waits when its call exits traps (`__init__.py:457`); a task that
  awaits one of another call is scheduled there but not polled (`__init__.py:110`). These are
  the causes that `TrapsForCause` and `Abandoned` list;
* a failure that waits for the end of its batch is erased when asyncio reports a pending task
  that was destroyed (`__init__.py:100-101`): the call exits without a result, or with one
  although a task that it counted failed. `ExitsComplete` names these tasks (`erased`);
* callbacks for streams and futures are not implemented: an operation that does not complete
  at once traps when it does (`__init__.py:486`);
* the finalizer of a FutureWriter whose `default()` raises, or that the collector runs between
  two tasks, where there is no context, loses the handle (`futures.py:52`): `lost` in
  `HandlesOwned`.

## 5. Proofs

`ContextServerProofs` proves, for any finite number of contexts, any number of handlers and
any cap: `TypeCorrect`, `CapHolds`, `CellsIsolated`, `DefaultIsStable`, `DeadForgotten`,
`ServerRefinesLifecycle`, `SandboxesOwned` and `EngineClosesAfterOthers`. The last two except
the sandboxes in `undecoded`; the run `undecoded_leak` shows why they must, and
`engine_closed_early` that the Engine does not close after all others.

None of these invariants but the type invariant is inductive alone. The argument goes in
layers, each preserved by every action given the ones before:

* `Typed`: `TypeOK` and what a handler's `pc` says of its `target`;
* `RegistryCapped`: the cap, preserved because `Publish` checks it again under the lock;
* `Made`: whatever is registered, awaited or held by a mutex has been created, and what has
  not been created is nowhere; so a fresh context cannot already be in use;
* `Apart`: two handlers never publish the same context, and one that is being published is
  not registered, expired or closing; so a context that left the registry never returns to it;
* `CellsLocked`: a handler in its cell holds the mutex of its target, which is open;
* `ForgetAfterClose`: a handler that is to forget a context has found its sandbox closed, or
  undecoded;
* `ShutdownOrder`: what the host's stages say of the reaper and the slices to be closed.

`Structure` is the conjunction of `Typed`, `Made`, `Apart` and `CellsLocked`; `Ownership` adds
`ForgetAfterClose` and `DecodedOwned`. The refinement proof takes each action to the step
of `ContextLifecycle` it implements, or to a stutter.

`SandboxProofs` proves every safety property of `Sandbox`, for any number of callers,
sandboxes and cells. Whatever the roots are: `SandboxTypeCorrect`, `GuestExclusive` and
`EffectsSurvive`. If no two sandboxes have the same root (`RootsPrivate`, what
`DefaultFileSystem` makes): `MirrorsConsumed`, `AnswersOwn`, `AnswersAfterRun`, and that
`SandboxContract` is implemented (`SandboxKeepsContract`). The hypothesis is needed for the
answers: `shared_root` is a run without it. Again in layers:

* `Placed`: what a caller's `pc` says of its method, its cell and its sandbox;
* `Held`: the callers between Enter and Return are the holders of their sandboxes' mutexes,
  and those sandboxes are open;
* `Alive`: the guest works in an instance that was live when the call began - it may have
  been killed by `Engine.Close`, not closed or replaced;
* `Mirrored`: a sandbox that is not closed and in no call has no mirror, also one that was
  never used, for otherwise a first call could be misled; during a call, `MirrorOf` says for
  each `pc` what its mirror holds - nothing before the guest opens it, never another cell's
  result - and that the other mirror of the sandbox is absent;
* `CellsApart` and `Ran`: a cell is in one call, and once its body ended its effects are in
  the globals, until the call that ran it returns; if a call was cut off before that, it has
  neither a return value nor a mirror to be taken for an answer;
* `Attended`: the other way round, a cell that has effects and no answer is in a call that is
  past its body and, by `Held`, has the mutex.

The last two say when a cell is underway in the sense of the contract: a sandbox whose mutex is
free, or is held by a caller that runs no cell, has none (`NoneUnderway`), which is what Close,
Reset and the restart after pip have to know; and a cell that is about to run, to be refused or
to fail has effects nowhere else (`EffectsOfCall`). With them every action is one step of the
contract or none. `CellsRunOnce` draws from the contract that no cell runs twice, or at all if it
was refused.

Steps are first sorted into kinds (`Inside`, `Departs`, `Enter`, `Begins`, `Environment`), so
that layers which do not depend on an action's details are proved once per kind. `AsideStep`
and `FilesApart` carry the argument from one sandbox to many: a step of a caller changes
nothing of another sandbox, nor, with private roots, of its mirrors.

`PollLoopProofs` proves all of `PollLoop`'s safety properties for any tasks, any length of
bodies and responses, whether or not the server waits for the body. The invariant `PollInv` is
`TypeOK` with

* `Places`: a task that goes on is in exactly one place - running, queued once, waiting with
  a pending waker, the root only, awaiting another, or `lost` with the batch of a task that
  quit - and one that does not go on is in none. Neither `NobodyForgotten` nor
  `HandledOnce` is inductive alone: that an append repeats nothing needs to know where the
  task was, and that it was somewhere needs that it was there once;
* `Written`: how far a writer's offset, its flush and the stream's bytes have come;
* `Caused`: a cancelled waker and a dropped pollable in the list come from a cancellation, and
  a loop that raised has one of its causes.

`QueueLemmas` carries the sequences: the entries of a queue after append, head, tail and
taking all of it, and that a queue without repetitions stays one.

`AsyncLoopProofs` proves `JoinedAreAwaited` for any calls and tasks, and `TypeOK`,
`NobodyForgotten`, `ExitsComplete` and `TrapsForCause` for finitely many tasks. `LoopInv` is
`Typed` (types without the sign of the count), `Control` (what `polled`, `batch`, `cur` and
`stage` say of each other), `Queues` and `Waits` (each task is in one queue of its own call, or
waits in one way) and `Waitables` (sets, futures and waitables agree). `CountInv` says that
`pending` of a call is the cardinality of `Owing`, its main and spawned tasks that have not
counted down; finiteness of `Tasks` is needed to speak of that number. That the count never
falls below zero, and that a call with a count of zero has nothing left to do, both follow.
For `ExitsComplete` the invariant says where a failure is (`Recorded`): it was erased, or the
exception is set and its call is in the batch in which it failed, from which it does not get
to its exit. `Blamed`, that an exception is the failure of some task, is what `TrapsForCause`
needs of it.

Why a trap has a cause, and why a waiting call has a waitable, is one argument. Suppose a call
has tasks that count, nothing is queued and no waitable is joined. Then each of these tasks
that was not cancelled awaits another task, and if it awaits none of another call, one of its
own that has not ended and so awaits one in turn. `Plainly` says that only plain tasks, those
of `create_task`, are awaited; `Waits` that each is awaited by one task. So awaiting maps the
joining tasks of the call one to one into themselves, and, there being finitely many, onto
themselves: the counted task would be awaited, but it is not plain (`NothingToWaitFor`). No
order on the tasks and no induction along their awaits is needed. `WaitsOwing`, that a call
that waits is owed a task, then gives the part of `NobodyForgotten` about calls, the safety
half of `CallsExit`; a trap for want of a set or for a waitable left behind is taken to its
cause where it happens (`TrapsCaused`), and the cause stays, because a component that trapped
makes no more steps (`CauseKept`).

`AsyncEndsProofs` proves, for any ends and any tasks, that `AsyncEnds` implements `AsyncLoop`
(`EndsImplementLoop`), with `HandlesHaveOwners` and `NoFutureBroken`. Every action of
`AsyncEnds` is a step of `AsyncLoop` or leaves its variables alone. For those that trap this
needs an invariant: a handle that its wrapper has and that is not open is in an operation
(`Handles`), so that what traps there is what `AsyncLoop` calls a misuse. `Owned` adds that an
open handle has an owner and that a task that does not exist has no duty; without `gone` in it
an end could be gone between its wrapper's collection and the task that is to write. `lost`
are exactly the writers whose finalizer raised, and no step but `CollectLost` adds to it. Because
`AsyncLoop` is implemented, its `LoopInv` is an invariant here, too, and so is all that
`AsyncLoopProofs` proves (`LoopHoldsWithEnds`). `EndsTypeCorrect` takes an invariant of its
own, `Duties`: a task that holds an end other than one to write a future's default with is in
an operation on it, unless it ended or was cancelled.

`GuestProofs` proves for bodies of any length `CompleteHolds` and `ChildrenHold`, from an
invariant that says for each call of the host which resources are alive, given and dropped;
and `AdapterHolds`, without an assumption, from `Flagged`: when the flag says that requests is
patched, `requests.sessions` has the patch unless cells reloaded both modules, and
`requests.adapters`, from which a reloaded `requests.sessions` takes the class, has it unless
they reloaded one. The strict `AdapterInPlace` is false (`reloaded_adapter`).

`PackagesProofs` proves for any graph, any packages and any limit `InstalledWholeHolds` and
`PrefetchCompletes`. The first goes by `Carried`: while files are moved, what the installation
has to deliver is in the stage, but not among the strays, or in `/site-packages`. The second
has two parts. `Covered` says that every dependency without a marker of a package in the
wheelhouse was seen or waits in `left` of a call on the stack, but for packages that gave up:
those in `cut` and `failing`, and the one that an error is leaving (`Leaving`). When the stack
is empty nothing waits, which is what pip starts from. That a missing name is below a marker is
said of every set of names that holds what markers lead to (`Optional`), because `BelowMarker`
is the least of them: whatever could not be had, and whoever gave up, is in each such set, or
will be when the error comes to a caller that is in it (`Within`). For this the calls on the
stack are chained by the graph: each is there because the one under it needs it, and a call
that has a marker has it from the graph (`Chained`), so that a set with one of the calls has
those above it. The
strict `MarkersOnlyAbsent` is false (`seen_once`).

`GuestTypeCorrect` and `PackagesTypeCorrect` are theorems only: no run lists those invariants.

What is only model-checked is liveness, because TLAPS proves no fairness or ENABLED here:
`CallsReturn`, `LoopReturns`, `CallsExit` and the liveness properties of `server`. The claims
that the code does not keep have counterexamples and no theorems. RECURSIVE operators are out
of the prover's reach too; these modules have none.

## 6. What is not modelled

* The filesystem mounts' routing of paths (`resolve`, listing, read-only mounts): only which
  root a sandbox writes its mirror to is in `Sandbox`.
* The afero adapter, the embedded component, results, WIT declarations and generated bindings
  (`wit_world`) carry no decisions a model would check.
* The HTTP layer of the server (tokens, decoding, frames), listing contexts and the execution
  counter; the command line's flags, bindings and the run command.
* Of the packages: versions, digests, sizes and the bytes of a wheel; the checks of paths and
  metadata that decide whether a wheel is accepted (each may fail in `Packages`). pip itself
  is external: it stages some or all files of what it is given.
* Of the guest: WASI shims, the resources of packages, what user code computes.
* CPU and memory limits, wazy, CPython and afero themselves are the environment.

PROJECT.json gives the reason for each component.

## 7. What could follow

1. `FileSystem`: resolve over ordered mounts against a reference definition (deepest prefix),
   with read-only mounts under all operations.
2. Composition: the cells of `ContextServer` answered by `SandboxContract` instead of by choice,
   and `Guest` inside `Sandbox`.
3. Pure algorithms: `splitLines`, `normalizeConfig`, `cleanGuestPath`, `cleanWheelPath`.

-------------------------------- MODULE Guest --------------------------------
(***************************************************************************)
(* The interpreter of guest/app.py with the HTTP adapter of                *)
(* guest/pycage_http.py: cells run one after another in one CPython, which *)
(* keeps the globals, the modules it imported and what was patched in them *)
(* until the host starts a fresh one.                                      *)
(*                                                                         *)
(* Two things change the package requests below a running interpreter: the *)
(* host, which installs packages between cells, and the cells, which may   *)
(* forget a module or reload it.                                           *)
(*                                                                         *)
(* An operator whose name has an underscore is a faulty variant of the     *)
(* definition after it that no action uses.                                *)
(***************************************************************************)
EXTENDS HttpRequest, FiniteSets

CONSTANTS
  Names,     \* what cells bind in their globals
  Modules    \* the modules install_modules may deliver

VARIABLES
  phase,     \* where run_code is
  globals,   \* _globals, without what it always has
  wheels,    \* _wheel_loader.modules
  loaded,    \* the wheels' modules in sys.modules
  package,   \* what of requests is in /site-packages
  http,      \* HTTPAdapter in requests.adapters and requests.sessions, _pycage_wasi_http
  reloaded,  \* of requests since it was patched: nothing, adapters, or both, sessions last
  via,       \* how the cell sends the request it is sending
  value,     \* of the last expression of the cell
  result     \* the dictionary of run_code, its outputs and its error

guestVars == <<phase, globals, wheels, loaded, package, http, reloaded, via, value, result>>
vars == <<httpVars, guestVars>>

NotImported == [adapters |-> "none", sessions |-> "none", patched |-> FALSE]
Stock == [adapters |-> "stock", sessions |-> "stock", patched |-> FALSE]
Wasi == [adapters |-> "wasi", sessions |-> "wasi", patched |-> TRUE]

GuestTypeOK ==
  /\ HttpTypeOK
  /\ phase \in {"idle", "adapter", "execute", "display", "encode", "trapped"}
  /\ globals \subseteq Names
  /\ wheels \in [Modules -> {"none", "imports", "raises"}]
  /\ loaded \subseteq Modules
  /\ package \in {"none", "partial", "raises", "whole"}
  /\ http \in [adapters : {"none", "stock", "wasi"}, sessions : {"none", "stock", "wasi"},
               patched : BOOLEAN]
  /\ reloaded \in {"nothing", "adapters", "both"}
  /\ via \in {"request", "requests"}
  /\ value \in {"none", "plain", "rich", "mute", "bytes"}
  /\ result \in [outputs : {"none", "text", "rich", "bytes"}, error : BOOLEAN]

NoResult == [outputs |-> "none", error |-> FALSE]

Init ==
  /\ HttpInit
  /\ phase = "idle" /\ globals = {} /\ loaded = {} /\ package = "none"
  /\ wheels = [m \in Modules |-> "none"]
  /\ http = NotImported /\ reloaded = "nothing" /\ via = "request" /\ value = "none" /\ result = NoResult

Goto(from, to) == phase = from /\ phase' = to /\ UNCHANGED httpVars

\* The except clause of run_code calls str(exc), which may raise in its turn.
Fails ==
  /\ phase' \in {"encode", "trapped"}
  /\ result' = [result EXCEPT !.error = TRUE]

-----------------------------------------------------------------------------
RunCode ==
  /\ Goto("idle", "adapter")
  /\ value' = "none" /\ result' = NoResult
  /\ UNCHANGED <<globals, wheels, loaded, package, http, reloaded, via>>

\* What import requests.sessions leaves in sys.modules, or ImportError.
Imports(found) ==
  \/ http.sessions # "none" /\ found = http
  \/ http.sessions = "none" /\ package = "whole" /\ found = Stock

NoRequests == http.sessions = "none" /\ package \in {"none", "partial"}

\* Whether requests was patched is judged by whether it was imported.
PatchRequests_Once(found) ==
  IF http.sessions = "none" THEN http' = Wasi /\ reloaded' = "nothing"
  ELSE http' = found /\ UNCHANGED reloaded

PatchRequests(found) ==
  IF found.patched THEN http' = found /\ UNCHANGED reloaded
  ELSE http' = Wasi /\ reloaded' = "nothing"

\* install_requests_adapter; only ImportError is expected of the package.
InstallRequestsAdapter ==
  /\ phase = "adapter"
  /\ \/ /\ phase' = "execute" /\ UNCHANGED result
        /\ \/ \E found \in {http, Stock} : Imports(found) /\ PatchRequests(found)
           \/ NoRequests /\ UNCHANGED <<http, reloaded>>
     \/ http.sessions = "none" /\ package = "raises" /\ Fails /\ UNCHANGED <<http, reloaded>>
  /\ UNCHANGED <<httpVars, globals, wheels, loaded, package, via, value>>

\* The code of the cell runs, and no request of it is under way or has just failed.
Executing == phase = "execute" /\ at = "idle" /\ outcome # "raised"

Bind(n) ==
  /\ Executing /\ globals' = globals \cup {n}
  /\ UNCHANGED <<httpVars, phase, wheels, loaded, package, http, reloaded, via, value, result>>

\* SyntaxError, an exception, SystemExit.
Raise ==
  /\ Executing /\ Fails
  /\ UNCHANGED <<httpVars, globals, wheels, loaded, package, http, reloaded, via, value>>

\* import of a module that install_modules delivered: exec_module runs it unless
\* sys.modules has it; importlib forgets a module that raises.
ImportWheel(m) ==
  /\ Executing
  /\ \/ /\ m \in loaded \/ wheels[m] = "imports"
        /\ loaded' = loaded \cup {m} /\ UNCHANGED <<phase, result>>
     \/ m \notin loaded /\ wheels[m] # "imports" /\ Fails /\ UNCHANGED loaded
  /\ UNCHANGED <<httpVars, globals, wheels, package, http, reloaded, via, value>>

ImportRequests ==
  /\ Executing
  /\ \/ \E found \in {http, Stock} : Imports(found) /\ http' = found /\ UNCHANGED <<phase, result>>
     \/ http.sessions = "none" /\ package # "whole" /\ Fails /\ UNCHANGED http
  /\ UNCHANGED <<httpVars, globals, wheels, loaded, package, reloaded, via, value>>

\* The cell deletes requests from sys.modules.
ForgetRequests ==
  /\ Executing /\ http' = NotImported /\ reloaded' = "nothing"
  /\ UNCHANGED <<httpVars, phase, globals, wheels, loaded, package, via, value, result>>

\* importlib.reload keeps what the module does not define: _pycage_wasi_http.
\* requests.sessions takes HTTPAdapter from requests.adapters.
Reloads(module) ==
  IF module = "adapters"
  THEN /\ http' = [http EXCEPT !.adapters = "stock"]
       /\ reloaded' = IF reloaded = "nothing" THEN "adapters" ELSE reloaded
  ELSE /\ http' = [http EXCEPT !.sessions = http.adapters]
       /\ reloaded' = IF reloaded = "adapters" THEN "both" ELSE reloaded

\* The source of a module that changed may raise, before or after its effect.
Reload(module) ==
  /\ Executing /\ http.sessions # "none"
  /\ \/ Reloads(module) /\ UNCHANGED <<phase, result>>
     \/ package # "whole" /\ Fails /\ (Reloads(module) \/ UNCHANGED <<http, reloaded>>)
  /\ UNCHANGED <<httpVars, globals, wheels, loaded, package, via, value>>

\* pycage_http.request, or a session of requests that has the adapter.
Send(how) ==
  /\ Executing /\ Call /\ via' = how
  /\ how = "requests" => http.sessions = "wasi"
  /\ UNCHANGED <<phase, globals, wheels, loaded, package, http, reloaded, value, result>>

Request ==
  /\ phase = "execute" /\ HttpStep
  /\ UNCHANGED guestVars

\* What request raised, or the ConnectionError the adapter made of it.
RequestRaises ==
  /\ phase = "execute" /\ at = "idle" /\ outcome = "raised"
  /\ outcome' = "none"
  /\ UNCHANGED <<phase, result>> \/ Fails
  /\ UNCHANGED <<at, res, body, arrives, resolved,
                 globals, wheels, loaded, package, http, reloaded, via, value>>

LastExpression ==
  /\ Executing /\ phase' = "display"
  /\ value' \in {"none", "plain", "rich", "mute", "bytes"}
  /\ UNCHANGED <<httpVars, globals, wheels, loaded, package, http, reloaded, via, result>>

\* A rich representation that raises or is None gives way to the next; repr,
\* outside the redirection, may raise.
Display ==
  /\ phase = "display"
  /\ \/ /\ phase' = "encode"
        /\ \E outputs \in {"none", "text", "rich", "bytes"} :
             /\ (outputs = "none") = (value = "none")
             /\ outputs \in {"rich", "bytes"} => value = outputs
             /\ outputs = "text" => value # "mute"
             /\ result' = [result EXCEPT !.outputs = outputs]
     \/ value # "none" /\ Fails
  /\ UNCHANGED <<httpVars, globals, wheels, loaded, package, http, reloaded, via, value>>

\* json.dumps and the mirror file are outside the try: what they raise traps.
EncodeRunResult ==
  /\ phase = "encode"
  /\ phase' = "trapped" \/ (phase' = "idle" /\ result.outputs # "bytes")
  /\ UNCHANGED <<httpVars, globals, wheels, loaded, package, http, reloaded, via, value, result>>

\* All of the modules are checked before the first is stored.
InstallModules ==
  /\ Goto("idle", "idle")
  /\ \E batch \in SUBSET Modules, source \in {"imports", "raises"} :
       wheels' = [m \in Modules |-> IF m \in batch THEN source ELSE wheels[m]]
  /\ UNCHANGED <<globals, loaded, package, http, reloaded, via, value, result>>

Reset ==
  /\ Goto("idle", "idle") /\ globals' = {}
  /\ UNCHANGED <<wheels, loaded, package, http, reloaded, via, value, result>>

\* The host writes a wheel below /site-packages, or fails to move what pip staged,
\* and the interpreter lives on.
PackageChanges ==
  /\ Goto("idle", "idle") /\ package' \in {"partial", "raises", "whole"}
  /\ UNCHANGED <<globals, wheels, loaded, http, reloaded, via, value, result>>

\* A fresh CPython: restartLocked after pip_install, or a new context after a trap.
Restart ==
  /\ phase \in {"idle", "trapped"} /\ phase' = "idle"
  /\ globals' = {} /\ loaded' = {}
  /\ wheels' = [m \in Modules |-> "none"]
  /\ http' = NotImported /\ reloaded' = "nothing" /\ via' = "request" /\ value' = "none" /\ result' = NoResult
  /\ at' = "idle" /\ res' = [r \in Resources |-> "none"]
  /\ body' = [whole |-> 0, done |-> 0] /\ arrives' = [whole |-> 0, done |-> 0]
  /\ resolved' = "none" /\ outcome' = "none"
  /\ UNCHANGED package

Next ==
  \/ RunCode \/ InstallRequestsAdapter \/ Raise \/ ImportRequests \/ ForgetRequests
  \/ Request \/ RequestRaises \/ LastExpression \/ Display \/ EncodeRunResult
  \/ InstallModules \/ Reset \/ PackageChanges \/ Restart
  \/ \E n \in Names : Bind(n)
  \/ \E m \in Modules : ImportWheel(m)
  \/ \E module \in {"adapters", "sessions"} : Reload(module)
  \/ \E how \in {"request", "requests"} : Send(how)

Spec == Init /\ [][Next]_vars

-----------------------------------------------------------------------------
\* When the code of a cell starts, the requests it can import sends through the
\* host (install_requests_adapter: "Route requests through WASI HTTP when the
\* package is installed").  A cell that reloads requests.adapters and then
\* requests.sessions takes the adapter away and leaves the flag that says it is
\* there.
AdapterInPlace ==
  [][phase = "adapter" /\ phase' = "execute"
       => \/ http'.sessions = "wasi"
          \/ http'.sessions = "none" /\ package # "whole"]_vars

\* That is the only way to lose it: otherwise the requests a cell can import sends
\* through the host, whatever earlier cells forgot, imported again or reloaded in
\* another order, and whatever the host installed since; and once the cells have
\* forgotten what they reloaded, the next one has the adapter again.
AdapterUnlessReloaded ==
  [][phase = "adapter" /\ phase' = "execute" /\ reloaded # "both"
       => \/ http'.sessions = "wasi"
          \/ http'.sessions = "none" /\ package # "whole"]_vars
=============================================================================

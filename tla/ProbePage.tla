------------------------------ MODULE ProbePage ------------------------------
(***************************************************************************)
(* Setting up the probe from the desktop app: the probe page               *)
(* (ProbeWorkspace.tsx, useProbe.ts) and the app's side of it              *)
(* (app_probe.go), which copies the probe's binary to its standard place,  *)
(* writes its config file and drives the service through the binary's own  *)
(* commands.  Every command, copy and write may fail; the service manager  *)
(* stops and starts the service by itself; the app may be closed between   *)
(* any two steps and started again.                                        *)
(*                                                                         *)
(* The page disables its buttons while a call is pending and its dialogs   *)
(* are modal, so one call is in flight at most.                            *)
(***************************************************************************)
EXTENDS Naturals, FiniteSets

CONSTANTS
  Settings,   \* the complete connections a user may enter
  Blank,      \* the form, or the config file, without one
  Versions,   \* the probe binaries there are
  ByHand,     \* whether the service may have been installed with flags
  MaxFaults,  \* bound: calls and commands that fail
  MaxMoves    \* bound: stops and starts by the service manager, and restarts of the app

ASSUME ProbePageAssumption ==
  /\ Blank \notin Settings
  /\ {"none", "partial"} \cap Versions = {}
  /\ ByHand \in BOOLEAN /\ MaxFaults \in Nat /\ MaxMoves \in Nat

VARIABLES
  bin,      \* the probe binaries: installed, being copied, bundled, picked by the user
  config,   \* the config file
  service,  \* the service's state
  reads,    \* where the registered service takes its settings from
  page,     \* useProbe and the switches of the form
  call,     \* the bridge call in flight, and how far it is
  outside,  \* history: the service manager acted since the last call was made
  told,     \* history: the last call failed, and the page said so
  faults, moves

vars == <<bin, config, service, reads, page, call, outside, told, faults, moves>>
system == <<bin, config, service, reads>>
bounds == <<faults, moves>>

Places   == {"install", "install.tmp", "bundled", "chosen"}
Paths    == {"", "install", "bundled", "chosen"}
States   == {"not installed", "stopped", "running"}
Verbs    == {"start", "stop", "restart", "uninstall"}
Requests == [form : Settings, persistent : BOOLEAN, start : BOOLEAN, path : Paths]
Idle     == [kind |-> "none"]
initial  == [found |-> FALSE, state |-> "unknown"]

\* The hook as the app starts: the first thing it does is to ask for the status.
Fresh == [loaded |-> FALSE, status |-> initial, form |-> Blank, path |-> "",
          persistent |-> TRUE, start |-> TRUE, error |-> FALSE, dialog |-> "none"]
Startup == [kind |-> "status", path |-> ""]

TypeOK ==
  /\ bin \in [Places -> Versions \cup {"none", "partial"}]
  /\ config \in Settings \cup {Blank} /\ service \in States /\ reads \in {"config", "flags"}
  /\ page.loaded \in BOOLEAN /\ page.error \in BOOLEAN
  /\ page.status \in [found : BOOLEAN, state : States \cup {"unknown", "missing"}]
  /\ page.form \in Settings \cup {Blank} /\ page.path \in Paths
  /\ page.persistent \in BOOLEAN /\ page.start \in BOOLEAN
  /\ page.dialog \in {"none", "provision", "uninstall"}
  /\ call.kind \in {"none", "status", "choose", "service", "provision"}
  /\ call.kind = "provision" => call.req \in Requests
  /\ outside \in BOOLEAN /\ told \in BOOLEAN
  /\ faults \in 0..MaxFaults /\ moves \in 0..MaxMoves
  /\ page.dialog # "none" => call = Idle /\ page.loaded /\ page.status.found

Present(path) == bin[path] # "none"

Init ==
  /\ bin \in {b \in [Places -> Versions \cup {"none"}] :
                b["install.tmp"] = "none" /\ b["chosen"] # "none"}
  /\ config \in {Blank} \cup Settings
  /\ service \in States
  /\ reads \in IF ByHand /\ service # "not installed" /\ config = Blank
               THEN {"flags"} ELSE {"config"}
  /\ config = Blank /\ reads = "config" => service = "not installed"
  /\ service # "not installed" => Present("install")
  /\ page = Fresh /\ call = Startup
  /\ outside = FALSE /\ told = FALSE /\ faults = 0 /\ moves = 0

-----------------------------------------------------------------------------
(* The app's helpers.                                                      *)

\* A path that was given is used as it is; else the standard place comes first.
resolveProbeBinary(path) ==
  IF path # "" THEN path
  ELSE IF ~Present("install") /\ Present("bundled") THEN "bundled" ELSE "install"

\* Which binary a persistent provision deploys.
resolveProbeSource(path) ==
  IF path # "" THEN path
  ELSE IF Present("bundled") /\ bin["bundled"] # bin["install"] THEN "bundled" ELSE "install"

\* A status command that fails leaves the state unknown; the call succeeds.
Ignored == faults < MaxFaults /\ faults' = faults + 1 /\ UNCHANGED moves

GetProbeStatus(path, state) ==
  \/ /\ Present(path) /\ UNCHANGED bounds /\ state = service'
  \/ /\ Present(path) /\ Ignored          /\ state = "unknown"
  \/ /\ ~Present(path) /\ UNCHANGED bounds /\ state = "missing"

-----------------------------------------------------------------------------
(* The hook.                                                               *)

Busy == call # Idle
Ask(c) == call' = c /\ outside' = FALSE

\* adopt: only the first status fills the form; a status after a change also
\* replaces the path.
adopt(path, replacePath) ==
  /\ \E state \in States \cup {"unknown", "missing"} :
       /\ GetProbeStatus(path, state)
       /\ page' = [page EXCEPT
            !.loaded = TRUE,
            !.status = [found |-> Present(path), state |-> state],
            !.path   = IF replacePath \/ @ = "" THEN path ELSE @,
            !.form   = IF ~page.loaded /\ config' # Blank THEN config' ELSE @]
  /\ call' = Idle /\ told' = FALSE /\ UNCHANGED outside

\* The call rejects: the error is shown and nothing is adopted.
Fails ==
  /\ faults < MaxFaults /\ faults' = faults + 1
  /\ call' = Idle /\ told' = TRUE
  /\ page' = [page EXCEPT !.error = TRUE]
  /\ UNCHANGED <<outside, moves>>

Goes(at) == call' = [call EXCEPT !.at = at] /\ UNCHANGED <<page, outside, told>>
Works    == UNCHANGED bounds

StatusAnswered ==
  /\ call.kind = "status"
  /\ UNCHANGED system
  /\ adopt(resolveProbeBinary(call.path), FALSE)

\* The picked file becomes the path, and its status is read at once.
locate ==
  /\ call.kind = "choose"
  /\ \/ Fails
     \/ call' = Idle /\ UNCHANGED <<page, outside, told, bounds>>
     \/ /\ page' = [page EXCEPT !.path = "chosen"]
        /\ call' = [kind |-> "status", path |-> "chosen"]
        /\ UNCHANGED <<outside, told, bounds>>
  /\ UNCHANGED system

-----------------------------------------------------------------------------
(* The service's own commands (external: the service manager).             *)

After(verb) ==
  CASE verb = "start" -> "running" [] verb = "restart" -> "running"
    [] verb = "stop" -> "stopped" [] verb = "uninstall" -> "not installed"

\* A command that fails changes nothing, but for a restart that fails between
\* its stop and its start.
CommandFails(path) ==
  /\ Fails
  /\ \/ UNCHANGED system
     \/ /\ call.verb = "restart" /\ Present(path) /\ service = "running"
        /\ service' = "stopped" /\ UNCHANGED <<bin, config, reads>>

\* Mutant of ProbeServiceAction: the status is not read again.
ProbeServiceActionBlind ==
  /\ call.kind = "service"
  /\ LET path == resolveProbeBinary(call.path) IN
     \/ CommandFails(path)
     \/ /\ Present(path) /\ service # "not installed"
        /\ service' = After(call.verb) /\ call' = Idle
        /\ UNCHANGED <<bin, config, reads, page, outside, told, bounds>>

ProbeServiceAction ==
  /\ call.kind = "service"
  /\ LET path == resolveProbeBinary(call.path) IN
     \/ CommandFails(path)
     \/ /\ Present(path) /\ service # "not installed"
        /\ service' = After(call.verb)
        /\ UNCHANGED <<bin, config, reads>>
        /\ adopt(path, TRUE)

-----------------------------------------------------------------------------
(* ProvisionProbe, one external effect at a time.                          *)

Provisioning(at) == call.kind = "provision" /\ call.at = at
Source == resolveProbeSource(call.req.path)
NeedCopy == Source # "install"

\* Nothing is installed: the binary scans and pushes once.
RunOnce ==
  /\ Provisioning("asked") /\ ~call.req.persistent
  /\ UNCHANGED system
  /\ Fails \/ adopt(resolveProbeBinary(call.req.path), TRUE)

\* The file is rewritten in place: cut short, it may be kept, torn - which
\* reads as no config - or complete.
Rewriting ==
  /\ Provisioning("asked") /\ call.req.persistent /\ Present(Source)
  /\ config' \in {config, Blank, call.req.form}

SaveConfig ==
  /\ Provisioning("asked") /\ call.req.persistent
  /\ \/ Fails /\ (Rewriting \/ UNCHANGED config) /\ UNCHANGED <<bin, service, reads>>
     \/ /\ Present(Source)
        /\ config' = call.req.form
        /\ call' = [call EXCEPT !.at = "saved", !.known = config # Blank]
        /\ Works /\ UNCHANGED <<bin, service, reads, page, outside, told>>

\* Mutant of Decide: a registration that was removed is not noticed.
DecideOnFiles ==
  /\ Provisioning("saved")
  /\ \/ Goes("stop") /\ Ignored
     \/ /\ Goes(IF NeedCopy \/ ~call.known THEN "stop"
                ELSE IF call.req.start /\ service # "running" THEN "start" ELSE "report")
        /\ Works
  /\ UNCHANGED system

\* A copy, an unregistered service or a missing config file asks for a reinstall.
Decide ==
  /\ Provisioning("saved")
  /\ \/ Goes("stop") /\ Ignored  \* the status could not be read
     \/ /\ Goes(IF NeedCopy \/ service = "not installed" \/ ~call.known THEN "stop"
                ELSE IF call.req.start /\ service # "running" THEN "start" ELSE "report")
        /\ Works
  /\ UNCHANGED system

\* stop and uninstall, whose errors are ignored.
StopAndUninstall ==
  \/ /\ Provisioning("stop") /\ Goes("uninstall")
     /\ \/ Ignored /\ UNCHANGED system
        \/ /\ service' = IF service = "running" THEN "stopped" ELSE service
           /\ Works /\ UNCHANGED <<bin, config, reads>>
  \/ /\ Provisioning("uninstall") /\ Goes(IF NeedCopy THEN "copy" ELSE "register")
     /\ \/ Ignored /\ UNCHANGED system
        \/ Works /\ service' = "not installed" /\ UNCHANGED <<bin, config, reads>>

\* Mutant of CopyProbe: the copy is made in place.
CopyProbeInPlace ==
  /\ Provisioning("copy")
  /\ \/ UNCHANGED system /\ Fails
     \/ bin' = [bin EXCEPT !["install"] = "partial"] /\ Goes("rename")
        /\ Works /\ UNCHANGED <<config, service, reads>>

\* installProbeBinary: a copy under a temporary name, then a rename.
CopyProbe ==
  /\ Provisioning("copy")
  /\ \/ UNCHANGED system /\ Fails
     \/ bin' = [bin EXCEPT !["install.tmp"] = "partial"] /\ Goes("rename")
        /\ Works /\ UNCHANGED <<config, service, reads>>

installProbeBinary ==
  /\ Provisioning("rename")
  /\ \/ bin' = [bin EXCEPT !["install.tmp"] = "none"] /\ Fails
     \/ bin' = [bin EXCEPT !["install.tmp"] = "none", !["install"] = bin[Source]]
        /\ Goes("register") /\ Works
  /\ UNCHANGED <<config, service, reads>>

\* A service that is still registered cannot be installed again.
Register ==
  /\ Provisioning("register")
  /\ \/ UNCHANGED system /\ Fails
     \/ /\ service = "not installed"
        /\ service' = "stopped" /\ reads' = "config"
        /\ Goes(IF call.req.start THEN "start" ELSE "report")
        /\ Works /\ UNCHANGED <<bin, config>>

\* Only asked for when the service was not seen running.
Start ==
  /\ Provisioning("start")
  /\ \/ UNCHANGED system /\ Fails
     \/ service' = "running" /\ Goes("report") /\ Works /\ UNCHANGED <<bin, config, reads>>

Report ==
  /\ Provisioning("report")
  /\ UNCHANGED system
  /\ adopt("install", TRUE)

-----------------------------------------------------------------------------
(* The page.                                                               *)

Usable == page.dialog = "none"
Click  == Usable /\ ~Busy /\ UNCHANGED <<system, told, bounds>>
Shown  == [page EXCEPT !.error = FALSE]  \* useAsyncAction.run clears the error

\* The form stays editable while a call is pending.
Edit ==
  /\ Usable
  /\ \/ \E s \in Settings \cup {Blank} : page' = [page EXCEPT !.form = s]
     \/ page' = [page EXCEPT !.persistent = ~@]
     \/ page.persistent /\ page' = [page EXCEPT !.start = ~@]
     \/ page.error /\ page' = [page EXCEPT !.error = FALSE]
  /\ UNCHANGED <<system, call, outside, told, bounds>>

Refresh ==
  /\ Click
  /\ Ask([kind |-> "status", path |-> page.path]) /\ page' = Shown

\* The checks that come with a fix, and the buttons of the service.
missing   == page.form = Blank
installed == page.status.found /\ page.status.state \notin {"not installed", "unknown"}
Offered   ==
  IF ~installed THEN {}
  ELSE IF page.status.state = "running" THEN {"restart", "stop"} ELSE {"start"}

ClickLocate ==
  /\ Click /\ page.loaded /\ ~page.status.found
  /\ Ask([kind |-> "choose"]) /\ page' = Shown

ClickService ==
  /\ Click
  /\ \E verb \in Offered : Ask([kind |-> "service", verb |-> verb, path |-> page.path])
  /\ page' = Shown

provision ==
  /\ Click /\ ~missing /\ page.status.found
  /\ page' = [page EXCEPT !.dialog = "provision"] /\ UNCHANGED <<call, outside>>

uninstall ==
  /\ Click /\ installed
  /\ page' = [page EXCEPT !.dialog = "uninstall"] /\ UNCHANGED <<call, outside>>

\* What was confirmed is what is sent: the form is behind the dialog.
CloseDialog ==
  /\ ~Usable /\ UNCHANGED <<system, told, bounds>>
  /\ \/ page' = [page EXCEPT !.dialog = "none"] /\ UNCHANGED <<call, outside>>
     \/ /\ page' = [Shown EXCEPT !.dialog = "none"]
        /\ Ask(IF page.dialog = "uninstall"
               THEN [kind |-> "service", verb |-> "uninstall", path |-> page.path]
               ELSE [kind |-> "provision", at |-> "asked", known |-> FALSE,
                     req |-> [form |-> page.form, persistent |-> page.persistent,
                              start |-> page.start, path |-> page.path]])

-----------------------------------------------------------------------------
(* Around the app.                                                         *)

\* The service manager stops, loses or restarts the service.
ServiceMoves ==
  /\ moves < MaxMoves /\ moves' = moves + 1
  /\ service # "not installed"
  /\ service' = IF service = "running" THEN "stopped" ELSE "running"
  /\ outside' = TRUE
  /\ UNCHANGED <<bin, config, reads, page, call, told, faults>>

\* The app is closed, whatever it was doing, and started again.
AppRestarts ==
  /\ moves < MaxMoves /\ moves' = moves + 1
  /\ page' = Fresh /\ call' = Startup /\ outside' = FALSE /\ told' = FALSE
  /\ Rewriting \/ UNCHANGED config
  /\ UNCHANGED <<bin, service, reads, faults>>

Provision == RunOnce \/ SaveConfig \/ Decide \/ StopAndUninstall \/ CopyProbe
             \/ installProbeBinary \/ Register \/ Start \/ Report
User == Edit \/ Refresh \/ ClickLocate \/ ClickService \/ provision \/ uninstall \/ CloseDialog
Next == StatusAnswered \/ locate \/ ProbeServiceAction \/ Provision \/ User
        \/ ServiceMoves \/ AppRestarts

Spec == Init /\ [][Next]_vars
-----------------------------------------------------------------------------
(* A copy that fails or is cut short "never leaves a truncated binary at    *)
(* the install path" (app_probe.go:376).                                   *)
NeverTruncated == bin["install"] # "partial"

(* A persistent provision that succeeds has done what the dialog listed:    *)
(* the confirmed settings are in the config file, and the service is        *)
(* registered with the installed binary, reads that file - "running service *)
(* will pick it up on the next scan cycle" - and runs if it was to be       *)
(* started, whatever earlier attempt failed half-way.                       *)
Delivered(req) ==
  /\ config = req.form /\ Present("install")
  /\ service # "not installed" /\ reads = "config"
  /\ req.start => service = "running" \/ outside
ProvisionKeepsItsWord ==
  [][Report => Delivered(call.req)]_vars

(* With no call pending the state the page shows is the service's, unless   *)
(* the service manager changed it since or the page said that a call        *)
(* failed.                                                                 *)
StatusIsHonest ==
  call = Idle /\ page.loaded /\ ~outside /\ ~told /\ page.status.found
    => page.status.state \in {service, "unknown"}
=============================================================================

----------------------------- MODULE ScanSettings -----------------------------
(***************************************************************************)
(* What a scan of the desktop app scans: the range field, the chosen ports *)
(* and the monitor interval of frontend/src/state/useScan.ts, which the    *)
(* browser's storage keeps from one start of the app to the next, and what *)
(* the app asks its backend for as it starts, the default ports and the    *)
(* network the PC is on.  Around them: whether a scan may start, and the   *)
(* loop of monitor mode.                                                   *)
(*                                                                         *)
(* One start call is under way at a time and its reply comes before the    *)
(* scan ends; overlapping calls and events are module Desktop's.  A text   *)
(* of extra ports is the set of the numbers in it.                         *)
(***************************************************************************)
EXTENDS Naturals, FiniteSets

CONSTANTS
  Networks,   \* ranges of networks the PC may be on
  Fallback,   \* 192.168.1.0/24, offered when no network is found
  Odd,        \* a range the form accepts and the backend refuses (010.0.0.0/8)
  Junk,       \* no range at all
  Defaults,   \* the scanner's default ports
  Extras,     \* what the user may enter as extra ports
  MaxPorts,   \* MAX_PORTS, 64
  Untyped,    \* the user has not entered a range
  NoCall,
  Prompt      \* whether passive effects run before the next event

ASSUME ScanSettingsAssumption ==
  /\ Fallback \in Networks /\ Odd \notin Networks /\ Junk \notin Networks \cup {Odd}
  /\ "" \notin Networks \cup {Odd, Junk}
  /\ IsFiniteSet(Defaults) /\ Defaults # {} /\ MaxPorts \in Nat
  /\ {} \in Extras /\ \A text \in Extras : text \subseteq Nat /\ IsFiniteSet(text)
  /\ Prompt \in BOOLEAN

VARIABLES
  here,    \* the network the PC is on
  kept,    \* localStorage: netviz.cidr, netviz.disabledPorts, netviz.extraPorts
  on,      \* the app runs
  ui,      \* what useScan's state shows
  refs,    \* cidrRef and portsRef, which a passive effect sets
  asked,   \* the calls of the mount, and of the menu, that are not answered yet
  call,    \* the start call under way
  armed,   \* the timer of monitor mode is set
  told,    \* history: a refusal to scan was shown since the timer was last set
  typed    \* history: the range the user last entered, in this start or before

vars == <<here, kept, on, ui, refs, asked, call, armed, told, typed>>

Texts     == Networks \cup {Odd, Junk, ""}
Intervals == {"15s", "1m"}
FileActions == {"open", "save"}   \* exporting is like saving

\* The state of a hook that has not been used yet, from what is stored.
useStoredState ==
  [field |-> kept.field, off |-> kept.off, extra |-> kept.extra, every |-> kept.every,
   listed |-> FALSE, rows |-> FALSE, scanning |-> FALSE, monitoring |-> FALSE, error |-> "none"]

-----------------------------------------------------------------------------
(* What would be scanned.                                                  *)

isValidCIDR(text)  == text \in Networks \cup {Odd}
ValidateCIDR(text) == text \in Networks

\* What is no port is left out of the text.
parsePortList(text) == text \cap 1..65535

\* Mutant of portsCustomized: extra ports alone are no customization.
CustomizedByBoxes(u) == u.off # {}
portsCustomized(u)   == u.off # {} \/ parsePortList(u.extra) # {}

\* The default ports are there once the backend has listed them.
scanPorts(u) ==
  IF portsCustomized(u) THEN ((IF u.listed THEN Defaults ELSE {}) \ u.off) \cup parsePortList(u.extra)
  ELSE {}

portsValid(u) == portsCustomized(u) => Cardinality(scanPorts(u)) \in 1..MaxPorts

\* How many ports the settings page says a scan tries.
portSummary(u) == Cardinality(IF portsCustomized(u) THEN scanPorts(u) ELSE Defaults)

blocked(u) == ~isValidCIDR(u.field) \/ ~portsValid(u)

Ref(u) == [field |-> u.field, ports |-> scanPorts(u)]

\* The scanner probes its defaults when it is sent no ports.
NormalizePorts(ports) == IF ports = {} THEN Defaults ELSE ports

-----------------------------------------------------------------------------
Init ==
  /\ here \in Networks /\ on = FALSE
  /\ kept = [field |-> "", off |-> {}, extra |-> {}, every |-> "15s"]
  /\ ui = useStoredState /\ refs = Ref(ui) /\ asked = {}
  /\ call = NoCall /\ armed = FALSE /\ told = FALSE /\ typed = Untyped

Stored(u) == [field |-> u.field, off |-> u.off, extra |-> u.extra, every |-> u.every]

\* The passive effects of the hook: what is stored and the refs follow the state.
Flushed == kept' = Stored(ui') /\ refs' = Ref(ui')
Synced  == kept = Stored(ui) /\ refs = Ref(ui)
Ready   == on /\ (Prompt => Synced)

\* Mutant of Rearm: the effect depends on monitor mode and the interval only.
RearmRarely(set) ==
  /\ armed' = IF <<ui'.monitoring, ui'.every>> = <<ui.monitoring, ui.every>>
              THEN set ELSE ui'.monitoring /\ ~ui'.scanning
  /\ told' = (~armed' /\ (told \/ ui'.error = "scan"))

\* The effect that owns the timer runs again when what it depends on changes.
Rearm(set) ==
  /\ armed' = IF <<ui'.monitoring, ui'.scanning, ui'.rows, ui'.every>>
                   = <<ui.monitoring, ui.scanning, ui.rows, ui.every>>
              THEN set ELSE ui'.monitoring /\ ~ui'.scanning
  /\ told' = (~armed' /\ (told \/ ui'.error = "scan"))

\* The app is started: the stored settings are taken, the backend is asked.
Start ==
  /\ ~on /\ on' = TRUE /\ ui' = useStoredState
  /\ refs' = Ref(ui') /\ asked' = {"ports", "networks"}
  /\ UNCHANGED <<here, kept, call, armed, told, typed>>

\* It is closed, or dies; a scan ends with it.
Close ==
  /\ on /\ on' = FALSE /\ asked' = {} /\ call' = NoCall /\ armed' = FALSE /\ told' = FALSE
  /\ UNCHANGED <<here, kept, ui, refs, typed>>

\* The PC is taken to another network.
Move == ~on /\ here' \in Networks /\ UNCHANGED <<kept, on, ui, refs, asked, call, armed, told, typed>>

Effects == on /\ ~Synced /\ UNCHANGED ui /\ Flushed /\ UNCHANGED <<here, on, asked, call, armed, told, typed>>

\* DefaultPorts; a failure is shown where the ports are chosen.
PortsAnswered ==
  /\ "ports" \in asked /\ asked' = asked \ {"ports"}
  /\ ui' \in {[ui EXCEPT !.listed = TRUE], ui}
  /\ UNCHANGED <<here, kept, on, refs, call, armed, told, typed>>

\* Mutant of NetworksAnswered: the network found goes into the field.
NetworksTaken ==
  /\ "networks" \in asked /\ asked' = asked \ {"networks"}
  /\ \E found \in {here, Fallback} : ui' = [ui EXCEPT !.field = found]
  /\ UNCHANGED <<here, kept, on, refs, call, armed, told, typed>>

\* DetectNetworks, which may find none or fail.
NetworksAnswered ==
  /\ "networks" \in asked /\ asked' = asked \ {"networks"}
  /\ \E found \in {here, Fallback} :
       ui' = IF kept.field = "" THEN [ui EXCEPT !.field = found] ELSE ui
  /\ UNCHANGED <<here, kept, on, refs, call, armed, told, typed>>

-----------------------------------------------------------------------------
(* The user.  What a click or a key changes is rendered, and its effects    *)
(* run, before the next event.                                             *)

Set(u) == ui' = u /\ Flushed /\ Rearm(armed) /\ UNCHANGED <<here, on, asked, call>>

Type(text) ==
  /\ Ready /\ ~ui.scanning /\ text # ui.field /\ Set([ui EXCEPT !.field = text])
  /\ typed' = IF text = "" THEN Untyped ELSE text

ToggleDefault(port) ==
  /\ Ready /\ ui.listed
  /\ Set([ui EXCEPT !.off = IF port \in @ THEN @ \ {port} ELSE @ \cup {port}]) /\ UNCHANGED typed

EnterExtras(text) == Ready /\ text # ui.extra /\ Set([ui EXCEPT !.extra = text]) /\ UNCHANGED typed

ResetPorts ==
  /\ Ready /\ portsCustomized(ui) /\ Set([ui EXCEPT !.off = {}, !.extra = {}]) /\ UNCHANGED typed

SetInterval(every) == Ready /\ every # ui.every /\ Set([ui EXCEPT !.every = every]) /\ UNCHANGED typed

ClearError == Ready /\ ui.error # "none" /\ Set([ui EXCEPT !.error = "none"]) /\ UNCHANGED typed

\* Of the state u: nothing is sent when it is blocked, and a monitor's scan
\* that is blocked ends the loop.
startScan(u, preserve, byMonitor) ==
  IF blocked(u)
  THEN ui' = [u EXCEPT !.error = "scan", !.monitoring = @ /\ ~byMonitor] /\ UNCHANGED call
  ELSE /\ ui' = [u EXCEPT !.error = "none", !.rows = @ /\ preserve]
       /\ call' = [range |-> refs.field, ports |-> refs.ports, byMonitor |-> byMonitor]

\* The button, Enter in the field, and the button of an empty page.
ClickScan ==
  /\ Ready /\ call = NoCall /\ ~ui.scanning /\ ~blocked(ui)
  /\ startScan(ui, FALSE, FALSE) /\ Flushed /\ Rearm(armed)
  /\ UNCHANGED <<here, on, asked, typed>>

toggleMonitor ==
  /\ Ready /\ (ui.monitoring \/ ~blocked(ui))
  /\ LET u == [ui EXCEPT !.monitoring = ~@] IN
       IF u.monitoring /\ ~u.scanning
       THEN call = NoCall /\ startScan(u, u.rows, TRUE)
       ELSE ui' = u /\ UNCHANGED call
  /\ Flushed /\ Rearm(armed) /\ UNCHANGED <<here, on, asked, typed>>

\* The timer fires.
Tick ==
  /\ Ready /\ armed /\ call = NoCall /\ startScan(ui, TRUE, TRUE)
  /\ Rearm(FALSE) /\ UNCHANGED <<here, kept, on, refs, asked, typed>>

\* The reply to StartScan or StartMonitorScan.  A refusal to a monitor that was
\* switched off meanwhile is not shown.
Answered ==
  /\ on /\ call # NoCall /\ call' = NoCall
  /\ ui' = IF ValidateCIDR(call.range) THEN [ui EXCEPT !.scanning = TRUE]
           ELSE [ui EXCEPT !.scanning = FALSE,
                           !.error = IF call.byMonitor /\ ~ui.monitoring THEN @ ELSE "scan"]
  /\ Rearm(armed) /\ UNCHANGED <<here, kept, on, refs, asked, typed>>

\* The scan is over and has found something, or nothing.
Finished ==
  /\ on /\ ui.scanning
  /\ \E found \in BOOLEAN : ui' = [ui EXCEPT !.scanning = FALSE, !.rows = @ \/ found]
  /\ Rearm(armed) /\ UNCHANGED <<here, kept, on, refs, asked, call, typed>>

\* The More menu: a saved scan is opened, or the results, when there are some,
\* are saved or exported.  The error that was shown is gone before the dialog
\* of the operating system opens.
file(action) ==
  /\ Ready /\ asked \cap FileActions = {} /\ (action = "open" \/ ui.rows)
  /\ ui' = [ui EXCEPT !.error = "none"] /\ asked' = asked \cup {action}
  /\ Flushed /\ Rearm(armed) /\ UNCHANGED <<here, on, call, typed>>

\* Cancelled, done, or failed.  The devices of an opened file take the place
\* of the results; as many as before leave the timer alone.
fileAction(action) ==
  /\ action \in asked /\ asked' = asked \ {action}
  /\ \/ ui' = ui /\ Rearm(armed)
     \/ ui' = [ui EXCEPT !.error = "file"] /\ Rearm(armed)
     \/ /\ action = "open" /\ ui' \in {[ui EXCEPT !.rows = some] : some \in BOOLEAN}
        /\ \E set \in {armed, ui.monitoring /\ ~ui.scanning} : Rearm(set)
  /\ UNCHANGED <<here, kept, on, refs, call, typed>>

User ==
  \/ \E text \in Texts : Type(text)
  \/ \E port \in Defaults : ToggleDefault(port)
  \/ \E text \in Extras : EnterExtras(text)
  \/ \E every \in Intervals : SetInterval(every)
  \/ \E action \in FileActions : file(action)
  \/ ResetPorts \/ ClearError \/ ClickScan \/ toggleMonitor

Next ==
  \/ Start \/ Close \/ Move \/ Effects \/ PortsAnswered \/ NetworksAnswered
  \/ User \/ Tick \/ Answered \/ Finished
  \/ \E action \in FileActions : fileAction(action)

\* The browser runs effects and timers, the backend answers, a scan ends.
Spec ==
  /\ Init /\ [][Next]_vars
  /\ WF_vars(Effects) /\ WF_vars(Tick) /\ WF_vars(Answered) /\ WF_vars(Finished)
-----------------------------------------------------------------------------
\* Properties.

(* A port whose box the user unticked, in this start of the app or an       *)
(* earlier one, is not probed, nor is a port that was never chosen, however *)
(* late the default ports were listed; and what was chosen is probed, once  *)
(* they are (useScan.ts:130-140).  As many ports are probed as the settings *)
(* page says (SettingsWorkspace.tsx:40-46).                                *)
ScansWhatWasChosen ==
  [][call = NoCall /\ call' # NoCall =>
       LET probed == NormalizePorts(call'.ports)
           chosen == (Defaults \ ui.off) \cup parsePortList(ui.extra)
       IN  /\ probed \subseteq chosen
           /\ ui.listed => probed = chosen
           /\ Cardinality(probed) = portSummary(ui)
           /\ Cardinality(call'.ports) <= MaxPorts]_vars

(* A range the user entered stays the range, through restarts and whatever  *)
(* networks are found when (useScan.ts:89, settings.ts:3).                 *)
RangeIsTheUsers == on /\ typed # Untyped => ui.field = typed

(* "Re-scans on an interval" (README.md:90): while monitor mode is shown as *)
(* on another scan starts, or the user has been told that it does not.  An  *)
(* error about a file tells nothing of that.                               *)
MonitorGoesOn ==
  on /\ ui.monitoring ~> ~on \/ ~ui.monitoring \/ call # NoCall \/ told

(* "A monitor loop that can no longer scan stops, and says why"             *)
(* (useScan.ts:156): one that is shown as on has its timer set.            *)
ShownLoopRuns == on /\ ui.monitoring /\ ~ui.scanning /\ call = NoCall => armed

(* "Start from the network this PC is on unless the user already chose one" *)
(* (useScan.ts:89).                                                        *)
StartsFromThisNetwork ==
  on /\ "networks" \notin asked /\ typed = Untyped /\ ui.field # "" =>
    ui.field \in {here, Fallback}
=============================================================================

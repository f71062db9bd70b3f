-------------------------- MODULE ProbePage_proofs --------------------------
(***************************************************************************)
(* NeverTruncated and StatusIsHonest, and ProvisionKeepsItsWord where the  *)
(* service was not installed with flags by hand; for any settings,         *)
(* versions and bounds.                                                    *)
(*                                                                         *)
(* A provisioning holds the bridge's only call, so that what one of its    *)
(* steps found or did is still so at the next, but for what the service    *)
(* manager does to a registered service by itself (app_probe.go).          *)
(***************************************************************************)
EXTENDS ProbePage, TLAPS

Binaries == Versions \cup {"none", "partial"}

\* The binaries: a copy is made under another name.
BinOK ==
  /\ bin \in [Places -> Binaries]
  /\ \A place \in Places \ {"install.tmp"} : bin[place] # "partial"

\* The page and its call name only the places there are.
PageOK ==
  /\ page = [loaded |-> page.loaded, status |-> page.status, form |-> page.form,
             path |-> page.path, persistent |-> page.persistent, start |-> page.start,
             error |-> page.error, dialog |-> page.dialog]
  /\ page.path \in Paths

CallOK ==
  /\ call.kind \in {"status", "service"} => call.path \in Paths
  /\ call.kind = "provision" =>
       /\ call = [kind |-> "provision", at |-> call.at, known |-> call.known, req |-> call.req]
       /\ call.req.path \in Paths

\* What a provisioning has reached, step by step.
Saved == {"saved", "stop", "uninstall", "copy", "rename", "register", "start", "report"}

Progress ==
  call.kind = "provision" =>
    /\ call.at \in Saved => config = call.req.form
    /\ call.at \in {"saved", "stop", "uninstall", "copy", "rename"} => Present(Source)
    /\ call.at \in {"register", "start", "report"} => Present("install")
    /\ call.at \in {"start", "report"} => service # "not installed"
    /\ call.at = "report" /\ call.req.start => service = "running" \/ outside

IInv == BinOK /\ PageOK /\ CallOK /\ Progress

LEMMA NoVersion == "none" \notin Versions /\ "partial" \notin Versions
BY ProbePageAssumption, Zenon

\* Every path that is resolved is one of the places a binary may be at.
LEMMA Resolved ==
  ASSUME NEW path \in Paths
  PROVE  /\ resolveProbeBinary(path) \in Paths \ {""}
         /\ resolveProbeSource(path) \in {"install", "bundled", "chosen"}
BY DEF resolveProbeBinary, resolveProbeSource, Paths

LEMMA InitIInv == Init => IInv
<1> SUFFICES ASSUME Init PROVE IInv
  OBVIOUS
<1>1. BinOK
  BY NoVersion DEF Init, BinOK, Binaries, Places
<1>2. page = Fresh /\ call = Startup
  BY DEF Init
<1> QED
  BY <1>1, <1>2 DEF IInv, PageOK, CallOK, Progress, Fresh, Startup, Paths

\* A call is over and a status adopted, or none.
LEMMA AdoptKeeps ==
  ASSUME IInv, NEW path \in Paths, NEW replacePath \in BOOLEAN, adopt(path, replacePath)
  PROVE  PageOK' /\ CallOK' /\ Progress'
<1>1. call' = Idle
  BY DEF adopt
<1>2. PageOK'
  BY DEF adopt, IInv, PageOK
<1> QED
  BY <1>1, <1>2 DEF CallOK, Progress, Idle

LEMMA FailsKeeps == ASSUME IInv, Fails PROVE PageOK' /\ CallOK' /\ Progress'
BY DEF Fails, IInv, PageOK, CallOK, Progress, Idle

\* The next step of the same provisioning.
LEMMA GoesOn ==
  ASSUME IInv, call.kind = "provision", NEW at, Goes(at)
  PROVE  /\ PageOK' /\ CallOK'
         /\ call'.kind = "provision" /\ call'.at = at /\ call'.req = call.req
         /\ UNCHANGED outside
BY DEF Goes, IInv, PageOK, CallOK

-----------------------------------------------------------------------------
(* The steps of a provisioning.                                            *)

LEMMA SaveKeeps == ASSUME IInv, RunOnce \/ SaveConfig PROVE IInv'
<1>1. bin' = bin /\ call.kind = "provision"
  BY DEF RunOnce, SaveConfig, system, Provisioning
<1>2. BinOK'
  BY <1>1 DEF IInv, BinOK
<1>3. call.req.path \in Paths
  BY <1>1 DEF IInv, CallOK
<1>4. CASE Fails
  BY <1>2, <1>4, FailsKeeps DEF IInv
<1>5. CASE RunOnce /\ ~Fails
  <2>1. adopt(resolveProbeBinary(call.req.path), TRUE)
    BY <1>5 DEF RunOnce
  <2> QED
    BY <1>2, <1>3, <2>1, Resolved, AdoptKeeps DEF IInv
<1>6. CASE SaveConfig /\ ~Fails
  <2>1. /\ Present(Source) /\ config' = call.req.form /\ page' = page
        /\ call' = [call EXCEPT !.at = "saved", !.known = config # Blank]
    BY <1>6 DEF SaveConfig
  <2>2. /\ CallOK' /\ call'.req = call.req /\ call'.at = "saved" /\ call'.kind = "provision"
    BY <1>1, <2>1 DEF IInv, CallOK
  <2>3. Progress'
    BY <1>1, <2>1, <2>2 DEF Progress, Present, Source, resolveProbeSource
  <2> QED
    BY <1>2, <2>1, <2>2, <2>3 DEF IInv, PageOK
<1> QED
  BY <1>4, <1>5, <1>6

LEMMA DecideKeeps == ASSUME IInv, Decide PROVE IInv'
<1>1. /\ call.kind = "provision" /\ call.at = "saved"
      /\ UNCHANGED <<bin, config, service>>
  BY DEF Decide, Provisioning, system
<1>2. PICK at : /\ Goes(at)
                /\ \/ at = "stop"
                   \/ /\ ~NeedCopy /\ service # "not installed"
                      /\ at = IF call.req.start /\ service # "running" THEN "start" ELSE "report"
  BY DEF Decide
<1>3. /\ PageOK' /\ CallOK' /\ call'.kind = "provision" /\ call'.at = at
      /\ call'.req = call.req /\ UNCHANGED outside
  BY <1>1, <1>2, GoesOn
<1>4. Present(Source) /\ config = call.req.form
  BY <1>1 DEF IInv, Progress, Saved
<1>5. Present("install") \/ at = "stop"
  BY <1>2, <1>4 DEF NeedCopy
<1>6. Progress'
  BY <1>1, <1>2, <1>3, <1>4, <1>5 DEF Progress, Present, Source, resolveProbeSource
<1> QED
  BY <1>1, <1>3, <1>6 DEF IInv, BinOK

LEMMA StopKeeps == ASSUME IInv, StopAndUninstall PROVE IInv'
<1>1. call.kind = "provision" /\ call.at \in {"stop", "uninstall"} /\ UNCHANGED <<bin, config>>
  BY DEF StopAndUninstall, Provisioning, system
<1>2. PICK at : Goes(at) /\ (at = "uninstall" \/ at = IF NeedCopy THEN "copy" ELSE "register")
  BY DEF StopAndUninstall
<1>3. /\ PageOK' /\ CallOK' /\ call'.kind = "provision" /\ call'.at = at
      /\ call'.req = call.req
  BY <1>1, <1>2, GoesOn
<1>4. Present(Source) /\ config = call.req.form
  BY <1>1 DEF IInv, Progress, Saved
<1>5. Present("install") \/ at # "register"
  BY <1>2, <1>4 DEF NeedCopy
<1>6. Progress'
  BY <1>1, <1>2, <1>3, <1>4, <1>5 DEF Progress, Present, Source, resolveProbeSource
<1> QED
  BY <1>1, <1>3, <1>6 DEF IInv, BinOK

\* A copy, and its rename: what is copied is present and whole.
LEMMA CopyKeeps == ASSUME IInv, CopyProbe \/ installProbeBinary PROVE IInv'
<1>1. /\ call.kind = "provision" /\ call.at \in {"copy", "rename"} /\ UNCHANGED <<config, service>>
  BY DEF CopyProbe, installProbeBinary, Provisioning, system
<1>2. /\ Source \in {"install", "bundled", "chosen"} /\ bin[Source] # "none"
      /\ config = call.req.form
  BY <1>1, Resolved DEF IInv, CallOK, Progress, Saved, Source, Present
<1>3. bin[Source] \in Versions
  BY <1>2 DEF IInv, BinOK, Binaries, Places
<1>4. BinOK'
  <2>1. \/ bin' = bin \/ bin' = [bin EXCEPT !["install.tmp"] = "partial"]
        \/ bin' = [bin EXCEPT !["install.tmp"] = "none"]
        \/ bin' = [bin EXCEPT !["install.tmp"] = "none", !["install"] = bin[Source]]
    BY DEF CopyProbe, installProbeBinary, system
  <2> QED
    BY <2>1, <1>3, NoVersion DEF IInv, BinOK, Binaries, Places
<1>5. CASE Fails
  BY <1>4, <1>5, FailsKeeps DEF IInv
<1>6. CASE CopyProbe /\ ~Fails
  <2>1. bin' = [bin EXCEPT !["install.tmp"] = "partial"] /\ Goes("rename")
    BY <1>6 DEF CopyProbe
  <2>2. /\ PageOK' /\ CallOK' /\ call'.kind = "provision" /\ call'.at = "rename"
        /\ call'.req = call.req
    BY <1>1, <2>1, GoesOn
  <2>3. \A place \in Places \ {"install.tmp"} : bin'[place] = bin[place]
    BY <2>1 DEF IInv, BinOK
  <2>4. Source' = Source /\ bin'[Source] # "none"
    BY <1>2, <2>2, <2>3 DEF Source, resolveProbeSource, Present, Places
  <2>5. Progress'
    BY <1>1, <1>2, <2>2, <2>4 DEF Progress, Present
  <2> QED
    BY <1>4, <2>2, <2>5 DEF IInv
<1>7. CASE installProbeBinary /\ ~Fails
  <2>1. /\ bin' = [bin EXCEPT !["install.tmp"] = "none", !["install"] = bin[Source]]
        /\ Goes("register")
    BY <1>7 DEF installProbeBinary
  <2>2. /\ PageOK' /\ CallOK' /\ call'.kind = "provision" /\ call'.at = "register"
        /\ call'.req = call.req
    BY <1>1, <2>1, GoesOn
  <2>3. bin'["install"] # "none"
    BY <1>2, <2>1 DEF IInv, BinOK, Places
  <2>4. Progress'
    BY <1>1, <1>2, <2>2, <2>3 DEF Progress, Present
  <2> QED
    BY <1>4, <2>2, <2>4 DEF IInv
<1> QED
  BY <1>5, <1>6, <1>7

LEMMA RegisterKeeps == ASSUME IInv, Register \/ Start PROVE IInv'
<1>1. /\ call.kind = "provision" /\ call.at \in {"register", "start"} /\ UNCHANGED <<bin, config>>
  BY DEF Register, Start, Provisioning, system
<1>2. BinOK' /\ Present("install")' /\ config = call.req.form
  BY <1>1 DEF IInv, BinOK, Progress, Saved, Present
<1>3. CASE Fails
  BY <1>2, <1>3, FailsKeeps DEF IInv
<1>4. CASE ~Fails
  <2>1. PICK at : /\ Goes(at) /\ at \in {"start", "report"}
                  /\ \/ service' = "stopped" /\ (call.req.start => at = "start")
                     \/ service' = "running"
    BY <1>4 DEF Register, Start
  <2>2. /\ PageOK' /\ CallOK' /\ call'.kind = "provision" /\ call'.at = at
        /\ call'.req = call.req
    BY <1>1, <2>1, GoesOn
  <2>3. Progress'
    BY <1>1, <1>2, <2>1, <2>2 DEF Progress
  <2> QED
    BY <1>2, <2>2, <2>3 DEF IInv
<1> QED
  BY <1>3, <1>4

-----------------------------------------------------------------------------
(* The other calls, the page and what is around the app.                   *)

\* Calls that end with a status.
LEMMA AnswerKeeps ==
  ASSUME IInv, StatusAnswered \/ ProbeServiceAction \/ Report
  PROVE  IInv'
<1>1. bin' = bin
  BY DEF StatusAnswered, ProbeServiceAction, CommandFails, Report, system
<1>2. BinOK'
  BY <1>1 DEF IInv, BinOK
<1>3. CASE Fails
  BY <1>2, <1>3, FailsKeeps DEF IInv
<1>4. CASE ~Fails
  <2>1. CASE StatusAnswered
    BY <1>2, <2>1, Resolved, AdoptKeeps DEF StatusAnswered, IInv, CallOK
  <2>2. CASE ProbeServiceAction
    BY <1>2, <1>4, <2>2, Resolved, AdoptKeeps DEF ProbeServiceAction, CommandFails, IInv, CallOK
  <2>3. CASE Report
    BY <1>2, <2>3, AdoptKeeps DEF Report, IInv, Paths
  <2> QED
    BY <2>1, <2>2, <2>3
<1> QED
  BY <1>3, <1>4

LEMMA LocateKeeps == ASSUME IInv, locate PROVE IInv'
<1>1. bin' = bin /\ call.kind = "choose"
  BY DEF locate, system
<1>2. BinOK'
  BY <1>1 DEF IInv, BinOK
<1>3. PageOK'
  BY FailsKeeps DEF locate, IInv, PageOK, Paths
<1>4. call'.kind # "provision" /\ (call'.kind \in {"status", "service"} => call'.path \in Paths)
  <2>1. call' = Idle \/ call' = [kind |-> "status", path |-> "chosen"]
    BY DEF locate, Fails
  <2>2. CASE call' = Idle
    BY <2>2 DEF Idle
  <2>3. CASE call' = [kind |-> "status", path |-> "chosen"]
    BY <2>3 DEF Paths
  <2> QED
    BY <2>1, <2>2, <2>3
<1> QED
  BY <1>2, <1>3, <1>4 DEF IInv, CallOK, Progress

LEMMA UserKeeps == ASSUME IInv, User PROVE IInv'
<1>1. UNCHANGED <<bin, config, service>>
  BY DEF User, Edit, Refresh, ClickLocate, ClickService, provision, uninstall, CloseDialog,
         Click, system
<1>2. BinOK'
  BY <1>1 DEF IInv, BinOK
<1>3. PageOK'
  BY DEF User, Edit, Refresh, ClickLocate, ClickService, provision, uninstall, CloseDialog, Shown,
         IInv, PageOK
<1>4. \/ UNCHANGED <<call, outside>>
      \/ \E verb : call' = [kind |-> "service", verb |-> verb, path |-> page.path]
      \/ call' = [kind |-> "status", path |-> page.path]
      \/ call' = [kind |-> "choose"]
      \/ \E form, persistent, start :
           call' = [kind |-> "provision", at |-> "asked", known |-> FALSE,
                    req |-> [form |-> form, persistent |-> persistent, start |-> start,
                             path |-> page.path]]
  BY DEF User, Edit, Refresh, ClickLocate, ClickService, provision, uninstall, CloseDialog, Ask
<1>5. CASE UNCHANGED <<call, outside>>
  BY <1>1, <1>2, <1>3, <1>5 DEF IInv, CallOK, Progress, Present, Source, resolveProbeSource
<1>6. CASE ~UNCHANGED <<call, outside>>
  <2>1. page.path \in Paths
    BY DEF IInv, PageOK
  <2>2. CASE call'.kind # "provision"
    <3>1. CASE \E verb : call' = [kind |-> "service", verb |-> verb, path |-> page.path]
      <4>1. call'.kind = "service" /\ call'.path \in Paths
        BY <2>1, <3>1
      <4> QED
        BY <1>2, <1>3, <4>1 DEF IInv, CallOK, Progress
    <3>2. CASE call' = [kind |-> "status", path |-> page.path]
      BY <1>2, <1>3, <2>1, <3>2 DEF IInv, CallOK, Progress
    <3>3. CASE call' = [kind |-> "choose"]
      BY <1>2, <1>3, <3>3 DEF IInv, CallOK, Progress
    <3>4. CASE \E form, persistent, start :
                 call' = [kind |-> "provision", at |-> "asked", known |-> FALSE,
                          req |-> [form |-> form, persistent |-> persistent, start |-> start,
                                   path |-> page.path]]
      BY <2>2, <3>4
    <3> QED
      BY <1>4, <1>6, <3>1, <3>2, <3>3, <3>4
  <2>3. CASE call'.kind = "provision"
    <3>1. PICK form, persistent, start :
            call' = [kind |-> "provision", at |-> "asked", known |-> FALSE,
                     req |-> [form |-> form, persistent |-> persistent, start |-> start,
                              path |-> page.path]]
      BY <1>4, <1>6, <2>3
    <3> QED
      BY <1>2, <1>3, <2>1, <3>1 DEF IInv, CallOK, Progress, Saved
  <2> QED
    BY <2>2, <2>3
<1> QED
  BY <1>5, <1>6

LEMMA AroundKeeps == ASSUME IInv, ServiceMoves \/ AppRestarts PROVE IInv'
<1>1. CASE ServiceMoves
  BY <1>1 DEF ServiceMoves, IInv, BinOK, PageOK, CallOK, Progress, Present, Source,
              resolveProbeSource
<1>2. CASE AppRestarts
  BY <1>2 DEF AppRestarts, IInv, BinOK, PageOK, CallOK, Progress, Fresh, Startup, Paths
<1> QED
  BY <1>1, <1>2

\* The inductive invariant.
THEOREM Invariance == Spec => []IInv
<1>1. IInv /\ [Next]_vars => IInv'
  <2> SUFFICES ASSUME IInv, [Next]_vars PROVE IInv'
    OBVIOUS
  <2>1. CASE Provision
    BY <2>1, SaveKeeps, DecideKeeps, StopKeeps, CopyKeeps, RegisterKeeps, AnswerKeeps DEF Provision
  <2>2. CASE UNCHANGED vars
    BY <2>2 DEF vars, IInv, BinOK, PageOK, CallOK, Progress, Present, Source, resolveProbeSource
  <2> QED
    BY <2>1, <2>2, AnswerKeeps, LocateKeeps, UserKeeps, AroundKeeps DEF Next
<1> QED
  BY <1>1, InitIInv, PTL DEF Spec

\* No truncated binary at the install path (app_probe.go:376), whichever step
\* of a copy fails or is the last before the app is closed.
THEOREM NoTruncatedBinary == Spec => []NeverTruncated
<1>1. IInv => NeverTruncated
  BY DEF IInv, BinOK, Places, NeverTruncated
<1> QED
  BY <1>1, Invariance, PTL

\* Every service reads the config file, where none was installed with flags.
LEMMA ReadsConfig == ASSUME ~ByHand PROVE Spec => [](reads = "config")
<1>1. Init => reads = "config"
  BY DEF Init
<1>2. reads = "config" /\ [Next]_vars => (reads = "config")'
  BY DEF Next, Provision, User, StatusAnswered, locate, ProbeServiceAction, CommandFails, RunOnce, SaveConfig,
         Decide, StopAndUninstall, CopyProbe, installProbeBinary, Register, Start, Report, Edit,
         Refresh, ClickLocate, ClickService, provision, uninstall, CloseDialog, Click,
         ServiceMoves, AppRestarts, system, vars
<1> QED
  BY <1>1, <1>2, PTL DEF Spec

\* A provisioning that succeeds has done what it was asked for
\* (app_probe.go), whatever earlier attempt failed half-way.
THEOREM ProvisionDelivers == ASSUME ~ByHand PROVE Spec => ProvisionKeepsItsWord
<1>1. IInv /\ reads = "config" /\ Report => Delivered(call.req)
  BY DEF IInv, Progress, Saved, Report, Provisioning, Delivered
<1>2. IInv /\ reads = "config" /\ [Next]_vars => [Report => Delivered(call.req)]_vars
  BY <1>1
<1> QED
  BY <1>2, Invariance, ReadsConfig, PTL DEF Spec, ProvisionKeepsItsWord

-----------------------------------------------------------------------------
(* What the page shows.                                                    *)

\* A picker is only open where the page shows no binary.
Honest ==
  /\ StatusIsHonest
  /\ call.kind = "choose" => ~page.status.found

\* A call that ends with a status shows the service as it is, or as unknown.
LEMMA AdoptIsHonest ==
  ASSUME IInv, NEW path \in Paths, NEW replacePath \in BOOLEAN, adopt(path, replacePath),
         bin' = bin
  PROVE  Honest'
<1>1. PICK state \in States \cup {"unknown", "missing"} :
        /\ GetProbeStatus(path, state)
        /\ page'.status = [found |-> Present(path), state |-> state]
  BY DEF adopt, IInv, PageOK
<1>2. page'.status.found => state \in {service', "unknown"}
  BY <1>1 DEF GetProbeStatus
<1>3. call' = Idle
  BY DEF adopt
<1> QED
  BY <1>1, <1>2, <1>3 DEF Honest, StatusIsHonest, Idle

\* A call that fails says so.
LEMMA FailsIsHonest == ASSUME Fails PROVE Honest'
BY DEF Fails, Honest, StatusIsHonest, Idle

\* Nothing is claimed while a call is pending.
LEMMA PendingIsHonest ==
  ASSUME call'.kind \in {"status", "service", "provision"}
  PROVE  Honest'
BY DEF Honest, StatusIsHonest, Idle

LEMMA CallsAreHonest ==
  ASSUME IInv, Honest, StatusAnswered \/ ProbeServiceAction \/ locate
  PROVE  Honest'
<1>1. CASE Fails
  BY <1>1, FailsIsHonest
<1>2. CASE StatusAnswered
  <2>1. call.path \in Paths /\ bin' = bin
    BY <1>2 DEF StatusAnswered, IInv, CallOK, system
  <2> QED
    BY <1>2, <2>1, Resolved, AdoptIsHonest DEF StatusAnswered
<1>3. CASE ProbeServiceAction /\ ~Fails
  <2>1. call.path \in Paths /\ bin' = bin
    BY <1>3 DEF ProbeServiceAction, CommandFails, IInv, CallOK
  <2> QED
    BY <1>3, <2>1, Resolved, AdoptIsHonest DEF ProbeServiceAction, CommandFails
<1>4. CASE locate /\ ~Fails
  <2>1. CASE call' = Idle /\ page' = page
    <3>1. ~page'.status.found
      BY <1>4, <2>1 DEF locate, Honest
    <3> QED
      BY <2>1, <3>1 DEF Honest, StatusIsHonest
  <2>2. CASE call' = [kind |-> "status", path |-> "chosen"]
    BY <2>2, PendingIsHonest
  <2> QED
    BY <1>4, <2>1, <2>2 DEF locate
<1> QED
  BY <1>1, <1>2, <1>3, <1>4

LEMMA ProvisionIsHonest == ASSUME IInv, Provision PROVE Honest'
<1>1. CASE Fails
  BY <1>1, FailsIsHonest
<1>2. CASE \E at : Goes(at)
  <2>1. call.kind = "provision"
    BY DEF Provision, RunOnce, SaveConfig, Decide, StopAndUninstall, CopyProbe,
           installProbeBinary, Register, Start, Report, Provisioning
  <2> QED
    BY <1>2, <2>1, GoesOn, PendingIsHonest
<1>3. CASE RunOnce /\ ~Fails
  <2>1. call.req.path \in Paths /\ bin' = bin
    BY <1>3 DEF RunOnce, Provisioning, IInv, CallOK, system
  <2> QED
    BY <1>3, <2>1, Resolved, AdoptIsHonest DEF RunOnce
<1>4. CASE Report
  <2>1. bin' = bin /\ "install" \in Paths
    BY <1>4 DEF Report, system, Paths
  <2> QED
    BY <1>4, <2>1, AdoptIsHonest DEF Report
<1>5. CASE SaveConfig /\ ~Fails
  <2>1. call'.kind = "provision"
    BY <1>5 DEF SaveConfig, Provisioning, IInv, CallOK
  <2> QED
    BY <2>1, PendingIsHonest
<1> QED
  BY <1>1, <1>2, <1>3, <1>4, <1>5
     DEF Provision, Decide, StopAndUninstall, CopyProbe, installProbeBinary, Register, Start

LEMMA UserIsHonest == ASSUME IInv, Honest, User PROVE Honest'
<1>1. UNCHANGED <<service, told>> /\ page'.status = page.status /\ page'.loaded = page.loaded
  BY DEF User, Edit, Refresh, ClickLocate, ClickService, provision, uninstall, CloseDialog,
         Click, system, Shown, IInv, PageOK
<1>2. CASE UNCHANGED <<call, outside>>
  BY <1>1, <1>2 DEF Honest, StatusIsHonest
<1>3. CASE ClickLocate
  <2>1. call' = [kind |-> "choose"] /\ ~page.status.found
    BY <1>3 DEF ClickLocate, Ask
  <2> QED
    BY <1>1, <2>1 DEF Honest, StatusIsHonest
<1>4. CASE ~ClickLocate /\ ~UNCHANGED <<call, outside>>
  <2>1. call'.kind \in {"status", "service", "provision"}
    <3>1. CASE Refresh \/ ClickService
      BY <3>1 DEF Refresh, ClickService, Ask
    <3>2. CASE CloseDialog
      BY <1>4, <3>2 DEF CloseDialog, Ask
    <3> QED
      BY <1>4, <3>1, <3>2 DEF User, Edit, provision, uninstall
  <2> QED
    BY <2>1, PendingIsHonest
<1> QED
  BY <1>2, <1>3, <1>4

\* With no call pending, the state the page shows is the service's, unless the
\* service manager changed it since or the page said that a call failed.
THEOREM StatusHonest == Spec => []StatusIsHonest
<1>1. Init => Honest
  <2> SUFFICES ASSUME Init PROVE Honest
    OBVIOUS
  <2>1. call = Startup
    BY Zenon DEF Init
  <2>2. call.kind = "status"
    BY <2>1 DEF Startup
  <2> QED
    BY <2>2 DEF Honest, StatusIsHonest, Idle
<1>2. IInv /\ Honest /\ [Next]_vars => Honest'
  <2> SUFFICES ASSUME IInv, Honest, [Next]_vars PROVE Honest'
    OBVIOUS
  <2>1. CASE ServiceMoves
    BY <2>1 DEF ServiceMoves, Honest, StatusIsHonest
  <2>2. CASE AppRestarts
    BY <2>2, PendingIsHonest DEF AppRestarts, Startup
  <2>3. CASE UNCHANGED vars
    BY <2>3 DEF vars, Honest, StatusIsHonest
  <2> QED
    BY <2>1, <2>2, <2>3, CallsAreHonest, ProvisionIsHonest, UserIsHonest DEF Next
<1>3. Honest => StatusIsHonest
  BY DEF Honest
<1> QED
  BY <1>1, <1>2, <1>3, Invariance, PTL DEF Spec
=============================================================================

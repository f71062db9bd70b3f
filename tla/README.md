# A TLA+ development of NetViz

NetViz scans local networks from a desktop app, a command line and a probe
service; the probe pushes what it finds to a server. The desktop app and a page
of the server show it. This directory models the parts of it that are
concurrent, that retry, that wait for each other, or that keep state between
scans, checks them with TLC, and proves the central invariants with TLAPS.

## 1. Inventory

### Parts and how they interact

| part | code | state | operations |
|---|---|---|---|
| scan engine | `internal/scanner/scanner.go`, `events.go` | the event channel, the jobs channel, a shared counter, per worker the observation of one address | `Scan`, `run` (dispatcher), `scanHost` (worker), `emit`; cancelled through its context |
| scan inputs | `cidr.go`, `ports.go`, `classify.go`, `arp.go`, `vendor.go`, `local.go` | an ARP cache of one second | pure functions and lookups |
| probe inventory | `cmd/netviz-probe/inventory.go`, `internal/anchordesk/record.go` | `byID`, `idByIP` between scans | `records(hosts)` |
| probe delivery | `cmd/netviz-probe/main.go`, `internal/anchordesk/client.go` | `deliveryState` (pending, backoff), the config in force | the loop of `runProbe`; HTTP calls that may fail either way |
| probe config | `cmd/netviz-probe/config.go`, `internal/probeconfig` | one JSON file, shared with the desktop app | `reload`, `Save`, `Load` |
| probe service | `cmd/netviz-probe/service.go` | the cancel function and done channel of the loop | `Start`, `Stop`, control actions |
| server | `internal/server` | stored runs, last heartbeat, sessions in signed cookies | ingest, state, sign-in |
| history store | `internal/storage/sqlite.go` | `scan_runs`, `host_observations` | save, coalescing save, touch, prune, delete, list, diff |
| desktop app | `desktop/app.go` | `cancel`, `scanning`, `results`, `run`, under one mutex | `StartScan`, `StartMonitorScan`, `CancelScan`, `OpenScanFile`, one `consumeEvents` goroutine per scan |
| scan hook | `frontend/src/state/useScan.ts`, `settings.ts` | React state mirrored in refs, a copy in the browser's storage | calls into the app, event handlers, the monitor timer, range, ports and interval |
| network page | `NetworkWorkspace.tsx`, `ui/src/components`, `ui/src/topology` | filter, view, selected device, its history; the map's cursor, camera and meshes | rows and boxes clicked and walked by keys, renderer chosen or lost, frames drawn |
| history page | `HistoryWorkspace.tsx`, `useHistoryRuns.ts` | runs and latest diff, the two selectors, a comparison | reload, compare, delete, events of the backend |
| web page | `web/src/main.tsx`, `internal/server/state.go`, `auth.go` | the last state received, filters | polling, refresh, sample data, sign-in |
| updater | `desktop/app_update*.go`, `update_finalize.go` | files on disk, a helper process | check, download, verify, apply, finalise |
| provisioning | `desktop/app_probe.go`, `ProbeWorkspace.tsx`, `useProbe.ts` | the installed binary, service and config; the form | provision, service actions, status, choose a binary |
| CLI | `cmd/netviz-cli` | none of its own | scan (and save), history, diff |

The engine streams events over one channel to three consumers: the desktop
app's `consumeEvents`, the probe's `scan`, the CLI's `runScan`. All three keep
the last snapshot of each address in a map. The desktop app and the CLI are two
processes writing one SQLite file. The desktop app and the probe are two
processes sharing one config file. The probe and the server talk over HTTP; the
desktop app and its UI over the asynchronous calls and events of the Wails
runtime.

### What is hard, and what makes each part correct

* **Engine.** Many senders on one bounded channel that someone closes, a cancel
  at any moment, a consumer that may be slow. Correct when the channel is closed
  only after the last sender, the stream of events of a host is one protocol,
  progress ends at the truth, a scan ends, a cancel frees the workers.
* **Probe inventory.** Devices that move, swap and share addresses, seen by two
  loops that edit two maps. Correct when the maps agree, an active device is
  never overwritten by silence, and "down" is said of the right device.
* **Probe delivery.** Lost requests, lost replies, a save that succeeds before
  an error, crashes, stops in the middle of a scan, torn config files. Correct
  when nothing recorded is lost, nothing older overwrites anything newer,
  nobody who answered is reported down, and the server converges.
* **History.** Multi-statement saves on no transaction, several clients.
  Correct when the stored runs are the changes the scans observed.
* **Scan settings.** A default list and a network that arrive when the user has
  already typed; values written to storage, and to refs, by effects that run
  after the render; a timer owned by an effect. Correct when what is scanned is
  what was chosen and a loop that is shown goes on.
* **Network page.** A selection shared by four views and a history lookup that
  may answer late; a scene drawn on demand, whose canvas reports a loss when it
  is thrown away. Correct when details belong to their device, what is on screen
  comes to show what is known, and a selection ends only for a reason.
* **History page, web page.** Replies that overtake each other while rows are
  stored and pruned. Correct when the page ends at what is stored.
* **Updater, provisioning.** Files swapped by one process for another, external
  commands that fail, power losses. Correct when a whole binary is always left,
  and a success means what the dialog said.
* **Desktop.** A goroutine per scan that outlives its scan to save it, while
  the next one starts; a UI that mirrors the backend from replies and events.
  Correct when runs are saved as themselves, the cancel handle reaches the live
  scan, every scan ends, and the UI agrees with the backend.

`PROJECT.json` lists every component with its status, and under `hazards` the
lines where these things bite with the properties that cover them.

## 2. Modules

| module | models | role |
|---|---|---|
| `ScanEvents` | event types, snapshots (`internal/model`) | data shared by the next two |
| `ScanStream` | what a scan promises to a consumer | abstract specification |
| `Scanner` | `run`, `scanHost`, `emit`, a consumer | implements `ScanStream` |
| `ScanRange` | `ExpandCIDR` | pure function against a reference |
| `DeviceRecords` | `ToDeviceRecord`, the loop bodies of `records` | operators shared by the next two |
| `Inventory` | `records` over any sequence of scans | component |
| `Probe` | `runProbe`, `deliveryState`, `reload`, the server's `probeDevices`, the link | composes the inventory, the delivery, the config file, the service and the backend |
| `ChangeLog` | what a history of changes is | abstract specification |
| `History` | the SQLite store and its two writers | implements `ChangeLog` |
| `Desktop` | `app.go` and the scan flags of `useScan.ts` | component; the engine appears as its contract |
| `ScanSettings` | range, ports, interval, storage and loop of `useScan.ts`; the More menu | component; one call at a time |
| `DeviceViews` | `net.ts`, the table's order, the layout's order | pure operators of the pages |
| `Scene` | frames and effects of `TopologyScene.tsx` | operators on a record |
| `Topology` | `Topology.tsx`: renderer, cursor, camera | composed by the next |
| `NetworkPage` | the network page with `useScan`'s host events | composes `DeviceViews`, `Scene`, `Topology` |
| `HistoryPage` | `useHistoryRuns.ts`, `HistoryWorkspace.tsx` and the calls behind them | composes page, app and a store that prunes |
| `ProbePage` | `ProbeWorkspace.tsx`, `useProbe.ts`, `app_probe.go` | composes page, app, service manager and files |
| `Updater` | update panel, app and helper process | composes the three and the disk |
| `WebPage` | `main.tsx` and the server's read side | composes page, network and server |
| `MC*` | small constants and symmetry | instances for TLC |
| `Scanner_proofs`, `Desktop_proofs`, `ScanSettings_proofs`, `WebPage_proofs`, `ProbePage_proofs` | | theorems about the module each is named for |
| `Probe_proofs` | | theorems about `Inventory` and `Probe` |
| `Disk_proofs` | | theorems about `History` and `Updater` |
| `Pages_proofs` | | theorems about `NetworkPage`, with `Topology`, `Scene` and `DeviceViews`, and `HistoryPage` |

Operators whose comment calls them a mutant ("Mutant of X") are plausible bugs
of the definition that follows them; they take part in no specification. Each
shows that a property fails when the code is wrong in that way.

### Scanner, ScanRange

Variables follow the goroutines. `out` is the event channel and `outClosed` its
close; `dpc` is where `run` is, `pc[w]` where worker `w` is in `scanHost` (named
for the event it is about to emit, or `probe`, `dial`, `arp`, `count`), with its
`job`, `port`, `obs` and `doneCount`; `checked` is the atomic counter. A worker
is `absent` until `scan_started` was sent, and `idle` at the receive from the
jobs channel, whose unbuffered send is the joint step `Dispatch`. `emit` is two
actions: the send, possible while the buffer has room, and the return on a
cancelled context. `scan_finished` goes out on a context nobody cancels, so
`EmitFinished` has no such alternative. `phase`, `view` and `progress` are what
a consumer keeps. Time stamps, names and classification are left out; a dial, a
reverse lookup and ARP may go either way, a dial under a cancelled context fails.

`ScanRange` has the loop of `ExpandCIDR` on unsigned integers of `Bits` bits,
whose counter wraps at the last address there is. `RangesAreExpanded` compares
it with a set-theoretic definition for every address and prefix of six bits; the
`scanner` run assumes it, so TLC evaluates it there.

### DeviceRecords, Inventory

An observation is a MAC, `Answers` (alive, MAC unknown), `Named` (only its name
resolves: discovered but reported down) or `Silent`. A record keeps id, address
and status. `Sight` and `Miss` are one iteration of each loop; `Inventory` takes
one iteration per step over batches chosen by `Scan`, and remembers in
`occupant` the device last discovered at each address. Where two components
share a proof module their names differ: the inventory's specification is
`LoopSpec` and its maps `known`, the store's is `StoreSpec`, the history page's
`ListSpec`.

### Probe

One action per step of `runProbe`: `Start` (first reload), `Wake` (timer and
reload), `ScanNetwork` (scan and `records`), then `SendSucceeds`, `SendFails` or
`SendUnconfirmed` (stored, but the probe sees an error), and `Leave`. A push is
received by two backends at once: the server, which stores a run and prunes, and
the device table of AnchorDesk, an upsert by id. `AnchorDesk` itself is external,
as is the network. `Records` is both loops over one batch, as a recursive
function of the address (`Pass`); what it reports is a set (`Fresh`), and in
which order its records follow those held over is left open (`Added`). A scan
under a cancelled context returns some addresses, each
cut short anywhere: with nothing known, with a name but not yet found up
(`scanner.go:131-148`), or up before ARP gave the MAC. The heartbeat that precedes a scan changes nothing modelled
and is left out, with `-once`, and a request that is processed after the probe
gave up on it.

### History

Each statement or transaction is one step. A desktop save is list, compare, then
touch or save, then prune; a CLI save is one transaction. Ids are the order of
starting, which is the order of `started_at`. A row keeps the MAC (standing for
all the attributes a diff compares), whether a port was open, and aliveness. The log
that `ChangeLog` speaks of is the stored runs in the order of their ids. Any
statement of a save may fail (`StoreFails`), after which the rest is skipped. A
row with a MAC or an open port is alive; a scan cut short between `host_alive`
and `port_open` leaves one that is alive with neither (`Bare`). `Uses` are the
ways the store is used: two ranges with a deletion between saves, or two saves
that overlap while a fourth scan prunes, or while the user deletes a run in the
middle of them (`undisturbed` is FALSE), without the product of them.

### Desktop

The backend's `scanning`, `cancel`, `results` and `run` change in the critical
sections of the code, and only there; `startScan` is three steps (critical
section, event and spawn, reply) and `consumeEvents` one step per event, then
the closing section, the save, and the final event. `results` keeps for each
address which scan or file its row came from. On the UI side `uiScanning` and
`monitoring` are the two flags, `armed` the timer, `calls` the start calls on
their way and `wire` what is on its way back. `Rearm` is the effect of
`useScan.ts:202-206`. `orderly` remembers whether anybody acted while something
was in flight. `CancelScan` is taken as instantaneous. A scan that fails after
validation and the app without a history store are left out.

### ScanSettings

The same hook as `Desktop`'s UI half, for what it scans rather than whether.
`ui` is React's state, `kept` the browser's storage and `refs` what the call is
made from; the last two follow in `Effects`, a step of its own, because
`useEffect` runs after the paint (`blockedRef`, which is set while rendering, is
a function of `ui`). `asked` are the calls of the mount not answered yet. The
app may be closed at any step and started on another network; `Odd` is a range
the form takes for valid and Go's parser does not. `Prompt` says that passive
effects run before the next event, as a browser does for all but adversely timed
ones. `typed` is a history variable: what the user last entered.

### DeviceViews, Scene, Topology, NetworkPage

`DeviceViews` are the pure rules as operators: category, transition, what is
hidden, what a search matches, the order of rows and of the map, the four moves
of the arrow keys. The map's order is that of a number for each device (the
gateway's 0, else its category's and its address), which `InOrder` lists them
by. A device is a record of what these rules read. `Scene` is the
drawing loop: `Effects` asks for a frame, `Frame` draws what is there, asks for
another while something still moves, and rebuilds the meshes when they are full.
`Topology` keeps the renderer, the cursor and the camera, and loses its canvas
in two ways, by a failure and, later, by being unmounted. `NetworkPage` adds the
page around it. Each of its input actions is a handler together with the
effects its render runs (`Render`): the selection is dropped when its device is
gone, and `Load` unwants the history in flight. Host events come in the order of
`scanHost`. The frames of the scene are followed only in behaviours where
`paced` holds, since a frame may follow every other step; the camera, the
selection and the details are followed in all of them.

### HistoryPage, ProbePage, Updater, WebPage

In each a bridge call (or request) is a record that goes through the steps of
its handler, and the page adopts its reply in a step of its own, so that anything
may happen between. `HistoryPage`: `store` and `events` are the backend's,
`reloads` the pairs of calls `refresh` has made, which nothing numbers, and
`page` the selectors. The runtime serves each call in a goroutine of its own, so
a reload may be read and answered before an older one; the older one is then
adopted last, and `late` remembers it. A save stores a run or only moves the end
of the newest one, after which the page is told of a store that looks the same;
the save, its prune and its event are one step, and a save ends only once the
page heard of the last one, which is a bound. The CLI writes to the same store
without an event: its runs appear with the next event or refresh, and are left
out. `Uses` are the ways the page is used.

`ProbePage`: `ProvisionProbe` has a step per external effect, each of which may
fail, and the binary is copied in two. The config file is rewritten in place, so
that a failed save, or an app closed during it, may leave it as it was, torn
(which reads as no config) or new; a restart may fail after its stop. `ByHand`
lets the service be one that was installed with flags of its own.

`Updater`: `disk` maps five files to what the running programs see of them,
`device` the three copies of the program to what the device holds. Nothing is
ever synced by the code (`update_finalize.go:100-122`), so a write leaves its
file `unsynced` until the system flushes it, and renames and removals reach the
device, in order, when it commits; a power loss goes back to what was committed
and tears any subset of the unsynced files. That renames and removals are
committed in order is assumed of a journalling file system. The helper, the
closing app and an app the user starts are processes of their own; errors that
the code ignores (the roll-back's rename, the relaunch's start, every removal)
may occur. Windows neither replaces nor removes the image of a running process
(`Held`) but lets it be renamed, after which it is the backup that is held
(`aside`). `WebPage`: a request reads the heartbeat, the run and the run's
devices in three steps; pushes, prunes, outages, ends of sessions and other
requests come in between.

## 3. Runs

| run | shows | instance |
|---|---|---|
| `scanner` | the channel is closed after the last sender, progress ends at the truth, `ScanStream` is implemented, a scan ends, a cancel frees the workers | 2 addresses, 2 ports, 2 workers, buffer of 1; 0.34 M states |
| `inventory` | index and attribution of records | 3 addresses, 2 MACs, any sharing; 3.9 M |
| `probe` | nothing owed is lost and nobody is falsely reported down, under lost requests and replies, a crash, a stop and a torn config; the server converges | 2 addresses, 1 device, 2 moves, 2 faults, one each of the rest, 4 disturbances in all; 0.49 M |
| `history` | `ChangeLog` implemented under failures, prunes and deletes; what was saved is stored unless the run to extend went meanwhile; a change is visible unless only a cut-short scan's host is | 2 kept; app alone, 3 scans of two ranges, 1 deletion between saves; or app and CLI, 2 overlapping saves, 4 scans or 3 and 1 deletion at any moment; 5.6 M |
| `desktop` | saving, cancelling, agreement of UI and backend, the monitor, termination | 2 scans, any 3 of 2 calls, 1 toggle, 1 file; 0.66 M |
| `settings` | range and ports are the user's, the loop goes on | 2 networks, 2 default ports, 2 ports at most; no bound on behaviours; 0.79 M |
| `network` | details, camera, cursor, canvas, frames and selection | 3 addresses, 2 scanned, 2 files, 2 reports, 3 inputs; 1.2 M |
| `network_marks` | **violated**: a monitor pass does not leave its mark | the instance of `network` |
| `historypage` | the list converges, selectors are listed | 2 kept, 2 listed; either 3 runs, one reload at a time, comparisons and 1 fault, or 2 runs and two reloads; no bound on saves that only touch; 2.9 M |
| `probepage` | no truncated binary, an honest status, provisioning keeps its word | 2 connections, 2 versions, 2 faults, 1 move; 1.4 M |
| `updater` | a whole copy is always left, also by a helper that gives up, with the two exceptions of `bare`; an update completes | 3 platforms, 1 power loss, the page used once the device has caught up; 0.93 M |
| `web` | a reply is one run, the page converges | 2 requests in flight, 2 pushes, 1 kept, 1 heartbeat, 1 trouble, 1 input; 1.8 M |

**Bounds.** With a buffer of one event every emit can block behind every other.
Two workers and two addresses give a worker that takes a second job, a cancel
between the two jobs, and a finish with a job never handed out; two ports give
`port_open` after `port_open`. Three addresses and two MACs give moves, swaps,
takeovers and a device seen twice in one scan. A backoff cap of 15 over a base
of 5 is reached by the third failure in a row, and the range of a torn or edited
file changes what a scan covers. `MCProbeAddresses.cfg` checks `NoFalseDown` where no
MAC is known (0.54 M states). Three scans with two runs kept make the prune
delete; with two saves that overlap, a fourth scan lets a prune take the run that
another save has compared with, and a deletion at any moment does it with three.
`SuccessMeansStored` excuses exactly a touch of a run that is gone. Two scans give a slow save beside a running one, and three
user acts the monitor's toggle, its tick and one more. `settings` has finite
state without bounds: two default ports and an extra one exceed `MaxPorts`, two
networks let the PC move. Three devices of two categories give every move of the
arrow keys and a device that appears while the camera is held; two reports give
a file in the middle of a scan and a pass after a pass. One run more than is
kept, and is listed, gives a selector whose run goes away. One power loss hits
every step of a swap, with every lag of the device behind the files, and a second
swap can follow; `Hurried = FALSE` makes the user click only when the device has
caught up, but start and close the app at any moment. Two requests can overtake
each other in the web page, and a second push prunes the run the first one
stored while a request is between its two reads. The theorems of section 4 need
no bounds.

**Fairness.** `Scanner` assumes weak fairness of the dispatcher and of each
worker: goroutines that can run do. It assumes none of the consumer, which may
stop reading; `ScanCloses` takes the consumer's reading as its hypothesis, and
`CancelFreesWorkers` holds without it. `Probe` assumes the loop's timer fires
and each call of a cycle returns (dials and requests have timeouts, the server
answers or the client's timeout does), and that an edit of the file ends.
`Desktop` assumes that goroutines run and that the UI handles what reached it,
nothing of the user or the timer. `ScanSettings` assumes that the browser runs
its effects and timers, that a call is answered and that a scan ends (which
`Scanner` shows). `HistoryPage` assumes that events are delivered and calls
return (in any order), `Updater` that the helper runs on and the closed app's process ends,
`WebPage` that the interval fires and a request is answered or refused and its
answer delivered. None assumes anything of the user, of the network's
well-being or of a fault. The others state only safety.

Deadlock is not checked where a model really stops (a scan that ended, a spent
bound): `scanner`, `probe`, `history`, `desktop`, `historypage`, `network`. The
others check it.

### What the code does not do

`network_marks` is violated, the finding of a disagreement between the code and
what the repository says of it (`PROJECT.json` quotes the lines): `useScan.ts:64`
compares each event of a device with the event before, and the last two of a pass
are the same snapshot (`scanner.go:195-211`), so the last comparison overwrites
the mark of the pass by "stable". The documentation's capture script replays only
`host_done` events, for which the mark stays.

These properties are stated in the modules as well, from what the repository
says of itself, and TLC refutes each of them within seconds under the settings
named. They are no runs of the table; the `.cfg` named beside a property checks it, and
where none is named the one of the run does with the property, or the setting,
put in.

| property | where | the code |
|---|---|---|
| `SilentOccupantIsReportedDown` | `Inventory`, `MCInventoryVacated.cfg` | two devices swap addresses and one falls silent: `inventory.go` deletes the address a device left although another has just been recorded there |
| `KnownDeviceIsUpdate` | `Probe`, `MCProbeRecount.cfg` | a known device that the latest stored run does not hold is counted as created (`ingest.go:118`) |
| `ButtonShowsTheScan` | `Desktop`, `MCDesktopTwoCalls.cfg` | a second start that is refused clears the flag of the scan that runs (`useScan.ts:178`) |
| `RowsAreObserved` | `Desktop`, `MCDesktopFile.cfg` | rows of a file opened during a scan, or of the range before an edit in a monitor pass, are saved as observed |
| `ShownLoopRuns` | `ScanSettings` | after a tick the backend refuses, monitor mode is shown as on and no timer is set |
| `StartsFromThisNetwork` | `ScanSettings` | a detected network is stored like a typed one and kept on another network |
| `ScansWhatWasChosen` with `Prompt = FALSE` | `ScanSettings` | `portsRef` is set by a passive effect, `blockedRef` while rendering |
| `ProvisionKeepsItsWord` with `ByHand = TRUE` | `ProbePage` | a service installed with flags of its own keeps them: only its config file is rewritten (`app_probe.go:131-147`) |
| `ListStaysFresh` | `HistoryPage` | an older reload that is answered after a newer one is adopted (`useHistoryRuns.ts:14`) |
| `EverySuccessIsStored` | `History`, `MCHistoryGone.cfg` | a coalescing save lists, compares and updates on no transaction: the run it compared with is deleted, the update of its end changes no row and succeeds (`sqlite.go:193`), and the scan is nowhere; a prune by another save does the same |
| `DepartureReported` | `History`, `MCHistoryDeparture.cfg` | a finished scan has a row for every address, so a device that went silent is changed in the diff, or not in it, and never missing (`sqlite.go:383`, `README.md:94`) |
| `OnlyCompletedSwapsCleaned` | `Updater`, `MCUpdaterEarly.cfg` | an app that is starting while the helper moves its file aside removes the backup the helper would roll back to (`main.go:22`, `update_finalize.go:89`) |
| `NeverEmpty` without `disk.bare` | `Updater` | on Linux without a power loss: an app that starts during a swap removes the backup and the staged file, and the copy fails; on Windows with one: the relaunched app removes both, that is committed, and the loss tears the installed file, which nobody synced |
| `ChangeIsVisible` without its second disjunct | `History` | two runs differ in a host's life only, which `hostsEquivalent` compares (`sqlite.go:271`) and `DiffHosts` does not |
| `CameraIsTheUsers` | `NetworkPage` | after a first reset its effect runs again whenever the network's extent changes, and takes the camera from the user (`TopologyScene.tsx:482-487`) |

The counterexample of the first, for instance: m1 is at 1 and m2 at 2; they
swap, and the loop, recording m2 at 1 and then m1 at 2, deletes the address m1
left, which is by then m2's entry. When m2 falls silent, nothing is reported.

Smaller things met while modelling, which no property states:

* A second download of the same release overwrites the verified archive while
  the first is still on offer.
* An opened file is loaded twice, by the event and by the reply of the call; the
  reply wipes rows reported in between. The menu's file actions clear a shown
  scan error.
* "Reload NetViz" of a page that broke loses the results its own text says are
  in memory; nothing calls `EmitCurrentResults`.
* A device's history is not reloaded when a scan is saved, and a probe's status
  stays what it was after a failed provisioning.
* The branch of `resolveProbeSource` for desktop upgrades is out of the UI's reach.
* In the map, "previous cluster" from the gateway skips the last cluster, the
  toggle from flat to 3d flies to the device focused last, a click between a
  render and its frame resolves its index against the new layout, and a frame
  between commit and effect draws a new device at full size.
* Sorting the table in descending order puts blank values first.
* Where the browser's storage cannot be used, detection overwrites a typed range.

## 4. Proofs

The theorems hold for every value of the constants, under the ASSUMEs of the
modules, which TLC evaluates in the runs; a theorem that needs more says so.

*Engine.* `TypeOK` is not inductive: the counter is bounded by the number of
hosts only because no two workers count the same one. The invariant adds
`Counted` (the counter and the workers past `seen` that have not counted yet
never exceed the addresses handed out), `PortInRange` (a worker about to dial
or announce has a port to do it with), and `Stage` (before `dispatch` every
worker is absent; from the moment the dispatcher passes its wait every worker
has exited, or none ever was started). `NoSendOnClosed` follows from `Stage`,
and `FinishedIsLast` is part of the invariant: no event can follow
`scan_finished` because by `Stage` nobody is left to send it. `SafeClose` is a
theorem about a specification that lets the consumer stop.

`FinalProgressHolds` and `StreamImplemented` speak of what a consumer has read,
which lags behind what was sent. `SInv` bridges the two: the events still in the
channel, replayed one after another, lead the consumer from what it has (`Now`)
through states in which each event is legal (`Leads`) to a state that agrees with
the dispatcher and the workers (`Owed`): which hosts are unseen, in progress with
which snapshot, or done, and how many were counted. A send extends the replay by
an event the agreed state allows, a receive drops its first, and both are steps
of `ScanStream` or leave it alone. `Ended` keeps what `scan_finished` promised
when it was read.

*Inventory.* `IndexConsistent` is inductive beside type correctness. The other two
rest on `IndexFollows` (an indexed address is indexed to its last occupant): the
properties about a finished scan are the ends of two invariants over the loop
index, `ActiveSoFar` and `DownSoFar`. That the index follows the occupants but
may miss one is exactly what separates `DownIsGrounded`, proved, from
`SilentOccupantIsReportedDown`, refuted. One consequence for a reader of the
code: the check for a device that is active elsewhere (`inventory.go:55`) never
fires, because a device's only index entry is at the address it was last found.

*Probe delivery.* Here one call of `records` is a step, so what holds of one host
is carried over all of them: `PassRule` says that what every host of a batch
keeps, a pass keeps, and `RecordsReach` applies it to the two loops, after which
only reported devices differ from what was kept. `Owed` extends `OwedOrDelivered`
to the moment between a scan and its push, when the latest record of a device is
neither stored nor queued but about to be sent; `QueueIsLatest`, that a queued
record is the latest of its device or about to be replaced, is what makes a push
of a merged queue harmless; and `AnsweringIsUp`, that of a complete scan every
device that answered is reported up, is `DownIsNeverFalse` one step before the
push. A cut-short scan may record a device that would have answered as down, but
only once the context is cancelled, and no push goes through from then on: that
is what `SendSucceedsDetached` breaks. After a restart the records are gone. Which reply was lost makes no difference to any of them.

*Desktop.* `RunIsOwn` speaks of what was stored; what makes it true is that at
most one scan is between its start and the section that clears the flag
(`OneLive`, which is also `CancelReachesTheScan`), that the app's one run
variable is that scan's (`RunOfLive`), and that a scan which is over copied it
before it gave it up (`Taken`). `UIMirrors` and `MonitorStaysAlive` are about the
messages in flight, in behaviours where nobody acted in the middle of a call or
an event (`orderly`, which is part of both properties; section 3 has what goes
wrong otherwise). Then one scan or one call is under way at a time, and the last message on
the wire says what the backend does (`Calm`); and while monitor mode is on, a
timer that is not set waits for a message, a call or an announcement still to
come (`Rearms`).

*Scan settings.* `Entered`: from the moment the user enters a range, the field
and the storage both hold it, because the effects of a render that a key or a
click caused run before the next event. A late detection finds the stored value, a restart takes it, and
`RangeStays` needs no assumption on effects. `ChosenIsScanned` does: it assumes
`Prompt`, under which a call is made from refs that follow the state; without it
the property is refuted (above).

*Network page.* The history shown is the selected device's because whatever
selects, including a render that drops the selection, runs the one effect that
unwants all answers in flight: `WantedIsSelected` is the strengthening.
`SelectionLasts` is an action property over the same steps: an action either
keeps the selection, ends with its device or page gone, or is a user's input,
which `InputCounts` tells from the others. `LossesAreReal` and
`MapFollowsDevices` share an invariant of the mounted map (`Sound`): a lost
context is a broken scene, and a camera that nobody took is aimed at the
rows shown now; every handler ends in the same effects, so each effect is shown
to keep it and each action to be a render, a gesture on the map or neither.
`SceneRestsOnTheMap` is inductive with the shape of the scene's record (`Drawn`):
what a frame draws is compared with what its effect depends on.

`ArrowsWalkEveryMap` is about the layout, so most of its proof is about pure
operators: a finite set whose members have different places can be listed
(`ListingExists`, by induction on its size), the listing has every member once
(`InOrderIs`), so the nodes are a permutation of the devices (`NodesIs`) and the
clusters share out those that are not the gateway (`ClustersAre`). A step right
is a step to the next place modulo their number (`NodeStep`, `ClusterStep`), and
a set that a step right never leaves has every place (`Onwards`). What is
needed of the page is that its devices are at addresses (`RowsListed`).

*History page.* The selectors fall back to the newest runs of the list whenever
a list arrives (`Defaults`), and they are in it because runs have a least and a
greatest (`ExtremesOf`, `TheNewest`). `SelectorsStayListed` is inductive with
the types of the reloads in flight (`PageTypes`): whichever of them is answered,
whenever, its list is a set of runs, and the selectors are brought into line
with it in the same step.

*Web page.* `OneRun` is carried from the server to the page by `ReadsOneRun`:
a request between its two reads names a run that was pushed, and what it is
answered with is that run's devices, or nothing if the run is no longer among
those kept. Stored runs never change, so later pushes do not disturb it.

*History.* `SuccessfulSavesAreStored` needs no hypothesis: saves of both clients
may overlap, and prunes and deletions come at any moment. It rests on
`SavedOnce`: a run is written by its own scan's save and never again, so that what
a save compared its scan with is, when it extends it, either the same rows or
gone (`Compared`). The second case is the exception in the property, and the
case that refutes `EverySuccessIsStored`. The other two speak of the app alone (`Alone`: one save at
a time, deletions between saves), and say nothing where the CLI writes too.
There the run a save compared with is still the newest and still what the scan
found, or still differs (`StillNewest`), because nobody else is between a list
and a prune (`OneSave`) and every stored run is older than the scan being saved
(`OneAtATime`). `VisibleChange` is the step from there to `StoredChangesShow`:
of two hosts that differ and are not alive by MAC or port, one is bare. That the
log is extended at its end, and loses its head to a prune, is shown of the
increasing listing of the ids: it is unique (`SortedUnique`), a newer id appends
to it (`AppendSorted`), a removal takes one entry out (`RemoveSorted`).

*Updater.* Neither theorem has a hypothesis: every platform, an app started at
any moment, any number of power losses. `CopyLeft` strengthens `NeverEmpty` by
what a power loss leaves: a copy that is whole and on the device (`Safe`), both as
the programs see the files and as they were last committed, unless the
installation is `bare`. Each write, removal and rename keeps that (`WriteKeeps`,
`UnlinkKeeps`, `RenameKeeps`) but for those that `bare` names, a spare copy going while
the installed file is only in memory, and one an app's clean-up takes while the
name is free. `HelperRuns` says which files the helper may count on at each step;
from the moment it moved the installed file aside, that is the backup, which is
why a helper that gives up leaves one even when its roll-back fails.

*Provisioning.* `Progress` says what has been reached at each step of a
provisioning: the settings are saved, a binary to copy is there, the installed
one is whole, the service registered, and running unless the service manager
stopped it since. As the bridge has one call in flight, nobody undoes a step.
`ProvisionDelivers` adds that the service reads the config file, which holds
where no service was installed by hand (`~ByHand`). `StatusHonest` is inductive
with one addition (`Honest`): a picker is only open where the page shows no
binary, so that choosing one cannot leave an old status beside a new path.

Every safety property that a passing run checks of a component is thus a theorem, under
the hypotheses named, and so are the two refinements. Only model-checked is liveness: `ScanCloses`,
`CancelFreesWorkers`, `Converges`, `EveryScanEnds`, `UpdateCompletes`,
`ListConverges`, `MonitorGoesOn` and `PageConverges` need rules for fairness and
ENABLED that the prover has none for. So is `RangesAreExpanded` of `ScanRange`,
which TLC evaluates for six bits: it is about the values a recursive definition
computes. The induction theorems of the library take an operator as a parameter,
which the installed backends cannot instantiate; where induction is needed above
it is stated of a set of numbers, which has a least member because `<` is
well-founded on `Nat` (`LeastOf`, `SetInduction`).

## 5. Not modelled, and what is left

Not modelled: the web page's compiled bundle (`internal/server/webdist`), which
is generated from the sources that are; documentation, its scripts and its
gallery; drawing, theme, wording, easing and reduced motion; `ClassifyHost`,
ARP parsing and the vendor table, pure functions of text; OIDC, the signing of
cookies and routing; the schema and the encoding of rows; the memory store, a
test double; the workflows. Third-party libraries (SQLite, OIDC, Wails, three.js,
React) appear only through what the code relies on. Components that are partly
modelled say in `PROJECT.json` what is missing.

Left for later:

1. Models: heartbeats, run labels and errors of single records beside
   `probeDevices`; the sign-in exchange; a scan that fails after validation; the
   columns a narrow table drops.
2. Proofs: `RangesAreExpanded` for any width of address.
3. Files whose renames reach the device out of order.

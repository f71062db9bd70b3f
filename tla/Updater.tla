------------------------------- MODULE Updater -------------------------------
(***************************************************************************)
(* The in-app updater: the update panel of the settings page               *)
(* (SettingsWorkspace.tsx, useUpdates.ts) asks the app to check for a      *)
(* release, to download it and to install it (app_update.go,               *)
(* app_update_apply.go).  Installing stages the new binary beside the      *)
(* running one, starts it as a helper and quits; the helper swaps the      *)
(* files and starts the app again (update_finalize.go).  The user may      *)
(* start the app and the machine may lose power at any step; no file is    *)
(* ever synced, so what the device holds by then lags what was written.    *)
(*                                                                         *)
(* The panel disables its buttons while a call is pending, so at most one  *)
(* call is in flight, the quiet check made at startup included.            *)
(***************************************************************************)
EXTENDS Naturals, FiniteSets

CONSTANTS
  Installed,    \* the version installed at first
  Release,      \* the newer version the release page offers
  Damaged,      \* bytes that are not those the release's checksum names
  Platforms,    \* the operating systems to check
  Hurried,      \* whether the page is used while the device lags behind the files
  MaxCrashes    \* bound: power losses

ASSUME UpdaterAssumption ==
  /\ Cardinality({Installed, Release, Damaged}) = 3
  /\ {"none", "partial", "torn"} \cap {Installed, Release, Damaged} = {}
  /\ Platforms \subseteq {"linux", "windows", "darwin"}
  /\ Hurried \in BOOLEAN /\ MaxCrashes \in Nat

VARIABLES
  os,         \* the platform, fixed at the start
  published,  \* whether the release comes with a checksum file
  disk,       \* the files, as the running programs see them
  device,     \* the copies of the program, as the device would show them
  app,        \* what the app with the window runs, "none" when none is open
  clean,      \* that app has removed the leftovers of a swap and shows its page
  quitting,   \* the process that closed its window and is not gone yet
  aside,      \* Windows: the processes whose image was renamed to the backup
  helper,     \* where the process started with -apply-update is
  call,       \* the bridge call in flight, and how far it is
  info,       \* useUpdates: what the panel knows of the release
  checked,    \* useUpdates: a check has been answered
  error,      \* useUpdates: the error the panel shows, if any
  dialog,     \* ConfirmProvider: the install dialog is open
  crashes,    \* power losses so far
  failed      \* history: what went wrong with the last swap, if anything

page  == <<info, checked, error, dialog>>
world == <<os, published, device, crashes>>
procs == <<app, clean, quitting, aside, helper>>
vars  == <<world, disk, procs, call, page, failed>>

Binaries == {Installed, Release, Damaged}
Copies   == {"target", "old", "new"}
Files    == Copies \cup {"target.tmp", "archive"}
Unknown  == [available |-> FALSE, path |-> FALSE]
Idle     == [kind |-> "none", quiet |-> FALSE, at |-> "none"]

\* What a file may hold: a binary, nothing, a copy in progress, or, after a power
\* loss, less than was written.
Contents == Binaries \cup {"none", "partial", "torn"}

TypeOK ==
  /\ os \in Platforms /\ published \in BOOLEAN
  /\ disk \in [holds : [Files -> Contents], unsynced : SUBSET Copies, bare : BOOLEAN]
  /\ device \in [holds : [Copies -> Contents], unsynced : SUBSET Copies, bare : BOOLEAN]
  /\ app \in Binaries \cup {"none"} /\ quitting \in Binaries \cup {"none"}
  /\ clean \in BOOLEAN /\ aside \subseteq {"app", "quitting", "other"}
  /\ helper \in {"none", "remove", "move", "write", "install", "relaunch"}
  /\ call.kind \in {"none", "check", "download", "show", "apply"}
  /\ call.quiet \in BOOLEAN /\ call.at \in {"none", "asked", "fetched"}
  /\ info \in [available : BOOLEAN, path : BOOLEAN]
  /\ checked \in BOOLEAN /\ error \in BOOLEAN /\ dialog \in BOOLEAN
  /\ crashes \in 0..MaxCrashes /\ failed \in {"no", "swap", "start"}
  /\ dialog => call = Idle /\ info.path

-----------------------------------------------------------------------------
(* Files.  A file that was written is unsynced until its bytes are on the   *)
(* device, as long as a power loss may still come; a rename takes the mark  *)
(* along.  The installation is bare once a copy beside the installed file   *)
(* went while the bytes of that file were not on the device, or an app      *)
(* removed one while that file was not whole, and until it is whole and on  *)
(* the device.                                                             *)

Whole(d, f) == d.holds[f] \in Binaries
Safe(d, f)  == Whole(d, f) /\ f \notin d.unsynced

\* Whether the last copy on the device may be this one.
Spared(d, f) ==
  f \in {"old", "new"} /\ d.holds[f] # "none" /\ Whole(d, "target") /\ ~Safe(d, "target")

Changed(d, holds, unsynced, spared) ==
  LET safe == holds["target"] \in Binaries /\ "target" \notin unsynced
  IN  [holds |-> holds, unsynced |-> unsynced, bare |-> ~safe /\ (d.bare \/ spared)]

Write(d, f, bytes) ==
  Changed(d, [d.holds EXCEPT ![f] = bytes],
          d.unsynced \cup {n \in {f} \cap Copies : crashes < MaxCrashes}, Spared(d, f))

Unlink(d, f) ==
  Changed(d, [d.holds EXCEPT ![f] = "none"], d.unsynced \ {f}, Spared(d, f))

Rename(d, f, g) ==
  Changed(d, [d.holds EXCEPT ![g] = d.holds[f], ![f] = "none"],
          (d.unsynced \ {f, g}) \cup {n \in {g} : f \in d.unsynced}, Spared(d, g))

\* The copies as the journal has them after a commit.
Committed(d) == [d EXCEPT !.holds = [f \in Copies |-> d.holds[f]]]

\* After the last power loss the device is not followed any more.
Forgotten == [holds |-> [f \in Copies |-> "none"], unsynced |-> {}, bare |-> TRUE]

\* Windows neither removes nor replaces the image of a running process; it lets
\* it be renamed.
Held(f) ==
  /\ os = "windows"
  /\ \/ f = "old" /\ aside # {}
     \/ f = "new" /\ helper # "none"

\* os.Remove with its error ignored
Removed(d, f) == IF Held(f) THEN d ELSE Unlink(d, f)

\* cleanupAfterUpdate: every normal start removes what a swap left.
cleanupAfterUpdate == Removed(Removed(disk, "old"), "new")

Init ==
  /\ os \in Platforms /\ published \in BOOLEAN
  /\ disk = [holds |-> [f \in Files |-> IF f = "target" THEN Installed ELSE "none"],
             unsynced |-> {}, bare |-> FALSE]
  /\ device = Committed(disk)
  /\ app = "none" /\ clean = FALSE /\ quitting = "none" /\ aside = {} /\ helper = "none"
  /\ call = Idle
  /\ info = Unknown /\ checked = FALSE /\ error = FALSE /\ dialog = FALSE
  /\ crashes = 0 /\ failed = "no"

-----------------------------------------------------------------------------
(* The panel.  track numbers the calls; with one in flight only its end     *)
(* matters: a failure is shown unless the call was the quiet one.           *)

Busy == call # Idle

track(kind, quiet) ==
  /\ call' = [kind |-> kind, quiet |-> quiet, at |-> "asked"]
  /\ error' = (quiet /\ error)

Failed ==
  /\ call' = Idle
  /\ error' = (error \/ ~call.quiet)
  /\ UNCHANGED <<info, checked, dialog>>

\* The page is gone, or has just been loaded.
NoPage == info' = Unknown /\ checked' = FALSE /\ error' = FALSE /\ dialog' = FALSE

\* The buttons the panel offers, all of them disabled while Busy.
Buttons ==
  IF Busy THEN {}
  ELSE IF info.path
       THEN {"install", "show", "check"} \cup (IF info.available THEN {"download"} ELSE {})
       ELSE IF info.available THEN {"download"} ELSE {"check"}

\* Bound: unless Hurried, the page is used once the device has caught up.
Settled == crashes < MaxCrashes => disk.unsynced = {} /\ device = Committed(disk)

Click(button) ==
  /\ app # "none" /\ clean /\ ~dialog /\ button \in Buttons
  /\ Hurried \/ Settled

Check ==
  /\ Click("check")
  /\ track("check", FALSE)
  /\ UNCHANGED <<world, disk, procs, info, checked, dialog, failed>>

Download ==
  /\ Click("download")
  /\ track("download", FALSE)
  /\ UNCHANGED <<world, disk, procs, info, checked, dialog, failed>>

ShowDownload ==
  /\ Click("show")
  /\ track("show", FALSE)
  /\ UNCHANGED <<world, disk, procs, info, checked, dialog, failed>>

Install ==
  /\ Click("install")
  /\ dialog' = TRUE
  /\ UNCHANGED <<world, disk, procs, call, info, checked, error, failed>>

\* The dialog closes with the promise resolved; only a yes goes on.
CloseDialog(confirmed) ==
  /\ app # "none" /\ dialog
  /\ dialog' = FALSE
  /\ IF confirmed THEN track("apply", FALSE) ELSE UNCHANGED <<call, error>>
  /\ UNCHANGED <<world, disk, procs, info, checked, failed>>

ClearError ==
  /\ app # "none" /\ error /\ error' = FALSE
  /\ UNCHANGED <<world, disk, procs, call, info, checked, dialog, failed>>

-----------------------------------------------------------------------------
(* The app's side of each call.                                            *)

\* compareVersions: a release is available when it is newer than what runs.
Newer == app # Release

\* No asset for the platform reads as "not available" too.
CheckForUpdate ==
  /\ call.kind = "check"
  /\ \/ Failed
     \/ /\ \E available \in {Newer, FALSE} :
             info' = [available |-> available, path |-> FALSE]
        /\ checked' = TRUE /\ call' = Idle
        /\ UNCHANGED <<error, dialog>>
  /\ UNCHANGED <<world, disk, procs, failed>>

\* downloadFile: complete under a temporary name, then renamed into place,
\* before anything is compared with the checksum.
FetchArchive ==
  /\ call.kind = "download" /\ call.at = "asked"
  /\ \/ /\ Failed /\ UNCHANGED disk
     \/ /\ info' = Unknown /\ call' = Idle
        /\ UNCHANGED <<checked, error, dialog, disk>>
     \/ /\ Newer
        /\ \E bytes \in {Release, Damaged} : disk' = Write(disk, "archive", bytes)
        /\ call' = [call EXCEPT !.at = "fetched"]
        /\ UNCHANGED page
  /\ UNCHANGED <<world, procs, failed>>

\* downloadUpdate's second half: the checksum, when one is published.
VerifyArchive ==
  /\ call.kind = "download" /\ call.at = "fetched"
  /\ \/ published /\ Failed
     \/ /\ published => disk.holds["archive"] = Release
        /\ info' = [available |-> TRUE, path |-> TRUE]
        /\ call' = Idle
        /\ UNCHANGED <<checked, error, dialog>>
  /\ UNCHANGED <<world, disk, procs, failed>>

OpenUpdateDownload ==
  /\ call.kind = "show"
  /\ Failed \/ (call' = Idle /\ UNCHANGED page)
  /\ UNCHANGED <<world, disk, procs, failed>>

\* Bound: a swap is not started while another one, or its old process, is there.
OneSwap == helper = "none" /\ quitting = "none"

\* Extract to .new, start it as the helper, quit.  A helper that cannot be
\* started takes the staged file with it, and so does an installed file that is
\* gone take the call.  macOS only says what to do.
ApplyDownloadedUpdate ==
  /\ call.kind = "apply"
  /\ \/ Failed /\ UNCHANGED <<disk, procs, failed>>
     \/ /\ disk.holds["archive"] # "none" /\ disk.holds["target"] # "none"
        /\ \/ /\ os = "darwin"
              /\ call' = Idle /\ UNCHANGED <<page, disk, procs, failed>>
           \/ /\ os # "darwin" /\ ~Held("new")
              /\ Failed
              /\ disk' = Unlink(disk, "new")
              /\ UNCHANGED <<procs, failed>>
           \/ /\ os # "darwin" /\ ~Held("new")
              /\ OneSwap
              /\ disk' = Write(disk, "new", disk.holds["archive"])
              /\ helper' = "remove" /\ failed' = "no"
              /\ quitting' = app /\ app' = "none" /\ clean' = FALSE
              /\ aside' = {IF p = "app" THEN "quitting" ELSE p : p \in aside}
              /\ call' = Idle /\ NoPage
  /\ UNCHANGED world

Exited ==
  /\ quitting # "none" /\ quitting' = "none"
  /\ aside' = aside \ {"quitting"}
  /\ UNCHANGED <<world, disk, app, clean, helper, call, page, failed>>
-----------------------------------------------------------------------------
(* The helper, running the staged binary.                                  *)

RemoveBackup ==
  /\ helper = "remove"
  /\ disk' = Removed(disk, "old")
  /\ helper' = "move"
  /\ UNCHANGED <<world, app, clean, quitting, aside, call, page, failed>>

\* The processes that run the installed file on Windows.
Running ==
  IF os # "windows" THEN {}
  ELSE {p \in {"app", "quitting"} : (p = "app" /\ app # "none") \/ (p = "quitting" /\ quitting # "none")}

\* Mutant of MoveAside: the installed file is removed.
RemoveTarget ==
  /\ helper = "move"
  /\ disk' = Unlink(disk, "target")
  /\ helper' = "write"
  /\ UNCHANGED <<world, app, clean, quitting, aside, call, page, failed>>

\* A missing target is a free slot.
MoveAside ==
  /\ helper = "move"
  /\ IF disk.holds["target"] = "none"
     THEN UNCHANGED <<disk, aside>>
     ELSE /\ ~Held("old")
          /\ disk' = Rename(disk, "target", "old")
          /\ aside' = Running
  /\ helper' = "write"
  /\ UNCHANGED <<world, app, clean, quitting, call, page, failed>>

\* The rename is retried until the deadline, and has failed to the last.
NotReleased ==
  /\ helper = "move" /\ disk.holds["target"] # "none"
  /\ helper' = "none" /\ failed' = "swap"
  /\ UNCHANGED <<world, disk, app, clean, quitting, aside, call, page>>

\* Mutant of CopyBytes: the bytes go straight to the target.
CopyBytesInPlace ==
  /\ helper = "write" /\ disk.holds["new"] # "none"
  /\ disk' = Write(disk, "target", "partial")
  /\ helper' = "install"
  /\ UNCHANGED <<world, app, clean, quitting, aside, call, page, failed>>

\* copyFile: the staged file is opened and its bytes go to a temporary name;
\* the target appears by rename.
CopyBytes ==
  /\ helper = "write" /\ disk.holds["new"] # "none"
  /\ disk' = Write(disk, "target.tmp", "partial")
  /\ helper' = "install"
  /\ UNCHANGED <<world, app, clean, quitting, aside, call, page, failed>>

\* Mutant of RenameIntoPlace: the copy is left under its temporary name.
SkipRename ==
  /\ helper = "install" /\ helper' = "relaunch"
  /\ UNCHANGED <<world, disk, app, clean, quitting, aside, call, page, failed>>

RenameIntoPlace ==
  /\ helper = "install"
  /\ \E bytes \in IF disk.holds["new"] = "none" THEN {Release, Damaged} ELSE {disk.holds["new"]} :
       disk' = Unlink(Write(disk, "target", bytes), "target.tmp")
  /\ helper' = "relaunch"
  /\ UNCHANGED <<world, app, clean, quitting, aside, call, page, failed>>

\* The copy failed, at any point: the temporary file is removed, unless it was its
\* rename that failed.  The backup is renamed back, when there is one; that may
\* fail too, and nobody is told.
RollBack ==
  /\ helper \in {"write", "install"}
  /\ \E d \in {disk, Unlink(disk, "target.tmp")} :
       \/ disk' = d /\ UNCHANGED aside
       \/ disk.holds["old"] # "none" /\ disk' = Rename(d, "old", "target") /\ aside' = {}
  /\ helper' = "none" /\ failed' = "swap"
  /\ UNCHANGED <<world, app, clean, quitting, call, page>>
-----------------------------------------------------------------------------
(* A normal start: main removes the leftovers of a swap, then the page is   *)
(* loaded and checks once, quietly.                                        *)

StartApp ==
  /\ Whole(disk, "target")
  /\ app' = disk.holds["target"] /\ clean' = FALSE
  /\ NoPage /\ call' = Idle

CleanUp ==
  /\ app # "none" /\ ~clean /\ clean' = TRUE
  /\ LET d == cleanupAfterUpdate
     IN  disk' = [d EXCEPT !.bare = @ \/ (d.holds # disk.holds /\ ~Whole(disk, "target"))]
  /\ call' = [kind |-> "check", quiet |-> TRUE, at |-> "asked"]
  /\ UNCHANGED <<world, app, quitting, aside, helper, page, failed>>

\* The helper starts the app, or fails to and tells nobody.  Of two windows the
\* one opened last is followed.
Relaunch ==
  /\ helper = "relaunch" /\ helper' = "none"
  /\ \/ StartApp /\ aside' = {IF p = "app" THEN "other" ELSE p : p \in aside} /\ UNCHANGED failed
     \/ failed' = "start" /\ UNCHANGED <<app, clean, aside, call, page>>
  /\ UNCHANGED <<world, disk, quitting>>

UserStarts ==
  /\ app = "none"
  /\ StartApp
  /\ UNCHANGED <<world, disk, quitting, aside, helper, failed>>

UserCloses ==
  /\ app # "none" /\ app' = "none" /\ clean' = FALSE /\ call' = Idle /\ NoPage
  /\ aside' = aside \ {"app"}
  /\ UNCHANGED <<world, disk, quitting, helper, failed>>

\* The window opened before it is closed.
OtherCloses ==
  /\ "other" \in aside /\ aside' = aside \ {"other"}
  /\ UNCHANGED <<world, disk, app, clean, quitting, helper, call, page, failed>>

\* The cache directory is cleaned while a download is on offer.
ArchiveLost ==
  /\ call = Idle /\ disk.holds["archive"] # "none"
  /\ disk' = Unlink(disk, "archive")
  /\ UNCHANGED <<world, procs, call, page, failed>>

-----------------------------------------------------------------------------
(* The device.  The system writes a file's bytes back and commits renames   *)
(* and removals, in their order, when it likes; both matter only as long as *)
(* a power loss may come.                                                  *)

Flush(f) ==
  /\ f \in disk.unsynced
  /\ disk' = Changed(disk, disk.holds, disk.unsynced \ {f}, FALSE)
  /\ UNCHANGED <<world, procs, call, page, failed>>

Commit ==
  /\ crashes < MaxCrashes
  /\ device # Committed(disk) /\ device' = Committed(disk)
  /\ UNCHANGED <<os, published, crashes, disk, procs, call, page, failed>>

\* What is found afterwards: the copies as they were committed, of the unsynced
\* ones any torn.  Neither the archive nor a temporary file is used again.
PowerLoss ==
  /\ crashes < MaxCrashes /\ crashes' = crashes + 1
  /\ \E torn \in SUBSET {f \in device.unsynced : device.holds[f] # "none"} :
       LET found == [f \in Files |-> IF f \notin Copies THEN "none"
                                     ELSE IF f \in torn THEN "torn" ELSE device.holds[f]]
       IN  disk' = [holds |-> found, unsynced |-> {},
                    bare |-> device.bare /\ found["target"] \notin Binaries]
  /\ device' = IF crashes' < MaxCrashes THEN Committed(disk') ELSE Forgotten
  /\ app' = "none" /\ clean' = FALSE /\ quitting' = "none" /\ aside' = {} /\ helper' = "none"
  /\ call' = Idle /\ failed' = "swap" /\ NoPage
  /\ UNCHANGED <<os, published>>

\* After a swap cut short, the user puts the backup or the staged file back, or
\* installs the program anew.
Repair ==
  /\ app = "none" /\ helper = "none" /\ ~Whole(disk, "target")
  /\ \/ \E f \in {"old", "new"} : Whole(disk, f) /\ disk' = Rename(disk, f, "target")
     \/ disk' = Write(disk, "target", Installed)
  /\ UNCHANGED <<world, procs, call, page, failed>>
-----------------------------------------------------------------------------
Page   == Check \/ Download \/ ShowDownload \/ Install \/ ClearError
          \/ \E confirmed \in BOOLEAN : CloseDialog(confirmed)
App    == CheckForUpdate \/ FetchArchive \/ VerifyArchive \/ OpenUpdateDownload
          \/ ApplyDownloadedUpdate
Helper == RemoveBackup \/ MoveAside \/ NotReleased \/ CopyBytes \/ RenameIntoPlace
          \/ RollBack \/ Relaunch
Device == Commit \/ PowerLoss \/ \E f \in Copies : Flush(f)
Next   == Page \/ App \/ Exited \/ Helper \/ CleanUp \/ UserStarts \/ UserCloses
          \/ OtherCloses \/ ArchiveLost \/ Device \/ Repair

\* The helper is a program that runs, and the closed window's process ends;
\* nothing obliges the user, the network or the disk.
Fairness == WF_vars(Helper) /\ WF_vars(Exited)

Spec == Init /\ [][Next]_vars /\ Fairness
-----------------------------------------------------------------------------
(* Whatever step is the last before a power loss, a failed copy or a failed *)
(* roll-back, and whenever the user starts the app, the installed file is   *)
(* never half written and a whole copy of the program is under one of its   *)
(* three names (update_finalize.go:57-87).  The two exceptions are those of *)
(* bare: the swap syncs nothing, so a copy may go while the installed file  *)
(* is only in memory; and an app that starts while the name is free takes   *)
(* the backup away.  No other removal is excused.                          *)
NeverEmpty ==
  /\ disk.holds["target"] # "partial"
  /\ disk.bare \/ \E f \in Copies : Whole(disk, f)

(* A helper that gives up by itself, even when it cannot rename the backup  *)
(* back, leaves a whole program in its place or as the backup: "The .old    *)
(* backup is kept for rollback" (update_finalize.go:58-59).  The exceptions *)
(* are those of bare: an app that started meanwhile has removed the backup. *)
FailedSwapKeepsACopy ==
  [][helper # "none" /\ helper' = "none" /\ crashes' = crashes
     => disk'.bare \/ Whole(disk', "target") \/ Whole(disk', "old")]_vars

(* "NetViz will close and restart on the new version": once the helper is   *)
(* started it ends, and a whole program is installed that runs or could not *)
(* be started, unless the swap failed or the power went.                   *)
UpdateCompletes ==
  helper = "remove" ~>
    \/ failed = "swap"
    \/ /\ helper = "none" /\ Whole(disk, "target")
       /\ failed = "start" \/ app = disk.holds["target"]

(* "cleanupAfterUpdate removes leftovers from a completed swap (the .old    *)
(* backup and any stale staged binary)" (update_finalize.go:89-90): no app  *)
(* that starts removes the backup of a swap that is on its way.            *)
OnlyCompletedSwapsCleaned ==
  [][~clean /\ clean' => ~(/\ helper \in {"write", "install"}
                          /\ disk.holds["old"] # "none" /\ disk'.holds["old"] = "none")]_vars
=============================================================================

----------------------------- MODULE HistoryPage -----------------------------
(***************************************************************************)
(* The saved scans in the desktop app: the history hook                    *)
(* (useHistoryRuns.ts) reloads the list and the latest diff whenever the   *)
(* backend says that the store changed, the history page                   *)
(* (HistoryWorkspace.tsx) compares two runs or deletes one, and the app    *)
(* (app.go) answers each call in a goroutine of its own while scans are    *)
(* saved and pruned.                                                       *)
(*                                                                         *)
(* A run is its number: a newer run has a greater one, and the list, which *)
(* the store returns newest first, is the set of the runs it holds.  A     *)
(* diff is the pair it was asked for and whether both runs still had their *)
(* rows when it was computed: DiffRuns takes a run without rows for a      *)
(* network without devices.                                                *)
(*                                                                         *)
(* Its specification is ListSpec, and so on, so that theorems can speak of *)
(* it beside the other pages of the app.                                   *)
(***************************************************************************)
EXTENDS Naturals, Sequences, FiniteSets, FiniteSetsExt

CONSTANTS
  MaxRuns,      \* bound: runs ever saved
  ListLimit,    \* runs the list shows (20 in app.go)
  Keep,         \* runs the store keeps (desktopRunsKept, 200)
  Uses,         \* how the page is used: whether its user chooses runs to compare;
                \* bounds: runs saved, reloads in flight, calls and
                \* saves that fail
  NotRead       \* a part of a reload the backend has not read yet

ASSUME HistoryPageAssumption ==
  /\ MaxRuns \in Nat
  /\ \A u \in Uses : /\ u.compares \in BOOLEAN /\ u.runs \in 0..MaxRuns
                     /\ u.reloads \in Nat \ {0} /\ u.faults \in Nat
  /\ ListLimit \in Nat \ {0, 1} /\ Keep \in Nat \ {0}

VARIABLES
  store,    \* the runs in the database
  saved,    \* how many were ever saved
  events,   \* history events on their way to the page
  reloads,  \* refresh calls in flight, oldest first
  runs,     \* useHistoryRuns: the list shown
  latest,   \* useHistoryRuns: the diff of the two newest runs
  load,     \* useHistoryRuns: loading, ready or error
  late,     \* history: the reload that is shown was overtaken by a later one
  page,     \* HistoryWorkspace's own state, lost when the user leaves it
  action,   \* useAsyncAction: the call the page waits for
  faults,   \* failures so far
  use       \* which of Uses this is

hook == <<runs, latest, load, late>>
bounds == <<faults, use>>
listVars == <<store, saved, events, reloads, hook, page, action, bounds>>

Runs      == 1..MaxRuns
Diffs     == [base : 0..MaxRuns, compare : 0..MaxRuns, whole : BOOLEAN]
emptyDiff == [base |-> 0, compare |-> 0, whole |-> TRUE]
Idle      == [kind |-> "none", of |-> {}, reply |-> "none", orphan |-> FALSE]
BlankPage == [shown |-> FALSE, base |-> 0, compare |-> 0, custom |-> {}, dialog |-> 0]

ListTypeOK ==
  /\ store \subseteq Runs /\ saved \in 0..MaxRuns
  /\ \A i \in DOMAIN events : events[i] \in {"updated", "error"}
  /\ Len(reloads) <= use.reloads
  /\ \A i \in DOMAIN reloads :
       /\ reloads[i].list = NotRead \/ reloads[i].list \subseteq Runs
       /\ reloads[i].pair = NotRead \/ Cardinality(reloads[i].pair) <= 2
       /\ reloads[i].diff = NotRead \/ reloads[i].diff \in Diffs
  /\ runs \subseteq Runs /\ latest \in Diffs
  /\ load \in {"loading", "ready", "error"} /\ late \in BOOLEAN
  /\ page \in [shown : BOOLEAN, base : 0..MaxRuns, compare : 0..MaxRuns,
               custom : SUBSET Runs, dialog : 0..MaxRuns]
  /\ action.kind \in {"none", "compare", "delete"}
  /\ action.of \subseteq Runs /\ action.reply \in {"none", "ok", "failed"}
  /\ action.orphan \in BOOLEAN
  /\ faults \in 0..use.faults

\* The n greatest runs of a set: ORDER BY started_at DESC LIMIT n.
Newest(S, n) == {r \in S : Cardinality({q \in S : q > r}) < n}

Fails == faults < use.faults /\ faults' = faults + 1 /\ UNCHANGED use
Works == UNCHANGED bounds
-----------------------------------------------------------------------------
(* The backend.                                                            *)

\* refresh: both calls are sent at once; the reload ends when both answered.
Asked(q) == Append(q, [list |-> NotRead, pair |-> NotRead, diff |-> NotRead, over |-> FALSE])
CanAsk   == Len(reloads) < use.reloads

ListInit ==
  /\ store = {} /\ saved = 0 /\ events = <<>> /\ reloads = Asked(<<>>)
  /\ runs = {} /\ latest = emptyDiff /\ load = "loading" /\ late = FALSE
  /\ page = BlankPage /\ action = Idle /\ faults = 0
  /\ use \in Uses

\* SaveScanRunCoalesced: a new run, or only the end of the newest one - or of
\* none, when that one was deleted since it was read.
Stores(run) == saved < use.runs /\ saved' = saved + 1 /\ run = {saved'}
Touches(run) == saved > 0 /\ UNCHANGED saved /\ run = {}

\* A scan ended: saved, pruned, told.  A save that fails is told; one whose
\* prune fails is told twice.  Bound: the page heard of the last save.
ScanSaved ==
  /\ events = <<>>
  /\ \/ Fails /\ events' = <<"error">> /\ UNCHANGED <<store, saved>>
     \/ \E run \in {{}, {saved + 1}} :
          /\ Stores(run) \/ Touches(run)
          /\ \/ Works /\ store' = Newest(store \cup run, Keep) /\ events' = <<"updated">>
             \/ Fails /\ store' = store \cup run /\ events' = <<"error", "updated">>
  /\ UNCHANGED <<reloads, hook, page, action>>

\* ListHistory
ReadList(i) ==
  /\ reloads[i].list = NotRead
  /\ reloads' = [reloads EXCEPT ![i].list = Newest(store, ListLimit)]
  /\ UNCHANGED <<store, saved, events, hook, page, action, bounds>>

\* LatestDiff lists the two newest runs, then reads the rows of each.
PickLatest(i) ==
  /\ reloads[i].pair = NotRead
  /\ reloads' = [reloads EXCEPT ![i].pair = Newest(store, 2)]
  /\ UNCHANGED <<store, saved, events, hook, page, action, bounds>>

DiffRuns(base, compare) ==
  [base |-> base, compare |-> compare, whole |-> {base, compare} \subseteq store]

ReadLatest(i) ==
  /\ reloads[i].pair # NotRead /\ reloads[i].diff = NotRead
  /\ LET pair == reloads[i].pair IN
     reloads' = [reloads EXCEPT ![i].diff = IF Cardinality(pair) < 2 THEN emptyDiff
                                            ELSE DiffRuns(Min(pair), Max(pair))]
  /\ UNCHANGED <<store, saved, events, hook, page, action, bounds>>
-----------------------------------------------------------------------------
(* The hook.                                                               *)

\* Mutant of Defaults: only a selector that was never set falls back.
DefaultsOnce(p, list) ==
  IF p.shown /\ Cardinality(list) >= 2
  THEN [p EXCEPT !.base    = IF @ # 0 THEN @ ELSE Min(Newest(list, 2)),
                 !.compare = IF @ # 0 THEN @ ELSE Max(list)]
  ELSE p

\* The effect on [runs]: a choice that left the list falls back to the
\* default, the run before the newest and the newest.
Defaults(p, list) ==
  IF p.shown /\ Cardinality(list) >= 2
  THEN [p EXCEPT !.base    = IF @ \in list THEN @ ELSE Min(Newest(list, 2)),
                 !.compare = IF @ \in list THEN @ ELSE Max(list)]
  ELSE p

\* Replies are not numbered: an older reload that is answered after this one is
\* adopted all the same.
Without(q, i) ==
  [k \in 1 .. i - 1 |-> [q[k] EXCEPT !.over = TRUE]] \o SubSeq(q, i + 1, Len(q))
Answered(i) ==
  /\ reloads[i].list # NotRead /\ reloads[i].diff # NotRead
  /\ runs' = reloads[i].list /\ latest' = reloads[i].diff /\ load' = "ready"
  /\ late' = reloads[i].over
  /\ page' = Defaults(page, runs')
  /\ reloads' = Without(reloads, i)
  /\ UNCHANGED <<store, saved, events, action, bounds>>

ReloadFails(i) ==
  /\ Fails
  /\ load' = "error" /\ reloads' = Without(reloads, i)
  /\ UNCHANGED <<store, saved, events, runs, latest, late, page, action>>

\* Mutant of HistoryEvent: a change during a reload is left to that reload.
HistoryEventCoalesced ==
  /\ events # <<>> /\ events' = Tail(events)
  /\ IF Head(events) = "updated"
     THEN reloads' = (IF reloads = <<>> THEN Asked(reloads) ELSE reloads) /\ UNCHANGED load
     ELSE load' = "error" /\ UNCHANGED reloads
  /\ UNCHANGED <<store, saved, runs, latest, late, page, action, bounds>>

HistoryEvent ==
  /\ events # <<>> /\ events' = Tail(events)
  /\ IF Head(events) = "updated"
     THEN CanAsk /\ reloads' = Asked(reloads) /\ UNCHANGED load
     ELSE load' = "error" /\ UNCHANGED reloads
  /\ UNCHANGED <<store, saved, runs, latest, late, page, action, bounds>>
-----------------------------------------------------------------------------
(* The page.  The confirmation is modal: nothing else is clicked while it   *)
(* is open.                                                                *)

Usable == page.shown /\ page.dialog = 0
Busy   == action # Idle /\ ~action.orphan

Enter ==
  /\ ~page.shown
  /\ page' = Defaults([BlankPage EXCEPT !.shown = TRUE], runs)
  /\ UNCHANGED <<store, saved, events, reloads, hook, action, bounds>>

\* A call still in flight finishes without the page: the next one starts idle.
Leave ==
  /\ Usable /\ page' = BlankPage
  /\ action' = IF Busy THEN [action EXCEPT !.orphan = TRUE] ELSE action
  /\ UNCHANGED <<store, saved, events, reloads, hook, bounds>>

Refresh ==
  /\ Usable /\ CanAsk /\ reloads' = Asked(reloads)
  /\ UNCHANGED <<store, saved, events, hook, page, action, bounds>>

\* The selectors are there once two runs are listed.
Choose(which, run) ==
  /\ Usable /\ use.compares /\ Cardinality(runs) >= 2 /\ run \in runs
  /\ page' = [page EXCEPT ![which] = run]
  /\ UNCHANGED <<store, saved, events, reloads, hook, action, bounds>>

\* One call at a time; bound: an orphan counts.
Call(kind, of) ==
  /\ action = Idle
  /\ action' = [Idle EXCEPT !.kind = kind, !.of = of]

Compare ==
  /\ Usable /\ use.compares /\ ~Busy /\ Cardinality(runs) >= 2
  /\ page.base # 0 /\ page.compare # 0 /\ page.base # page.compare
  /\ Call("compare", {page.base, page.compare})
  /\ UNCHANGED <<store, saved, events, reloads, hook, page, bounds>>

BackToLatest ==
  /\ Usable /\ Cardinality(runs) >= 2 /\ page.custom # {}
  /\ page' = [page EXCEPT !.custom = {}]
  /\ UNCHANGED <<store, saved, events, reloads, hook, action, bounds>>

AskToDelete(run) ==
  /\ Usable /\ ~Busy /\ run \in runs
  /\ page' = [page EXCEPT !.dialog = run]
  /\ UNCHANGED <<store, saved, events, reloads, hook, action, bounds>>

CloseDialog(confirmed) ==
  /\ page.dialog # 0
  /\ page' = [page EXCEPT !.dialog = 0]
  /\ IF confirmed THEN Call("delete", {page.dialog}) ELSE UNCHANGED action
  /\ UNCHANGED <<store, saved, events, reloads, hook, bounds>>

\* The backend's half of DiffRuns and of DeleteRun, which tells every page.
Answer(kind) == action.kind = kind /\ action.reply = "none"
Reply(how)   == action' = [action EXCEPT !.reply = how]

AnswerCompare ==
  /\ Answer("compare")
  /\ (Fails /\ Reply("failed")) \/ (Works /\ Reply("ok"))
  /\ UNCHANGED <<store, saved, events, reloads, hook, page>>

AnswerDelete ==
  /\ Answer("delete")
  /\ \/ /\ Fails \/ (~(action.of \subseteq store) /\ Works)
        /\ Reply("failed") /\ UNCHANGED <<store, events>>
     \/ /\ action.of \subseteq store /\ Works
        /\ store' = store \ action.of
        /\ events' = Append(events, "updated")
        /\ Reply("ok")
  /\ UNCHANGED <<saved, reloads, hook, page>>

\* The page's half: an orphan's state is gone with its page, but a deletion
\* still reloads the list.
ForPage(p) == page' = IF action.orphan THEN page ELSE p

Compared ==
  /\ action.kind = "compare" /\ action.reply # "none"
  /\ ForPage(IF action.reply = "failed" THEN page ELSE [page EXCEPT !.custom = action.of])
  /\ action' = Idle
  /\ UNCHANGED <<store, saved, events, reloads, hook, bounds>>

NotDeleted ==
  /\ action.kind = "delete" /\ action.reply = "failed"
  /\ action' = Idle
  /\ UNCHANGED <<store, saved, events, reloads, hook, page, bounds>>

Deleted ==
  /\ action.kind = "delete" /\ action.reply = "ok" /\ CanAsk
  /\ ForPage([page EXCEPT !.custom = IF action.of \subseteq @ THEN {} ELSE @])
  /\ reloads' = Asked(reloads)
  /\ action' = Idle
  /\ UNCHANGED <<store, saved, events, hook, bounds>>

\* What the page shows: the empty state, or the runs and, from two on, a diff.
Shows ==
  IF load = "ready" /\ runs = {} THEN "empty"
  ELSE IF Cardinality(runs) < 2 THEN "one more scan"
  ELSE IF page.custom # {} THEN "comparison" ELSE "latest"
-----------------------------------------------------------------------------
Reloading == \E i \in DOMAIN reloads :
               ReadList(i) \/ PickLatest(i) \/ ReadLatest(i) \/ Answered(i)
User == \/ Enter \/ Leave \/ Refresh \/ Compare \/ BackToLatest
        \/ \E run \in Runs : Choose("base", run) \/ Choose("compare", run) \/ AskToDelete(run)
        \/ \E confirmed \in BOOLEAN : CloseDialog(confirmed)
Acting == AnswerCompare \/ AnswerDelete \/ Compared \/ NotDeleted \/ Deleted
ListNext == ScanSaved \/ HistoryEvent \/ Reloading \/ User \/ Acting
            \/ \E i \in DOMAIN reloads : ReloadFails(i)

\* Calls are answered and events delivered; the user owes nothing.
ListSpec == ListInit /\ [][ListNext]_listVars
            /\ WF_listVars(HistoryEvent) /\ WF_listVars(Reloading) /\ WF_listVars(Acting)
-----------------------------------------------------------------------------
(* "keeps the saved-run list and latest diff fresh" (useHistoryRuns.ts:7):  *)
(* whatever was saved, pruned and deleted, and however the reloads and the  *)
(* two halves of each were interleaved with it, the page ends up showing    *)
(* what is stored, or an error that says it may not - unless the reload     *)
(* that was answered last is not the one that was asked for last.           *)
Fresh ==
  LET pair == Newest(store, 2) IN
  /\ runs = Newest(store, ListLimit)
  /\ latest = IF Cardinality(pair) < 2 THEN emptyDiff
              ELSE [base |-> Min(pair), compare |-> Max(pair), whole |-> TRUE]
ListConverges == <>[](load = "error" \/ Fresh \/ late)

(* The same without the exception.                                         *)
ListStaysFresh == <>[](load = "error" \/ Fresh)

(* The comparison is always between two runs of the list: a choice whose    *)
(* run left the list, pruned or deleted, does not stay selected.           *)
SelectorsAreListed ==
  page.shown /\ Cardinality(runs) >= 2 => {page.base, page.compare} \subseteq runs
=============================================================================

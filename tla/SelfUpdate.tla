----------------------------- MODULE SelfUpdate -----------------------------
(***************************************************************************)
(* Update and restart of the proxy on request: class SelfUpdater           *)
(* (mcp_proxy/updater.py), apply_update() and probe()                      *)
(* (mcp_proxy/selfupdate.py), class Lifecycle (mcp_proxy/lifecycle.py), the *)
(* exit codes of mcp_proxy/entry.py and the loop of scripts/supervise.sh.  *)
(*                                                                         *)
(* The clone on disk holds a version; the process runs the one it was       *)
(* launched from.  An apply request holds a lock and waits for a thread    *)
(* that checks, then merges.  The thread cannot be cancelled, the request  *)
(* can: its client goes away, or the shutdown cuts it after its grace.     *)
(* The process ends when its threads have ended.                           *)
(*                                                                         *)
(* Versions follow one another on the tracked branch; version v stands for  *)
(* the commit that made it.  The proxy runs under its supervisor, with     *)
(* both variables set: without it apply and restart are refused at once.   *)
(***************************************************************************)
EXTENDS Naturals, FiniteSets

CONSTANTS
  Applies,      \* BOUND: miaou/update/apply requests explored
  Restarts,     \* BOUND: miaou/lifecycle/restart requests explored
  Probers,      \* the probe loop, and status requests that refresh
  Calls,        \* BOUND: tool calls that may be in flight at a time
  MaxVersion,   \* BOUND: versions the remote publishes
  MaxLaunches,  \* BOUND: launches of the proxy by its supervisor
  MiaouOnly,    \* versions that change files of miaou_dist only
  Broken        \* versions whose proxy exits in error when launched

Versions   == 0 .. MaxVersion
Refreshers == Probers \cup Applies
NoCode     == 0
UPDATE_EXIT_CODE  == 42
RESTART_EXIT_CODE == 43

ASSUME UpdateAssumption ==
  /\ MaxVersion \in Nat
  /\ MaxLaunches \in Nat \ {0}
  /\ MiaouOnly \subseteq Versions
  /\ Broken \subseteq Versions \ ({0} \cup MiaouOnly)
  /\ Probers \cap Applies = {}

VARIABLES
  remote,     \* the version the remote announces
  head,       \* the version checked out in the clone
  torn,       \* an interrupted checkout left tracked files modified
  strayed,    \* history: since this launch, a failed merge was not undone
  apply,      \* each apply request: where its handler stands
  thread,     \* the thread of each apply request
  goal, base, \* its target, and the HEAD it found
  outcome,    \* what its thread returned
  restart,    \* each restart request: where its handler stands
  refresh,    \* each caller of refresh(): where it stands
  adopted,    \* a probe ended since it called: _checked_at >= started
  probed,     \* the HEAD its probe found
  published,  \* _status: HEAD and target of the last probe
  calls,      \* tool calls in flight (InFlight)
  exit,       \* ExitRequest.code
  signalled,  \* SIGUSR1 was received
  process,    \* the proxy's process, as its supervisor sees it
  running,    \* the version it was launched from
  launches,   \* number of launches
  updated,    \* the supervisor's flag: an update was applied before this launch
  hinted,     \* the supervisor printed how to roll back
  ran,        \* history: the versions that have served
  abandoned   \* history: a handler left while its update was under way

cloneVars   == <<remote, head, torn, strayed>>
applyVars   == <<apply, thread, goal, base, outcome>>
probeVars   == <<refresh, adopted, probed, published>>
exitVars    == <<exit, signalled>>
processVars == <<process, running, launches, updated, hinted, ran>>
vars == <<cloneVars, applyVars, restart, probeVars, calls, exitVars, processVars,
          abandoned>>

Statuses == [head : Versions, target : Versions]

CloneTypes ==
  /\ remote \in Versions /\ head \in 0 .. remote
  /\ torn \in BOOLEAN /\ strayed \in BOOLEAN

ApplyTypes ==
  /\ apply \in [Applies -> {"idle", "running", "rereading", "answered", "refused", "gone"}]
  /\ thread \in [Applies -> {"none", "checking", "writing", "over"}]
  /\ goal \in [Applies -> Versions]
  /\ base \in [Applies -> Versions]
  /\ outcome \in [Applies -> {"none", "applied", "refused"}]

ProbeTypes ==
  /\ refresh \in [Refreshers -> {"idle", "waiting", "probing"}]
  /\ adopted \in [Refreshers -> BOOLEAN]
  /\ probed \in [Refreshers -> Versions]
  /\ published \in Statuses

ExitTypes ==
  /\ exit \in {NoCode, UPDATE_EXIT_CODE, RESTART_EXIT_CODE}
  /\ signalled \in BOOLEAN
  /\ restart \in [Restarts -> {"idle", "waiting", "checking", "done"}]
  /\ calls \subseteq Calls
  /\ abandoned \in BOOLEAN

ProcessTypes ==
  /\ process \in {"serving", "stopping", "dead"}
  /\ running \in Versions
  /\ launches \in 1 .. MaxLaunches
  /\ updated \in BOOLEAN /\ hinted \in BOOLEAN
  /\ ran \subseteq Versions

TypeOK == CloneTypes /\ ApplyTypes /\ ProbeTypes /\ ExitTypes /\ ProcessTypes

UpToDate(v) == [head |-> v, target |-> v]

Init ==
  /\ remote = 0 /\ head = 0 /\ torn = FALSE /\ strayed = FALSE
  /\ apply = [a \in Applies |-> "idle"]
  /\ thread = [a \in Applies |-> "none"]
  /\ goal = [a \in Applies |-> 0]
  /\ base = [a \in Applies |-> 0]
  /\ outcome = [a \in Applies |-> "none"]
  /\ restart = [r \in Restarts |-> "idle"]
  /\ refresh = [p \in Refreshers |-> "idle"]
  /\ adopted = [p \in Refreshers |-> FALSE]
  /\ probed = [p \in Refreshers |-> 0]
  /\ published = UpToDate(0)
  /\ calls = {}
  /\ exit = NoCode /\ signalled = FALSE
  /\ process = "serving" /\ running = 0 /\ launches = 1
  /\ updated = FALSE /\ hinted = FALSE /\ ran = {0}
  /\ abandoned = FALSE

-----------------------------------------------------------------------------
(* classify(): an update that touches more than miaou_dist restarts the     *)
(* proxy; the paths are those of the whole advance.                         *)
NeedsRestart(v, w) == \E u \in v + 1 .. w : u \notin MiaouOnly

InApply(a) == apply[a] \in {"running", "rereading"}
Applying   == \E a \in Applies : InApply(a)
AtWork(a)  == thread[a] \in {"checking", "writing"}

(* ExitRequest: the first request sets the code. *)
RequestExit(code) == exit' = IF exit = NoCode THEN code ELSE exit

(* The remote branch advances. *)
Push ==
  /\ remote < MaxVersion
  /\ remote' = remote + 1
  /\ UNCHANGED <<head, torn, strayed, applyVars, restart, probeVars, calls, exitVars,
                 processVars, abandoned>>

(* handle_call_tool() counts every call; InFlight is read by the threads.   *)
BeginCall(c) ==
  /\ process = "serving"
  /\ c \notin calls
  /\ calls' = calls \cup {c}
  /\ UNCHANGED <<cloneVars, applyVars, restart, probeVars, exitVars, processVars,
                 abandoned>>

EndCall(c) ==
  /\ c \in calls
  /\ calls' = calls \ {c}
  /\ UNCHANGED <<cloneVars, applyVars, restart, probeVars, exitVars, processVars,
                 abandoned>>

-----------------------------------------------------------------------------
(* handle_apply(), up to its await of the thread: refused while another     *)
(* application or an exit is under way, or when the last probe already says *)
(* that calls in flight would be cut.                                       *)
ToldToWait == calls # {} /\ NeedsRestart(published.head, published.target)

(* Mutant of Apply: the lock of a running application is not looked at. *)
ApplyUnlocked(a) ==
  /\ apply[a] = "idle"
  /\ process = "serving"
  /\ \/ /\ exit # NoCode \/ ToldToWait
        /\ apply' = [apply EXCEPT ![a] = "refused"]
        /\ UNCHANGED <<thread, goal, base>>
     \/ /\ exit = NoCode /\ ~ToldToWait
        /\ apply' = [apply EXCEPT ![a] = "running"]
        /\ thread' = [thread EXCEPT ![a] = "checking"]
        /\ \E v \in Versions \ {0} : goal' = [goal EXCEPT ![a] = v]
        /\ base' = [base EXCEPT ![a] = head]
  /\ UNCHANGED <<cloneVars, outcome, restart, probeVars, calls, exitVars, processVars,
                 abandoned>>

Apply(a) ==
  /\ apply[a] = "idle"
  /\ process = "serving"
  /\ \/ /\ Applying \/ exit # NoCode \/ ToldToWait
        /\ apply' = [apply EXCEPT ![a] = "refused"]
        /\ UNCHANGED <<thread, goal, base>>
     \/ /\ ~Applying /\ exit = NoCode /\ ~ToldToWait
        /\ apply' = [apply EXCEPT ![a] = "running"]
        /\ thread' = [thread EXCEPT ![a] = "checking"]
        /\ \E v \in Versions \ {0} : goal' = [goal EXCEPT ![a] = v]
        /\ base' = [base EXCEPT ![a] = head]
  /\ UNCHANGED <<cloneVars, outcome, restart, probeVars, calls, exitVars, processVars,
                 abandoned>>

ThreadReturns(a, result) ==
  /\ thread' = [thread EXCEPT ![a] = "over"]
  /\ outcome' = [outcome EXCEPT ![a] = result]

(* Mutant of Check: the target is not looked for in the remote branch. *)
CheckUnseen(a) ==
  /\ thread[a] = "checking"
  /\ \/ ThreadReturns(a, "refused")
     \/ /\ ~torn
        /\ base[a] < goal[a]
        /\ calls = {} \/ ~NeedsRestart(base[a], goal[a])
        /\ thread' = [thread EXCEPT ![a] = "writing"]
        /\ UNCHANGED outcome
  /\ UNCHANGED <<cloneVars, apply, goal, base, restart, probeVars, calls, exitVars,
                 processVars, abandoned>>

(* apply_update(), up to its merge: clean tree, target between HEAD and what *)
(* the remote announces, and no call in flight when the kind is known.  Git *)
(* or the network may refuse for reasons of their own.                      *)
Check(a) ==
  /\ thread[a] = "checking"
  /\ \/ ThreadReturns(a, "refused")
     \/ /\ ~torn
        /\ base[a] < goal[a] /\ goal[a] <= remote
        /\ calls = {} \/ ~NeedsRestart(base[a], goal[a])
        /\ thread' = [thread EXCEPT ![a] = "writing"]
        /\ UNCHANGED outcome
  /\ UNCHANGED <<cloneVars, apply, goal, base, restart, probeVars, calls, exitVars,
                 processVars, abandoned>>

(* The rollback of a failed merge fails in its turn, at its reset or after   *)
(* it: HEAD is what the merge or the reset left, the tree may be clean, and   *)
(* the answer names the command that goes back.                             *)
LeftAsItIs(a) ==
  /\ head' \in {head, base[a], IF head < goal[a] THEN goal[a] ELSE head}
  /\ torn' \in BOOLEAN
  /\ strayed' = TRUE

(* Mutant of Merge: the rollback goes to the version that is running. *)
MergeRollback(a) ==
  /\ thread[a] = "writing"
  /\ \/ /\ ThreadReturns(a, "applied")
        /\ head' = IF head < goal[a] THEN goal[a] ELSE head
        /\ UNCHANGED <<torn, strayed>>
     \/ /\ ThreadReturns(a, "refused")
        /\ head' = running /\ torn' = FALSE
        /\ UNCHANGED strayed
     \/ ThreadReturns(a, "refused") /\ LeftAsItIs(a)
  /\ UNCHANGED <<remote, apply, goal, base, restart, probeVars, calls, exitVars,
                 processVars, abandoned>>

(* merge --ff-only, and its failure, a timeout included: what it touched goes *)
(* back to the HEAD found at the beginning, unless the rollback itself fails. *)
Merge(a) ==
  /\ thread[a] = "writing"
  /\ \/ /\ ThreadReturns(a, "applied")
        /\ head' = IF head < goal[a] THEN goal[a] ELSE head
        /\ UNCHANGED <<torn, strayed>>
     \/ /\ ThreadReturns(a, "refused")
        /\ head' = base[a] /\ torn' = FALSE
        /\ UNCHANGED strayed
     \/ ThreadReturns(a, "refused") /\ LeftAsItIs(a)
  /\ UNCHANGED <<remote, apply, goal, base, restart, probeVars, calls, exitVars,
                 processVars, abandoned>>

(* refresh() is called, at an instant no probe has ended after. *)
Asks(p) ==
  /\ refresh' = [refresh EXCEPT ![p] = "waiting"]
  /\ adopted' = [adopted EXCEPT ![p] = FALSE]

(* Mutant of Resume: an applied update never asks for the exit. *)
ResumeQuietly(a) ==
  /\ apply[a] = "running"
  /\ thread[a] = "over"
  /\ apply' = [apply EXCEPT ![a] = IF outcome[a] = "applied" THEN "answered" ELSE "refused"]
  /\ UNCHANGED <<cloneVars, thread, goal, base, outcome, restart, probeVars, calls,
                 exitVars, processVars, abandoned>>

(* handle_apply() gets the outcome: it refuses, asks for the exit, or reads *)
(* the state again when only MIAOU's files changed.                         *)
Resume(a) ==
  /\ apply[a] = "running"
  /\ thread[a] = "over"
  /\ \/ /\ outcome[a] = "refused"
        /\ apply' = [apply EXCEPT ![a] = "refused"]
        /\ goal' = [goal EXCEPT ![a] = 0] /\ base' = [base EXCEPT ![a] = 0]
        /\ UNCHANGED <<exit, refresh, adopted>>
     \/ /\ outcome[a] = "applied" /\ NeedsRestart(base[a], goal[a])
        /\ RequestExit(UPDATE_EXIT_CODE)
        /\ apply' = [apply EXCEPT ![a] = "answered"]
        /\ UNCHANGED <<goal, base, refresh, adopted>>
     \/ /\ outcome[a] = "applied" /\ ~NeedsRestart(base[a], goal[a])
        /\ Asks(a)
        /\ apply' = [apply EXCEPT ![a] = "rereading"]
        /\ UNCHANGED <<goal, base, exit>>
  /\ UNCHANGED <<cloneVars, thread, outcome, restart, probed, published, calls,
                 signalled, processVars, abandoned>>

Reread(a) ==
  /\ apply[a] = "rereading"
  /\ refresh[a] = "idle"
  /\ apply' = [apply EXCEPT ![a] = "answered"]
  /\ UNCHANGED <<cloneVars, thread, goal, base, outcome, restart, probeVars, calls,
                 exitVars, processVars, abandoned>>

(* The handler is cancelled, its client gone or the shutdown's grace over:  *)
(* the lock is released, the thread goes on.                                *)
Cancel(a) ==
  /\ InApply(a)
  /\ apply' = [apply EXCEPT ![a] = "gone"]
  /\ refresh' = [refresh EXCEPT ![a] = "idle"]
  /\ adopted' = [adopted EXCEPT ![a] = FALSE]
  /\ probed' = [probed EXCEPT ![a] = 0]
  /\ abandoned' = (abandoned \/ apply[a] = "running")
  /\ UNCHANGED <<cloneVars, thread, goal, base, outcome, restart, published, calls,
                 exitVars, processVars>>

-----------------------------------------------------------------------------
(* The probe: one at a time, and a caller that waited for one adopts it.    *)
Probing == \E p \in Refreshers : refresh[p] = "probing"

AskProbe(p) ==
  /\ process = "serving"
  /\ refresh[p] = "idle"
  /\ Asks(p)
  /\ UNCHANGED <<cloneVars, applyVars, restart, probed, published, calls, exitVars,
                 processVars, abandoned>>

Adopt(p) ==
  /\ refresh[p] = "waiting"
  /\ ~Probing /\ adopted[p]
  /\ refresh' = [refresh EXCEPT ![p] = "idle"]
  /\ adopted' = [adopted EXCEPT ![p] = FALSE]
  /\ UNCHANGED <<cloneVars, applyVars, restart, probed, published, calls, exitVars,
                 processVars, abandoned>>

(* probe() reads HEAD first; the network comes after. *)
StartProbe(p) ==
  /\ refresh[p] = "waiting"
  /\ ~Probing /\ ~adopted[p]
  /\ refresh' = [refresh EXCEPT ![p] = "probing"]
  /\ probed' = [probed EXCEPT ![p] = head]
  /\ UNCHANGED <<cloneVars, applyVars, restart, adopted, published, calls, exitVars,
                 processVars, abandoned>>

(* The remote announces a version, or the probe fails and proposes nothing. *)
EndProbe(p) ==
  /\ refresh[p] = "probing"
  /\ \E v \in {probed[p], remote} : published' = [head |-> probed[p], target |-> v]
  /\ refresh' = [refresh EXCEPT ![p] = "idle"]
  /\ adopted' = [q \in Refreshers |-> adopted[q] \/ refresh[q] = "waiting"]
  /\ probed' = [probed EXCEPT ![p] = 0]
  /\ UNCHANGED <<cloneVars, applyVars, restart, calls, exitVars, processVars, abandoned>>

-----------------------------------------------------------------------------
(* handle_restart() is serialised by its lock, reads the configuration      *)
(* again, and looks at everything once more after that wait.                *)
AskRestart(r) ==
  /\ process = "serving"
  /\ restart[r] = "idle"
  /\ restart' = [restart EXCEPT ![r] = "waiting"]
  /\ UNCHANGED <<cloneVars, applyVars, probeVars, calls, exitVars, processVars, abandoned>>

TakeRestart(r) ==
  /\ restart[r] = "waiting"
  /\ \A q \in Restarts : restart[q] # "checking"
  /\ restart' = [restart EXCEPT ![r] =
       IF exit # NoCode \/ Applying THEN "done" ELSE "checking"]
  /\ UNCHANGED <<cloneVars, applyVars, probeVars, calls, exitVars, processVars, abandoned>>

(* Mutant of ConcludeRestart: the applying update is not looked at again. *)
ConcludeRestartUnchecked(r) ==
  /\ restart[r] = "checking"
  /\ restart' = [restart EXCEPT ![r] = "done"]
  /\ \/ UNCHANGED exit
     \/ RequestExit(RESTART_EXIT_CODE)
  /\ UNCHANGED <<cloneVars, applyVars, probeVars, calls, signalled, processVars, abandoned>>

(* The configuration may be invalid, and calls in flight refuse a restart   *)
(* that is not forced; both refusals leave everything as it is.             *)
ConcludeRestart(r) ==
  /\ restart[r] = "checking"
  /\ restart' = [restart EXCEPT ![r] = "done"]
  /\ \/ UNCHANGED exit
     \/ ~Applying /\ RequestExit(RESTART_EXIT_CODE)
  /\ UNCHANGED <<cloneVars, applyVars, probeVars, calls, signalled, processVars, abandoned>>

(* SIGUSR1, from a terminal: nothing is checked.  (Once an exit is requested *)
(* a signal changes nothing: the code is that of the request.)              *)
Signal ==
  /\ process = "serving"
  /\ ~signalled /\ exit = NoCode
  /\ signalled' = TRUE
  /\ UNCHANGED <<cloneVars, applyVars, restart, probeVars, calls, exit, processVars, abandoned>>

-----------------------------------------------------------------------------
(* uvicorn sees should_exit and stops serving.  (The process of the last   *)
(* launch explored serves on.)                                              *)
Stop ==
  /\ process = "serving"
  /\ exit # NoCode \/ signalled
  /\ launches < MaxLaunches
  /\ process' = "stopping"
  /\ UNCHANGED <<cloneVars, applyVars, restart, probeVars, calls, exitVars, running,
                 launches, updated, hinted, ran, abandoned>>

(* The lifespan is over, every handler is done or cut, and the threads have *)
(* ended: the process can exit.                                             *)
MayExit ==
  /\ process = "stopping"
  /\ launches < MaxLaunches
  /\ ~Applying /\ ~Probing
  /\ \A a \in Applies : ~AtWork(a)

(* The process of version v, launched by the supervisor with its flag.      *)
Launch(v, flag) ==
  /\ MayExit
  /\ running' = v
  /\ launches' = launches + 1
  /\ updated' = flag
  /\ \/ /\ v \in Broken \/ torn
        /\ process' = "dead"
        /\ hinted' = flag
        /\ UNCHANGED <<ran, strayed>>
     \/ /\ v \notin Broken
        /\ process' = "serving"
        /\ ran' = ran \cup {v}
        /\ strayed' = FALSE
        /\ UNCHANGED hinted
  /\ exit' = NoCode /\ signalled' = FALSE
  /\ calls' = {}
  /\ refresh' = [p \in Refreshers |-> "idle"]
  /\ adopted' = [p \in Refreshers |-> FALSE]
  /\ published' = UpToDate(head)
  /\ restart' = [r \in Restarts |-> IF restart[r] = "idle" THEN "idle" ELSE "done"]
  /\ UNCHANGED <<remote, head, torn, applyVars, probed, abandoned>>

(* Mutant of Relaunch: the supervisor does not note the update. *)
RelaunchUnnoted == Launch(head, exit # RESTART_EXIT_CODE /\ updated)

(* Mutant of Relaunch: the exit is an exec in place of what was launched. *)
RelaunchInPlace == Launch(running, exit = UPDATE_EXIT_CODE)

(* serve_http() exits with the requested code, or 43 on SIGUSR1; the loop of *)
(* supervise.sh launches the proxy again, from the version on disk.  A      *)
(* launch that ends in error ends the loop, with a hint after an update.    *)
Relaunch == Launch(head, exit = UPDATE_EXIT_CODE)

Update(a)  == Check(a) \/ Merge(a) \/ Resume(a) \/ Reread(a)
Refresh(p) == Adopt(p) \/ StartProbe(p) \/ EndProbe(p)

Next ==
  \/ Push
  \/ Signal
  \/ Stop
  \/ Relaunch
  \/ \E c \in Calls : BeginCall(c) \/ EndCall(c)
  \/ \E a \in Applies : Apply(a) \/ Update(a) \/ Cancel(a)
  \/ \E p \in Probers : AskProbe(p)
  \/ \E p \in Refreshers : Refresh(p)
  \/ \E r \in Restarts : AskRestart(r) \/ TakeRestart(r) \/ ConcludeRestart(r)

(* What an exit waits for: uvicorn stops when asked and its grace is         *)
(* bounded, git is by its timeouts (a thread takes two steps, so no other   *)
(* can hold it up for ever), and the supervisor loops.  Nobody is assumed   *)
(* to ask, to push, to signal, nor any handler to be resumed.               *)
Fairness ==
  /\ WF_vars(Stop) /\ WF_vars(Relaunch)
  /\ WF_vars(\E a \in Applies : Check(a) \/ Merge(a))
  /\ WF_vars(process = "stopping" /\ \E a \in Applies : Cancel(a))
  /\ WF_vars(\E p \in Refreshers : EndProbe(p))

Spec     == Init /\ [][Next]_vars
FairSpec == Spec /\ Fairness

-----------------------------------------------------------------------------
(* "Une application est deja en cours": two threads never work on the clone *)
(* at once, as long as no handler left its thread behind.                   *)
OneUpdateAtATime ==
  ~abandoned => \A a, b \in Applies : AtWork(a) /\ AtWork(b) => a = b

(* An exit requested, by an update or by a client, never meets a merge: the *)
(* check after the trial bind is what keeps a restart out of one.           *)
NoExitDuringUpdate ==
  ~abandoned /\ exit # NoCode => \A a \in Applies : ~AtWork(a)

(* A process goes on serving with the code of another version on disk only  *)
(* if its exit is requested, if an application is about to request it, or   *)
(* if a merge that failed could not be undone, which its answer said.       *)
NoSilentUpdate ==
  ~abandoned /\ ~strayed /\ process = "serving" /\ NeedsRestart(running, head) =>
    exit = UPDATE_EXIT_CODE \/ Applying

(* An applied update is not undone by a later failure. *)
NeverBackwards == [][~abandoned => head' >= head]_vars

(* A version that never served and exits in error at its launch leaves the  *)
(* operator with the way back.  (A rollback that failed has given it.)      *)
NewcomerHinted == process = "dead" /\ ~strayed /\ running \notin ran => hinted

NewcomerHintedUnlessCut == ~abandoned => NewcomerHinted

(* "L'etat publie doit dire a jour tout de suite": once an update of MIAOU  *)
(* alone is answered, the published state knows of it.                      *)
AnsweredIsPublished ==
  \A a \in Applies :
    apply[a] = "answered" /\ ~NeedsRestart(base[a], goal[a]) => published.head >= goal[a]

(* An update answered with "restart" while the proxy may be launched again  *)
(* runs in the end, unless its launch fails or another thread has taken the *)
(* clone back below it (NeverBackwards says when).                          *)
Promised(a) == apply[a] = "answered" /\ NeedsRestart(base[a], goal[a])
Owed        == {a \in Applies : Promised(a) /\ running < goal[a] /\ goal[a] <= head}

UpdateRuns ==
  (Owed # {} /\ launches < MaxLaunches) ~> (Owed = {} \/ process = "dead")
=============================================================================

--------------------------- MODULE MonitorLifecycle ---------------------------
(***************************************************************************)
(* Starting, reloading and stopping the network monitor of sebastian       *)
(* (modules/monitor/monitor.go, with the task dispatcher), beside the      *)
(* status gate of cogsworth.                                               *)
(*                                                                         *)
(* Start and Stop hold m.mutex, which they try a few times and give up on, *)
(* and then m.internalMutex.  A started monitor is a session: a context,   *)
(* the monitor of the device manager (NM) running for it, a subscription,  *)
(* a dispatcher with a worker pool, a goroutine that polls the settings    *)
(* and reloads them, and one that updates the topology.  Those two only    *)
(* try internalMutex.  A session's goroutines may outlive it.              *)
(***************************************************************************)
EXTENDS ProjectStatus, Naturals, FiniteSets

CONSTANTS
  Calls,        \* start and stop requests
  MaxSessions,  \* bound on the sessions ever begun
  Settings,     \* scan ranges and polling interval of a project, as one value
  Base,         \* the settings in the activated baseline of each project
  PoolSize,     \* jobs the dispatcher's pool takes before AddJob blocks
  MaxEdits,     \* bound on the edits of settings by users
  MaxFaults,    \* bound on the failing requests to cogsworth and the device manager
  HttpTimeouts, \* whether a status request may time out and be served later
  UserStatuses, \* what users set a status to; "absent" is deleting the project
  MaxOverrides, \* bound on how often users take a project out of a device status
  None

ASSUME MonitorAssumption ==
  /\ MaxSessions \in Nat /\ PoolSize \in Nat \ {0}
  /\ MaxEdits \in Nat /\ MaxFaults \in Nat
  /\ Base \in Settings /\ None \notin Settings
  /\ None \notin Calls /\ None \notin Projects
  /\ HttpTimeouts \in BOOLEAN
  /\ UserStatuses \subseteq AllStatuses \cup {"absent"}
  /\ MaxOverrides \in Nat

Sessions == 1 .. MaxSessions

VARIABLES
  stored,      \* the settings of each operation project, in cogsworth
  wanted,      \* history: those its users set last, or started the monitor with
  late,        \* status requests that timed out and are still to be served
  mutex,       \* m.mutex: the call that holds it
  internal,    \* m.internalMutex: free, or held by a call, a poller, an updater
  phase,       \* where the holder of internalMutex is
  subject,     \* the project it works on
  snapshot,    \* whether onStopMonitor found the project in Monitoring
  state,       \* m.internalStateMap
  session,     \* m.sessionId, m.context; 0 before the first
  owner,       \* the project in the context of each session
  cancelled,   \* sessions whose context is cancelled
  nm,          \* the session NM runs for, or 0
  subscribed,  \* the session whose callback is subscribed, or 0
  applied,     \* m.scanRangeSettingsNow, m.pollingIntervalNow
  pool,        \* the worker pool of each session's dispatcher: none, open, closed
  jobs,        \* its jobs that have not ended
  dispatcher,  \* dispatchScheduledTasks: off, idle, adding (holds its mutex), ended
  poller,      \* pollingScanRangeSettings: off, idle, changed, reloading, ended
  found,       \* the settings it read
  reloader,    \* the session whose poller holds internalMutex, or 0
  updater,     \* periodicallyUpdateTopology: off, idle, working, locked, ended
  pc,          \* of the calls: ready, trying, locking, inside, done
  target,      \* operation and project of each call
  edits, faults,
  overrides,   \* history: how often a user took a project out of a device status
  restopped,   \* history: a project was stopped again while its release was late
  leftBehind   \* history: a reload stopped NM and left the monitor so: it panicked,
               \* or failed and the stop that follows failed too

callVars == <<pc, target>>
nmVars == <<nm, subscribed, applied>>
goVars == <<pool, jobs, dispatcher, poller, found, updater>>
lockVars == <<mutex, internal, phase, subject, snapshot, reloader>>
sessionVars == <<session, owner, cancelled>>
gateVars == <<status, late>>
settingVars == <<stored, wanted>>
histVars == <<overrides, restopped, leftBehind>>
vars == <<gateVars, settingVars, lockVars, state, sessionVars, nmVars, goVars, callVars,
          edits, faults, histVars>>

NoTarget == [op |-> "none", project |-> None]

\* NewMonitor
Init ==
  /\ InitStatus
  /\ stored = [p \in Projects |-> Base] /\ wanted = [p \in Projects |-> Base]
  /\ late = {}
  /\ mutex = None /\ internal = "free" /\ phase = "out"
  /\ subject = None /\ snapshot = FALSE /\ reloader = 0
  /\ state = [p \in Projects |-> "none"]
  /\ session = 0 /\ owner = [s \in Sessions |-> None] /\ cancelled = {}
  /\ nm = 0 /\ subscribed = 0 /\ applied = None
  /\ pool = [s \in Sessions |-> "none"]
  /\ jobs = [s \in Sessions |-> 0]
  /\ dispatcher = [s \in Sessions |-> "off"]
  /\ poller = [s \in Sessions |-> "off"]
  /\ found = [s \in Sessions |-> None]
  /\ updater = [s \in Sessions |-> "off"]
  /\ pc = [c \in Calls |-> "ready"]
  /\ target = [c \in Calls |-> NoTarget]
  /\ edits = 0 /\ faults = 0
  /\ overrides = 0 /\ restopped = FALSE /\ leftBehind = FALSE

-----------------------------------------------------------------------------
(***************************************************************************)
(* Requests that may fail, and the two mutexes.                            *)
(***************************************************************************)

\* A request to cogsworth or to the device manager fails, or a goroutine panics.
Fault == faults < MaxFaults /\ faults' = faults + 1

\* Any request about a deleted project fails.
ProjectFails(p) == IF status[p] = "absent" THEN UNCHANGED faults ELSE Fault

\* core.UpdateProjectStatus(p, Idle), whose failure is only logged: served,
\* refused, or timed out and still to be served.
Release(p) ==
  /\ \/ UpdateProjectStatus(p, "Idle") /\ UNCHANGED late
     \/ /\ HttpTimeouts
        /\ late' = late \cup {<<p, "Idle">>}
        /\ UNCHANGED status

ServeLate(p, s) ==
  /\ <<p, s>> \in late
  /\ late' = late \ {<<p, s>>}
  /\ UpdateProjectStatus(p, s)
  /\ UNCHANGED <<settingVars, lockVars, state, sessionVars, nmVars, goVars, callVars,
                 edits, faults, histVars>>

\* The holder of internalMutex returns: a call unlocks m.mutex too.
Leave ==
  /\ internal' = "free" /\ phase' = "out"
  /\ subject' = None /\ snapshot' = FALSE /\ reloader' = 0
  /\ IF internal = "call"
       THEN /\ mutex' = None
            /\ pc' = [pc EXCEPT ![mutex] = "done"]
            /\ UNCHANGED <<target, poller>>
       ELSE /\ poller' = [poller EXCEPT ![reloader] = "idle"]
            /\ UNCHANGED <<mutex, callVars>>

Goto(label) ==
  /\ phase' = label
  /\ UNCHANGED <<mutex, internal, subject, snapshot, reloader>>

SetState(p, s) == state' = [state EXCEPT ![p] = s]

\* Start and Stop are called.
Call(c, op, p) ==
  /\ pc[c] = "ready"
  /\ pc' = [pc EXCEPT ![c] = "trying"]
  /\ target' = [target EXCEPT ![c] = [op |-> op, project |-> p]]
  /\ UNCHANGED <<gateVars, settingVars, lockVars, state, sessionVars, nmVars, goVars,
                 edits, faults, histVars>>

TryLock(c) ==
  /\ pc[c] = "trying"
  /\ mutex = None
  /\ mutex' = c
  /\ pc' = [pc EXCEPT ![c] = "locking"]
  /\ UNCHANGED <<gateVars, settingVars, internal, phase, subject, snapshot, reloader,
                 state, sessionVars, nmVars, goVars, target, edits, faults,
                 histVars>>

\* The mutex was taken at each of the ten attempts.
GiveUp(c) ==
  /\ pc[c] = "trying"
  /\ mutex # None
  /\ pc' = [pc EXCEPT ![c] = "done"]
  /\ UNCHANGED <<gateVars, settingVars, lockVars, state, sessionVars, nmVars, goVars, target,
                 edits, faults, histVars>>

Enter(c, label) ==
  /\ pc[c] = "locking"
  /\ internal = "free"
  /\ internal' = "call" /\ phase' = label /\ subject' = target[c].project
  /\ pc' = [pc EXCEPT ![c] = "inside"]
  /\ UNCHANGED <<target, poller>>

\* m.internalMutex.Lock in Start and Stop
Lock(c) ==
  /\ \/ target[c].op = "start" /\ Enter(c, "checking")
     \/ target[c].op = "stop" /\ Enter(c, "examining")
  /\ UNCHANGED <<gateVars, settingVars, mutex, snapshot, reloader, state, sessionVars,
                 nmVars, pool, jobs, dispatcher, found, updater, edits, faults, histVars>>

-----------------------------------------------------------------------------
(***************************************************************************)
(* onStartMonitor, under both mutexes.                                     *)
(***************************************************************************)

p0 == subject

Active(p) == state[p] \notin {"none", "Stopped"}

\* A monitor is active already, or the project cannot be read.
StartRefused ==
  /\ phase = "checking"
  /\ \/ Active(p0) /\ Leave /\ UNCHANGED faults
     \/ (\E p \in Projects \ {p0} : Active(p)) /\ Leave /\ UNCHANGED faults
     \/ ProjectFails(p0) /\ Leave
  /\ UNCHANGED <<gateVars, settingVars, state, sessionVars, nmVars, pool, jobs, dispatcher,
                 found, updater, edits, histVars>>

StartChecked ==
  /\ phase = "checking"
  /\ \A p \in Projects : ~Active(p)
  /\ status[p0] # "absent"
  /\ Goto("claiming")
  /\ UNCHANGED <<gateVars, settingVars, state, sessionVars, nmVars, goVars, callVars, edits,
                 faults, histVars>>

ClaimGranted ==
  /\ phase = "claiming"
  /\ Accepts(p0, "Monitoring")
  /\ UpdateProjectStatus(p0, "Monitoring")
  /\ SetState(p0, "Starting")
  /\ Goto("loading")
  /\ UNCHANGED <<late, settingVars, sessionVars, nmVars, goVars, callVars, edits,
                 faults, histVars>>

\* FAULT: a refused claim is only logged.
ClaimIgnored ==
  /\ phase = "claiming"
  /\ ~Accepts(p0, "Monitoring")
  /\ SetState(p0, "Starting")
  /\ Goto("loading")
  /\ UNCHANGED <<gateVars, settingVars, sessionVars, nmVars, goVars, callVars, edits, faults,
                 histVars>>

\* Refused, or timed out: the claim may still be served later.
ClaimFails ==
  /\ phase = "claiming"
  /\ \/ ~Accepts(p0, "Monitoring") /\ UNCHANGED late
     \/ HttpTimeouts /\ late' = late \cup {<<p0, "Monitoring">>}
  /\ Leave
  /\ UNCHANGED <<status, settingVars, state, sessionVars, nmVars, pool, jobs,
                 dispatcher, found, updater, edits, faults, histVars>>

\* UpdateFullProject writes the baseline over the operation project.
LoadBaseline ==
  /\ stored' = [stored EXCEPT ![p0] = Base]
  /\ wanted' = [wanted EXCEPT ![p0] = Base]

\* The baseline becomes the operation project and the new session's caches.
Loaded ==
  /\ phase = "loading"
  /\ status[p0] # "absent"
  /\ session < MaxSessions
  /\ LoadBaseline
  /\ session' = session + 1
  /\ owner' = [owner EXCEPT ![session + 1] = p0]
  /\ subscribed' = session + 1
  /\ Goto("starting")
  /\ UNCHANGED <<gateVars, state, cancelled, nm, applied, goVars, callVars, edits, faults,
                 histVars>>

\* Reading or writing the project fails, before or after it is overwritten; a
\* panic is recovered as an error.
LoadFails ==
  /\ phase = "loading"
  /\ ProjectFails(p0)
  /\ UNCHANGED settingVars \/ LoadBaseline
  /\ Goto("failing")
  /\ UNCHANGED <<gateVars, state, sessionVars, nmVars, goVars, callVars, edits, histVars>>

\* NM starts, then the goroutines of the session do.
NmStarts ==
  /\ phase = "starting"
  /\ nm' = session /\ leftBehind' = FALSE
  /\ applied' = Base
  /\ pool' = [pool EXCEPT ![session] = "open"]
  /\ dispatcher' = [dispatcher EXCEPT ![session] = "idle"]
  /\ poller' = [poller EXCEPT ![session] = "idle"]
  /\ updater' = [updater EXCEPT ![session] = "idle"]
  /\ Goto("started")
  /\ UNCHANGED <<gateVars, settingVars, state, sessionVars, subscribed, jobs, found, callVars,
                 edits, faults, overrides, restopped>>

NmStartFails ==
  /\ phase = "starting"
  /\ Fault
  /\ subscribed' = 0
  /\ Goto("failing")
  /\ UNCHANGED <<gateVars, settingVars, state, sessionVars, nm, applied, goVars, callVars,
                 edits, histVars>>

\* The deferred function, without and with an error.  m.cancelFunc may be that
\* of an earlier session.
StartSucceeds ==
  /\ phase = "started"
  /\ SetState(p0, "Running")
  /\ Leave
  /\ UNCHANGED <<gateVars, settingVars, sessionVars, nmVars, pool, jobs, dispatcher, found,
                 updater, edits, faults, histVars>>

StartFails ==
  /\ phase = "failing"
  /\ cancelled' = (cancelled \cup {session}) \ {0}
  /\ SetState(p0, "Stopped")
  /\ Release(p0)
  /\ Leave
  /\ UNCHANGED <<settingVars, session, owner, nmVars, pool, jobs, dispatcher, found, updater,
                 edits, faults, histVars>>

-----------------------------------------------------------------------------
(***************************************************************************)
(* onStopMonitor, under both mutexes or, called by a failed reload, under  *)
(* internalMutex alone.                                                    *)
(***************************************************************************)

\* The stop that was to clean up a failed reload gives up.
NoteLeftBehind == leftBehind' = (leftBehind \/ (internal = "poller" /\ nm = 0))

StopCannotRead ==
  /\ phase = "examining"
  /\ ProjectFails(p0)
  /\ Leave
  /\ NoteLeftBehind
  /\ UNCHANGED <<gateVars, settingVars, state, sessionVars, nmVars, pool, jobs, dispatcher,
                 found, updater, edits, overrides, restopped>>

StopBegins ==
  /\ phase = "examining"
  /\ status[p0] # "absent"
  /\ snapshot' = (status[p0] = "Monitoring")
  /\ restopped' = (restopped \/ <<p0, "Idle">> \in late)
  /\ IF state[p0] \in {"Running", "Reloading"}
       THEN SetState(p0, "Stopping") /\ phase' = "stopping"
       ELSE phase' = "releasing" /\ UNCHANGED state
  /\ UNCHANGED <<gateVars, settingVars, mutex, internal, subject, reloader, sessionVars, nmVars,
                 goVars, callVars, edits, faults, overrides, leftBehind>>

\* GetNMManager fails: the state found is restored.  It was Running, for
\* Reloading is only seen by the holder of internalMutex.
StopFails ==
  /\ phase = "stopping"
  /\ Fault
  /\ SetState(p0, "Running")
  /\ Leave
  /\ NoteLeftBehind
  /\ UNCHANGED <<gateVars, settingVars, sessionVars, nmVars, pool, jobs, dispatcher, found,
                 updater, edits, overrides, restopped>>

\* NM stops, whatever it answers; caches and subscription go; the context is
\* cancelled.
NmStops ==
  /\ phase = "stopping"
  /\ nm' = 0 /\ applied' = None /\ subscribed' = 0
  /\ cancelled' = cancelled \cup {session}
  /\ phase' = "draining"
  /\ leftBehind' = FALSE
  /\ UNCHANGED <<gateVars, settingVars, mutex, internal, subject, snapshot, reloader, state,
                 session, owner, goVars, callVars, edits, faults, overrides, restopped>>

\* dispatcher.WaitAndClose takes the dispatcher's mutex ...
Drain ==
  /\ phase = "draining"
  /\ dispatcher[session] # "adding"
  /\ Goto("closing")
  /\ UNCHANGED <<gateVars, settingVars, state, sessionVars, nmVars, goVars, callVars, edits,
                 faults, histVars>>

\* FAULT: the pool is closed with its jobs still running.
CloseAtOnce ==
  /\ phase = "closing"
  /\ pool' = [pool EXCEPT ![session] = "closed"]
  /\ SetState(p0, "Stopped")
  /\ Goto("releasing")
  /\ UNCHANGED <<gateVars, settingVars, sessionVars, nmVars, jobs, dispatcher, poller, found,
                 updater, callVars, edits, faults, histVars>>

\* ... and waits for the jobs.
Close ==
  /\ phase = "closing"
  /\ jobs[session] = 0
  /\ pool' = [pool EXCEPT ![session] = "closed"]
  /\ SetState(p0, "Stopped")
  /\ Goto("releasing")
  /\ UNCHANGED <<gateVars, settingVars, sessionVars, nmVars, jobs, dispatcher, poller, found,
                 updater, callVars, edits, faults, histVars>>

\* FAULT: the project is released whatever its status.
StopReturnsAlways ==
  /\ phase = "releasing"
  /\ Release(p0)
  /\ Leave
  /\ UNCHANGED <<settingVars, state, sessionVars, nmVars, pool, jobs, dispatcher, found,
                 updater, edits, faults, histVars>>

\* The deferred function, which trusts the status read at the beginning.
StopReturns ==
  /\ phase = "releasing"
  /\ IF snapshot THEN Release(p0) ELSE UNCHANGED gateVars
  /\ Leave
  /\ UNCHANGED <<settingVars, state, sessionVars, nmVars, pool, jobs, dispatcher, found,
                 updater, edits, faults, histVars>>

-----------------------------------------------------------------------------
(***************************************************************************)
(* pollingScanRangeSettings and hotReloadMonitorSettings.                  *)
(***************************************************************************)

SetPoller(s, label) == poller' = [poller EXCEPT ![s] = label]

\* A tick finds settings that differ; otherwise, or when the project cannot be
\* read, nothing happens until the next.
Poll(s) ==
  /\ poller[s] = "idle"
  /\ status[owner[s]] # "absent"
  /\ applied # None /\ stored[owner[s]] # applied
  /\ SetPoller(s, "changed")
  /\ found' = [found EXCEPT ![s] = stored[owner[s]]]
  /\ UNCHANGED <<gateVars, settingVars, lockVars, state, sessionVars, nmVars, pool, jobs,
                 dispatcher, updater, callVars, edits, faults, histVars>>

ReloadGivesUp(s) ==
  /\ poller[s] = "changed"
  /\ internal # "free" \/ s \in cancelled \/ state[owner[s]] # "Running"
  /\ SetPoller(s, "idle")
  /\ UNCHANGED <<gateVars, settingVars, lockVars, state, sessionVars, nmVars, pool, jobs,
                 dispatcher, found, updater, callVars, edits, faults, histVars>>

\* FAULT: the context is not checked under the mutex.
ReloadBeginsUnchecked(s) ==
  /\ poller[s] = "changed"
  /\ internal = "free" /\ state[owner[s]] = "Running"
  /\ internal' = "poller" /\ reloader' = s /\ phase' = "updating" /\ subject' = owner[s]
  /\ SetState(owner[s], "Reloading")
  /\ SetPoller(s, "reloading")
  /\ UNCHANGED <<gateVars, settingVars, mutex, snapshot, sessionVars, nmVars, pool,
                 jobs, dispatcher, found, updater, callVars, edits, faults, histVars>>

ReloadBegins(s) ==
  /\ poller[s] = "changed"
  /\ internal = "free" /\ s \notin cancelled /\ state[owner[s]] = "Running"
  /\ internal' = "poller" /\ reloader' = s /\ phase' = "updating" /\ subject' = owner[s]
  /\ SetState(owner[s], "Reloading")
  /\ SetPoller(s, "reloading")
  /\ UNCHANGED <<gateVars, settingVars, mutex, snapshot, sessionVars, nmVars, pool,
                 jobs, dispatcher, found, updater, callVars, edits, faults, histVars>>

\* FAULT: an early return without the deferred functions.
ReloadFailsLocked ==
  /\ phase = "updating"
  /\ Fault
  /\ phase' = "out"
  /\ SetPoller(reloader, "idle")
  /\ UNCHANGED <<gateVars, settingVars, mutex, internal, subject, snapshot, reloader,
                 state, sessionVars, nmVars, pool, jobs, dispatcher, found, updater,
                 callVars, edits, histVars>>

\* GetNMManager fails: as if nothing had happened.
ReloadFails ==
  /\ phase = "updating"
  /\ Fault
  /\ SetState(p0, "Running")
  /\ Leave
  /\ UNCHANGED <<gateVars, settingVars, sessionVars, nmVars, pool, jobs, dispatcher, found,
                 updater, edits, histVars>>

\* The settings the poll found are written back, over what users have set since.
NewSettings == stored' = [stored EXCEPT ![p0] = found[reloader]] /\ UNCHANGED wanted

\* A panic is recovered; reloadStatus is still Unknown, for which the state found
\* is restored, before NM stops, after it, or after it started again.
ReloadPanics ==
  /\ Fault
  /\ \/ /\ phase = "updating"
        /\ UNCHANGED settingVars \/ NewSettings
        /\ UNCHANGED <<nm, leftBehind>>
     \/ /\ phase = "restarting"
        /\ \/ UNCHANGED nm /\ leftBehind' = TRUE
           \/ nm' = reloader /\ leftBehind' = FALSE
        /\ UNCHANGED settingVars
  /\ SetState(p0, "Running")
  /\ Leave
  /\ UNCHANGED <<gateVars, sessionVars, subscribed, applied, pool, jobs, dispatcher, found,
                 updater, edits, overrides, restopped>>

\* UpdateFullProject writes the baseline with the settings found; then NM stops.
ReloadUpdates ==
  /\ phase = "updating"
  /\ status[p0] # "absent"
  /\ NewSettings
  /\ nm' = 0
  /\ Goto("restarting")
  /\ UNCHANGED <<gateVars, state, sessionVars, subscribed, applied, goVars, callVars,
                 edits, faults, histVars>>

\* The update, or reading the project after it, fails: stop the monitor.
ReloadUpdateFails ==
  /\ phase = "updating"
  /\ ProjectFails(p0)
  /\ UNCHANGED settingVars \/ NewSettings
  /\ SetState(p0, "Running")
  /\ Goto("examining")
  /\ UNCHANGED <<gateVars, sessionVars, nmVars, goVars, callVars, edits, histVars>>

\* FAULT: the settings now in use are not recorded.
ReloadSucceedsUnrecorded ==
  /\ phase = "restarting"
  /\ nm' = reloader /\ leftBehind' = FALSE
  /\ SetState(p0, "Running")
  /\ Leave
  /\ UNCHANGED <<gateVars, settingVars, sessionVars, subscribed, applied, pool, jobs,
                 dispatcher, found, updater, edits, faults, overrides,
                 restopped>>

ReloadSucceeds ==
  /\ phase = "restarting"
  /\ nm' = reloader /\ leftBehind' = FALSE
  /\ applied' = found[reloader]
  /\ SetState(p0, "Running")
  /\ Leave
  /\ UNCHANGED <<gateVars, settingVars, sessionVars, subscribed, pool, jobs, dispatcher, found,
                 updater, edits, faults, overrides,
                 restopped>>

\* FAULT: NM does not start again, and the monitor is left as it is.
RestartFailsAndStays ==
  /\ phase = "restarting"
  /\ Fault
  /\ SetState(p0, "Running")
  /\ Leave
  /\ UNCHANGED <<gateVars, settingVars, sessionVars, nmVars, pool, jobs, dispatcher, found,
                 updater, edits, histVars>>

\* NM does not start again: stop the monitor.
RestartFails ==
  /\ phase = "restarting"
  /\ Fault
  /\ SetState(p0, "Running")
  /\ Goto("examining")
  /\ UNCHANGED <<gateVars, settingVars, sessionVars, nmVars, goVars, callVars, edits, histVars>>

-----------------------------------------------------------------------------
(***************************************************************************)
(* The other goroutines of a session.                                      *)
(***************************************************************************)

\* FAULT: the poller looks at the state of its project, not at its context.
PollerEndsByState(s) ==
  /\ poller[s] = "idle" /\ s \in cancelled /\ state[owner[s]] = "Stopped"
  /\ SetPoller(s, "ended")
  /\ UNCHANGED <<gateVars, settingVars, lockVars, state, sessionVars, nmVars, pool, jobs,
                 dispatcher, found, updater, callVars, edits, faults, histVars>>

PollerEnds(s) ==
  /\ poller[s] = "idle" /\ s \in cancelled
  /\ SetPoller(s, "ended")
  /\ UNCHANGED <<gateVars, settingVars, lockVars, state, sessionVars, nmVars, pool, jobs,
                 dispatcher, found, updater, callVars, edits, faults, histVars>>

Dispatch(s, from, to) ==
  /\ dispatcher[s] = from
  /\ dispatcher' = [dispatcher EXCEPT ![s] = to]
  /\ UNCHANGED <<gateVars, settingVars, lockVars, state, sessionVars, nmVars, pool, poller,
                 found, updater, callVars, edits, faults, histVars>>

\* A tick of dispatchScheduledTasks takes the dispatcher's mutex.
Tick(s) ==
  /\ Dispatch(s, "idle", "adding")
  /\ ~(phase = "closing" /\ session = s)
  /\ UNCHANGED jobs

\* FAULT: AddJob does not wait for a place.
AddTasksUnbounded(s) ==
  /\ Dispatch(s, "adding", "idle")
  /\ IF pool[s] = "open" THEN jobs' = [jobs EXCEPT ![s] = @ + 1] ELSE UNCHANGED jobs

\* AddJob blocks while the pool is full and refuses when it is closed.
AddTasks(s) ==
  /\ Dispatch(s, "adding", "idle")
  /\ IF pool[s] = "open"
       THEN jobs[s] < PoolSize /\ jobs' = [jobs EXCEPT ![s] = @ + 1]
       ELSE UNCHANGED jobs

DispatcherEnds(s) ==
  /\ Dispatch(s, "idle", "ended")
  /\ s \in cancelled
  /\ UNCHANGED jobs

JobEnds(s) ==
  /\ jobs[s] > 0
  /\ jobs' = [jobs EXCEPT ![s] = @ - 1]
  /\ UNCHANGED <<gateVars, settingVars, lockVars, state, sessionVars, nmVars, pool, dispatcher,
                 poller, found, updater, callVars, edits, faults, histVars>>

Update(s, from, to) ==
  /\ updater[s] = from
  /\ updater' = [updater EXCEPT ![s] = to]
  /\ UNCHANGED <<gateVars, settingVars, mutex, phase, subject, snapshot, reloader,
                 state, sessionVars, nmVars, pool, jobs, dispatcher, poller, found, callVars,
                 edits, faults, histVars>>

UpdateBegins(s) == Update(s, "idle", "working") /\ s \notin cancelled /\ UNCHANGED internal

\* The phases that read or write all of the caches try internalMutex.
UpdaterLocks(s) == Update(s, "working", "locked") /\ internal = "free" /\ internal' = "updater"

UpdaterUnlocks(s) == Update(s, "locked", "idle") /\ internal' = "free"

UpdateEnds(s) == Update(s, "working", "idle") /\ UNCHANGED internal

UpdaterEnds(s) ==
  /\ Update(s, "idle", "ended") \/ Update(s, "working", "ended")
  /\ s \in cancelled
  /\ UNCHANGED internal

-----------------------------------------------------------------------------
(***************************************************************************)
(* Users and other operations.                                             *)
(***************************************************************************)

\* A user changes the settings of an operation project.
EditSettings(p, v) ==
  /\ edits < MaxEdits
  /\ edits' = edits + 1
  /\ status[p] # "absent"
  /\ v # stored[p] \/ v # wanted[p]
  /\ stored' = [stored EXCEPT ![p] = v] /\ wanted' = [wanted EXCEPT ![p] = v]
  /\ UNCHANGED <<gateVars, lockVars, state, sessionVars, nmVars, goVars, callVars, faults,
                 histVars>>

StatusUpdate ==
  UNCHANGED <<late, settingVars, lockVars, state, sessionVars, nmVars, goVars,
                 callVars, edits, faults, restopped, leftBehind>>

\* Another operation claims and releases a project; see DeviceOperations.
OtherClaims(p) ==
  /\ Accepts(p, "Deploying")
  /\ UpdateProjectStatus(p, "Deploying")
  /\ StatusUpdate
  /\ UNCHANGED overrides

OtherReleases(p) ==
  /\ status[p] = "Deploying"
  /\ UpdateProjectStatus(p, "Idle")
  /\ StatusUpdate
  /\ UNCHANGED overrides

Override(p) ==
  overrides' = overrides + IF status[p] \in DeviceStatuses /\ status'[p] # status[p]
                             THEN 1 ELSE 0

UserUpdatesStatus(p, s) ==
  /\ overrides < MaxOverrides
  /\ s \in UserStatuses \ {"absent"}
  /\ UpdateProjectStatus(p, s)
  /\ Override(p)
  /\ StatusUpdate

DeleteProject(p) ==
  /\ overrides < MaxOverrides
  /\ "absent" \in UserStatuses
  /\ status[p] # "absent"
  /\ status' = [status EXCEPT ![p] = "absent"]
  /\ Override(p)
  /\ StatusUpdate

-----------------------------------------------------------------------------

StartStep ==
  \/ StartRefused \/ StartChecked \/ ClaimGranted \/ ClaimFails \/ Loaded \/ LoadFails
  \/ NmStarts \/ NmStartFails \/ StartSucceeds \/ StartFails

StopStep ==
  \/ StopCannotRead \/ StopBegins \/ StopFails \/ NmStops \/ Drain \/ Close \/ StopReturns

ReloadStep ==
  \/ ReloadFails \/ ReloadPanics \/ ReloadUpdates \/ ReloadUpdateFails \/ ReloadSucceeds
  \/ RestartFails

SectionStep == StartStep \/ StopStep \/ ReloadStep

PollerStep(s) == Poll(s) \/ ReloadGivesUp(s) \/ ReloadBegins(s) \/ PollerEnds(s)
DispatcherStep(s) == Tick(s) \/ AddTasks(s) \/ DispatcherEnds(s) \/ JobEnds(s)
UpdaterStep(s) ==
  UpdateBegins(s) \/ UpdaterLocks(s) \/ UpdaterUnlocks(s) \/ UpdateEnds(s) \/ UpdaterEnds(s)

UserStep(p) ==
  \/ \E v \in Settings : EditSettings(p, v)
  \/ OtherClaims(p) \/ OtherReleases(p) \/ DeleteProject(p)
  \/ \E s \in AllStatuses : UserUpdatesStatus(p, s)

Next ==
  \/ \E c \in Calls :
       \/ \E op \in {"start", "stop"}, p \in Projects : Call(c, op, p)
       \/ TryLock(c) \/ GiveUp(c) \/ Lock(c)
  \/ SectionStep
  \/ \E s \in Sessions : PollerStep(s) \/ DispatcherStep(s) \/ UpdaterStep(s)
  \/ \E p \in Projects : UserStep(p) \/ \E s \in {"Idle", "Monitoring"} : ServeLate(p, s)

Spec == Init /\ [][Next]_vars

\* Goroutines that can run do, and both mutexes and the dispatcher's serve every
\* waiter.  Of a select whose branches are both ready each is taken at some
\* time.  A call and the end of a goroutine take finitely many steps, so fairness
\* of all of them together is enough.  TryLock in a reload is given no such
\* promise by the code; it is assumed that the polls (every 5 s) do not always
\* meet an update (every 7 s).
Fairness ==
  /\ SF_vars(\E c \in Calls : TryLock(c) \/ GiveUp(c) \/ Lock(c))
  /\ SF_vars(SectionStep)
  /\ SF_vars(internal = "free" /\ \E s \in Sessions \ cancelled : Poll(s))
  /\ SF_vars(\E s \in Sessions : ReloadBegins(s))
  /\ SF_vars(\E s \in Sessions : PollerEnds(s) \/ DispatcherEnds(s))
  /\ \A s \in Sessions :
       /\ WF_vars(ReloadGivesUp(s))
       /\ WF_vars(AddTasks(s) \/ JobEnds(s))
       /\ WF_vars(UpdaterUnlocks(s) \/ UpdateEnds(s) \/ UpdaterEnds(s))

FairSpec == Spec /\ Fairness

-----------------------------------------------------------------------------
(***************************************************************************)
(* Properties.                                                             *)
(***************************************************************************)

MonitorStates == {"none", "Starting", "Running", "Reloading", "Stopping", "Stopped"}
Phases == {"out", "checking", "claiming", "loading", "starting", "started", "failing",
           "examining", "stopping", "draining", "closing", "releasing", "updating",
           "restarting"}

\* Type invariant.
TypeOK ==
  /\ StatusTypeOK
  /\ stored \in [Projects -> Settings] /\ wanted \in [Projects -> Settings]
  /\ late \subseteq Projects \X {"Idle", "Monitoring"}
  /\ mutex \in Calls \cup {None}
  /\ internal \in {"free", "call", "poller", "updater"}
  /\ phase \in Phases
  /\ subject \in Projects \cup {None}
  /\ snapshot \in BOOLEAN
  /\ reloader \in 0 .. MaxSessions
  /\ state \in [Projects -> MonitorStates]
  /\ session \in 0 .. MaxSessions
  /\ owner \in [Sessions -> Projects \cup {None}]
  /\ cancelled \subseteq Sessions
  /\ nm \in 0 .. MaxSessions
  /\ subscribed \in 0 .. MaxSessions
  /\ applied \in Settings \cup {None}
  /\ pool \in [Sessions -> {"none", "open", "closed"}]
  /\ jobs \in [Sessions -> 0 .. PoolSize]
  /\ dispatcher \in [Sessions -> {"off", "idle", "adding", "ended"}]
  /\ poller \in [Sessions -> {"off", "idle", "changed", "reloading", "ended"}]
  /\ found \in [Sessions -> Settings \cup {None}]
  /\ updater \in [Sessions -> {"off", "idle", "working", "locked", "ended"}]
  /\ pc \in [Calls -> {"ready", "trying", "locking", "inside", "done"}]
  /\ target \in [Calls -> [op : {"start", "stop"}, project : Projects] \cup {NoTarget}]
  /\ edits \in 0 .. MaxEdits
  /\ faults \in 0 .. MaxFaults
  /\ overrides \in 0 .. MaxOverrides /\ restopped \in BOOLEAN /\ leftBehind \in BOOLEAN

\* While a project is monitored its status says so, hence no operation of any
\* module works on a device; whatever claims and releases come late, unless a
\* user takes the status away or stops the project again while the release of
\* the first stop is still to be served.
MonitorUnderStatus ==
  overrides = 0 /\ ~restopped => \A p \in Projects : Active(p) => status[p] = "Monitoring"

\* NM runs for the latest session only, which is not cancelled and whose project
\* is the one the state map has as active: no goroutine an earlier session
\* left behind starts it.
NmHasItsSession ==
  nm # 0 => /\ nm = session /\ nm \notin cancelled
            /\ \A p \in Projects : Active(p) <=> p = owner[nm]

\* A project that is Running, once nobody is at work on it, has all that belongs to
\* its monitor: the latest session, live, its subscription, settings and an open
\* pool, and NM itself but after a reload that stopped NM and then panicked, or
\* failed and could not be stopped, until NM is started again.
RunningIsBacked ==
  internal = "free" =>
    \A p \in Projects : state[p] = "Running" =>
      /\ session # 0 /\ session \notin cancelled /\ owner[session] = p
      /\ subscribed = session /\ applied # None /\ pool[session] = "open"
      /\ nm = session \/ leftBehind

\* When no monitor is active nothing of any session is left at work: NM, the
\* subscription, jobs of its tasks, an open pool or a live context.
StoppedIsQuiet ==
  (\A p \in Projects : ~Active(p)) =>
    /\ nm = 0 /\ subscribed = 0 /\ applied = None
    /\ \A s \in 1 .. session : s \in cancelled /\ jobs[s] = 0 /\ pool[s] # "open"

\* Under the proviso of MonitorUnderStatus, a stop or a failing start frees a
\* project from Monitoring only: it never ends the claim of another operation.
MonitorReleasesItsOwn ==
  [][overrides = 0 /\ ~restopped /\ phase \in {"failing", "releasing"}
     => \A p \in Projects :
          phase' = "out" /\ status'[p] # status[p] => status[p] = "Monitoring"]_vars

\* Start and Stop return, whatever reloads, updates and jobs are under way.
CallsReturn == \A c \in Calls : pc[c] = "trying" ~> pc[c] = "done"

\* The goroutines of a session end after it, also beside a later session.
GoroutinesEnd ==
  \A s \in Sessions : s \in cancelled ~>
    /\ poller[s] \in {"off", "ended"} /\ updater[s] \in {"off", "ended"}
    /\ dispatcher[s] \in {"off", "ended"}

\* A reload has written older settings over those a user has set since its poll.
EditLost(p) == stored[p] # wanted[p]

\* What users set while a monitor runs reaches NM, also when reloads fail or
\* panic, unless the monitor stops or a reload that found an earlier edit writes
\* it back over this one.  A panicked reload is made good by the next, if its
\* settings are still wanted.
SettingsConverge ==
  \A p \in Projects :
    state[p] = "Running" /\ wanted[p] # applied ~>
      \/ state[p] = "Running" /\ wanted[p] = applied /\ (nm # 0 \/ leftBehind)
      \/ EditLost(p) \/ state[p] = "Stopped" \/ status[p] = "absent"

=============================================================================

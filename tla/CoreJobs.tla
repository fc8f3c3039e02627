------------------------------ MODULE CoreJobs ------------------------------
(***************************************************************************)
(* The websocket jobs of cogsworth (ActCore): at most one thread per       *)
(* project, kept in ws_thread_handler_pools together with the promise that *)
(* stops it.  Requests are served one at a time under g_core.mutex_, which *)
(* a request keeps while it joins a thread; the threads themselves write   *)
(* project_status_list and the system status without any lock.             *)
(*                                                                         *)
(* Four kinds of job stand for the twenty that share their shape: a        *)
(* project job that may run beside the monitor (Computing), one that may   *)
(* not (Scanning), a device configuration over the websocket, which never  *)
(* writes the project's status (DeviceConfiguring), and the monitor, which *)
(* runs until it is stopped.                                               *)
(***************************************************************************)
EXTENDS ProjectStatus, Naturals

CONSTANTS
  MaxStarts,     \* bound: job threads ever spawned
  Kinds,         \* kinds of job users start
  GateStatuses   \* statuses sebastian requests at the gate

ASSUME CoreAssumption ==
  /\ MaxStarts \in Nat
  /\ Kinds \subseteq {"Computing", "Scanning", "DeviceConfiguring", "Monitoring"}
  /\ GateStatuses \subseteq AllStatuses
  /\ "none" \notin Projects

\* ActMonitorConcurrentJobStatus
ConcurrentKinds == {"Computing", "DeviceConfiguring"}

Threads == 1 .. MaxStarts
NoThread == 0

VARIABLES
  systemStatus,    \* Idle or Monitoring
  monitorProject,  \* id of monitor_project_, or "none"
  pool,            \* per project: its entry of ws_thread_handler_pools
  spawned,         \* number of threads spawned
  at,              \* where each thread is
  job,             \* project and kind of each thread
  signalled,       \* threads whose promise has been set
  joined,          \* threads that have been joined
  handler,         \* the request that holds g_core.mutex_
  crashed          \* std::terminate was called

threadVars == <<spawned, job, joined>>
vars == <<status, systemStatus, monitorProject, pool, spawned, at, job, signalled,
          joined, handler, crashed>>

Free == [request |-> "none", project |-> "none", kind |-> "none", phase |-> "none"]

Init ==
  /\ InitStatus
  /\ systemStatus = "Idle"
  /\ monitorProject = "none"
  /\ pool = [p \in Projects |-> NoThread]
  /\ spawned = 0
  /\ at = [t \in Threads |-> "new"]
  /\ job = [t \in Threads |-> [project |-> "none", kind |-> "none"]]
  /\ signalled = {}
  /\ joined = {}
  /\ handler = Free
  /\ crashed = FALSE

-----------------------------------------------------------------------------
(***************************************************************************)
(* Requests.  One that is refused changes nothing and is left out.         *)
(***************************************************************************)

\* A start request, up to the check of the system status.
StartRequest(p, k) ==
  /\ handler = Free
  /\ spawned < MaxStarts
  /\ status[p] # "absent"
  /\ systemStatus = "Idle" \/ k \in ConcurrentKinds
  /\ handler' = [request |-> "start", project |-> p, kind |-> k, phase |-> "checking"]
  /\ UNCHANGED <<status, systemStatus, monitorProject, pool, at, signalled, crashed>>
  /\ UNCHANGED threadVars

\* The thread is created and put into the pool; the request returns.
Spawn ==
  LET t == spawned + 1
      p == handler.project
  IN /\ spawned' = t
     /\ at' = [at EXCEPT ![t] = "starting"]
     /\ job' = [job EXCEPT ![t] = [project |-> p, kind |-> handler.kind]]
     /\ pool' = [pool EXCEPT ![p] = t]
     /\ handler' = Free

StartWithEmptyPool ==
  /\ handler.phase = "checking"
  /\ pool[handler.project] = NoThread
  /\ Spawn
  /\ UNCHANGED <<status, systemStatus, monitorProject, signalled, joined, crashed>>

\* Whether the thread in the pool counts as over, or as a monitor the new job
\* may run beside.
MayReplace(p, k) ==
  \/ status[p] \in FreeStatuses
  \/ status[p] = "Monitoring" /\ k \in ConcurrentKinds

StartRefused ==
  /\ handler.phase = "checking"
  /\ pool[handler.project] # NoThread
  /\ ~MayReplace(handler.project, handler.kind)
  /\ handler' = Free
  /\ UNCHANGED <<status, systemStatus, monitorProject, pool, at, signalled, crashed>>
  /\ UNCHANGED threadVars

\* FAULT: the previous thread's handle is overwritten, not joined.
StartWithoutJoin ==
  /\ handler.phase = "checking"
  /\ pool[handler.project] # NoThread
  /\ MayReplace(handler.project, handler.kind)
  /\ Spawn
  /\ UNCHANGED <<status, systemStatus, monitorProject, signalled, joined, crashed>>

\* The previous thread is joined; its promise is not set.
StartJoins ==
  /\ handler.phase = "checking"
  /\ pool[handler.project] # NoThread
  /\ MayReplace(handler.project, handler.kind)
  /\ handler' = [handler EXCEPT !.phase = "joining"]
  /\ UNCHANGED <<status, systemStatus, monitorProject, pool, at, signalled, crashed>>
  /\ UNCHANGED threadVars

\* RemoveWSJob up to its join: the promise is set, once or again.
SignalAndJoin(p, request) ==
  /\ pool[p] # NoThread
  /\ signalled' = signalled \cup {pool[p]}
  /\ handler' = [request |-> request, project |-> p, kind |-> "none",
                 phase |-> "joining"]

\* FAULT: an entry of the pool is taken for granted.
StopAnything(p) ==
  /\ handler = Free
  /\ signalled' = signalled \cup {pool[p]}
  /\ handler' = [request |-> "stop", project |-> p, kind |-> "none",
                 phase |-> "joining"]
  /\ UNCHANGED <<status, systemStatus, monitorProject, pool, at, crashed>>
  /\ UNCHANGED threadVars

\* FAULT: the promise is not set.
StopWithoutSignal(p) ==
  /\ handler = Free
  /\ pool[p] # NoThread
  /\ handler' = [request |-> "stop", project |-> p, kind |-> "none",
                 phase |-> "joining"]
  /\ UNCHANGED <<status, systemStatus, monitorProject, pool, at, signalled, crashed>>
  /\ UNCHANGED threadVars

\* Any of the stop commands but StopMonitor: none looks at the kind of job.
StopRequest(p) ==
  /\ handler = Free
  /\ SignalAndJoin(p, "stop")
  /\ UNCHANGED <<status, systemStatus, monitorProject, pool, at, crashed>>
  /\ UNCHANGED threadVars

\* StopMonitor forgets the monitored project even when p runs nothing.
StopMonitorRequest(p) ==
  /\ handler = Free
  /\ \/ /\ SignalAndJoin(p, "stopMonitor")
        /\ UNCHANGED monitorProject
     \/ /\ pool[p] = NoThread
        /\ monitorProject' = "none"
        /\ UNCHANGED <<signalled, handler>>
  /\ UNCHANGED <<status, systemStatus, pool, at, crashed>>
  /\ UNCHANGED threadVars

ForgetMonitored(p) ==
  monitorProject' = IF monitorProject = p THEN "none" ELSE monitorProject

\* FAULT: the project is deleted beside its job.
DeleteBesideJob(p) ==
  /\ handler = Free
  /\ status[p] # "absent"
  /\ ~(monitorProject = p /\ status[p] = "Monitoring")
  /\ ForgetMonitored(p)
  /\ status' = [status EXCEPT ![p] = "absent"]
  /\ UNCHANGED <<systemStatus, pool, at, signalled, handler, crashed>>
  /\ UNCHANGED threadVars

\* DELETE /project: refused for the monitored project; a job is removed first.
DeleteRequest(p) ==
  /\ handler = Free
  /\ ~(monitorProject = p /\ status[p] = "Monitoring")
  /\ ForgetMonitored(p)
  /\ \/ /\ status[p] = "absent"
        /\ UNCHANGED <<status, signalled, handler>>
     \/ SignalAndJoin(p, "delete") /\ UNCHANGED status
     \/ /\ status[p] # "absent"
        /\ pool[p] = NoThread
        /\ status' = [status EXCEPT ![p] = "absent"]
        /\ UNCHANGED <<signalled, handler>>
  /\ UNCHANGED <<systemStatus, pool, at, crashed>>
  /\ UNCHANGED threadVars

\* PUT /project/{id}/status, by which sebastian claims and releases projects.
GateRequest(p, s) ==
  /\ handler = Free
  /\ UpdateProjectStatus(p, s)
  /\ UNCHANGED <<systemStatus, monitorProject, pool, at, signalled, handler, crashed>>
  /\ UNCHANGED threadVars

\* thread_ptr->join() returned; the entry leaves the pool.
JoinReturns ==
  LET t == pool[handler.project] IN
  /\ handler.phase = "joining"
  /\ at[t] = "ended"
  /\ joined' = joined \cup {t}
  /\ UNCHANGED <<systemStatus, signalled, crashed>>

StartAfterJoin ==
  /\ handler.request = "start"
  /\ JoinReturns
  /\ Spawn
  /\ UNCHANGED <<status, monitorProject>>

\* Back in StopWSJob, StopMonitor or DeleteProject.
RemoveAfterJoin ==
  LET p == handler.project IN
  /\ handler.request # "start"
  /\ JoinReturns
  /\ pool' = [pool EXCEPT ![p] = NoThread]
  /\ status' = [status EXCEPT ![p] =
                  IF handler.request = "delete" THEN "absent" ELSE "Aborted"]
  /\ monitorProject' = IF handler.request = "stopMonitor" THEN "none" ELSE monitorProject
  /\ handler' = Free
  /\ UNCHANGED <<at, spawned, job>>

HandlerStep ==
  \/ StartWithEmptyPool \/ StartRefused \/ StartJoins
  \/ StartAfterJoin \/ RemoveAfterJoin

-----------------------------------------------------------------------------
(***************************************************************************)
(* Job threads.                                                            *)
(***************************************************************************)

\* The kinds whose threads keep the project's status.
StatusKinds == {"Computing", "Scanning", "Monitoring"}

\* A thread moves on and, unless its kind is silent, sets its project's status.
Move(t, from, to) == at[t] = from /\ at' = [at EXCEPT ![t] = to]

SetStatus(t, s) ==
  status' = IF job[t].kind \in StatusKinds
              THEN [status EXCEPT ![job[t].project] = s] ELSE status

handlerVars == <<pool, signalled, handler>>

\* The job's engine refuses to start: the thread leaves the status alone.
JobFailsToStart(t) ==
  /\ Move(t, "starting", "ended")
  /\ job[t].kind # "Monitoring"
  /\ UNCHANGED <<status, systemStatus, monitorProject, crashed>>
  /\ UNCHANGED <<handlerVars, threadVars>>

JobRuns(t) ==
  /\ Move(t, "starting", "running")
  /\ job[t].kind # "Monitoring"
  /\ SetStatus(t, job[t].kind)
  /\ UNCHANGED <<systemStatus, monitorProject, crashed>>
  /\ UNCHANGED <<handlerVars, threadVars>>

\* The job ended, well or with an error: either way the status says Finished
\* before the results are written back.
JobCompletes(t) ==
  /\ Move(t, "running", "finishing")
  /\ job[t].kind # "Monitoring"
  /\ SetStatus(t, "Finished")
  /\ UNCHANGED <<systemStatus, monitorProject, crashed>>
  /\ UNCHANGED <<handlerVars, threadVars>>

\* The results are written back into the project.
JobEnds(t) ==
  /\ Move(t, "finishing", "ended")
  /\ UNCHANGED <<status, systemStatus, monitorProject, crashed>>
  /\ UNCHANGED <<handlerVars, threadVars>>

\* FAULT: an aborted job returns without setting the status.
JobAbortsSilently(t) ==
  /\ Move(t, "running", "ended")
  /\ t \in signalled
  /\ job[t].kind # "Monitoring"
  /\ UNCHANGED <<status, systemStatus, monitorProject, crashed>>
  /\ UNCHANGED <<handlerVars, threadVars>>

\* The wait returns because the promise is set while the job still runs.
JobAborts(t) ==
  /\ Move(t, "running", "ended")
  /\ t \in signalled
  /\ job[t].kind # "Monitoring"
  /\ SetStatus(t, "Aborted")
  /\ UNCHANGED <<systemStatus, monitorProject, crashed>>
  /\ UNCHANGED <<handlerVars, threadVars>>

MonitorAt(labels) == \E u \in Threads : job[u].kind = "Monitoring" /\ at[u] \in labels

\* StartMonitorProcessEngine.  The process thread of another monitor is
\* overwritten, which is std::terminate while it is joinable; a monitor that
\* is closing may or may not have joined its own.
MonitorStartsEngine(t) ==
  /\ Move(t, "starting", "engine")
  /\ job[t].kind = "Monitoring"
  /\ monitorProject' = job[t].project
  /\ systemStatus' = "Monitoring"
  /\ crashed' \in {MonitorAt({"engine", "running"}),
                   MonitorAt({"engine", "running", "closing"})}
  /\ UNCHANGED status
  /\ UNCHANGED <<handlerVars, threadVars>>

\* After one second the project's status follows.
MonitorRuns(t) ==
  /\ Move(t, "engine", "running")
  /\ job[t].kind = "Monitoring"
  /\ SetStatus(t, "Monitoring")
  /\ UNCHANGED <<systemStatus, monitorProject, crashed>>
  /\ UNCHANGED <<handlerVars, threadVars>>

\* The loop ends on the promise only; StopMonitorProcessEngine.
MonitorStopsEngine(t) ==
  /\ Move(t, "running", "closing")
  /\ job[t].kind = "Monitoring"
  /\ t \in signalled
  /\ systemStatus' = "Idle"
  /\ UNCHANGED <<status, monitorProject, crashed>>
  /\ UNCHANGED <<handlerVars, threadVars>>

MonitorEnds(t) ==
  /\ Move(t, "closing", "ended")
  /\ SetStatus(t, "Finished")
  /\ UNCHANGED <<systemStatus, monitorProject, crashed>>
  /\ UNCHANGED <<handlerVars, threadVars>>

ThreadStep(t) ==
  \/ JobFailsToStart(t) \/ JobRuns(t) \/ JobCompletes(t) \/ JobEnds(t) \/ JobAborts(t)
  \/ MonitorStartsEngine(t) \/ MonitorRuns(t) \/ MonitorStopsEngine(t) \/ MonitorEnds(t)

-----------------------------------------------------------------------------

Request(p) ==
  \/ \E k \in Kinds : StartRequest(p, k)
  \/ StopRequest(p) \/ StopMonitorRequest(p) \/ DeleteRequest(p)
  \/ \E s \in GateStatuses : GateRequest(p, s)

Next ==
  /\ ~crashed
  /\ \/ \E p \in Projects : Request(p)
     \/ HandlerStep
     \/ \E t \in Threads : ThreadStep(t)

Spec == Init /\ [][Next]_vars

\* The thread that serves a request and the job threads are scheduled, and a
\* job other than the monitor ends (its device and engine calls time out).
Fairness ==
  /\ WF_vars(~crashed /\ HandlerStep)
  /\ \A t \in Threads : WF_vars(~crashed /\ ThreadStep(t))

FairSpec == Spec /\ Fairness

-----------------------------------------------------------------------------
(***************************************************************************)
(* Properties.                                                             *)
(***************************************************************************)

\* Type invariant: in particular only threads that exist are signalled and
\* joined.
TypeOK ==
  /\ StatusTypeOK
  /\ systemStatus \in {"Idle", "Monitoring"}
  /\ monitorProject \in Projects \cup {"none"}
  /\ pool \in [Projects -> Threads \cup {NoThread}]
  /\ spawned \in 0 .. MaxStarts
  /\ at \in [Threads -> {"new", "starting", "engine", "running", "finishing",
                         "closing", "ended"}]
  /\ job \in [Threads -> [project : Projects \cup {"none"}, kind : Kinds \cup {"none"}]]
  /\ signalled \subseteq Threads
  /\ joined \subseteq Threads
  /\ handler \in [request : {"none", "start", "stop", "stopMonitor", "delete"},
                  project : Projects \cup {"none"}, kind : Kinds \cup {"none"},
                  phase : {"none", "checking", "joining"}]
  /\ crashed \in BOOLEAN

\* No thread's handle is dropped before the thread is joined (the destructor
\* of a joinable std::thread terminates the process): a thread that was not
\* joined is its project's entry in the pool, hence also its only one.
NoJoinableThreadDropped ==
  \A t \in Threads : at[t] # "new" /\ t \notin joined => pool[job[t].project] = t

Alive(t) == at[t] \notin {"new", "ended"}

\* No job works on a project that has been deleted, although a delete may
\* come at any moment of the job and job threads check the project only once.
DeletedProjectsHaveNoJob ==
  \A t \in Threads : Alive(t) => status[job[t].project] # "absent"

\* A project never stays in a status no job will take it out of: a status
\* that only job threads set is that of the live thread in the pool.
StatusHasAJob ==
  \A p \in Projects : status[p] \in StatusKinds \ GateStatuses =>
    /\ pool[p] # NoThread
    /\ Alive(pool[p])
    /\ job[pool[p]] = [project |-> p, kind |-> status[p]]

\* A start that joins the monitor, which nobody told to stop.
JoinsMonitor ==
  /\ handler.request = "start" /\ handler.phase = "joining"
  /\ job[pool[handler.project]].kind = "Monitoring"

\* Every request gives g_core.mutex_ back, although it may join a job it did
\* not stop; but not one that joins the monitor, nor after a second monitor has
\* crashed the server.
RequestsReturn == handler # Free ~> (handler = Free \/ crashed \/ JoinsMonitor)

\* "Only device config job can be run concurrently with the monitor job":
\* starting a job beside the monitor returns.
StartBesideMonitorReturns == handler.request = "start" ~> (handler = Free \/ crashed)

=============================================================================

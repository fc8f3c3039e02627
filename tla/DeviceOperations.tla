--------------------------- MODULE DeviceOperations ---------------------------
(***************************************************************************)
(* The device operations of sebastian - deployment, topology mapping and   *)
(* the six operations of modules/operations - and the status gate of       *)
(* cogsworth they share.                                                   *)
(*                                                                         *)
(* Each operation is a singleton with two unsynchronised fields, wsConnId  *)
(* and stopFlag; every start request runs in a goroutine of its own.  A    *)
(* call is one start request.  It resets the singleton's fields, claims    *)
(* its project over HTTP, works, answers, and releases the project in a    *)
(* deferred function.  An HTTP request is a message: the caller may time   *)
(* out (5 s) while cogsworth has yet to serve it.                          *)
(***************************************************************************)
EXTENDS ProjectStatus, Naturals, Sequences

CONSTANTS
  Calls,         \* start requests, each from a connection of its own
  Modules,       \* the singletons in use
  HttpTimeouts,  \* whether an HTTP request may time out at the caller
  UserStatuses,  \* what users set a status to over the REST API; "absent" stands
                 \* for deleting the project
  MaxOverrides   \* bound on how often users take a project out of a device status

ASSUME OperationsAssumption ==
  /\ Modules \subseteq {"deploy", "topologymapping", "reboot", "factorydefault",
                        "locator", "exportconfig", "importconfig", "firmwareupgrade"}
  /\ HttpTimeouts \in BOOLEAN
  /\ UserStatuses \subseteq AllStatuses \cup {"absent"}
  /\ MaxOverrides \in Nat
  /\ "none" \notin Calls

\* The status an operation claims for its project.
ClaimedStatus(m) ==
  IF m \in {"deploy", "topologymapping"} THEN "Deploying" ELSE "DeviceConfiguring"

VARIABLES
  pc,         \* ready, starting, claiming, working, finishing, closing, releasing,
              \* done; gone if it gave up on its claim
  target,     \* the module and project of each call, or NoTarget
  request,    \* the HTTP request of each call: none, claim, granted, refused,
              \* release, released
  wsConnId,   \* per module: the call whose connection gets the responses
  stopFlag,   \* per module
  answers,    \* history: terminal responses of each call, with their receiver
  stopped,    \* history: calls a stop request reached while they worked
  disturbed,  \* history: live calls whose module was started again
  overrides   \* history: how often a user took a project out of a device status

opVars == <<pc, target, request, wsConnId, stopFlag, answers, stopped, disturbed>>
vars == <<status, opVars, overrides>>

NoTarget == [module |-> "none", project |-> "none"]
module(c) == target[c].module
project(c) == target[c].project

Init ==
  /\ InitStatus
  /\ pc = [c \in Calls |-> "ready"]
  /\ target = [c \in Calls |-> NoTarget]
  /\ request = [c \in Calls |-> "none"]
  /\ wsConnId = [m \in Modules |-> "none"]
  /\ stopFlag = [m \in Modules |-> FALSE]
  /\ answers = [c \in Calls |-> <<>>]
  /\ stopped = {}
  /\ disturbed = {}
  /\ overrides = 0

-----------------------------------------------------------------------------

Ended(c) == pc[c] \in {"done", "gone"}
Live(c) == pc[c] # "ready" /\ ~Ended(c)
Goto(c, label) == pc' = [pc EXCEPT ![c] = label]

\* onFailedResponse and onCompletedResponse go to the singleton's wsConnId.
Answer(c, verdict) ==
  answers' = [answers EXCEPT ![c] =
                Append(@, [verdict |-> verdict, to |-> wsConnId[module(c)]])]

\* FAULT: the connection is not recorded.
StartWithoutConnection(c, m, p) ==
  /\ pc[c] = "ready"
  /\ Goto(c, "starting")
  /\ target' = [target EXCEPT ![c] = [module |-> m, project |-> p]]
  /\ stopFlag' = [stopFlag EXCEPT ![m] = FALSE]
  /\ disturbed' = disturbed \cup {d \in Calls : Live(d) /\ module(d) = m}
  /\ UNCHANGED <<status, request, wsConnId, answers, stopped, overrides>>

\* The handler goroutine enters the operation: connection and stop flag of the
\* singleton are overwritten before anything is checked.
Start(c, m, p) ==
  /\ pc[c] = "ready"
  /\ Goto(c, "starting")
  /\ target' = [target EXCEPT ![c] = [module |-> m, project |-> p]]
  /\ wsConnId' = [wsConnId EXCEPT ![m] = c]
  /\ stopFlag' = [stopFlag EXCEPT ![m] = FALSE]
  /\ disturbed' = disturbed \cup {d \in Calls : Live(d) /\ module(d) = m}
  /\ UNCHANGED <<status, request, answers, stopped, overrides>>

\* Topology mapping reads the device profiles before it claims the project.
FailBeforeClaim(c) ==
  /\ pc[c] = "starting"
  /\ module(c) = "topologymapping"
  /\ Answer(c, "failed")
  /\ Goto(c, "done")
  /\ UNCHANGED <<status, target, request, wsConnId, stopFlag, stopped, disturbed,
                 overrides>>

SendClaim(c) ==
  /\ pc[c] = "starting"
  /\ Goto(c, "claiming")
  /\ request' = [request EXCEPT ![c] = "claim"]
  /\ UNCHANGED <<status, target, wsConnId, stopFlag, answers, stopped, disturbed,
                 overrides>>

\* cogsworth serves the claim.
ServeClaim(c) ==
  LET s == ClaimedStatus(module(c)) IN
  /\ request[c] = "claim"
  /\ UpdateProjectStatus(project(c), s)
  /\ request' = [request EXCEPT ![c] =
                   IF Accepts(project(c), s) THEN "granted" ELSE "refused"]
  /\ UNCHANGED <<pc, target, wsConnId, stopFlag, answers, stopped, disturbed,
                 overrides>>

ClaimGranted(c) ==
  /\ pc[c] = "claiming"
  /\ request[c] = "granted"
  /\ Goto(c, "working")
  /\ UNCHANGED <<status, target, request, wsConnId, stopFlag, answers, stopped,
                 disturbed, overrides>>

\* FAULT: a refused start goes on.
ClaimIgnored(c) ==
  /\ pc[c] = "claiming"
  /\ request[c] = "refused"
  /\ Goto(c, "working")
  /\ UNCHANGED <<status, target, request, wsConnId, stopFlag, answers, stopped,
                 disturbed, overrides>>

\* Refused: answer and return; the deferred function is not yet registered.
ClaimRefused(c) ==
  /\ pc[c] = "claiming"
  /\ request[c] = "refused"
  /\ Answer(c, "failed")
  /\ Goto(c, "done")
  /\ UNCHANGED <<status, target, request, wsConnId, stopFlag, stopped, disturbed,
                 overrides>>

\* The request timed out: to the caller this is a refusal, but the request
\* stays with cogsworth, which may serve it later or has just served it.
ClaimTimesOut(c) ==
  /\ HttpTimeouts
  /\ pc[c] = "claiming"
  /\ Answer(c, "failed")
  /\ Goto(c, "gone")
  /\ UNCHANGED <<status, target, request, wsConnId, stopFlag, stopped, disturbed,
                 overrides>>

-----------------------------------------------------------------------------
(***************************************************************************)
(* The work.  "working" is the part with checkpoints, "finishing" what     *)
(* follows the last one.                                                   *)
(***************************************************************************)

Step(c, from, to) ==
  /\ pc[c] = from
  /\ Goto(c, to)
  /\ UNCHANGED <<status, target, request, wsConnId, stopFlag, stopped, disturbed,
                 overrides>>

\* FAULT: a checkpoint that sees the flag clears it.
SeeStopAndClear(c) ==
  /\ pc[c] = "working"
  /\ Goto(c, "closing")
  /\ stopFlag[module(c)]
  /\ stopFlag' = [stopFlag EXCEPT ![module(c)] = FALSE]
  /\ UNCHANGED <<status, target, request, wsConnId, answers, stopped, disturbed,
                 overrides>>

\* A checkpoint sees the flag: return without an answer, the deferred
\* function gives it.
SeeStop(c) ==
  /\ Step(c, "working", "closing")
  /\ stopFlag[module(c)]
  /\ UNCHANGED answers

PassLastCheckpoint(c) ==
  /\ Step(c, "working", "finishing")
  /\ ~stopFlag[module(c)]
  /\ UNCHANGED answers

\* FAULT: a failed operation returns without the deferred function.
FailWithoutRelease(c) ==
  /\ \/ Step(c, "working", "done")
     \/ Step(c, "finishing", "done")
  /\ Answer(c, "failed")

\* Any call to cogsworth or to the device manager may fail.
Fail(c) ==
  /\ \/ Step(c, "working", "closing")
     \/ Step(c, "finishing", "closing")
  /\ Answer(c, "failed")

Complete(c) ==
  /\ Step(c, "finishing", "closing")
  /\ Answer(c, "completed")

\* FAULT: the deferred function gives no stop answer after an error answer.
CloseOnce(c) ==
  /\ pc[c] = "closing"
  /\ IF stopFlag[module(c)] /\ answers[c] = <<>>
       THEN Answer(c, "stopped") ELSE UNCHANGED answers
  /\ Goto(c, "releasing")
  /\ request' = [request EXCEPT ![c] = "release"]
  /\ UNCHANGED <<status, target, wsConnId, stopFlag, stopped, disturbed, overrides>>

\* The deferred function: the stop answer, then the release is sent.
Close(c) ==
  /\ pc[c] = "closing"
  /\ IF stopFlag[module(c)] THEN Answer(c, "stopped") ELSE UNCHANGED answers
  /\ Goto(c, "releasing")
  /\ request' = [request EXCEPT ![c] = "release"]
  /\ UNCHANGED <<status, target, wsConnId, stopFlag, stopped, disturbed, overrides>>

\* cogsworth serves the release, a plain update to Idle.
ServeRelease(c) ==
  /\ request[c] = "release"
  /\ UpdateProjectStatus(project(c), "Idle")
  /\ request' = [request EXCEPT ![c] = "released"]
  /\ UNCHANGED <<pc, target, wsConnId, stopFlag, answers, stopped, disturbed,
                 overrides>>

\* The goroutine ends: on the reply or, the error only logged, on a timeout.
Return(c) ==
  /\ request[c] = "released" \/ HttpTimeouts
  /\ Step(c, "releasing", "done")
  /\ UNCHANGED answers

-----------------------------------------------------------------------------
(***************************************************************************)
(* Users.                                                                  *)
(***************************************************************************)

\* The stop command of a module.
Stop(m) ==
  /\ stopFlag' = [stopFlag EXCEPT ![m] = TRUE]
  /\ stopped' = stopped \cup {c \in Calls : pc[c] = "working" /\ module(c) = m}
  /\ UNCHANGED <<status, pc, target, request, wsConnId, answers, disturbed,
                 overrides>>

Override(p) ==
  overrides' = overrides + IF status[p] \in DeviceStatuses /\ status'[p] # status[p]
                             THEN 1 ELSE 0

\* PUT /project/{id}/status by a user.
UserUpdatesStatus(p, s) ==
  /\ overrides < MaxOverrides
  /\ s \in UserStatuses \ {"absent"}
  /\ UpdateProjectStatus(p, s)
  /\ Override(p)
  /\ UNCHANGED opVars

\* DELETE /project by a user: no check that an operation works on it.
DeleteProject(p) ==
  /\ overrides < MaxOverrides
  /\ "absent" \in UserStatuses
  /\ status[p] # "absent"
  /\ status' = [status EXCEPT ![p] = "absent"]
  /\ Override(p)
  /\ UNCHANGED opVars

-----------------------------------------------------------------------------

CallStep(c) ==
  \/ FailBeforeClaim(c) \/ SendClaim(c)
  \/ ClaimGranted(c) \/ ClaimRefused(c) \/ ClaimTimesOut(c)
  \/ SeeStop(c) \/ PassLastCheckpoint(c) \/ Fail(c) \/ Complete(c)
  \/ Close(c) \/ Return(c)

Serve(c) == ServeClaim(c) \/ ServeRelease(c)

Next ==
  \/ \E c \in Calls, m \in Modules, p \in Projects : Start(c, m, p)
  \/ \E c \in Calls : CallStep(c) \/ Serve(c)
  \/ \E m \in Modules : Stop(m)
  \/ \E p \in Projects : DeleteProject(p) \/ \E s \in AllStatuses : UserUpdatesStatus(p, s)

Spec == Init /\ [][Next]_vars

\* A goroutine that can run does, and cogsworth serves what reaches it; users
\* owe nothing.
Fairness == \A c \in Calls : WF_vars(CallStep(c)) /\ WF_vars(Serve(c))

FairSpec == Spec /\ Fairness

-----------------------------------------------------------------------------
(***************************************************************************)
(* Properties.                                                             *)
(***************************************************************************)

Verdicts == {"completed", "failed", "stopped"}

\* Type invariant: in particular no terminal response is sent before there is
\* a connection to send it to.
TypeOK ==
  /\ StatusTypeOK
  /\ pc \in [Calls -> {"ready", "starting", "claiming", "working", "finishing",
                       "closing", "releasing", "done", "gone"}]
  /\ target \in [Calls -> [module : Modules, project : Projects] \cup {NoTarget}]
  /\ request \in [Calls -> {"none", "claim", "granted", "refused", "release",
                            "released"}]
  /\ wsConnId \in [Modules -> Calls \cup {"none"}]
  /\ stopFlag \in [Modules -> BOOLEAN]
  /\ answers \in [Calls -> Seq([verdict : Verdicts, to : Calls])]
  /\ stopped \subseteq Calls
  /\ disturbed \subseteq Calls
  /\ overrides \in 0 .. MaxOverrides

AtWork(c) == pc[c] \in {"working", "finishing", "closing"}

\* Whatever requests are refused, time out or come late: unless a user takes
\* the status away, at most one operation of all modules and projects works
\* on devices, and its project says so.
MutualExclusion ==
  overrides = 0 =>
    \A c \in Calls : AtWork(c) =>
      /\ status[project(c)] = ClaimedStatus(module(c))
      /\ \A d \in Calls : AtWork(d) => d = c

\* A call that ended has told its own client how, unless its module was
\* started again meanwhile (a start overwrites wsConnId and clears stopFlag
\* even when the gate then refuses it).
EndIsAnswered ==
  \A c \in Calls : Ended(c) /\ c \notin disturbed =>
    /\ answers[c] # <<>>
    /\ \A i \in 1 .. Len(answers[c]) : answers[c][i].to = c

\* Under the same proviso, a stop that reaches a working call is the last
\* thing its client hears of, also when the call failed or completed first.
StopIsAnswered ==
  \A c \in Calls : Ended(c) /\ c \in stopped \ disturbed =>
    answers[c][Len(answers[c])].verdict = "stopped"

\* The claim was granted when its call had given up on it.
Abandoned(c) == pc[c] = "gone" /\ request[c] = "granted"

\* Every claimed project becomes free again, whatever fails in between, unless
\* it was claimed for a call that had given up: nobody releases that claim.
ProjectsBecomeIdle ==
  \A p \in Projects : status[p] \in DeviceStatuses ~>
    \/ status[p] \in {"Idle", "absent"}
    \/ \E c \in Calls : Abandoned(c) /\ project(c) = p

=============================================================================

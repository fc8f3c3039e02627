----------------------- MODULE DeviceOperations_proofs -----------------------
(***************************************************************************)
(* Mutual exclusion of the device operations for any number of requests,   *)
(* projects and modules, with HTTP timeouts and user interventions.        *)
(***************************************************************************)
EXTENDS DeviceOperations, TLAPS

\* A call owns the gate from the moment cogsworth granted its claim until
\* cogsworth serves its release, whatever its goroutine believes: a claim
\* that timed out after it was granted is owned for ever.
Owns(c) == request[c] \in {"granted", "release"}

Targets == [module : Modules, project : Projects]

TargetInv ==
  \A c \in Calls :
    /\ pc[c] # "ready" => target[c] \in Targets /\ wsConnId[module(c)] \in Calls
    /\ request[c] # "none" => pc[c] # "ready"

WorkInv == \A c \in Calls : AtWork(c) => request[c] = "granted"

OwnerInv ==
  overrides = 0 =>
    \A c \in Calls : Owns(c) =>
      /\ status[project(c)] = ClaimedStatus(module(c))
      /\ \A d \in Calls : Owns(d) => d = c

IInv == TypeOK /\ TargetInv /\ WorkInv /\ OwnerInv /\ OneDeviceProject

-----------------------------------------------------------------------------

LEMMA ClaimedIsDevice == \A m : ClaimedStatus(m) \in DeviceStatuses \ FreeStatuses
BY DEF ClaimedStatus, DeviceStatuses, FreeStatuses

\* Whatever is requested, the gate keeps the list's type and never puts a
\* second project into a device status.
LEMMA GateKeeps ==
  ASSUME StatusTypeOK, OneDeviceProject,
         NEW p \in Projects, NEW s \in AllStatuses, UpdateProjectStatus(p, s)
  PROVE  StatusTypeOK' /\ OneDeviceProject'
<1> USE DEF UpdateProjectStatus, Accepts, Stored
<1>1. CASE ~Accepts(p, s)
  BY <1>1 DEF StatusTypeOK, OneDeviceProject
<1>2. CASE Accepts(p, s)
  <2>1. status' = [status EXCEPT ![p] = Stored(p, s)]
    BY <1>2
  <2>2. Stored(p, s) \in AllStatuses \cup {"absent"}
    BY DEF StatusTypeOK, AllStatuses, FreeStatuses
  <2>3. StatusTypeOK'
    BY <2>1, <2>2 DEF StatusTypeOK
  <2>4. \A q \in Projects : status'[q] = IF q = p THEN Stored(p, s) ELSE status[q]
    BY <2>1 DEF StatusTypeOK
  <2> HIDE DEF UpdateProjectStatus, Accepts, Stored
  <2>5. CASE s \in DeviceStatuses
    <3>1. \A q \in Projects \ {p} : status[q] \notin DeviceStatuses
      BY <1>2, <2>5 DEF Accepts
    <3> QED
      BY <2>4, <3>1, <2>3 DEF OneDeviceProject
  <2>6. CASE s \notin DeviceStatuses
    <3>1. Stored(p, s) \in DeviceStatuses => status[p] \in DeviceStatuses
      BY <2>6 DEF DeviceStatuses, Stored
    <3> QED
      BY <2>4, <3>1, <2>3 DEF OneDeviceProject
  <2> QED
    BY <2>5, <2>6
<1> QED
  BY <1>1, <1>2

LEMMA InitIInv == Init => IInv
<1> SUFFICES ASSUME Init PROVE IInv
  OBVIOUS
<1> USE DEF Init, InitStatus
<1>1. answers \in [Calls -> Seq([verdict : Verdicts, to : Calls])]
  OBVIOUS
<1>2. TypeOK
  BY <1>1, OperationsAssumption DEF TypeOK, StatusTypeOK, AllStatuses, FreeStatuses
<1>3. TargetInv /\ WorkInv /\ OwnerInv /\ OneDeviceProject
  BY DEF TargetInv, WorkInv, AtWork, OwnerInv, Owns, OneDeviceProject, DeviceStatuses
<1> QED
  BY <1>2, <1>3 DEF IInv

Labels == {"ready", "starting", "claiming", "working", "finishing", "closing",
           "releasing", "done", "gone"}

\* A step of a call's goroutine that sends no request: it moves the program
\* counter and may send one terminal response.
LEMMA LocalStep ==
  ASSUME IInv, NEW c \in Calls, NEW l \in Labels \ {"ready"}, Goto(c, l),
         pc[c] # "ready",
         l \in {"working", "finishing", "closing"} => request[c] = "granted",
         UNCHANGED answers \/ \E v \in Verdicts : Answer(c, v),
         UNCHANGED <<status, target, request, wsConnId, stopFlag, stopped,
                     disturbed, overrides>>
  PROVE  IInv'
<1> USE DEF Goto
<1>1. answers' \in [Calls -> Seq([verdict : Verdicts, to : Calls])]
  <2>1. CASE UNCHANGED answers
    BY <2>1 DEF IInv, TypeOK
  <2>2. ASSUME NEW v \in Verdicts, Answer(c, v)
        PROVE  answers' \in [Calls -> Seq([verdict : Verdicts, to : Calls])]
    <3>1. answers[c] \in Seq([verdict : Verdicts, to : Calls])
      BY DEF IInv, TypeOK
    <3>2. [verdict |-> v, to |-> wsConnId[module(c)]] \in [verdict : Verdicts, to : Calls]
      BY DEF IInv, TargetInv
    <3>3. Append(answers[c], [verdict |-> v, to |-> wsConnId[module(c)]])
            \in Seq([verdict : Verdicts, to : Calls])
      BY <3>1, <3>2
    <3> QED
      BY <2>2, <3>3 DEF Answer, IInv, TypeOK
  <2> QED
    BY <2>1, <2>2
<1>2. TypeOK'
  <2>1. pc' \in [Calls -> Labels]
    BY DEF IInv, TypeOK, Labels
  <2> QED
    BY <1>1, <2>1 DEF IInv, TypeOK, StatusTypeOK, Labels
<1>3. TargetInv'
  BY DEF IInv, TypeOK, TargetInv, module
<1>4. WorkInv'
  BY DEF IInv, TypeOK, WorkInv, AtWork
<1>5. OwnerInv' /\ OneDeviceProject'
  BY DEF IInv, OwnerInv, Owns, project, module, OneDeviceProject
<1> QED
  BY <1>2, <1>3, <1>4, <1>5 DEF IInv

LEMMA StartStep ==
  ASSUME IInv, NEW c \in Calls, NEW m \in Modules, NEW p \in Projects, Start(c, m, p)
  PROVE  IInv'
<1> USE DEF Start, Goto
<1>1. TypeOK'
  <2>1. pc' \in [Calls -> Labels]
    BY DEF IInv, TypeOK, Labels
  <2>2. target' \in [Calls -> Targets \cup {NoTarget}]
    BY DEF IInv, TypeOK, Targets
  <2>3. wsConnId' \in [Modules -> Calls \cup {"none"}]
        /\ stopFlag' \in [Modules -> BOOLEAN]
    BY DEF IInv, TypeOK
  <2>4. disturbed' \subseteq Calls
    BY DEF IInv, TypeOK
  <2> QED
    BY <2>1, <2>2, <2>3, <2>4 DEF IInv, TypeOK, StatusTypeOK, Labels, Targets
<1>2. target'[c] = [module |-> m, project |-> p]
      /\ \A d \in Calls \ {c} : target'[d] = target[d] /\ pc'[d] = pc[d]
  BY DEF IInv, TypeOK
<1>3. TargetInv'
  <2>1. ASSUME NEW d \in Calls, d # c, pc'[d] # "ready"
        PROVE  target'[d] \in Targets /\ wsConnId'[module(d)'] \in Calls
    <3>1. target'[d] = target[d] /\ pc[d] # "ready"
      BY <1>2, <2>1
    <3>2. target[d] \in Targets /\ wsConnId[module(d)] \in Calls /\ module(d) \in Modules
      BY <3>1, <2>1 DEF IInv, TargetInv, Targets, module
    <3> QED
      BY <3>1, <3>2 DEF IInv, TypeOK, module
  <2>2. target'[c] \in Targets /\ wsConnId'[module(c)'] \in Calls
    BY <1>2 DEF Targets, module, IInv, TypeOK
  <2>3. \A d \in Calls : request'[d] # "none" => pc'[d] # "ready"
    BY DEF IInv, TypeOK, TargetInv
  <2> QED
    BY <2>1, <2>2, <2>3 DEF TargetInv
<1>4. WorkInv'
  BY DEF IInv, TypeOK, WorkInv, AtWork
<1>5. request[c] = "none"
  BY DEF IInv, TargetInv
<1>6. OwnerInv'
  BY <1>2, <1>5 DEF IInv, OwnerInv, Owns, project, module
<1>7. OneDeviceProject'
  BY DEF IInv, OneDeviceProject
<1> QED
  BY <1>1, <1>3, <1>4, <1>6, <1>7 DEF IInv

LEMMA SendClaimStep ==
  ASSUME IInv, NEW c \in Calls, SendClaim(c)
  PROVE  IInv'
<1> USE DEF SendClaim, Goto
<1>1. TypeOK'
  BY DEF IInv, TypeOK, StatusTypeOK
<1>2. TargetInv' /\ WorkInv'
  BY DEF IInv, TypeOK, TargetInv, WorkInv, AtWork, module
<1>3. OwnerInv'
  BY DEF IInv, TypeOK, OwnerInv, Owns, project, module
<1>4. OneDeviceProject'
  BY DEF IInv, OneDeviceProject
<1> QED
  BY <1>1, <1>2, <1>3, <1>4 DEF IInv

LEMMA CloseStep ==
  ASSUME IInv, NEW c \in Calls, Close(c)
  PROVE  IInv'
<1> USE DEF Close, Goto
<1>1. answers' \in [Calls -> Seq([verdict : Verdicts, to : Calls])]
  <2>1. CASE UNCHANGED answers
    BY <2>1 DEF IInv, TypeOK
  <2>2. CASE Answer(c, "stopped")
    <3>1. answers[c] \in Seq([verdict : Verdicts, to : Calls])
      BY DEF IInv, TypeOK
    <3>2. [verdict |-> "stopped", to |-> wsConnId[module(c)]]
            \in [verdict : Verdicts, to : Calls]
      BY DEF IInv, TargetInv, Verdicts
    <3>3. Append(answers[c], [verdict |-> "stopped", to |-> wsConnId[module(c)]])
            \in Seq([verdict : Verdicts, to : Calls])
      BY <3>1, <3>2
    <3> QED
      BY <2>2, <3>3 DEF Answer, IInv, TypeOK
  <2> QED
    BY <2>1, <2>2
<1>2. TypeOK'
  <2>1. pc' \in [Calls -> Labels]
        /\ request' \in [Calls -> {"none", "claim", "granted", "refused", "release",
                                   "released"}]
    BY DEF IInv, TypeOK, Labels
  <2> QED
    BY <1>1, <2>1 DEF IInv, TypeOK, StatusTypeOK, Labels
<1>3. TargetInv' /\ WorkInv'
  BY DEF IInv, TypeOK, TargetInv, WorkInv, AtWork, module
<1>4. Owns(c)
  BY DEF IInv, WorkInv, AtWork, Owns
<1>5. OwnerInv'
  BY <1>4 DEF IInv, TypeOK, OwnerInv, Owns, project, module
<1>6. OneDeviceProject'
  BY DEF IInv, OneDeviceProject
<1> QED
  BY <1>2, <1>3, <1>5, <1>6 DEF IInv

LEMMA ServeClaimStep ==
  ASSUME IInv, NEW c \in Calls, ServeClaim(c)
  PROVE  IInv'
<1> DEFINE s == ClaimedStatus(module(c))
<1>1. /\ request[c] = "claim"
      /\ UpdateProjectStatus(project(c), s)
      /\ request' = [request EXCEPT ![c] =
                       IF Accepts(project(c), s) THEN "granted" ELSE "refused"]
      /\ UNCHANGED <<pc, target, wsConnId, stopFlag, answers, stopped, disturbed,
                     overrides>>
  BY DEF ServeClaim
<1>2. s \in DeviceStatuses /\ s \notin FreeStatuses /\ s \in AllStatuses
  BY ClaimedIsDevice DEF AllStatuses
<1>3. project(c) \in Projects
  BY <1>1 DEF IInv, TargetInv, Targets, project
<1> HIDE DEF s
<1>4. StatusTypeOK' /\ OneDeviceProject'
  BY <1>1, <1>2, <1>3, GateKeeps DEF IInv, TypeOK
<1>5. request' \in [Calls -> {"none", "claim", "granted", "refused", "release",
                              "released"}]
  BY <1>1 DEF IInv, TypeOK
<1>6. TypeOK'
  BY <1>1, <1>4, <1>5 DEF IInv, TypeOK
<1>7. TargetInv'
  BY <1>1 DEF IInv, TypeOK, TargetInv, module
<1>8. WorkInv'
  BY <1>1 DEF IInv, TypeOK, WorkInv, AtWork
<1>9. OwnerInv'
  <2>1. CASE ~Accepts(project(c), s)
    BY <1>1, <2>1 DEF UpdateProjectStatus, IInv, TypeOK, OwnerInv, Owns, project, module
  <2>2. CASE Accepts(project(c), s)
    <3> SUFFICES ASSUME overrides = 0 PROVE OwnerInv'
      BY <1>1 DEF OwnerInv
    <3>1. \A q \in Projects : status[q] \notin DeviceStatuses
      BY <2>2, <1>2 DEF Accepts, FreeStatuses, DeviceStatuses
    <3>2. \A d \in Calls : ~Owns(d)
      BY <3>1, ClaimedIsDevice DEF IInv, OwnerInv, TargetInv, Owns, Targets, project
    <3>3. \A d \in Calls : Owns(d)' => d = c
      BY <1>1, <3>2 DEF IInv, TypeOK, Owns
    <3>4. status'[project(c)] = s
      BY <1>1, <1>2, <1>3, <2>2 DEF UpdateProjectStatus, Stored, IInv, TypeOK,
         StatusTypeOK, DeviceStatuses, ComputeStatuses
    <3>5. project(c)' = project(c) /\ ClaimedStatus(module(c))' = s
      BY <1>1 DEF project, module, ClaimedStatus, s
    <3> QED
      BY <3>3, <3>4, <3>5 DEF OwnerInv
  <2> QED
    BY <2>1, <2>2
<1> QED
  BY <1>4, <1>6, <1>7, <1>8, <1>9 DEF IInv

LEMMA ServeReleaseStep ==
  ASSUME IInv, NEW c \in Calls, ServeRelease(c)
  PROVE  IInv'
<1> USE DEF ServeRelease
<1>1. project(c) \in Projects /\ "Idle" \in AllStatuses
  BY DEF IInv, TargetInv, Targets, project, AllStatuses, FreeStatuses
<1>2. StatusTypeOK' /\ OneDeviceProject'
  BY <1>1, GateKeeps DEF IInv, TypeOK
<1>3. TypeOK'
  BY <1>2 DEF IInv, TypeOK
<1>4. TargetInv'
  BY DEF IInv, TypeOK, TargetInv, module
<1>5. WorkInv'
  BY DEF IInv, TypeOK, WorkInv, AtWork
<1>6. OwnerInv'
  <2> SUFFICES ASSUME overrides = 0 PROVE OwnerInv'
    BY DEF OwnerInv
  <2>1. \A d \in Calls : Owns(d) => d = c
    BY DEF IInv, OwnerInv, Owns
  <2>2. \A d \in Calls : ~Owns(d)'
    BY <2>1 DEF IInv, TypeOK, Owns
  <2> QED
    BY <2>2 DEF OwnerInv
<1> QED
  BY <1>2, <1>3, <1>4, <1>5, <1>6 DEF IInv

LEMMA StopStep ==
  ASSUME IInv, NEW m \in Modules, Stop(m)
  PROVE  IInv'
<1> USE DEF Stop
<1>1. TypeOK'
  BY DEF IInv, TypeOK, StatusTypeOK
<1>2. TargetInv' /\ WorkInv' /\ OneDeviceProject'
  BY DEF IInv, TargetInv, WorkInv, AtWork, module, OneDeviceProject
<1>3. OwnerInv'
  BY DEF IInv, OwnerInv, Owns, project, module
<1> QED
  BY <1>1, <1>2, <1>3 DEF IInv

\* A user's change of the list: either it is an override or it leaves every
\* device status that is there.
LEMMA UserStep ==
  ASSUME IInv, NEW p \in Projects, UNCHANGED opVars,
         overrides < MaxOverrides, Override(p),
         StatusTypeOK', OneDeviceProject',
         \A q \in Projects \ {p} : status'[q] = status[q]
  PROVE  IInv'
<1> USE DEF opVars
<1>1. overrides \in Nat /\ overrides' \in 0 .. MaxOverrides
      /\ (overrides' = 0 => overrides = 0)
  BY OperationsAssumption DEF Override, IInv, TypeOK
<1>2. TypeOK'
  BY <1>1 DEF IInv, TypeOK
<1>3. TargetInv' /\ WorkInv'
  BY DEF IInv, TargetInv, WorkInv, AtWork, module
<1>4. OwnerInv'
  <2> SUFFICES ASSUME overrides' = 0 PROVE OwnerInv'
    BY DEF OwnerInv
  <2>1. \A q \in Projects : status[q] \in DeviceStatuses => status'[q] = status[q]
    BY <1>1 DEF Override
  <2>2. \A d \in Calls : Owns(d) =>
          project(d) \in Projects /\ status[project(d)] \in DeviceStatuses
    BY <1>1, ClaimedIsDevice DEF IInv, OwnerInv, TargetInv, Owns, Targets, project
  <2>3. \A d \in Calls : Owns(d)' = Owns(d) /\ project(d)' = project(d)
                         /\ ClaimedStatus(module(d))' = ClaimedStatus(module(d))
    BY DEF Owns, project, module, ClaimedStatus
  <2>4. \A d \in Calls : Owns(d) => status'[project(d)] = ClaimedStatus(module(d))
    BY <1>1, <2>1, <2>2 DEF IInv, OwnerInv
  <2>5. \A c, d \in Calls : Owns(c) /\ Owns(d) => d = c
    BY <1>1 DEF IInv, OwnerInv
  <2> QED
    BY <2>3, <2>4, <2>5 DEF OwnerInv
<1> QED
  BY <1>2, <1>3, <1>4 DEF IInv

LEMMA CallStepIInv ==
  ASSUME IInv, NEW c \in Calls, CallStep(c)
  PROVE  IInv'
<1> USE DEF Labels, Verdicts
<1>1. CASE FailBeforeClaim(c) \/ ClaimRefused(c) \/ ClaimTimesOut(c)
  <2>1. PICK l \in {"done", "gone"} :
        /\ Goto(c, l)
        /\ pc[c] # "ready"
        /\ Answer(c, "failed")
        /\ UNCHANGED <<status, target, request, wsConnId, stopFlag, stopped,
                       disturbed, overrides>>
    BY <1>1 DEF FailBeforeClaim, ClaimRefused, ClaimTimesOut
  <2> QED
    BY <2>1, LocalStep
<1>2. CASE SendClaim(c)
  BY <1>2, SendClaimStep
<1>3. CASE ClaimGranted(c)
  <2>1. /\ Goto(c, "working")
        /\ pc[c] # "ready"
        /\ request[c] = "granted"
        /\ UNCHANGED answers
        /\ UNCHANGED <<status, target, request, wsConnId, stopFlag, stopped,
                       disturbed, overrides>>
    BY <1>3 DEF ClaimGranted
  <2> QED
    BY <2>1, LocalStep
<1>4. CASE SeeStop(c) \/ PassLastCheckpoint(c) \/ Fail(c) \/ Complete(c)
  <2>1. PICK l \in {"finishing", "closing"} :
          /\ Goto(c, l)
          /\ AtWork(c)
          /\ UNCHANGED answers \/ \E v \in Verdicts : Answer(c, v)
          /\ UNCHANGED <<status, target, request, wsConnId, stopFlag, stopped,
                         disturbed, overrides>>
    BY <1>4 DEF SeeStop, PassLastCheckpoint, Fail, Complete, Step, AtWork
  <2>2. request[c] = "granted" /\ pc[c] # "ready"
    BY <2>1 DEF IInv, WorkInv, AtWork
  <2> QED
    BY <2>1, <2>2, LocalStep
<1>5. CASE Close(c)
  BY <1>5, CloseStep
<1>6. CASE Return(c)
  <2>1. /\ Goto(c, "done")
        /\ pc[c] # "ready"
        /\ UNCHANGED answers
        /\ UNCHANGED <<status, target, request, wsConnId, stopFlag, stopped,
                       disturbed, overrides>>
    BY <1>6 DEF Return, Step
  <2> QED
    BY <2>1, LocalStep
<1> QED
  BY <1>1, <1>2, <1>3, <1>4, <1>5, <1>6 DEF CallStep

LEMMA UserUpdatesStatusStep ==
  ASSUME IInv, NEW p \in Projects, NEW s \in AllStatuses, UserUpdatesStatus(p, s)
  PROVE  IInv'
<1>1. /\ UpdateProjectStatus(p, s) /\ Override(p) /\ UNCHANGED opVars
      /\ overrides < MaxOverrides
  BY DEF UserUpdatesStatus
<1>2. StatusTypeOK' /\ OneDeviceProject'
  BY <1>1, GateKeeps DEF IInv, TypeOK
<1>3. \A q \in Projects \ {p} : status'[q] = status[q]
  BY <1>1 DEF UpdateProjectStatus, IInv, TypeOK, StatusTypeOK
<1> QED
  BY <1>1, <1>2, <1>3, UserStep

LEMMA DeleteProjectStep ==
  ASSUME IInv, NEW p \in Projects, DeleteProject(p)
  PROVE  IInv'
<1>1. /\ Override(p) /\ UNCHANGED opVars /\ status' = [status EXCEPT ![p] = "absent"]
      /\ overrides < MaxOverrides
  BY DEF DeleteProject
<1>2. StatusTypeOK'
  BY <1>1 DEF IInv, TypeOK, StatusTypeOK
<1>3. \A q \in Projects \ {p} : status'[q] = status[q]
  BY <1>1 DEF IInv, TypeOK, StatusTypeOK
<1>4. OneDeviceProject'
  BY <1>1 DEF IInv, TypeOK, StatusTypeOK, OneDeviceProject, DeviceStatuses
<1> QED
  BY <1>1, <1>2, <1>3, <1>4, UserStep

LEMMA NextIInv == IInv /\ [Next]_vars => IInv'
<1> SUFFICES ASSUME IInv, [Next]_vars PROVE IInv'
  OBVIOUS
<1>1. ASSUME NEW c \in Calls, NEW m \in Modules, NEW p \in Projects, Start(c, m, p)
      PROVE  IInv'
  BY <1>1, StartStep
<1>2. ASSUME NEW c \in Calls, CallStep(c) PROVE IInv'
  BY <1>2, CallStepIInv
<1>3. ASSUME NEW c \in Calls, Serve(c) PROVE IInv'
  BY <1>3, ServeClaimStep, ServeReleaseStep DEF Serve
<1>4. ASSUME NEW m \in Modules, Stop(m) PROVE IInv'
  BY <1>4, StopStep
<1>5. ASSUME NEW p \in Projects, DeleteProject(p) PROVE IInv'
  BY <1>5, DeleteProjectStep
<1>6. ASSUME NEW p \in Projects, NEW s \in AllStatuses, UserUpdatesStatus(p, s)
      PROVE  IInv'
  BY <1>6, UserUpdatesStatusStep
<1>7. CASE UNCHANGED vars
  <2> USE <1>7 DEF vars, opVars
  <2>1. TypeOK'
    BY DEF IInv, TypeOK, StatusTypeOK
  <2>2. TargetInv' /\ WorkInv' /\ OwnerInv' /\ OneDeviceProject'
    BY DEF IInv, TargetInv, WorkInv, AtWork, OwnerInv, Owns, module, project,
       OneDeviceProject
  <2> QED
    BY <2>1, <2>2 DEF IInv
<1> QED
  BY <1>1, <1>2, <1>3, <1>4, <1>5, <1>6, <1>7 DEF Next

LEMMA SpecIInv == Spec => []IInv
BY InitIInv, NextIInv, PTL DEF Spec

-----------------------------------------------------------------------------

\* The types of all variables, among them that every terminal response goes
\* to a connection that exists (wsConnId is written before the claim is sent).
THEOREM TypeCorrect == Spec => []TypeOK
<1>1. IInv => TypeOK
  BY DEF IInv
<1> QED
  BY SpecIInv, <1>1, PTL

\* ActCore::UpdateProjectStatus never leaves two projects in a device status,
\* whoever asks it for what in whatever order.
THEOREM GateIsExclusive == Spec => []OneDeviceProject
<1>1. IInv => OneDeviceProject
  BY DEF IInv
<1> QED
  BY SpecIInv, <1>1, PTL

\* At most one operation works on devices, although the modules share no lock
\* and their claims are HTTP requests that may be served after the caller
\* gave up: unless a user takes a device status away.
THEOREM OperationsExclude == Spec => []MutualExclusion
<1>1. IInv => MutualExclusion
  <2>1. \A c \in Calls : IInv /\ AtWork(c) => Owns(c)
    BY DEF IInv, WorkInv, Owns
  <2> QED
    BY <2>1 DEF IInv, OwnerInv, MutualExclusion
<1> QED
  BY SpecIInv, <1>1, PTL

-----------------------------------------------------------------------------
(***************************************************************************)
(* What the clients are told.                                              *)
(***************************************************************************)

\* A call nobody disturbed still owns the connection of its module; its answers
\* went there; the stop that reached it waits in the flag for its Close.
AnsweredInv(c) ==
  /\ c \in stopped => pc[c] \notin {"ready", "starting", "claiming", "gone"}
  /\ pc[c] = "ready" => answers[c] = <<>>
  /\ c \notin disturbed =>
       /\ Live(c) => wsConnId[module(c)] = c
       /\ \A i \in 1 .. Len(answers[c]) : answers[c][i].to = c
       /\ pc[c] \in {"releasing", "done", "gone"} => answers[c] # <<>>
       /\ pc[c] = "closing" => answers[c] # <<>> \/ stopFlag[module(c)]
       /\ c \in stopped =>
            IF pc[c] \in {"releasing", "done"}
              THEN answers[c][Len(answers[c])].verdict = "stopped"
              ELSE stopFlag[module(c)]

Responses == [verdict : Verdicts, to : Calls]

LEMMA Appended ==
  ASSUME NEW S, NEW s \in Seq(S), NEW r \in S
  PROVE  /\ Append(s, r) # <<>>
         /\ Append(s, r)[Len(Append(s, r))] = r
         /\ \A i \in 1 .. Len(Append(s, r)) :
              \/ i \in 1 .. Len(s) /\ Append(s, r)[i] = s[i]
              \/ Append(s, r)[i] = r
OBVIOUS

\* A response of a call nobody disturbed reaches its own client.
LEMMA AnswerReaches ==
  ASSUME TypeOK, TargetInv, NEW c \in Calls, pc[c] # "ready", AnsweredInv(c),
         c \notin disturbed, Live(c), NEW v \in Verdicts, Answer(c, v)
  PROVE  /\ answers'[c] # <<>>
         /\ answers'[c][Len(answers'[c])].verdict = v
         /\ \A i \in 1 .. Len(answers'[c]) : answers'[c][i].to = c
<1> DEFINE r == [verdict |-> v, to |-> wsConnId[module(c)]]
<1>1. wsConnId[module(c)] = c
  BY DEF AnsweredInv
<1>2. answers[c] \in Seq(Responses)
  BY DEF TypeOK, Responses
<1>3. r \in Responses
  BY <1>1 DEF Responses
<1>4. answers'[c] = Append(answers[c], r)
  BY DEF Answer, TypeOK
<1>5. \A i \in 1 .. Len(answers[c]) : answers[c][i].to = c
  BY DEF AnsweredInv
<1>6. r.to = c /\ r.verdict = v
  BY <1>1
<1> HIDE DEF r
<1> QED
  BY <1>2, <1>3, <1>4, <1>5, <1>6, Appended

LEMMA StartAnswered ==
  ASSUME IInv, NEW c \in Calls, NEW m \in Modules, NEW p \in Projects, Start(c, m, p),
         NEW d \in Calls, AnsweredInv(d)
  PROVE  AnsweredInv(d)'
<1> USE DEF Start, Goto
<1>1. target'[c] = [module |-> m, project |-> p] /\ pc'[c] = "starting"
      /\ wsConnId'[m] = c
  BY DEF IInv, TypeOK
<1>2. CASE d = c
  BY <1>1, <1>2 DEF AnsweredInv, IInv, TypeOK, module, Live
<1>3. CASE d # c
  <2>1. target'[d] = target[d] /\ pc'[d] = pc[d] /\ answers'[d] = answers[d]
    BY <1>3 DEF IInv, TypeOK
  <2>2. CASE Live(d) /\ module(d) = m
    BY <2>1, <2>2 DEF AnsweredInv
  <2>3. CASE Live(d) /\ module(d) # m
    <3>1. wsConnId'[module(d)] = wsConnId[module(d)]
          /\ stopFlag'[module(d)] = stopFlag[module(d)]
      BY <2>3 DEF IInv, TypeOK, TargetInv, Live, Targets, module
    <3>2. module(d)' = module(d)
      BY <2>1 DEF module
    <3> QED
      BY <2>1, <2>3, <3>1, <3>2 DEF AnsweredInv, Live, Ended
  <2>4. CASE ~Live(d)
    BY <2>1, <2>4 DEF AnsweredInv, Live, Ended
  <2> QED
    BY <2>2, <2>3, <2>4
<1> QED
  BY <1>2, <1>3

\* A step of another call's goroutine.
LEMMA OthersAnswered ==
  ASSUME IInv, NEW c \in Calls, NEW d \in Calls \ {c}, AnsweredInv(d),
         CallStep(c) \/ Serve(c)
  PROVE  AnsweredInv(d)'
<1>1. pc'[d] = pc[d] /\ answers'[d] = answers[d]
  BY DEF CallStep, Serve, ServeClaim, ServeRelease, FailBeforeClaim, SendClaim, ClaimGranted,
     ClaimRefused, ClaimTimesOut, SeeStop, PassLastCheckpoint, Fail, Complete, Close,
     Return, Step, Goto, Answer, IInv, TypeOK
<1>2. UNCHANGED <<target, wsConnId, stopFlag, stopped, disturbed>>
  BY DEF CallStep, Serve, ServeClaim, ServeRelease, FailBeforeClaim, SendClaim, ClaimGranted,
     ClaimRefused, ClaimTimesOut, SeeStop, PassLastCheckpoint, Fail, Complete, Close,
     Return, Step
<1> QED
  BY <1>1, <1>2 DEF AnsweredInv, Live, Ended, module

\* A response, or none, and the next label of the call's own goroutine.
LEMMA OwnAnswered ==
  ASSUME IInv, NEW c \in Calls, AnsweredInv(c), CallStep(c)
  PROVE  AnsweredInv(c)'
<1> USE DEF Goto
<1>a. TypeOK /\ TargetInv /\ UNCHANGED <<target, wsConnId, stopFlag, stopped, disturbed>>
  BY DEF IInv, CallStep, FailBeforeClaim, SendClaim, ClaimGranted, ClaimRefused,
     ClaimTimesOut, SeeStop, PassLastCheckpoint, Fail, Complete, Close, Return, Step
<1>b. \A l : Goto(c, l) => pc'[c] = l
  BY <1>a DEF TypeOK
<1>c. \A v \in Verdicts : Live(c) /\ Answer(c, v) /\ c \notin disturbed =>
        /\ answers'[c] # <<>>
        /\ answers'[c][Len(answers'[c])].verdict = v
        /\ \A i \in 1 .. Len(answers'[c]) : answers'[c][i].to = c
  BY <1>a, AnswerReaches DEF Live
<1>1. CASE FailBeforeClaim(c) \/ ClaimRefused(c) \/ ClaimTimesOut(c)
  <2>1. Live(c) /\ Answer(c, "failed") /\ c \notin stopped /\ pc'[c] \in {"done", "gone"}
    BY <1>1, <1>b DEF FailBeforeClaim, ClaimRefused, ClaimTimesOut, Live, Ended, AnsweredInv
  <2> QED
    BY <2>1, <1>a, <1>c DEF AnsweredInv, Live, Ended, Verdicts
<1>2. CASE SendClaim(c) \/ ClaimGranted(c)
  <2>1. /\ Live(c) /\ c \notin stopped /\ pc'[c] \in {"claiming", "working"}
        /\ UNCHANGED answers
    BY <1>2, <1>b DEF SendClaim, ClaimGranted, Live, Ended, AnsweredInv
  <2> QED
    BY <2>1, <1>a DEF AnsweredInv, Live, Ended, module
<1>3. CASE SeeStop(c)
  <2>1. /\ Live(c) /\ stopFlag[module(c)] /\ pc'[c] = "closing" /\ UNCHANGED answers
        /\ pc[c] = "working"
    BY <1>3, <1>b DEF SeeStop, Step, Live, Ended
  <2> QED
    BY <2>1, <1>a DEF AnsweredInv, Live, Ended, module
<1>4. CASE PassLastCheckpoint(c)
  <2>1. Live(c) /\ pc[c] = "working" /\ pc'[c] = "finishing" /\ UNCHANGED answers
    BY <1>4, <1>b DEF PassLastCheckpoint, Step, Live, Ended
  <2> QED
    BY <2>1, <1>a DEF AnsweredInv, Live, Ended, module
<1>5. CASE Fail(c) \/ Complete(c)
  <2>1. /\ pc[c] \in {"working", "finishing"} /\ pc'[c] = "closing"
        /\ \E v \in Verdicts : Answer(c, v)
    BY <1>5, <1>b DEF Fail, Complete, Step, Verdicts
  <2>2. Live(c)
    BY <2>1 DEF Live, Ended
  <2>3. c \notin disturbed => /\ answers'[c] # <<>>
                             /\ \A i \in 1 .. Len(answers'[c]) : answers'[c][i].to = c
    BY <2>1, <2>2, <1>c
  <2> QED
    BY <2>1, <2>2, <2>3, <1>a DEF AnsweredInv, Live, Ended, module
<1>6. CASE Close(c)
  <2>1. pc[c] = "closing" /\ pc'[c] = "releasing" /\ Live(c)
    BY <1>6, <1>b DEF Close, Live, Ended
  <2>2. CASE stopFlag[module(c)]
    <3>1. Answer(c, "stopped") /\ "stopped" \in Verdicts
      BY <2>2, <1>6 DEF Close, Verdicts
    <3> QED
      BY <2>1, <3>1, <1>a, <1>c DEF AnsweredInv, Live, Ended, module
  <2>3. CASE ~stopFlag[module(c)]
    <3>1. UNCHANGED answers
      BY <2>3, <1>6 DEF Close
    <3> QED
      BY <2>1, <2>3, <3>1, <1>a DEF AnsweredInv, Live, Ended, module
  <2> QED
    BY <2>2, <2>3
<1>7. CASE Return(c)
  <2>1. pc[c] = "releasing" /\ pc'[c] = "done" /\ UNCHANGED answers
    BY <1>7, <1>b DEF Return, Step
  <2> QED
    BY <2>1, <1>a DEF AnsweredInv, Live, Ended, module
<1> QED
  BY <1>1, <1>2, <1>3, <1>4, <1>5, <1>6, <1>7 DEF CallStep

LEMMA StopAnswered ==
  ASSUME IInv, NEW m \in Modules, Stop(m), NEW d \in Calls, AnsweredInv(d)
  PROVE  AnsweredInv(d)'
<1>1. UNCHANGED <<pc, target, wsConnId, answers, disturbed>>
  BY DEF Stop
<1>2. stopFlag[module(d)] => stopFlag'[module(d)]
  BY DEF Stop, IInv, TypeOK
<1>3. d \in stopped' => d \in stopped \/ (pc[d] = "working" /\ module(d) = m)
  <2>1. stopped' = stopped \cup {c \in Calls : pc[c] = "working" /\ module(c) = m}
    BY DEF Stop
  <2> QED
    BY <2>1
<1>4. stopFlag'[m]
  BY DEF Stop, IInv, TypeOK
<1> QED
  BY <1>1, <1>2, <1>3, <1>4 DEF AnsweredInv, Live, Ended, module

LEMMA QuietAnswered ==
  ASSUME UNCHANGED opVars, NEW d \in Calls, AnsweredInv(d)
  PROVE  AnsweredInv(d)'
BY DEF opVars, AnsweredInv, Live, Ended, module

LEMMA ServeAnswered ==
  ASSUME IInv, NEW c \in Calls, AnsweredInv(c), Serve(c)
  PROVE  AnsweredInv(c)'
<1>1. UNCHANGED <<pc, target, wsConnId, stopFlag, answers, stopped, disturbed>>
  BY DEF Serve, ServeClaim, ServeRelease
<1> QED
  BY <1>1 DEF AnsweredInv, Live, Ended, module

AllAnswered == \A d \in Calls : AnsweredInv(d)

LEMMA NextAnswered == IInv /\ AllAnswered /\ [Next]_vars => AllAnswered'
<1> SUFFICES ASSUME IInv, AllAnswered, [Next]_vars, NEW d \in Calls PROVE AnsweredInv(d)'
  BY DEF AllAnswered
<1>0. AnsweredInv(d)
  BY DEF AllAnswered
<1>1. ASSUME NEW c \in Calls, NEW m \in Modules, NEW p \in Projects, Start(c, m, p)
      PROVE  AnsweredInv(d)'
  BY <1>0, <1>1, StartAnswered
<1>2. ASSUME NEW c \in Calls, CallStep(c) \/ Serve(c) PROVE AnsweredInv(d)'
  BY <1>0, <1>2, OthersAnswered, OwnAnswered, ServeAnswered
<1>3. ASSUME NEW m \in Modules, Stop(m) PROVE AnsweredInv(d)'
  BY <1>0, <1>3, StopAnswered
<1>4. ASSUME NEW p \in Projects, DeleteProject(p) PROVE AnsweredInv(d)'
  BY <1>0, <1>4, QuietAnswered DEF DeleteProject
<1>5. ASSUME NEW p \in Projects, NEW s \in AllStatuses, UserUpdatesStatus(p, s)
      PROVE  AnsweredInv(d)'
  BY <1>0, <1>5, QuietAnswered DEF UserUpdatesStatus
<1>6. CASE UNCHANGED vars
  BY <1>0, <1>6, QuietAnswered DEF vars
<1> QED
  BY <1>1, <1>2, <1>3, <1>4, <1>5, <1>6 DEF Next

LEMMA SpecAnswered == Spec => []AllAnswered
<1>1. Init => AllAnswered
  BY DEF Init, AllAnswered, AnsweredInv, Live
<1> QED
  BY <1>1, SpecIInv, NextAnswered, PTL DEF Spec

\* However often the modules are started, stopped and refused: a call nobody
\* disturbed has told its own client how it ended.
THEOREM EndsAreAnswered == Spec => []EndIsAnswered
<1>1. AllAnswered => EndIsAnswered
  BY DEF AllAnswered, AnsweredInv, EndIsAnswered, Ended
<1> QED
  BY SpecAnswered, <1>1, PTL

\* A stop that reaches such a call is the last thing its client hears of.
THEOREM StopsAreAnswered == Spec => []StopIsAnswered
<1>1. AllAnswered => StopIsAnswered
  BY DEF AllAnswered, AnsweredInv, StopIsAnswered, Ended
<1> QED
  BY SpecAnswered, <1>1, PTL

-----------------------------------------------------------------------------
(***************************************************************************)
(* Who still holds a project that is in a device status.                   *)
(***************************************************************************)

\* Where the goroutine of a call is, given what became of its request.
RequestInv ==
  \A c \in Calls :
    /\ request[c] = "granted" =>
         pc[c] \in {"claiming", "working", "finishing", "closing", "gone"}
    /\ request[c] \in {"release", "released"} => pc[c] \in {"releasing", "done"}
    /\ request[c] = "claim" => pc[c] \in {"claiming", "gone"}

\* Users may free or delete projects, not claim them by hand.
UsersClaimNothing == UserStatuses \cap DeviceStatuses = {}

HeldBy(p, c) == Owns(c) /\ project(c) = p /\ status[p] = ClaimedStatus(module(c))

HeldInv == \A p \in Projects : status[p] \in DeviceStatuses => \E c \in Calls : HeldBy(p, c)

\* A project in a device status was claimed by a call that has still to work
\* or to send its release, or whose release is on its way to cogsworth, or
\* that had given up on the claim when it was granted.
ClaimIsHeld ==
  UsersClaimNothing =>
    \A p \in Projects : status[p] \in DeviceStatuses =>
      \E c \in Calls :
        /\ project(c) = p /\ status[p] = ClaimedStatus(module(c))
        /\ \/ request[c] = "granted" /\ (pc[c] = "claiming" \/ AtWork(c))
           \/ request[c] = "release"
           \/ Abandoned(c)

LEMMA RequestInit == Init => RequestInv /\ HeldInv
BY DEF Init, InitStatus, RequestInv, HeldInv, DeviceStatuses

LEMMA NextRequest == IInv /\ RequestInv /\ [Next]_vars => RequestInv'
<1> SUFFICES ASSUME IInv, RequestInv, [Next]_vars PROVE RequestInv'
  OBVIOUS
<1>0. pc \in [Calls -> Labels] /\ DOMAIN request = Calls
  BY DEF IInv, TypeOK, Labels
<1>1. ASSUME NEW c \in Calls, NEW m \in Modules, NEW p \in Projects, Start(c, m, p)
      PROVE  RequestInv'
  <2>1. request[c] = "none" /\ pc' = [pc EXCEPT ![c] = "starting"] /\ UNCHANGED request
    BY <1>1 DEF Start, Goto, IInv, TargetInv
  <2> QED
    BY <1>0, <2>1 DEF RequestInv
<1>2. ASSUME NEW c \in Calls, CallStep(c) PROVE RequestInv'
  <2>1. CASE FailBeforeClaim(c)
    BY <1>0, <2>1 DEF FailBeforeClaim, Goto, RequestInv
  <2>2. CASE SendClaim(c) \/ Close(c)
    BY <1>0, <2>2 DEF SendClaim, Close, Goto, RequestInv
  <2>3. CASE ClaimGranted(c) \/ ClaimRefused(c) \/ ClaimTimesOut(c)
    BY <1>0, <2>3 DEF ClaimGranted, ClaimRefused, ClaimTimesOut, Goto, RequestInv
  <2>4. CASE SeeStop(c) \/ PassLastCheckpoint(c) \/ Fail(c) \/ Complete(c)
    <3>1. PICK l \in {"finishing", "closing"} :
            pc' = [pc EXCEPT ![c] = l] /\ AtWork(c) /\ UNCHANGED request
      BY <2>4 DEF SeeStop, PassLastCheckpoint, Fail, Complete, Step, Goto, AtWork
    <3>2. request[c] = "granted"
      BY <3>1 DEF IInv, WorkInv
    <3> QED
      BY <1>0, <3>1, <3>2 DEF RequestInv
  <2>5. CASE Return(c)
    BY <1>0, <2>5 DEF Return, Step, Goto, RequestInv
  <2> QED
    BY <1>2, <2>1, <2>2, <2>3, <2>4, <2>5 DEF CallStep
<1>3. ASSUME NEW c \in Calls, Serve(c) PROVE RequestInv'
  BY <1>0, <1>3 DEF Serve, ServeClaim, ServeRelease, RequestInv
<1>4. CASE UNCHANGED <<pc, request>>
  BY <1>4 DEF RequestInv
<1> QED
  BY <1>1, <1>2, <1>3, <1>4 DEF Next, Stop, DeleteProject, UserUpdatesStatus, opVars, vars

\* The steps that serve no request: what is held stays held.
LEMMA HeldKept ==
  ASSUME TypeOK, TargetInv, HeldInv,
         \A c \in Calls : Owns(c) => Owns(c)' /\ target'[c] = target[c],
         \A p \in Projects : status'[p] = status[p] \/ status'[p] \notin DeviceStatuses
  PROVE  HeldInv'
<1> SUFFICES ASSUME NEW p \in Projects, status'[p] \in DeviceStatuses
             PROVE  \E c \in Calls : HeldBy(p, c)'
  BY DEF HeldInv
<1>1. status'[p] = status[p]
  OBVIOUS
<1>2. PICK c \in Calls : HeldBy(p, c)
  BY <1>1 DEF HeldInv
<1> QED
  BY <1>1, <1>2 DEF HeldBy, Owns, project, module, ClaimedStatus

LEMMA HeldClaim ==
  ASSUME IInv, HeldInv, NEW c \in Calls, ServeClaim(c)
  PROVE  HeldInv'
<1> DEFINE s == ClaimedStatus(module(c))
<1>0. /\ request[c] = "claim" /\ UpdateProjectStatus(project(c), s)
      /\ request' = [request EXCEPT ![c] =
                       IF Accepts(project(c), s) THEN "granted" ELSE "refused"]
      /\ target' = target /\ DOMAIN request = Calls
      /\ status \in [Projects -> AllStatuses \cup {"absent"}]
  BY DEF ServeClaim, IInv, TypeOK, StatusTypeOK
<1>1. \A d \in Calls \ {c} : Owns(d) => Owns(d)'
  BY <1>0 DEF Owns
<1>2. ~Owns(c)
  BY <1>0 DEF Owns
<1>3. CASE ~Accepts(project(c), s)
  BY <1>0, <1>1, <1>2, <1>3, HeldKept DEF UpdateProjectStatus, IInv
<1>4. CASE Accepts(project(c), s)
  <2>1. s \in DeviceStatuses /\ Stored(project(c), s) = s
    BY ClaimedIsDevice DEF Stored, ComputeStatuses, DeviceStatuses, FreeStatuses
  <2>2. status' = [status EXCEPT ![project(c)] = s]
    BY <1>0, <1>4, <2>1 DEF UpdateProjectStatus
  <2> HIDE DEF s
  <2> SUFFICES ASSUME NEW p \in Projects, status'[p] \in DeviceStatuses
               PROVE  \E d \in Calls : HeldBy(p, d)'
    BY DEF HeldInv
  <2>3. CASE p = project(c)
    <3>1. request'[c] = "granted" /\ status'[p] = s
      BY <1>0, <1>4, <2>2, <2>3
    <3> QED
      BY <1>0, <2>3, <3>1 DEF HeldBy, Owns, project, module, ClaimedStatus, s
  <2>4. CASE p # project(c)
    <3>1. status'[p] = status[p]
      BY <1>0, <2>2, <2>4
    <3>2. PICK d \in Calls : HeldBy(p, d)
      BY <3>1 DEF HeldInv
    <3>3. d # c
      BY <1>2, <3>2 DEF HeldBy
    <3> QED
      BY <1>0, <1>1, <3>1, <3>2, <3>3 DEF HeldBy, project, module, ClaimedStatus
  <2> QED
    BY <2>3, <2>4
<1> QED
  BY <1>3, <1>4

LEMMA HeldRelease ==
  ASSUME IInv, HeldInv, NEW c \in Calls, ServeRelease(c)
  PROVE  HeldInv'
<1>0. /\ UpdateProjectStatus(project(c), "Idle")
      /\ request' = [request EXCEPT ![c] = "released"]
      /\ target' = target /\ DOMAIN request = Calls
      /\ status \in [Projects -> AllStatuses \cup {"absent"}]
  BY DEF ServeRelease, IInv, TypeOK, StatusTypeOK
<1>1. project(c) \in Projects
  BY DEF ServeRelease, IInv, TargetInv, Targets, project
<1>2. status'[project(c)] \notin DeviceStatuses
  <2>1. Stored(project(c), "Idle") = "Idle"
    BY DEF Stored, ComputeStatuses
  <2>2. CASE Accepts(project(c), "Idle")
    BY <1>0, <1>1, <2>1, <2>2 DEF UpdateProjectStatus, DeviceStatuses
  <2>3. CASE ~Accepts(project(c), "Idle")
    <3>1. status[project(c)] = "absent"
      BY <2>3 DEF Accepts, ComputeStatuses, DeviceStatuses
    <3> QED
      BY <1>0, <2>3, <3>1 DEF UpdateProjectStatus, DeviceStatuses
  <2> QED
    BY <2>2, <2>3
<1> SUFFICES ASSUME NEW p \in Projects, status'[p] \in DeviceStatuses
             PROVE  \E d \in Calls : HeldBy(p, d)'
  BY DEF HeldInv
<1>3. p # project(c)
  BY <1>2
<1>4. status'[p] = status[p]
  BY <1>0, <1>3 DEF UpdateProjectStatus
<1>5. PICK d \in Calls : HeldBy(p, d)
  BY <1>4 DEF HeldInv
<1>6. d # c
  BY <1>3, <1>5 DEF HeldBy
<1> QED
  BY <1>0, <1>4, <1>5, <1>6 DEF HeldBy, Owns, project, module, ClaimedStatus

LEMMA NextHeld == IInv /\ RequestInv /\ HeldInv /\ UsersClaimNothing /\ [Next]_vars => HeldInv'
<1> SUFFICES ASSUME IInv, RequestInv, HeldInv, UsersClaimNothing, [Next]_vars
             PROVE  HeldInv'
  OBVIOUS
<1>0. /\ TypeOK /\ TargetInv /\ DOMAIN target = Calls
      /\ status \in [Projects -> AllStatuses \cup {"absent"}]
  BY DEF IInv, TypeOK, StatusTypeOK
<1>1. ASSUME NEW c \in Calls, NEW m \in Modules, NEW p \in Projects, Start(c, m, p)
      PROVE  HeldInv'
  <2>1. ~Owns(c)
    BY <1>1 DEF Start, IInv, TargetInv, Owns
  <2>2. /\ UNCHANGED <<status, request>>
        /\ \A d \in Calls \ {c} : target'[d] = target[d]
    BY <1>0, <1>1 DEF Start
  <2> QED
    BY <1>0, <2>1, <2>2, HeldKept DEF Owns
<1>2. ASSUME NEW c \in Calls, CallStep(c) PROVE HeldInv'
  <2>1. UNCHANGED <<status, target>>
    BY <1>2 DEF CallStep, FailBeforeClaim, SendClaim, ClaimGranted, ClaimRefused,
       ClaimTimesOut, SeeStop, PassLastCheckpoint, Fail, Complete, Close, Return, Step
  <2>2. CASE SendClaim(c)
    <3>1. ~Owns(c) /\ request' = [request EXCEPT ![c] = "claim"]
      BY <2>2 DEF SendClaim, RequestInv, Owns
    <3>2. \A d \in Calls : Owns(d) => Owns(d)'
      BY <3>1 DEF Owns
    <3> QED
      BY <1>0, <2>1, <3>2, HeldKept
  <2>3. CASE Close(c)
    <3>1. request' = [request EXCEPT ![c] = "release"]
      BY <2>3 DEF Close
    <3>2. \A d \in Calls : Owns(d) => Owns(d)'
      BY <3>1 DEF Owns, IInv, TypeOK
    <3> QED
      BY <1>0, <2>1, <3>2, HeldKept
  <2>4. CASE UNCHANGED request
    BY <1>0, <2>1, <2>4, HeldKept DEF Owns
  <2> QED
    BY <1>2, <2>2, <2>3, <2>4 DEF CallStep, FailBeforeClaim, ClaimGranted, ClaimRefused,
       ClaimTimesOut, SeeStop, PassLastCheckpoint, Fail, Complete, Return, Step
<1>3. ASSUME NEW c \in Calls, Serve(c) PROVE HeldInv'
  BY <1>3, HeldClaim, HeldRelease DEF Serve
<1>4. ASSUME NEW p \in Projects, NEW s \in AllStatuses, UserUpdatesStatus(p, s)
      PROVE  HeldInv'
  <2>1. /\ UNCHANGED <<request, target>> /\ UpdateProjectStatus(p, s)
        /\ s \notin DeviceStatuses
    BY <1>4 DEF UserUpdatesStatus, opVars, UsersClaimNothing
  <2>2. \A q \in Projects : status'[q] = status[q] \/ status'[q] \notin DeviceStatuses
    BY <1>0, <2>1 DEF UpdateProjectStatus, Stored, DeviceStatuses
  <2> QED
    BY <1>0, <2>1, <2>2, HeldKept DEF Owns
<1>5. ASSUME NEW p \in Projects, DeleteProject(p) PROVE HeldInv'
  <2>1. /\ UNCHANGED <<request, target>>
        /\ \A q \in Projects : status'[q] = status[q] \/ status'[q] = "absent"
    BY <1>0, <1>5 DEF DeleteProject, opVars
  <2> QED
    BY <1>0, <2>1, HeldKept DEF Owns, DeviceStatuses
<1>6. CASE UNCHANGED <<status, target, request>>
  BY <1>0, <1>6, HeldKept DEF Owns
<1> QED
  BY <1>1, <1>2, <1>3, <1>4, <1>5, <1>6 DEF Next, Stop, vars, opVars

\* A project is never left in a device status that nobody will release: not
\* by a refusal, an error, a timeout, a stop, a user or a deletion - but by a
\* claim granted to a call that had given up on it.  With the calls'
\* goroutines and cogsworth's requests served, this is why projects become
\* idle again.
THEOREM ClaimsAreHeld == Spec => []ClaimIsHeld
<1>1. Init => RequestInv /\ HeldInv
  BY RequestInit
<1>2. IInv /\ RequestInv /\ [Next]_vars => RequestInv'
  BY NextRequest
<1>3. CASE UsersClaimNothing
  <2>1. IInv /\ RequestInv /\ HeldInv /\ [Next]_vars => HeldInv'
    BY <1>3, NextHeld
  <2>2. IInv /\ RequestInv /\ HeldInv => ClaimIsHeld
    BY DEF RequestInv, HeldInv, HeldBy, Owns, ClaimIsHeld, AtWork, Abandoned
  <2> QED
    BY <1>1, <1>2, <2>1, <2>2, SpecIInv, PTL DEF Spec
<1>4. CASE ~UsersClaimNothing
  <2>1. ClaimIsHeld
    BY <1>4 DEF ClaimIsHeld
  <2> QED
    BY <2>1, PTL
<1> QED
  BY <1>3, <1>4

-----------------------------------------------------------------------------
(***************************************************************************)
(* The operations implement DeviceLease.  A call holds the lease while the *)
(* gate has granted its claim and not served its release.                  *)
(***************************************************************************)

Lease == INSTANCE DeviceLease WITH
  Clients <- Calls,
  holders <- {c \in Calls : Owns(c)},
  atWork  <- {c \in Calls : AtWork(c)},
  revoked <- (overrides > 0)

ImplementsDeviceLease == Lease!Spec

\* A call's own steps: its claim is granted to it already when it begins to
\* work, and its release is sent when it has ended.
LEMMA CallStepLease ==
  ASSUME IInv, RequestInv, NEW c \in Calls, CallStep(c)
  PROVE  Lease!Next \/ UNCHANGED Lease!vars
<1>0. /\ pc \in [Calls -> Labels] /\ DOMAIN request = Calls
      /\ UNCHANGED overrides
  BY DEF IInv, TypeOK, Labels, CallStep, FailBeforeClaim, SendClaim, ClaimGranted,
     ClaimRefused, ClaimTimesOut, SeeStop, PassLastCheckpoint, Fail, Complete, Close,
     Return, Step
<1>1. CASE FailBeforeClaim(c) \/ ClaimRefused(c) \/ ClaimTimesOut(c) \/ Return(c)
  <2>1. PICK l \in {"done", "gone"} :
          /\ pc' = [pc EXCEPT ![c] = l] /\ UNCHANGED request
          /\ pc[c] \in {"starting", "claiming", "releasing"}
    BY <1>1 DEF FailBeforeClaim, ClaimRefused, ClaimTimesOut, Return, Step, Goto
  <2>2. \A d \in Calls : AtWork(d)' = AtWork(d)
    BY <1>0, <2>1 DEF AtWork
  <2> QED
    BY <1>0, <2>1, <2>2 DEF Lease!vars, Owns
<1>2. CASE SendClaim(c)
  <2>1. /\ pc' = [pc EXCEPT ![c] = "claiming"] /\ pc[c] = "starting"
        /\ request' = [request EXCEPT ![c] = "claim"]
    BY <1>2 DEF SendClaim, Goto
  <2>2. ~Owns(c)
    BY <2>1 DEF RequestInv, Owns
  <2>3. \A d \in Calls : AtWork(d)' = AtWork(d) /\ Owns(d)' = Owns(d)
    BY <1>0, <2>1, <2>2 DEF AtWork, Owns
  <2> QED
    BY <1>0, <2>3 DEF Lease!vars
<1>3. CASE ClaimGranted(c)
  <2>1. /\ pc' = [pc EXCEPT ![c] = "working"] /\ pc[c] = "claiming"
        /\ request[c] = "granted" /\ UNCHANGED request
    BY <1>3 DEF ClaimGranted, Goto
  <2>2. ~AtWork(c) /\ AtWork(c)' /\ Owns(c) /\ \A d \in Calls : Owns(d)' = Owns(d)
    BY <1>0, <2>1 DEF AtWork, Owns
  <2>3. \A d \in Calls \ {c} : AtWork(d)' = AtWork(d)
    BY <1>0, <2>1 DEF AtWork
  <2>4. Lease!Begin(c)
    BY <1>0, <2>2, <2>3 DEF Lease!Begin
  <2> QED
    BY <2>4 DEF Lease!Next
<1>4. CASE SeeStop(c) \/ PassLastCheckpoint(c) \/ Fail(c) \/ Complete(c)
  <2>1. PICK l \in {"finishing", "closing"} :
          pc' = [pc EXCEPT ![c] = l] /\ AtWork(c) /\ UNCHANGED request
    BY <1>4 DEF SeeStop, PassLastCheckpoint, Fail, Complete, Step, Goto, AtWork
  <2>2. \A d \in Calls : AtWork(d)' = AtWork(d)
    BY <1>0, <2>1 DEF AtWork
  <2> QED
    BY <1>0, <2>1, <2>2 DEF Lease!vars, Owns
<1>5. CASE Close(c)
  <2>1. /\ pc' = [pc EXCEPT ![c] = "releasing"] /\ AtWork(c)
        /\ request' = [request EXCEPT ![c] = "release"]
    BY <1>5 DEF Close, Goto, AtWork
  <2>2. Owns(c)
    BY <2>1 DEF IInv, WorkInv, Owns
  <2>3. ~AtWork(c)' /\ \A d \in Calls : Owns(d)' = Owns(d)
    BY <1>0, <2>1, <2>2 DEF AtWork, Owns
  <2>4. \A d \in Calls \ {c} : AtWork(d)' = AtWork(d)
    BY <1>0, <2>1 DEF AtWork
  <2>5. Lease!End(c)
    BY <1>0, <2>1, <2>3, <2>4 DEF Lease!End
  <2> QED
    BY <2>5 DEF Lease!Next
<1> QED
  BY <1>1, <1>2, <1>3, <1>4, <1>5 DEF CallStep

\* cogsworth grants and takes back: with one project in a device status at a
\* time, and every holder's project in one, it grants only what nobody holds.
LEMMA ServeLease ==
  ASSUME IInv, RequestInv, NEW c \in Calls, Serve(c)
  PROVE  Lease!Next \/ UNCHANGED Lease!vars
<1>0. DOMAIN request = Calls /\ UNCHANGED <<pc, overrides>> /\ overrides \in Nat
  BY OperationsAssumption DEF IInv, TypeOK, Serve, ServeClaim, ServeRelease
<1>1. \A d \in Calls : AtWork(d)' = AtWork(d)
  BY <1>0 DEF AtWork
<1>2. CASE ServeClaim(c)
  <2> DEFINE s == ClaimedStatus(module(c))
  <2>1. /\ request[c] = "claim"
        /\ request' = [request EXCEPT ![c] =
                         IF Accepts(project(c), s) THEN "granted" ELSE "refused"]
    BY <1>2 DEF ServeClaim
  <2>2. ~Owns(c) /\ \A d \in Calls \ {c} : Owns(d)' = Owns(d)
    BY <2>1 DEF Owns
  <2>3. CASE Accepts(project(c), s)
    <3>1. s \in DeviceStatuses
      BY ClaimedIsDevice
    <3>2. \A q \in Projects : status[q] \notin DeviceStatuses
      BY <2>3, <3>1 DEF Accepts, FreeStatuses, DeviceStatuses
    <3>3. overrides = 0 => \A d \in Calls : ~Owns(d)
      BY <3>2, ClaimedIsDevice DEF IInv, OwnerInv, TargetInv, Owns, Targets, project
    <3>4. Owns(c)'
      BY <1>0, <2>1, <2>3 DEF Owns
    <3> HIDE DEF s
    <3>5. Lease!Grant(c)
      BY <1>0, <1>1, <2>2, <3>3, <3>4 DEF Lease!Grant
    <3> QED
      BY <3>5 DEF Lease!Next
  <2>4. CASE ~Accepts(project(c), s)
    <3>1. ~Owns(c)'
      BY <1>0, <2>1, <2>4 DEF Owns
    <3> QED
      BY <1>0, <1>1, <2>2, <3>1 DEF Lease!vars
  <2> QED
    BY <2>3, <2>4
<1>3. CASE ServeRelease(c)
  <2>1. request[c] = "release" /\ request' = [request EXCEPT ![c] = "released"]
    BY <1>3 DEF ServeRelease
  <2>2. Owns(c) /\ ~Owns(c)' /\ \A d \in Calls \ {c} : Owns(d)' = Owns(d)
    BY <1>0, <2>1 DEF Owns
  <2>3. ~AtWork(c)
    BY <2>1 DEF RequestInv, AtWork
  <2>4. Lease!GiveBack(c)
    BY <1>0, <1>1, <2>2, <2>3 DEF Lease!GiveBack
  <2> QED
    BY <2>4 DEF Lease!Next
<1> QED
  BY <1>2, <1>3 DEF Serve

LEMMA LeaseStep ==
  ASSUME IInv, IInv', RequestInv, [Next]_vars
  PROVE  Lease!Next \/ UNCHANGED Lease!vars
<1>0. overrides \in Nat /\ overrides' \in Nat /\ pc \in [Calls -> Labels]
  BY OperationsAssumption DEF IInv, TypeOK, Labels
<1>1. ASSUME NEW c \in Calls, NEW m \in Modules, NEW p \in Projects, Start(c, m, p)
      PROVE  UNCHANGED Lease!vars
  <2>1. /\ pc' = [pc EXCEPT ![c] = "starting"] /\ pc[c] = "ready"
        /\ UNCHANGED <<request, overrides>>
    BY <1>1 DEF Start, Goto
  <2>2. \A d \in Calls : AtWork(d)' = AtWork(d)
    BY <1>0, <2>1 DEF AtWork
  <2> QED
    BY <2>1, <2>2 DEF Lease!vars, Owns
<1>2. ASSUME NEW c \in Calls, CallStep(c) \/ Serve(c)
      PROVE  Lease!Next \/ UNCHANGED Lease!vars
  BY <1>2, CallStepLease, ServeLease
<1>3. ASSUME NEW p \in Projects,
             DeleteProject(p) \/ \E s \in AllStatuses : UserUpdatesStatus(p, s)
      PROVE  Lease!Next \/ UNCHANGED Lease!vars
  <2>1. UNCHANGED <<pc, request>> /\ Override(p)
    BY <1>3 DEF DeleteProject, UserUpdatesStatus, opVars
  <2>2. \A d \in Calls : AtWork(d)' = AtWork(d) /\ Owns(d)' = Owns(d)
    BY <2>1 DEF AtWork, Owns
  <2>3. overrides' = overrides \/ overrides' = overrides + 1
    BY <1>0, <2>1 DEF Override
  <2>4. CASE (overrides' > 0) = (overrides > 0)
    BY <2>2, <2>4 DEF Lease!vars
  <2>5. CASE (overrides' > 0) # (overrides > 0)
    <3>1. ~(overrides > 0) /\ (overrides' > 0) = TRUE
      BY <1>0, <2>3, <2>5
    <3>2. Lease!Revoke
      BY <2>2, <3>1 DEF Lease!Revoke
    <3> QED
      BY <3>2 DEF Lease!Next
  <2> QED
    BY <2>4, <2>5
<1>4. CASE UNCHANGED <<pc, request, overrides>>
  BY <1>4 DEF Lease!vars, AtWork, Owns
<1> QED
  BY <1>1, <1>2, <1>3, <1>4 DEF Next, Stop, vars, opVars

\* The operations implement the lease, for any number of calls, modules and
\* projects: an operation works only when cogsworth has granted it what nobody
\* else holds, and its project is given back only when it has ended, although
\* claims and releases time out and are served late.
THEOREM LeaseIsImplemented == Spec => ImplementsDeviceLease
<1>1. Init => RequestInv
  BY RequestInit
<1>2. IInv /\ RequestInv /\ [Next]_vars => RequestInv'
  BY NextRequest
<1>3. Init => Lease!Init
  BY DEF Init, Lease!Init, Owns, AtWork
<1>4. IInv /\ IInv' /\ RequestInv /\ [Next]_vars => [Lease!Next]_(Lease!vars)
  BY LeaseStep
<1> QED
  BY <1>1, <1>2, <1>3, <1>4, SpecIInv, PTL DEF Spec, ImplementsDeviceLease, Lease!Spec

=============================================================================

---------------------------- MODULE Scanner_proofs ----------------------------
(***************************************************************************)
(* Scans are exclusive, stops reach the scan they were meant for, and a    *)
(* batch is complete when its tables are read: for any number of requests, *)
(* stops, devices and queries, and any sizes of channel, pool and          *)
(* semaphores.                                                             *)
(***************************************************************************)
EXTENDS Scanner, FiniteSetTheorems, TLAPS

-----------------------------------------------------------------------------
(***************************************************************************)
(* The invariant of requests, mutex, fields and stops.                     *)
(***************************************************************************)

\* A call in one of these holds scanner.mutex, and both fields are its own.
ArmedLabels == Phases \cup {"querying", "receiving", "acquiring", "adding", "waiting"}
EarlyLabels == {"ready", "claiming", "entering", "opening", "arming"}
LateLabels == {"returned", "releasing", "done"}
Labels == EarlyLabels \cup ArmedLabels \cup LateLabels

Armed(c) == pc[c] \in ArmedLabels
Holds(c) == pc[c] \in {"opening", "arming"} \cup ArmedLabels
Past(c) == pc[c] \notin EarlyLabels

\* A call owns the gate from the grant of its claim until its release is
\* served, whatever its goroutine believes.
Owns(c) == request[c] \in {"granted", "release"}

Requests == {"none", "claim", "granted", "refused", "release", "released"}
StopRecords == [at : {"ready", "reading", "read", "done"}, ctx : Calls \cup {None},
                cancel : Calls \cup {None}, met : Calls \cup {None}]

ControlTypes ==
  /\ StatusTypeOK
  /\ pc \in [Calls -> Labels]
  /\ project \in [Calls -> Projects \cup {None}]
  /\ request \in [Calls -> Requests]
  /\ verdict \in [Calls -> Verdicts]
  /\ mutex \in Calls \cup {None} /\ ctx \in Calls \cup {None}
  /\ cancel \in Calls \cup {None} /\ cancelled \subseteq Calls
  /\ stop \in [Stops -> StopRecords]
  /\ stopped \subseteq Calls /\ asked \subseteq Calls /\ overrides \in 0 .. MaxOverrides

RequestInv ==
  \A c \in Calls :
    /\ pc[c] # "ready" => project[c] \in Projects
    /\ request[c] # "none" => pc[c] # "ready"
    /\ AtWork(c) => request[c] = "granted"

OwnerInv ==
  overrides = 0 =>
    \A c \in Calls : Owns(c) =>
      /\ status[project[c]] = "Scanning"
      /\ \A d \in Calls : Owns(d) => d = c

GateInv == RequestInv /\ OwnerInv

FieldInv ==
  \A c \in Calls :
    /\ Holds(c) <=> mutex = c
    /\ pc[c] = "arming" => ctx = c
    /\ Armed(c) => ctx = c /\ cancel = c
    /\ cancel = c => Past(c)

\* What a stop has read, if the scan it met is still at work, is that scan's.
StopInv ==
  \A c \in Calls :
    /\ c \in cancelled => Past(c) /\ (Armed(c) => c \in asked)
    /\ c \in stopped => c \in cancelled
    /\ \A s \in Stops :
         /\ stop[s].cancel = c => Past(c)
         /\ stop[s].met = c =>
              /\ Past(c) /\ stop[s].ctx = c
              /\ Armed(c) /\ stop[s].at = "read" => stop[s].cancel = c

VerdictInv ==
  \A c \in Calls :
    /\ verdict[c] # "none" => pc[c] \in {"returned", "releasing"}
    /\ verdict[c] = "cancelled" => c \in asked
    /\ overrides = 0 => verdict[c] # "busy"

Control == ControlTypes /\ GateInv /\ FieldInv /\ StopInv /\ VerdictInv

controlVars == <<status, callVars, fieldVars, stop, histVars>>

-----------------------------------------------------------------------------
(***************************************************************************)
(* What a step of a scan does to them: it takes the mutex or finds it      *)
(* taken, writes a field, goes on, or returns.                             *)
(***************************************************************************)

GoesOn(c) ==
  \E to \in ArmedLabels :
    /\ Armed(c) /\ Goto(c, to)
    /\ pc[c] \in Phases => c \notin cancelled
    /\ UNCHANGED <<status, project, request, verdict, fieldVars, stop, histVars>>

Returns(c, v) ==
  /\ Armed(c) /\ Goto(c, "returned")
  /\ v \in Verdicts \ {"busy"}
  /\ v = "completed" => c \notin cancelled \/ pc[c] = "discovering"
  /\ v = "cancelled" => c \in cancelled
  /\ verdict' = [verdict EXCEPT ![c] = v] /\ mutex' = None
  /\ UNCHANGED <<status, project, request, ctx, cancel, cancelled, stop, histVars>>

LEMMA ScanMoves ==
  ASSUME NEW c \in Calls, ScanStep(c)
  PROVE  \/ TryLock(c) \/ Busy(c) \/ OpenContext(c) \/ Arm(c)
         \/ GoesOn(c) \/ \E v : Returns(c, v)
<1> USE DEF Scan, Armed, ArmedLabels, Phases, fieldVars, Verdicts
<1>1. ASSUME NEW from \in ArmedLabels, NEW v \in Verdicts \ {"busy"}, Return(c, from, v),
             v = "completed" => c \notin cancelled \/ pc[c] = "discovering",
             v = "cancelled" => c \in cancelled
      PROVE  Returns(c, v)
  BY <1>1 DEF Return, Returns
<1>2. CASE Fail(c)
  <2>1. PICK ph \in ArmedLabels : Return(c, ph, "failed")
    BY <1>2 DEF Fail
  <2> QED
    BY <1>1, <2>1
<1>3. CASE Panic(c)
  <2>1. PICK ph \in ArmedLabels : Return(c, ph, "unknown")
    BY <1>3 DEF Panic
  <2> QED
    BY <1>1, <2>1
<1>4. CASE SeeCancel(c)
  <2>1. PICK ph \in ArmedLabels : Return(c, ph, "cancelled")
    BY <1>4 DEF SeeCancel
  <2> QED
    BY <1>1, <1>4, <2>1 DEF SeeCancel
<1>5. CASE NothingFound(c)
  BY <1>1, <1>5 DEF NothingFound, Return
<1>6. CASE Complete(c)
  BY <1>1, <1>6 DEF Complete
<1>7. CASE Prepared(c) \/ Discovered(c) \/ Created(c)
  BY <1>7 DEF Prepared, Discovered, Created, Pass, GoesOn
<1>8. CASE NoBatch(c) \/ BeginBatch(c) \/ Receive(c) \/ Acquire(c)
  BY <1>8 DEF NoBatch, BeginBatch, Receive, Acquire, Batch, GoesOn
<1>9. CASE AddJob(c) \/ Drained(c) \/ WaitAndClose(c)
  BY <1>9 DEF AddJob, Drained, WaitAndClose, Batch, GoesOn
<1> QED
  BY <1>2, <1>3, <1>4, <1>5, <1>6, <1>7, <1>8, <1>9 DEF ScanStep

LEMMA Moved ==
  ASSUME ControlTypes, NEW c \in Calls, NEW l \in Labels, Goto(c, l)
  PROVE  /\ pc' \in [Calls -> Labels]
         /\ \A d \in Calls : pc'[d] = IF d = c THEN l ELSE pc[d]
BY DEF ControlTypes, Goto

\* A step of a goroutine between the grant and the release leaves the gate.
LEMMA WorkKeepsGate ==
  ASSUME Control, NEW c \in Calls, NEW l \in Labels, Goto(c, l), AtWork(c),
         l \notin {"ready", "releasing", "claiming", "done"},
         UNCHANGED <<status, project, request, histVars>>
  PROVE  GateInv' /\ StatusTypeOK'
<1>1. \A d \in Calls : pc'[d] = IF d = c THEN l ELSE pc[d]
  BY Moved DEF Control
<1>2. RequestInv'
  BY <1>1 DEF Control, GateInv, RequestInv, AtWork, histVars
<1> QED
  BY <1>2 DEF Control, ControlTypes, GateInv, OwnerInv, Owns, StatusTypeOK, histVars

LEMMA ScanKeepsControl ==
  ASSUME Control, NEW c \in Calls, ScanStep(c)
  PROVE  Control'
<1>1. ASSUME NEW l \in Labels, Goto(c, l)
      PROVE  /\ pc' \in [Calls -> Labels]
             /\ \A d \in Calls : pc'[d] = IF d = c THEN l ELSE pc[d]
  BY <1>1, Moved DEF Control
<1> USE ScannerAssumption
<1> USE DEF Labels, EarlyLabels, ArmedLabels, LateLabels, Phases, histVars, fieldVars
<1>2. CASE TryLock(c)
  <2>1. pc[c] = "entering" /\ Goto(c, "opening")
        /\ UNCHANGED <<status, project, request, stop, histVars>>
    BY <1>2 DEF TryLock, Scan
  <2>2. /\ pc' \in [Calls -> Labels]
        /\ \A d \in Calls : pc'[d] = IF d = c THEN "opening" ELSE pc[d]
    BY <1>1, <2>1
  <2>3. mutex = None /\ mutex' = c /\ UNCHANGED <<verdict, ctx, cancel, cancelled>>
    BY <1>2 DEF TryLock
  <2>4. GateInv' /\ StatusTypeOK'
    BY <2>1, WorkKeepsGate DEF AtWork
  <2>5. ControlTypes'
    BY <2>1, <2>2, <2>3, <2>4 DEF Control, ControlTypes
  <2>6. FieldInv'
    BY <2>1, <2>2, <2>3 DEF Control, FieldInv, Holds, Armed, Past
  <2>7. StopInv' /\ VerdictInv'
    BY <2>1, <2>2, <2>3 DEF Control, StopInv, VerdictInv, Armed, Past
  <2> QED
    BY <2>4, <2>5, <2>6, <2>7 DEF Control
<1>3. CASE Busy(c)
  <2>1. pc[c] = "entering" /\ Goto(c, "returned")
        /\ UNCHANGED <<status, project, request, stop, histVars>>
    BY <1>3 DEF Busy, Scan
  <2>2. /\ pc' \in [Calls -> Labels]
        /\ \A d \in Calls : pc'[d] = IF d = c THEN "returned" ELSE pc[d]
    BY <1>1, <2>1
  <2>3. mutex # None /\ verdict' = [verdict EXCEPT ![c] = "busy"]
        /\ UNCHANGED <<mutex, ctx, cancel, cancelled>>
    BY <1>3 DEF Busy
  <2>4. GateInv' /\ StatusTypeOK'
    BY <2>1, WorkKeepsGate DEF AtWork
  <2>5. ControlTypes'
    BY <2>1, <2>2, <2>3, <2>4 DEF Control, ControlTypes, Verdicts
  <2>6. FieldInv' /\ StopInv'
    BY <2>1, <2>2, <2>3 DEF Control, FieldInv, StopInv, Holds, Armed, Past
  <2>7. overrides # 0
    <3>1. mutex \in Calls /\ Holds(mutex)
      BY <2>3 DEF Control, ControlTypes, FieldInv
    <3>2. Owns(c) /\ Owns(mutex)
      BY <2>1, <3>1 DEF Control, GateInv, RequestInv, Owns, AtWork, Holds
    <3> QED
      BY <2>1, <3>1, <3>2 DEF Control, GateInv, OwnerInv, Holds
  <2>8. \A d \in Calls : verdict'[d] = IF d = c THEN "busy" ELSE verdict[d]
    BY <2>3 DEF Control, ControlTypes
  <2>9. VerdictInv'
    BY <2>1, <2>2, <2>7, <2>8 DEF Control, VerdictInv
  <2> QED
    BY <2>4, <2>5, <2>6, <2>9 DEF Control
<1>4. CASE OpenContext(c)
  <2>1. pc[c] = "opening" /\ Goto(c, "arming")
        /\ UNCHANGED <<status, project, request, stop, histVars>>
    BY <1>4 DEF OpenContext, Scan
  <2>2. /\ pc' \in [Calls -> Labels]
        /\ \A d \in Calls : pc'[d] = IF d = c THEN "arming" ELSE pc[d]
    BY <1>1, <2>1
  <2>3. ctx' = c /\ UNCHANGED <<verdict, mutex, cancel, cancelled>>
    BY <1>4 DEF OpenContext
  <2>4. GateInv' /\ StatusTypeOK'
    BY <2>1, WorkKeepsGate DEF AtWork
  <2>5. ControlTypes'
    BY <2>1, <2>2, <2>3, <2>4 DEF Control, ControlTypes
  <2>6. FieldInv'
    BY <2>1, <2>2, <2>3 DEF Control, FieldInv, Holds, Armed, Past
  <2>7. StopInv' /\ VerdictInv'
    BY <2>1, <2>2, <2>3 DEF Control, StopInv, VerdictInv, Armed, Past
  <2> QED
    BY <2>4, <2>5, <2>6, <2>7 DEF Control
<1>5. CASE Arm(c)
  <2>1. pc[c] = "arming" /\ Goto(c, "preparing")
        /\ UNCHANGED <<status, project, request, stop, histVars>>
    BY <1>5 DEF Arm, Scan
  <2>2. /\ pc' \in [Calls -> Labels]
        /\ \A d \in Calls : pc'[d] = IF d = c THEN "preparing" ELSE pc[d]
    BY <1>1, <2>1
  <2>3. cancel' = c /\ UNCHANGED <<verdict, mutex, ctx, cancelled>>
    BY <1>5 DEF Arm
  <2>4. GateInv' /\ StatusTypeOK'
    BY <2>1, WorkKeepsGate DEF AtWork
  <2>5. ControlTypes'
    BY <2>1, <2>2, <2>3, <2>4 DEF Control, ControlTypes
  <2>6. FieldInv'
    BY <2>1, <2>2, <2>3 DEF Control, FieldInv, Holds, Armed, Past
  <2>7. StopInv' /\ VerdictInv'
    BY <2>1, <2>2, <2>3 DEF Control, StopInv, VerdictInv, Armed, Past
  <2> QED
    BY <2>4, <2>5, <2>6, <2>7 DEF Control
<1>6. CASE GoesOn(c)
  <2>1. PICK to \in ArmedLabels :
          /\ Armed(c) /\ Goto(c, to)
          /\ UNCHANGED <<status, project, request, verdict, fieldVars, stop, histVars>>
    BY <1>6 DEF GoesOn
  <2>2. /\ pc' \in [Calls -> Labels]
        /\ \A d \in Calls : pc'[d] = IF d = c THEN to ELSE pc[d]
    BY <1>1, <2>1
  <2>4. GateInv' /\ StatusTypeOK'
    BY <2>1, WorkKeepsGate DEF AtWork, Armed
  <2>5. ControlTypes'
    BY <2>1, <2>2, <2>4 DEF Control, ControlTypes
  <2>6. FieldInv'
    BY <2>1, <2>2 DEF Control, FieldInv, Holds, Armed, Past
  <2>7. StopInv' /\ VerdictInv'
    BY <2>1, <2>2 DEF Control, StopInv, VerdictInv, Armed, Past
  <2> QED
    BY <2>4, <2>5, <2>6, <2>7 DEF Control
<1>7. ASSUME NEW v, Returns(c, v)
      PROVE  Control'
  <2>1. pc[c] \in ArmedLabels /\ Goto(c, "returned")
        /\ UNCHANGED <<status, project, request, ctx, cancel, cancelled, stop, histVars>>
    BY <1>7 DEF Returns, Armed
  <2>2. /\ pc' \in [Calls -> Labels]
        /\ \A d \in Calls : pc'[d] = IF d = c THEN "returned" ELSE pc[d]
    BY <1>1, <2>1
  <2>3. /\ v \in Verdicts \ {"busy"}
        /\ v = "cancelled" => c \in cancelled
        /\ verdict' = [verdict EXCEPT ![c] = v] /\ mutex' = None
    BY <1>7 DEF Returns
  <2>4. GateInv' /\ StatusTypeOK'
    BY <2>1, WorkKeepsGate DEF AtWork
  <2>5. ControlTypes'
    BY <2>1, <2>2, <2>3, <2>4 DEF Control, ControlTypes
  <2>6. FieldInv'
    BY <2>1, <2>2, <2>3 DEF Control, ControlTypes, FieldInv, Holds, Armed, Past
  <2>7. StopInv'
    BY <2>1, <2>2, <2>3 DEF Control, StopInv, Armed, Past
  <2>8. \A d \in Calls : verdict'[d] = IF d = c THEN v ELSE verdict[d]
    BY <2>3 DEF Control, ControlTypes
  <2>9. VerdictInv'
    BY <2>1, <2>2, <2>3, <2>8 DEF Control, VerdictInv, StopInv, Armed
  <2> QED
    BY <2>4, <2>5, <2>6, <2>7, <2>9 DEF Control
<1> QED
  BY <1>2, <1>3, <1>4, <1>5, <1>6, <1>7, ScanMoves

-----------------------------------------------------------------------------
(***************************************************************************)
(* The handler, cogsworth, stops and users.                                *)
(***************************************************************************)

\* What a request to the gate does to the list.
LEMMA GateKeeps ==
  ASSUME StatusTypeOK, NEW p \in Projects, NEW s \in AllStatuses,
         UpdateProjectStatus(p, s)
  PROVE  /\ StatusTypeOK'
         /\ \A q \in Projects \ {p} : status'[q] = status[q]
         /\ Accepts(p, s) => status'[p] = Stored(p, s)
         /\ ~Accepts(p, s) => status' = status
<1>1. Stored(p, s) \in AllStatuses \cup {"absent"}
  BY DEF Stored, StatusTypeOK, AllStatuses, FreeStatuses
<1> QED
  BY <1>1 DEF UpdateProjectStatus, StatusTypeOK

LEMMA SendClaimStep ==
  ASSUME Control, NEW c \in Calls, NEW p \in Projects, SendClaim(c, p)
  PROVE  Control'
<1> USE DEF Labels, EarlyLabels, ArmedLabels, LateLabels, Phases, fieldVars
<1>1. /\ pc[c] = "ready" /\ Goto(c, "claiming")
      /\ UNCHANGED <<status, verdict, fieldVars, stop, histVars>>
  BY DEF SendClaim, Handler, histVars
<1>2. /\ pc' \in [Calls -> Labels]
      /\ \A d \in Calls : pc'[d] = IF d = c THEN "claiming" ELSE pc[d]
  BY <1>1, Moved DEF Control
<1>3. /\ project' \in [Calls -> Projects \cup {None}] /\ request' \in [Calls -> Requests]
      /\ \A d \in Calls : /\ project'[d] = IF d = c THEN p ELSE project[d]
                          /\ request'[d] = IF d = c THEN "claim" ELSE request[d]
  BY DEF SendClaim, Control, ControlTypes, Requests
<1>4. ControlTypes'
  BY <1>1, <1>2, <1>3 DEF Control, ControlTypes, StatusTypeOK, histVars
<1>5. GateInv'
  BY <1>1, <1>2, <1>3 DEF Control, GateInv, RequestInv, OwnerInv, Owns, AtWork, histVars
<1>6. FieldInv' /\ StopInv' /\ VerdictInv'
  BY <1>1, <1>2
  DEF Control, FieldInv, StopInv, VerdictInv, Holds, Armed, Past, histVars
<1> QED
  BY <1>4, <1>5, <1>6 DEF Control

LEMMA ServeStep ==
  ASSUME Control, NEW c \in Calls, Serve(c)
  PROVE  Control'
<1>1. UNCHANGED <<pc, project, verdict, fieldVars, stop, histVars>>
  BY DEF Serve
<1>2. FieldInv' /\ StopInv' /\ VerdictInv'
  BY <1>1
  DEF Control, FieldInv, StopInv, VerdictInv, Holds, Armed, Past, fieldVars, histVars
<1>3. request[c] # "none" => project[c] \in Projects
  BY DEF Control, GateInv, RequestInv
<1>4. CASE request[c] = "claim"
  <2>1. /\ UpdateProjectStatus(project[c], "Scanning") /\ project[c] \in Projects
        /\ request' = [request EXCEPT ![c] =
                         IF Accepts(project[c], "Scanning") THEN "granted" ELSE "refused"]
    BY <1>3, <1>4 DEF Serve
  <2>2. "Scanning" \in DeviceStatuses \ FreeStatuses /\ "Scanning" \in AllStatuses
        /\ "Scanning" \notin ComputeStatuses
    BY DEF AllStatuses, DeviceStatuses, FreeStatuses, ComputeStatuses
  <2>3. StatusTypeOK'
    BY <2>1, <2>2, GateKeeps DEF Control, ControlTypes
  <2>4. ControlTypes'
    BY <1>1, <2>1, <2>3 DEF Control, ControlTypes, Requests, fieldVars, histVars
  <2>5. \A d \in Calls \ {c} : request'[d] = request[d]
    BY <2>1 DEF Control, ControlTypes
  <2>6. RequestInv'
    BY <1>1, <1>4, <2>1, <2>5 DEF Control, ControlTypes, GateInv, RequestInv, AtWork
  <2>7. CASE Accepts(project[c], "Scanning")
    <3>1. status'[project[c]] = "Scanning"
      BY <2>1, <2>2, <2>7, GateKeeps DEF Stored, Control, ControlTypes
    <3>2. \A d \in Calls : Owns(d) => overrides # 0
      BY <2>1, <2>2, <2>7, <1>3 DEF Accepts, Control, GateInv, RequestInv, OwnerInv, Owns
    <3> QED
      BY <1>1, <1>2, <2>4, <2>5, <2>6, <3>1, <3>2
      DEF Control, GateInv, OwnerInv, Owns, histVars
  <2>8. CASE ~Accepts(project[c], "Scanning")
    <3>1. status' = status /\ request'[c] = "refused"
      BY <2>1, <2>2, <2>8, GateKeeps DEF Control, ControlTypes
    <3> QED
      BY <1>1, <1>2, <2>4, <2>5, <2>6, <3>1 DEF Control, GateInv, OwnerInv, Owns, histVars
  <2> QED
    BY <2>7, <2>8
<1>5. CASE request[c] = "release"
  <2>1. /\ UpdateProjectStatus(project[c], "Idle") /\ project[c] \in Projects
        /\ request' = [request EXCEPT ![c] = "released"]
    BY <1>3, <1>5 DEF Serve
  <2>2. StatusTypeOK'
    BY <2>1, GateKeeps DEF Control, ControlTypes, AllStatuses, FreeStatuses
  <2>3. ControlTypes'
    BY <1>1, <2>1, <2>2 DEF Control, ControlTypes, Requests, fieldVars, histVars
  <2>4. \A d \in Calls : request'[d] = IF d = c THEN "released" ELSE request[d]
    BY <2>1 DEF Control, ControlTypes
  <2>5. RequestInv'
    BY <1>1, <1>5, <2>4 DEF Control, GateInv, RequestInv, AtWork
  <2>6. OwnerInv'
    BY <1>1, <1>5, <2>4 DEF Control, GateInv, OwnerInv, Owns, histVars
  <2> QED
    BY <1>2, <2>3, <2>5, <2>6 DEF Control, GateInv
<1> QED
  BY <1>4, <1>5 DEF Serve

LEMMA HandlerKeepsControl ==
  ASSUME Control, NEW c \in Calls, HandlerStep(c)
  PROVE  Control'
<1> USE DEF Labels, EarlyLabels, ArmedLabels, LateLabels, Phases, fieldVars
<1>1. ASSUME NEW l \in Labels, Goto(c, l)
      PROVE  /\ pc' \in [Calls -> Labels]
             /\ \A d \in Calls : pc'[d] = IF d = c THEN l ELSE pc[d]
  BY <1>1, Moved DEF Control
<1>2. CASE ClaimGranted(c) \/ ClaimFails(c)
  <2>1. PICK l \in {"entering", "done"} :
          /\ pc[c] = "claiming" /\ Goto(c, l)
          /\ l = "entering" => request[c] = "granted"
          /\ UNCHANGED <<status, project, request, verdict, fieldVars, stop, histVars>>
    BY <1>2 DEF ClaimGranted, ClaimFails, Handler, histVars
  <2>2. /\ pc' \in [Calls -> Labels]
        /\ \A d \in Calls : pc'[d] = IF d = c THEN l ELSE pc[d]
    BY <1>1, <2>1
  <2>3. ControlTypes'
    BY <2>1, <2>2 DEF Control, ControlTypes, StatusTypeOK, histVars
  <2>4. GateInv'
    BY <2>1, <2>2 DEF Control, GateInv, RequestInv, OwnerInv, Owns, AtWork, histVars
  <2>5. FieldInv' /\ StopInv' /\ VerdictInv'
    BY <2>1, <2>2
    DEF Control, FieldInv, StopInv, VerdictInv, Holds, Armed, Past, histVars
  <2> QED
    BY <2>3, <2>4, <2>5 DEF Control
<1>3. CASE SendRelease(c)
  <2>1. /\ pc[c] = "returned" /\ Goto(c, "releasing")
        /\ request' = [request EXCEPT ![c] = "release"]
        /\ UNCHANGED <<status, project, verdict, fieldVars, stop, histVars>>
    BY <1>3 DEF SendRelease, Handler, histVars
  <2>2. /\ pc' \in [Calls -> Labels]
        /\ \A d \in Calls : pc'[d] = IF d = c THEN "releasing" ELSE pc[d]
    BY <1>1, <2>1
  <2>3. \A d \in Calls : request'[d] = IF d = c THEN "release" ELSE request[d]
    BY <2>1 DEF Control, ControlTypes
  <2>4. ControlTypes'
    BY <2>1, <2>2 DEF Control, ControlTypes, StatusTypeOK, Requests, histVars
  <2>5. request[c] = "granted"
    BY <2>1 DEF Control, GateInv, RequestInv, AtWork
  <2>6. GateInv'
    BY <2>1, <2>2, <2>3, <2>5
    DEF Control, GateInv, RequestInv, OwnerInv, Owns, AtWork, histVars
  <2>7. FieldInv' /\ StopInv' /\ VerdictInv'
    BY <2>1, <2>2
    DEF Control, FieldInv, StopInv, VerdictInv, Holds, Armed, Past, histVars
  <2> QED
    BY <2>4, <2>6, <2>7 DEF Control
<1>4. CASE Answer(c)
  <2>1. /\ pc[c] = "releasing" /\ Goto(c, "done")
        /\ verdict' = [verdict EXCEPT ![c] = "none"]
        /\ stopped' = stopped \ {c} /\ asked' = asked \ {c}
        /\ UNCHANGED <<status, project, request, fieldVars, stop, overrides>>
    BY <1>4 DEF Answer, Handler
  <2>2. /\ pc' \in [Calls -> Labels]
        /\ \A d \in Calls : pc'[d] = IF d = c THEN "done" ELSE pc[d]
    BY <1>1, <2>1
  <2>3. \A d \in Calls : verdict'[d] = IF d = c THEN "none" ELSE verdict[d]
    BY <2>1 DEF Control, ControlTypes
  <2>4. ControlTypes'
    BY <2>1, <2>2 DEF Control, ControlTypes, StatusTypeOK, Verdicts
  <2>5. GateInv'
    BY <2>1, <2>2 DEF Control, GateInv, RequestInv, OwnerInv, Owns, AtWork
  <2>6. FieldInv'
    BY <2>1, <2>2 DEF Control, FieldInv, Holds, Armed, Past
  <2>7. StopInv'
    BY <2>1, <2>2 DEF Control, StopInv, Armed, Past
  <2>8. VerdictInv'
    BY <2>1, <2>2, <2>3 DEF Control, VerdictInv
  <2> QED
    BY <2>4, <2>5, <2>6, <2>7, <2>8 DEF Control
<1> QED
  BY <1>2, <1>3, <1>4 DEF HandlerStep

LEMMA StopKeepsControl ==
  ASSUME Control, NEW s \in Stops, StopStep(s)
  PROVE  Control'
<1> USE ScannerAssumption
<1>1. UNCHANGED <<status, callVars, mutex, ctx, cancel, overrides>>
  BY DEF StopStep, ReadContext, ReadCancel, CallCancel, StopAt
<1>2. GateInv'
  BY <1>1 DEF Control, GateInv, RequestInv, OwnerInv, Owns, AtWork, callVars
<1>3. FieldInv'
  BY <1>1 DEF Control, FieldInv, Holds, Armed, Past, callVars
<1>4. ASSUME NEW new \in StopRecords, stop' = [stop EXCEPT ![s] = new]
      PROVE  /\ stop' \in [Stops -> StopRecords]
             /\ \A r \in Stops : stop'[r] = IF r = s THEN new ELSE stop[r]
  BY <1>4 DEF Control, ControlTypes
<1>5. stop[s] \in StopRecords
  BY DEF Control, ControlTypes
<1>6. ASSUME ReadContext(s) \/ ReadCancel(s), stop' \in [Stops -> StopRecords], StopInv'
      PROVE  Control'
  <2>1. UNCHANGED <<cancelled, stopped, asked>>
    BY <1>6 DEF ReadContext, ReadCancel
  <2>2. VerdictInv'
    BY <1>1, <2>1 DEF Control, VerdictInv, callVars
  <2> QED
    BY <1>1, <1>2, <1>3, <1>6, <2>1, <2>2
    DEF Control, ControlTypes, StatusTypeOK, callVars
<1>7. CASE ReadContext(s)
  <2> DEFINE new == [at |-> "reading", ctx |-> ctx, cancel |-> None, met |-> StoppableScan]
  <2>1. new \in StopRecords
    BY DEF StoppableScan, StopRecords, Control, ControlTypes
  <2>2. /\ stop' \in [Stops -> StopRecords]
        /\ \A r \in Stops : stop'[r] = IF r = s THEN new ELSE stop[r]
    BY <1>4, <1>7, <2>1 DEF ReadContext, StopAt
  <2>3. \A c \in Calls : StoppableScan = c => Armed(c) /\ mutex = c
    BY DEF StoppableScan, Control, FieldInv, Holds, Armed
  <2>4. StopInv'
    BY <1>1, <1>7, <2>2, <2>3
    DEF ReadContext, Control, StopInv, FieldInv, Armed, Past, callVars, ArmedLabels,
        EarlyLabels, Phases
  <2> QED
    BY <1>6, <1>7, <2>2, <2>4
<1>8. CASE ReadCancel(s)
  <2> DEFINE new == [stop[s] EXCEPT !.at = "read", !.cancel = cancel]
  <2>1. new \in StopRecords /\ new.met = stop[s].met /\ new.ctx = stop[s].ctx
        /\ new.cancel = cancel
    BY <1>5 DEF StopRecords, Control, ControlTypes
  <2>2. /\ stop' \in [Stops -> StopRecords]
        /\ \A r \in Stops : stop'[r] = IF r = s THEN new ELSE stop[r]
    BY <1>4, <1>8, <2>1 DEF ReadCancel, StopAt
  <2> HIDE DEF new
  <2>3. StopInv'
    BY <1>1, <1>8, <2>1, <2>2
    DEF ReadCancel, Control, StopInv, FieldInv, Armed, Past, callVars
  <2> QED
    BY <1>6, <1>8, <2>2, <2>3
<1>9. CASE CallCancel(s)
  <2> DEFINE new == [NoStop EXCEPT !.at = "done"]
  <2>1. new \in StopRecords /\ new.met = None /\ new.cancel = None
    BY DEF NoStop, StopRecords
  <2>2. /\ stop' \in [Stops -> StopRecords]
        /\ \A r \in Stops : stop'[r] = IF r = s THEN new ELSE stop[r]
    BY <1>4, <1>9, <2>1 DEF CallCancel, StopAt
  <2> HIDE DEF new
  <2>3. /\ stop[s].at = "read"
        /\ stop[s].ctx \in cancelled => UNCHANGED <<cancelled, asked>>
        /\ stop[s].ctx \notin cancelled =>
             /\ cancelled' = cancelled \cup ({stop[s].cancel} \ {None})
             /\ asked' = asked \cup ({mutex} \ {None})
        /\ stopped' = IF stop[s].met # None /\ stop[s].met = mutex
                        THEN stopped \cup {mutex} ELSE stopped
    BY <1>9 DEF CallCancel, StopAt
  <2>4. stop[s].cancel \in Calls \cup {None} /\ stop[s].met \in Calls \cup {None}
    BY <1>5 DEF StopRecords
  <2>5. ControlTypes'
    BY <1>1, <2>2, <2>3, <2>4 DEF Control, ControlTypes, StatusTypeOK, callVars
  <2>6. \A c \in Calls : c \in cancelled' => Past(c)' /\ (Armed(c)' => c \in asked')
    BY <1>1, <2>3 DEF Control, StopInv, FieldInv, Holds, Armed, Past, callVars
  <2>7. \A c \in Calls : c \in stopped' => c \in cancelled'
    <3>1. ASSUME NEW c \in Calls, stop[s].met = c, mutex = c
          PROVE  c \in cancelled'
      <4>1. Armed(c)
        BY <3>1, ScannerAssumption
        DEF Control, StopInv, FieldInv, Holds, Armed, Past, EarlyLabels, ArmedLabels
      <4>2. stop[s].ctx = c /\ stop[s].cancel = c
        BY <2>3, <3>1, <4>1 DEF Control, StopInv
      <4> QED
        BY <2>3, <4>2
    <3>2. cancelled \subseteq cancelled'
      BY <2>3
    <3> QED
      BY <2>3, <2>4, <3>1, <3>2 DEF Control, StopInv
  <2>8. StopInv'
    <3>1. \A c \in Calls, r \in Stops :
            /\ (stop'[r].cancel = c => Past(c)')
            /\ (stop'[r].met = c =>
                  /\ Past(c)' /\ stop'[r].ctx = c
                  /\ Armed(c)' /\ stop'[r].at = "read" => stop'[r].cancel = c)
      BY <1>1, <2>1, <2>2 DEF Control, StopInv, Armed, Past, callVars
    <3> QED
      BY <2>6, <2>7, <3>1 DEF StopInv
  <2>9. VerdictInv'
    <3>1. \A c \in Calls : c \in stopped' \ stopped => Holds(c)
      BY <2>3 DEF Control, FieldInv
    <3>2. \A c \in Calls : Holds(c) => verdict[c] = "none"
      BY DEF Control, VerdictInv, Holds, ArmedLabels, Phases
    <3>3. asked \subseteq asked'
      BY <2>3
    <3> QED
      BY <1>1, <3>1, <3>2, <3>3 DEF Control, VerdictInv, callVars
  <2> QED
    BY <1>2, <1>3, <2>5, <2>8, <2>9 DEF Control
<1> QED
  BY <1>7, <1>8, <1>9 DEF StopStep

\* Of what others do to a status, only taking a project out of a device status
\* could disturb its owner, and that is counted.
LEMMA StatusStep ==
  ASSUME Control, StatusTypeOK', overrides' \in 0 .. MaxOverrides, StatusUpdate,
         overrides' = 0 => overrides = 0,
         overrides' = 0 =>
           \A p \in Projects : status[p] = "Scanning" => status'[p] = "Scanning"
  PROVE  Control'
<1>1. UNCHANGED <<callVars, fieldVars, stop, stopped, asked>>
  BY DEF StatusUpdate
<1>2. ControlTypes'
  BY <1>1 DEF Control, ControlTypes, callVars, fieldVars
<1>3. RequestInv' /\ FieldInv' /\ StopInv'
  BY <1>1 DEF Control, GateInv, RequestInv, AtWork, FieldInv, StopInv, Holds, Armed, Past,
              callVars, fieldVars
<1>4. OwnerInv'
  <2>1. \A c \in Calls : Owns(c) => project[c] \in Projects
    BY DEF Control, GateInv, RequestInv, Owns
  <2> QED
    BY <1>1, <2>1 DEF Control, GateInv, OwnerInv, Owns, callVars
<1>5. VerdictInv'
  BY <1>1 DEF Control, VerdictInv, callVars
<1> QED
  BY <1>2, <1>3, <1>4, <1>5 DEF Control, GateInv

LEMMA OthersKeepControl ==
  ASSUME Control, NEW p \in Projects,
         \/ OtherClaims(p) \/ OtherReleases(p) \/ DeleteProject(p)
         \/ \E s \in AllStatuses : UserUpdatesStatus(p, s)
  PROVE  Control'
<1> USE ScannerAssumption
<1>1. /\ "Scanning" \in DeviceStatuses \ FreeStatuses
      /\ "Deploying" \in DeviceStatuses /\ "Deploying" # "Scanning"
      /\ {"Idle", "Deploying"} \subseteq AllStatuses
  BY DEF AllStatuses, DeviceStatuses, FreeStatuses
<1>2. StatusTypeOK /\ overrides \in 0 .. MaxOverrides
  BY DEF Control, ControlTypes
<1>3. CASE OtherClaims(p)
  <2>1. UpdateProjectStatus(p, "Deploying") /\ StatusUpdate /\ UNCHANGED overrides
    BY <1>3 DEF OtherClaims
  <2>2. status[p] # "Scanning"
    BY <1>1, <1>3 DEF OtherClaims, Accepts
  <2> QED
    BY <1>1, <1>2, <2>1, <2>2, GateKeeps, StatusStep
<1>4. CASE OtherReleases(p)
  <2>1. UpdateProjectStatus(p, "Idle") /\ StatusUpdate /\ UNCHANGED overrides
    BY <1>4 DEF OtherReleases
  <2>2. status[p] # "Scanning"
    BY <1>4 DEF OtherReleases
  <2> QED
    BY <1>1, <1>2, <2>1, <2>2, GateKeeps, StatusStep
<1>5. ASSUME overrides < MaxOverrides, Override(p)
      PROVE  /\ overrides' \in 0 .. MaxOverrides
             /\ overrides' = 0 => overrides = 0
             /\ overrides' = 0 /\ status[p] = "Scanning" => status'[p] = "Scanning"
  BY <1>1, <1>2, <1>5 DEF Override
<1>6. CASE DeleteProject(p)
  <2>1. /\ overrides < MaxOverrides /\ Override(p) /\ StatusUpdate
        /\ status' = [status EXCEPT ![p] = "absent"]
    BY <1>6 DEF DeleteProject
  <2>2. StatusTypeOK' /\ \A q \in Projects \ {p} : status'[q] = status[q]
    BY <1>2, <2>1 DEF StatusTypeOK
  <2> QED
    BY <1>5, <2>1, <2>2, StatusStep
<1>7. ASSUME NEW s \in AllStatuses, UserUpdatesStatus(p, s)
      PROVE  Control'
  <2>1. /\ overrides < MaxOverrides /\ Override(p) /\ StatusUpdate
        /\ UpdateProjectStatus(p, s)
    BY <1>7 DEF UserUpdatesStatus
  <2>2. StatusTypeOK' /\ \A q \in Projects \ {p} : status'[q] = status[q]
    BY <1>2, <2>1, GateKeeps
  <2> QED
    BY <1>5, <2>1, <2>2, StatusStep
<1> QED
  BY <1>3, <1>4, <1>6, <1>7

LEMMA UnchangedControl == ASSUME Control, UNCHANGED controlVars PROVE Control'
<1> USE DEF controlVars, callVars, fieldVars, histVars
<1>1. ControlTypes'
  BY DEF Control, ControlTypes, StatusTypeOK
<1>2. GateInv' /\ FieldInv'
  BY DEF Control, GateInv, RequestInv, OwnerInv, Owns, AtWork, FieldInv, Holds, Armed, Past
<1>3. StopInv' /\ VerdictInv'
  BY DEF Control, StopInv, VerdictInv, Armed, Past
<1> QED
  BY <1>1, <1>2, <1>3 DEF Control

LEMMA ControlInit == Init => Control
<1> SUFFICES ASSUME Init PROVE Control
  OBVIOUS
<1> USE ScannerAssumption DEF Init, InitStatus
<1>1. ControlTypes
  BY DEF ControlTypes, StatusTypeOK, AllStatuses, FreeStatuses, Labels, EarlyLabels,
         Requests, Verdicts, StopRecords, NoStop
<1>2. GateInv /\ FieldInv
  BY DEF GateInv, RequestInv, OwnerInv, Owns, AtWork, FieldInv, Holds, Armed,
         ArmedLabels, Phases
<1>3. StopInv /\ VerdictInv
  BY DEF StopInv, VerdictInv, NoStop
<1> QED
  BY <1>1, <1>2, <1>3 DEF Control

LEMMA ControlStep == ASSUME Control, [Next]_vars PROVE Control'
<1>1. CASE UNCHANGED vars
  BY <1>1, UnchangedControl DEF vars, controlVars
<1>2. ASSUME NEW c \in Calls, HandlerStep(c) \/ ScanStep(c) \/ Serve(c)
      PROVE  Control'
  BY <1>2, HandlerKeepsControl, ScanKeepsControl, ServeStep
<1>3. CASE ProducerStep
  BY <1>3, UnchangedControl DEF ProducerStep, Produce, CloseChannel, controlVars
<1>4. ASSUME NEW q \in Queries, JobStep(q)
      PROVE  Control'
  BY <1>4, UnchangedControl DEF JobStep, JobStarts, JobEnds, controlVars
<1> QED
  BY <1>1, <1>2, <1>3, <1>4, SendClaimStep, StopKeepsControl, OthersKeepControl
  DEF Next, SystemStep

-----------------------------------------------------------------------------
(***************************************************************************)
(* The invariant of the batch.                                             *)
(***************************************************************************)

\* Where the scan at work is; the batch exists from "receiving" on.
Stage == IF mutex = None THEN "none" ELSE pc[mutex]
BatchStages == {"receiving", "acquiring", "adding", "waiting", "updating"}

Sent == {q \in Queries : q[2] <= produced[q[1]]}
Items(s) == {s[i] : i \in 1 .. Len(s)}
InHand == IF Stage \in {"acquiring", "adding"} THEN {taken} ELSE {}

\* The queries of d that were given to the pool and have not ended.
Held(d) == {k \in 1 .. PerDevice : <<d, k>> \in accepted \ finished}

BatchTypes ==
  /\ mapped \subseteq Devices
  /\ produced \in [Devices -> 0 .. PerDevice]
  /\ producer \in {"off", "on", "closed"}
  /\ queue \in Seq(Queries)
  /\ taken \in Queries \cup {None}
  /\ sem \in [Devices -> 0 .. MaxPerDevice]
  /\ closed \in BOOLEAN
  /\ accepted \subseteq Queries /\ started \subseteq Queries /\ finished \subseteq Queries

PoolInv == finished \subseteq started /\ started \subseteq accepted

\* No query is lost between the producer and the pool.
SentInv == Sent = Items(queue) \cup InHand \cup accepted

ProducedInv ==
  /\ \A d \in Devices \ mapped : produced[d] = 0
  /\ producer = "closed" => \A d \in mapped : produced[d] = PerDevice

\* The permits of a device that are taken are those of its queries in the
\* pool, and the one the consumer has acquired and not yet passed on.
SemInv ==
  \A d \in Devices :
    sem[d] = Cardinality(Held(d)) + IF Stage = "adding" /\ taken[1] = d THEN 1 ELSE 0

StageInv ==
  /\ Stage \notin BatchStages =>
       /\ producer = "off" /\ queue = <<>> /\ accepted = {}
       /\ \A d \in Devices : produced[d] = 0
  /\ Stage \in {"acquiring", "adding"} => taken \in Queries
  /\ Stage = "waiting" \/ (Stage = "updating" /\ mapped # {}) =>
       queue = <<>> /\ producer = "closed"
  /\ Stage = "updating" /\ mapped # {} => accepted = finished

BatchInv == BatchTypes /\ PoolInv /\ SentInv /\ ProducedInv /\ SemInv /\ StageInv

-----------------------------------------------------------------------------
(***************************************************************************)
(* Queries, queues and permits.                                            *)
(***************************************************************************)

LEMMA Sizes == PerDevice \in Nat \ {0} /\ MaxPerDevice \in Nat \ {0}
BY ScannerAssumption

LEMMA QueryParts ==
  /\ \A q \in Queries : /\ q = <<q[1], q[2]>>
                        /\ q[1] \in Devices /\ q[2] \in 1 .. PerDevice
  /\ \A d \in Devices, k \in 1 .. PerDevice : <<d, k>> \in Queries
BY DEF Queries

LEMMA ItemsOfTail ==
  ASSUME NEW S, NEW s \in Seq(S), s # <<>>
  PROVE  /\ Head(s) \in S /\ Tail(s) \in Seq(S)
         /\ Items(s) = Items(Tail(s)) \cup {Head(s)}
<1>1. Len(s) \in Nat \ {0} /\ Tail(s) \in Seq(S) /\ Len(Tail(s)) = Len(s) - 1
  OBVIOUS
<1>2. \A i \in 1 .. Len(Tail(s)) : Tail(s)[i] = s[i + 1]
  OBVIOUS
<1>3. Head(s) = s[1] /\ Head(s) \in S
  BY <1>1
<1>4. Items(s) \subseteq Items(Tail(s)) \cup {Head(s)}
  <2> SUFFICES ASSUME NEW i \in 1 .. Len(s) PROVE s[i] \in Items(Tail(s)) \cup {Head(s)}
    BY DEF Items
  <2>1. CASE i = 1
    BY <1>3, <2>1
  <2>2. CASE i # 1
    <3>1. i - 1 \in 1 .. Len(Tail(s)) /\ Tail(s)[i - 1] = s[i]
      BY <1>1, <1>2, <2>2
    <3> QED
      BY <3>1 DEF Items
  <2> QED
    BY <2>1, <2>2
<1>5. Items(Tail(s)) \cup {Head(s)} \subseteq Items(s)
  <2>1. \A i \in 1 .. Len(Tail(s)) : i + 1 \in 1 .. Len(s)
    BY <1>1
  <2>2. 1 \in 1 .. Len(s)
    BY <1>1
  <2> QED
    BY <1>2, <1>3, <2>1, <2>2 DEF Items
<1> QED
  BY <1>1, <1>3, <1>4, <1>5

LEMMA ItemsOfAppend ==
  ASSUME NEW S, NEW s \in Seq(S), NEW e \in S
  PROVE  /\ Append(s, e) \in Seq(S)
         /\ Items(Append(s, e)) = Items(s) \cup {e}
<1>1. /\ Append(s, e) \in Seq(S) /\ Len(s) \in Nat /\ Len(Append(s, e)) = Len(s) + 1
      /\ \A i \in 1 .. Len(s) : Append(s, e)[i] = s[i]
      /\ Append(s, e)[Len(s) + 1] = e
  OBVIOUS
<1>2. 1 .. Len(s) + 1 = (1 .. Len(s)) \cup {Len(s) + 1}
  BY <1>1
<1> QED
  BY <1>1, <1>2 DEF Items

LEMMA HeldIsFinite ==
  ASSUME NEW d PROVE IsFiniteSet(Held(d)) /\ Cardinality(Held(d)) \in Nat
<1>1. IsFiniteSet(1 .. PerDevice)
  BY FS_Interval, ScannerAssumption
<1>2. Held(d) \subseteq 1 .. PerDevice
  BY DEF Held
<1> QED
  BY <1>1, <1>2, FS_Subset, FS_CardinalityType

\* Where the scan at work is, before and after a step.
LEMMA StageOf == ASSUME Control, NEW c \in Calls, Holds(c) PROVE mutex = c /\ Stage = pc[c]
BY ScannerAssumption DEF Control, FieldInv, Stage

LEMMA StageMoves ==
  ASSUME Control, NEW c \in Calls, NEW l, Goto(c, l), UNCHANGED mutex
  PROVE  Stage' = IF mutex = c THEN l ELSE Stage
BY ScannerAssumption DEF Control, ControlTypes, Stage, Goto

LEMMA BatchStays ==
  ASSUME BatchInv, UNCHANGED batchVars,
         Stage' = Stage \/ (Stage \notin BatchStages /\ Stage' \notin BatchStages)
  PROVE  BatchInv'
<1> USE DEF batchVars, poolVars
<1>1. BatchTypes' /\ PoolInv' /\ ProducedInv'
  BY DEF BatchInv, BatchTypes, PoolInv, ProducedInv
<1>2. SentInv'
  BY DEF BatchInv, SentInv, Sent, Items, InHand, BatchStages
<1>3. SemInv'
  BY DEF BatchInv, SemInv, Held, BatchStages
<1>4. StageInv'
  BY DEF BatchInv, StageInv, BatchStages
<1> QED
  BY <1>1, <1>2, <1>3, <1>4 DEF BatchInv

LEMMA FreshBatch ==
  ASSUME NEW ds \in SUBSET Devices, NEW state \in {"off", "on"}, NewBatch(ds, state),
         Stage' = "receiving" \/ (state = "off" /\ Stage' \notin BatchStages)
  PROVE  BatchInv'
<1> USE ScannerAssumption DEF NewBatch
<1>1. BatchTypes' /\ PoolInv' /\ ProducedInv'
  <2>1. queue' \in Seq(Queries)
    OBVIOUS
  <2>2. produced' \in [Devices -> 0 .. PerDevice] /\ sem' \in [Devices -> 0 .. MaxPerDevice]
    BY Sizes
  <2> QED
    BY <2>1, <2>2 DEF BatchTypes, PoolInv, ProducedInv
<1>2. Sent' = {} /\ Items(queue)' = {} /\ InHand' = {}
  <2>1. \A q \in Queries : ~(q[2] <= produced'[q[1]])
    BY QueryParts
  <2> QED
    BY <2>1 DEF Sent, Items, InHand, BatchStages
<1>3. SentInv'
  BY <1>2 DEF SentInv
<1>4. SemInv'
  <2>1. \A d \in Devices : Cardinality(Held(d)') = 0
    <3>1. \A d : Held(d)' = {}
      BY DEF Held
    <3> QED
      BY <3>1, FS_EmptySet
  <2>2. \A d \in Devices : sem'[d] = 0
    OBVIOUS
  <2>3. Stage' # "adding"
    BY DEF Stage, BatchStages
  <2> QED
    BY <2>1, <2>2, <2>3 DEF SemInv
<1>5. StageInv'
  BY DEF StageInv, BatchStages
<1> QED
  BY <1>1, <1>3, <1>4, <1>5 DEF BatchInv

LEMMA BatchInit == Init => BatchInv
<1> SUFFICES ASSUME Init PROVE BatchInv
  OBVIOUS
<1> USE ScannerAssumption DEF Init, Pool!Init
<1>1. BatchTypes /\ PoolInv /\ ProducedInv
  <2>1. queue \in Seq(Queries)
    OBVIOUS
  <2>2. produced \in [Devices -> 0 .. PerDevice] /\ sem \in [Devices -> 0 .. MaxPerDevice]
    BY Sizes
  <2> QED
    BY <2>1, <2>2 DEF BatchTypes, PoolInv, ProducedInv
<1>2. Sent = {} /\ Items(queue) = {} /\ InHand = {}
  <2>1. \A q \in Queries : ~(q[2] <= produced[q[1]])
    BY QueryParts
  <2> QED
    BY <2>1 DEF Sent, Items, InHand, Stage
<1>3. SentInv
  BY <1>2 DEF SentInv
<1>4. SemInv
  <2>1. \A d \in Devices : Cardinality(Held(d)) = 0
    <3>1. \A d : Held(d) = {}
      BY DEF Held
    <3> QED
      BY <3>1, FS_EmptySet
  <2>2. \A d \in Devices : sem[d] = 0
    OBVIOUS
  <2>3. Stage # "adding"
    BY DEF Stage, BatchStages
  <2> QED
    BY <2>1, <2>2, <2>3 DEF SemInv
<1>5. StageInv
  BY DEF StageInv, Stage
<1> QED
  BY <1>1, <1>3, <1>4, <1>5 DEF BatchInv

-----------------------------------------------------------------------------
(***************************************************************************)
(* The steps of a batch.                                                   *)
(***************************************************************************)

LEMMA ProduceStep ==
  ASSUME Control, BatchInv, NEW d \in Devices, Produce(d)
  PROVE  BatchInv'
<1> DEFINE q == <<d, produced[d] + 1>>
<1>1. /\ producer = "on" /\ d \in mapped /\ produced[d] < PerDevice
      /\ produced' = [produced EXCEPT ![d] = @ + 1] /\ queue' = Append(queue, q)
      /\ UNCHANGED <<callVars, fieldVars, mapped, producer, taken, sem, poolVars>>
  BY DEF Produce
<1>2. produced[d] \in 0 .. PerDevice - 1 /\ produced[d] + 1 \in 1 .. PerDevice
  BY <1>1, Sizes DEF BatchInv, BatchTypes
<1>3. q \in Queries /\ q[1] = d /\ q[2] = produced[d] + 1
  BY <1>2, QueryParts
<1>4. \A e \in Devices : produced'[e] = IF e = d THEN produced[d] + 1 ELSE produced[e]
  BY <1>1 DEF BatchInv, BatchTypes
<1>5. queue' \in Seq(Queries) /\ Items(queue') = Items(queue) \cup {q}
  <2>1. queue \in Seq(Queries) /\ q \in Queries /\ queue' = Append(queue, q)
    BY <1>1, <1>3 DEF BatchInv, BatchTypes
  <2> HIDE DEF q
  <2> QED
    BY <2>1, ItemsOfAppend
<1>6. Stage' = Stage
  BY <1>1 DEF Stage, callVars, fieldVars
<1>7. BatchTypes'
  <2>1. produced' \in [Devices -> 0 .. PerDevice]
    BY <1>1, <1>2, Sizes DEF BatchInv, BatchTypes
  <2> QED
    BY <1>1, <1>5, <2>1 DEF BatchInv, BatchTypes, poolVars
<1>8. SentInv'
  <2>1. \A r \in Queries : r[2] <= produced'[r[1]] <=> r[2] <= produced[r[1]] \/ r = q
    <3> SUFFICES ASSUME NEW r \in Queries
                 PROVE  r[2] <= produced'[r[1]] <=> r[2] <= produced[r[1]] \/ r = q
      OBVIOUS
    <3>1. r = <<r[1], r[2]>> /\ r[1] \in Devices /\ r[2] \in 1 .. PerDevice
      BY QueryParts
    <3>2. CASE r[1] # d
      BY <1>3, <1>4, <3>1, <3>2
    <3>3. CASE r[1] = d
      <4>1. r = q <=> r[2] = produced[d] + 1
        BY <3>1, <3>3
      <4> HIDE DEF q
      <4> QED
        BY <1>2, <1>4, <3>1, <3>3, <4>1, Sizes
    <3> QED
      BY <3>2, <3>3
  <2> HIDE DEF q
  <2>2. Sent' = Sent \cup {q}
    BY <1>3, <2>1 DEF Sent
  <2>3. InHand' = InHand /\ accepted' = accepted
    BY <1>1, <1>6 DEF InHand, poolVars
  <2> QED
    BY <1>5, <2>2, <2>3 DEF BatchInv, SentInv
<1>9. PoolInv' /\ SemInv'
  BY <1>1, <1>6 DEF BatchInv, PoolInv, SemInv, Held, poolVars
<1>10. ProducedInv' /\ StageInv'
  BY <1>1, <1>4, <1>6 DEF BatchInv, ProducedInv, StageInv, BatchStages, poolVars
<1> QED
  BY <1>7, <1>8, <1>9, <1>10 DEF BatchInv

LEMMA CloseChannelStep ==
  ASSUME Control, BatchInv, CloseChannel
  PROVE  BatchInv'
<1>1. /\ producer = "on" /\ producer' = "closed" /\ \A d \in mapped : produced[d] = PerDevice
      /\ UNCHANGED <<callVars, fieldVars, mapped, produced, queue, taken, sem, poolVars>>
  BY DEF CloseChannel
<1>2. Stage' = Stage
  BY <1>1 DEF Stage, callVars, fieldVars
<1>3. BatchTypes' /\ PoolInv' /\ ProducedInv'
  BY <1>1 DEF BatchInv, BatchTypes, PoolInv, ProducedInv, poolVars
<1>4. SentInv' /\ SemInv'
  BY <1>1, <1>2 DEF BatchInv, SentInv, Sent, Items, InHand, SemInv, Held, poolVars
<1>5. StageInv'
  BY <1>1, <1>2 DEF BatchInv, StageInv, BatchStages, poolVars
<1> QED
  BY <1>3, <1>4, <1>5 DEF BatchInv

LEMMA JobKeepsBatch ==
  ASSUME Control, BatchInv, NEW q \in Queries, JobStep(q)
  PROVE  BatchInv'
<1> USE DEF Pool!Start, Pool!Finish, Pool!InProgress
<1>1. UNCHANGED <<callVars, fieldVars, mapped, produced, producer, queue, taken>>
  BY DEF JobStep, JobStarts, JobEnds
<1>2. Stage' = Stage
  BY <1>1 DEF Stage, callVars, fieldVars
<1>3. UNCHANGED <<closed, accepted>>
  BY DEF JobStep, JobStarts, JobEnds
<1>4. ProducedInv' /\ SentInv'
  BY <1>1, <1>2, <1>3 DEF BatchInv, ProducedInv, SentInv, Sent, Items, InHand
<1>5. CASE JobStarts(q)
  <2>1. q \in accepted \ started /\ started' = started \cup {q} /\ UNCHANGED <<finished, sem>>
    BY <1>5 DEF JobStarts
  <2>2. BatchTypes' /\ PoolInv'
    BY <1>1, <1>3, <2>1 DEF BatchInv, BatchTypes, PoolInv
  <2>3. SemInv' /\ StageInv'
    BY <1>1, <1>2, <1>3, <2>1 DEF BatchInv, SemInv, Held, StageInv
  <2> QED
    BY <1>4, <2>2, <2>3 DEF BatchInv
<1>6. CASE JobEnds(q)
  <2>1. /\ q \in started \ finished /\ finished' = finished \cup {q} /\ UNCHANGED started
        /\ sem' = [sem EXCEPT ![q[1]] = @ - 1]
    BY <1>6 DEF JobEnds
  <2>2. q = <<q[1], q[2]>> /\ q[1] \in Devices /\ q[2] \in 1 .. PerDevice /\ q \in accepted
    BY <2>1, QueryParts DEF BatchInv, PoolInv
  <2>3. \A d \in Devices : sem'[d] = IF d = q[1] THEN sem[d] - 1 ELSE sem[d]
    BY <2>1 DEF BatchInv, BatchTypes
  <2>4. Held(q[1])' = Held(q[1]) \ {q[2]} /\ q[2] \in Held(q[1])
    BY <1>3, <2>1, <2>2 DEF Held
  <2>5. \A d \in Devices : d # q[1] => Held(d)' = Held(d)
    BY <1>3, <2>1, <2>2 DEF Held
  <2>6. /\ Cardinality(Held(q[1])') = Cardinality(Held(q[1])) - 1
        /\ Cardinality(Held(q[1])') \in Nat
    BY <2>4, HeldIsFinite, FS_RemoveElement, FS_CardinalityType
  <2>7. SemInv'
    <3> SUFFICES ASSUME NEW d \in Devices
                 PROVE  sem'[d] = Cardinality(Held(d)')
                          + IF Stage = "adding" /\ taken[1] = d THEN 1 ELSE 0
      BY <1>1, <1>2 DEF SemInv
    <3>1. sem[d] = Cardinality(Held(d)) + IF Stage = "adding" /\ taken[1] = d THEN 1 ELSE 0
      BY DEF BatchInv, SemInv
    <3>2. Cardinality(Held(d)) \in Nat
      BY HeldIsFinite
    <3> QED
      BY <2>3, <2>5, <2>6, <3>1, <3>2
  <2>8. sem' \in [Devices -> 0 .. MaxPerDevice]
    <3>1. \A d \in Devices : sem[d] \in 0 .. MaxPerDevice
      BY DEF BatchInv, BatchTypes
    <3>2. sem[q[1]] = Cardinality(Held(q[1])) +
                      IF Stage = "adding" /\ taken[1] = q[1] THEN 1 ELSE 0
      BY <2>2 DEF BatchInv, SemInv
    <3>3. sem[q[1]] >= 1
      BY <2>6, <3>2, HeldIsFinite
    <3>4. \A d \in Devices : sem'[d] \in 0 .. MaxPerDevice
      BY <2>3, <3>1, <3>3, Sizes
    <3> QED
      BY <2>1, <3>4 DEF BatchInv, BatchTypes
  <2>9. BatchTypes' /\ PoolInv'
    BY <1>1, <1>3, <2>1, <2>8 DEF BatchInv, BatchTypes, PoolInv
  <2>10. StageInv'
    BY <1>1, <1>2, <1>3, <2>1, <2>2 DEF BatchInv, StageInv
  <2> QED
    BY <1>4, <2>7, <2>9, <2>10 DEF BatchInv
<1> QED
  BY <1>5, <1>6 DEF JobStep

LEMMA ReceiveStep ==
  ASSUME Control, BatchInv, NEW c \in Calls, Receive(c)
  PROVE  BatchInv'
<1>1. /\ pc[c] = "receiving" /\ Goto(c, "acquiring") /\ UNCHANGED mutex
      /\ queue # <<>> /\ taken' = Head(queue) /\ queue' = Tail(queue)
      /\ UNCHANGED <<mapped, produced, producer, sem, poolVars>>
  BY DEF Receive, Batch, Scan, fieldVars
<1>2. Stage = "receiving" /\ Stage' = "acquiring"
  BY <1>1, StageOf, StageMoves DEF Holds, ArmedLabels
<1>3. /\ Head(queue) \in Queries /\ Tail(queue) \in Seq(Queries)
      /\ Items(queue) = Items(Tail(queue)) \cup {Head(queue)}
  BY <1>1, ItemsOfTail DEF BatchInv, BatchTypes
<1>4. BatchTypes' /\ PoolInv' /\ ProducedInv'
  BY <1>1, <1>3 DEF BatchInv, BatchTypes, PoolInv, ProducedInv, poolVars
<1>5. SentInv'
  <2>1. Sent' = Sent /\ accepted' = accepted /\ InHand = {} /\ InHand' = {Head(queue)}
    BY <1>1, <1>2 DEF Sent, InHand, poolVars
  <2>2. Items(queue') = Items(Tail(queue))
    BY <1>1
  <2> QED
    BY <1>3, <2>1, <2>2 DEF BatchInv, SentInv
<1>6. SemInv'
  BY <1>1, <1>2 DEF BatchInv, SemInv, Held, poolVars
<1>7. StageInv'
  BY <1>1, <1>2, <1>3 DEF StageInv, BatchStages
<1> QED
  BY <1>4, <1>5, <1>6, <1>7 DEF BatchInv

LEMMA AcquireStep ==
  ASSUME Control, BatchInv, NEW c \in Calls, Acquire(c)
  PROVE  BatchInv'
<1>1. /\ pc[c] = "acquiring" /\ Goto(c, "adding") /\ UNCHANGED mutex
      /\ sem[taken[1]] < MaxPerDevice /\ sem' = [sem EXCEPT ![taken[1]] = @ + 1]
      /\ UNCHANGED <<mapped, produced, producer, queue, taken, poolVars>>
  BY DEF Acquire, Batch, Scan, fieldVars
<1>2. Stage = "acquiring" /\ Stage' = "adding"
  BY <1>1, StageOf, StageMoves DEF Holds, ArmedLabels
<1>3. taken \in Queries /\ taken[1] \in Devices
  BY <1>2, QueryParts DEF BatchInv, StageInv
<1>4. \A d \in Devices : sem'[d] = IF d = taken[1] THEN sem[d] + 1 ELSE sem[d]
  BY <1>1 DEF BatchInv, BatchTypes
<1>5. \A d \in Devices : sem[d] \in 0 .. MaxPerDevice
  BY DEF BatchInv, BatchTypes
<1>6. sem' \in [Devices -> 0 .. MaxPerDevice]
  <2>1. \A d \in Devices : sem'[d] \in 0 .. MaxPerDevice
    BY <1>1, <1>3, <1>4, <1>5, Sizes
  <2> QED
    BY <1>1, <2>1 DEF BatchInv, BatchTypes
<1>7. BatchTypes' /\ PoolInv' /\ ProducedInv'
  BY <1>1, <1>6 DEF BatchInv, BatchTypes, PoolInv, ProducedInv, poolVars
<1>8. SentInv'
  BY <1>1, <1>2 DEF BatchInv, SentInv, Sent, Items, InHand, poolVars
<1>9. SemInv'
  <2>1. \A d \in Devices : Held(d)' = Held(d)
    BY <1>1 DEF Held, poolVars
  <2>2. \A d \in Devices : sem[d] = Cardinality(Held(d)) + 0
    BY <1>2 DEF BatchInv, SemInv
  <2>3. \A d \in Devices : Cardinality(Held(d)) \in Nat
    BY HeldIsFinite
  <2> SUFFICES ASSUME NEW d \in Devices
               PROVE  sem'[d] = Cardinality(Held(d)') + IF taken[1] = d THEN 1 ELSE 0
    BY <1>1, <1>2 DEF SemInv
  <2> QED
    BY <1>4, <2>1, <2>2, <2>3
<1>10. StageInv'
  BY <1>1, <1>2, <1>3 DEF StageInv, BatchStages
<1> QED
  BY <1>7, <1>8, <1>9, <1>10 DEF BatchInv

LEMMA AddJobStep ==
  ASSUME Control, BatchInv, NEW c \in Calls, AddJob(c)
  PROVE  BatchInv'
<1>1. /\ pc[c] = "adding" /\ Goto(c, "receiving") /\ UNCHANGED mutex
      /\ taken \notin accepted /\ accepted' = accepted \cup {taken} /\ taken' = None
      /\ UNCHANGED <<mapped, produced, producer, queue, sem, closed, started, finished>>
  BY DEF AddJob, Batch, Scan, Pool!Accept, fieldVars
<1>2. Stage = "adding" /\ Stage' = "receiving"
  BY <1>1, StageOf, StageMoves DEF Holds, ArmedLabels
<1>3. PICK e \in Devices, k \in 1 .. PerDevice : taken = <<e, k>> /\ taken \in Queries
  BY <1>2, QueryParts DEF BatchInv, StageInv
<1>4. taken \notin finished
  BY <1>1 DEF BatchInv, PoolInv
<1>5. BatchTypes' /\ PoolInv' /\ ProducedInv'
  BY <1>1, <1>3 DEF BatchInv, BatchTypes, PoolInv, ProducedInv
<1>6. SentInv'
  <2>1. Sent' = Sent /\ Items(queue)' = Items(queue) /\ InHand = {taken} /\ InHand' = {}
    BY <1>1, <1>2 DEF Sent, InHand, Items
  <2> QED
    BY <1>1, <2>1 DEF BatchInv, SentInv
<1>7. SemInv'
  <2>1. Held(e)' = Held(e) \cup {k} /\ k \notin Held(e)
    BY <1>1, <1>3, <1>4 DEF Held
  <2>2. \A d \in Devices : d # e => Held(d)' = Held(d)
    BY <1>1, <1>3 DEF Held
  <2>3. Cardinality(Held(e)') = Cardinality(Held(e)) + 1
    BY <2>1, HeldIsFinite, FS_AddElement
  <2> SUFFICES ASSUME NEW d \in Devices PROVE sem'[d] = Cardinality(Held(d)') + 0
    BY <1>2 DEF SemInv
  <2>4. sem[d] = Cardinality(Held(d)) + IF e = d THEN 1 ELSE 0
    BY <1>2, <1>3 DEF BatchInv, SemInv
  <2>5. Cardinality(Held(d)) \in Nat
    BY HeldIsFinite
  <2> QED
    BY <1>1, <2>2, <2>3, <2>4, <2>5
<1>8. StageInv'
  BY <1>1, <1>2 DEF StageInv, BatchStages
<1> QED
  BY <1>5, <1>6, <1>7, <1>8 DEF BatchInv

\* Every query that was sent is with the pool once the channel is empty and the
\* consumer has nothing in hand; once all have ended, all permits are back.
LEMMA LeaveStep ==
  ASSUME Control, BatchInv, NEW c \in Calls, NoBatch(c) \/ Drained(c) \/ WaitAndClose(c)
  PROVE  BatchInv'
<1> USE DEF Pool!Shut
<1>1. /\ UNCHANGED <<mutex, mapped, produced, producer, queue, taken, sem>>
      /\ UNCHANGED <<accepted, started, finished>> /\ closed' \in {TRUE, closed}
  BY DEF NoBatch, Drained, WaitAndClose, Batch, Scan, fieldVars, poolVars
<1>2. PICK from \in {"querying", "receiving", "waiting"}, to \in {"waiting", "updating"} :
        pc[c] = from /\ Goto(c, to)
        /\ (to = "waiting" => queue = <<>> /\ producer = "closed")
        /\ (from = "querying" => mapped = {})
        /\ (from # "querying" /\ to = "updating" => from = "waiting" /\ accepted = finished)
  BY DEF NoBatch, Drained, WaitAndClose, Batch, Scan
<1>3. Stage = from /\ Stage' = to
  BY <1>1, <1>2, StageOf, StageMoves DEF Holds, ArmedLabels
<1>4. BatchTypes' /\ PoolInv' /\ ProducedInv'
  BY <1>1 DEF BatchInv, BatchTypes, PoolInv, ProducedInv
<1>5. SentInv' /\ SemInv'
  BY <1>1, <1>3 DEF BatchInv, SentInv, Sent, Items, InHand, SemInv, Held
<1>6. StageInv'
  BY <1>1, <1>2, <1>3 DEF BatchInv, StageInv, BatchStages
<1> QED
  BY <1>4, <1>5, <1>6 DEF BatchInv

\* Before the batch and after it nothing of it is there.
LEMMA ScanKeepsBatch ==
  ASSUME Control, BatchInv, NEW c \in Calls, ScanStep(c)
  PROVE  BatchInv'
<1> USE DEF Scan, Holds, ArmedLabels, Phases, BatchStages
<1>1. CASE TryLock(c) \/ OpenContext(c) \/ Arm(c)
  <2>1. UNCHANGED batchVars
    BY <1>1 DEF TryLock, OpenContext, Arm
  <2>2. /\ mutex = None \/ (mutex = c /\ pc[c] \in {"opening", "arming"})
        /\ mutex' = c
        /\ Goto(c, "opening") \/ Goto(c, "arming") \/ Goto(c, "preparing")
    <3>1. CASE TryLock(c)
      BY <3>1 DEF TryLock
    <3>2. CASE OpenContext(c) \/ Arm(c)
      BY <3>2, StageOf DEF OpenContext, Arm
    <3> QED
      BY <1>1, <3>1, <3>2
  <2>3. pc'[c] \in {"opening", "arming", "preparing"}
    BY <2>2 DEF Goto, Control, ControlTypes
  <2>4. Stage \notin BatchStages /\ Stage' \notin BatchStages
    BY <2>2, <2>3, ScannerAssumption DEF Stage
  <2> QED
    BY <2>1, <2>4, BatchStays
<1>2. CASE Busy(c)
  <2>1. /\ UNCHANGED <<batchVars, mutex>> /\ pc[c] = "entering" /\ Goto(c, "returned")
    BY <1>2 DEF Busy, fieldVars
  <2>2. mutex # c
    BY <2>1 DEF Control, FieldInv
  <2>3. Stage' = Stage
    BY <2>1, <2>2, StageMoves
  <2> QED
    BY <2>1, <2>3, BatchStays
<1>3. ASSUME NEW from \in ArmedLabels, NEW v, Return(c, from, v)
      PROVE  BatchInv'
  <2>1. NewBatch({}, "off") /\ Stage' = "none"
    BY <1>3 DEF Return, Stage
  <2> QED
    BY <2>1, FreshBatch
<1>4. CASE Fail(c) \/ Panic(c) \/ SeeCancel(c) \/ NothingFound(c) \/ Complete(c)
  <2>1. \E from \in ArmedLabels, v \in Verdicts : Return(c, from, v)
    BY <1>4 DEF Fail, Panic, SeeCancel, NothingFound, Complete, Verdicts
  <2> QED
    BY <1>3, <2>1
<1>5. ASSUME NEW from \in ArmedLabels, NEW to, pc[c] = from, Goto(c, to), UNCHANGED mutex
      PROVE  Stage = from /\ Stage' = to
  BY <1>5, StageOf, StageMoves
<1>6. CASE Prepared(c) \/ Discovered(c)
  <2>1. UNCHANGED batchVars
    BY <1>6 DEF Prepared, Discovered
  <2>2. Stage \notin BatchStages /\ Stage' \notin BatchStages
    BY <1>5, <1>6 DEF Prepared, Discovered, Pass, fieldVars
  <2> QED
    BY <2>1, <2>2, BatchStays
<1>7. CASE Created(c)
  <2>1. /\ UNCHANGED <<produced, producer, queue, taken, sem, poolVars>>
        /\ mapped' \subseteq Devices
    BY <1>7 DEF Created
  <2>2. Stage = "creating" /\ Stage' = "querying"
    BY <1>5, <1>7 DEF Created, Pass, fieldVars
  <2>3. producer = "off" /\ \A d \in Devices : produced[d] = 0
    BY <2>2 DEF BatchInv, StageInv
  <2>4. BatchTypes' /\ PoolInv' /\ ProducedInv'
    BY <2>1, <2>3 DEF BatchInv, BatchTypes, PoolInv, ProducedInv, poolVars
  <2>5. SentInv' /\ SemInv'
    BY <2>1, <2>2 DEF BatchInv, SentInv, Sent, Items, InHand, SemInv, Held, poolVars
  <2>6. StageInv'
    BY <2>1, <2>2 DEF BatchInv, StageInv, poolVars
  <2> QED
    BY <2>4, <2>5, <2>6 DEF BatchInv
<1>8. CASE BeginBatch(c)
  <2>1. NewBatch(mapped, "on") /\ Stage' = "receiving"
    BY <1>5, <1>8 DEF BeginBatch, Batch, fieldVars
  <2> QED
    BY <2>1, FreshBatch DEF BatchInv, BatchTypes
<1> QED
  BY <1>1, <1>2, <1>4, <1>6, <1>7, <1>8, ReceiveStep, AcquireStep, AddJobStep, LeaveStep
  DEF ScanStep

\* The goroutine of a handler that sends or answers holds no mutex.
LEMMA HandlerKeepsBatch ==
  ASSUME Control, BatchInv, NEW c \in Calls,
         HandlerStep(c) \/ \E p \in Projects : SendClaim(c, p)
  PROVE  BatchInv'
<1>1. PICK l \in Labels :
        /\ UNCHANGED <<mutex, batchVars>> /\ Goto(c, l)
        /\ pc[c] \in {"ready", "claiming", "returned", "releasing"}
  BY DEF HandlerStep, ClaimGranted, ClaimFails, SendRelease, Answer, SendClaim, Handler,
         fieldVars, Labels, EarlyLabels, LateLabels
<1>2. mutex # c
  BY <1>1 DEF Control, FieldInv, Holds, ArmedLabels, Phases
<1>3. Stage' = Stage
  BY <1>1, <1>2, StageMoves
<1> QED
  BY <1>1, <1>3, BatchStays

LEMMA BatchStep == ASSUME Control, BatchInv, [Next]_vars PROVE BatchInv'
<1>1. ASSUME UNCHANGED <<pc, mutex, batchVars>>
      PROVE  BatchInv'
  BY <1>1, BatchStays DEF Stage
<1>2. CASE UNCHANGED vars
  BY <1>1, <1>2 DEF vars, callVars, fieldVars
<1>3. ASSUME NEW c \in Calls, Serve(c)
      PROVE  BatchInv'
  BY <1>1, <1>3 DEF Serve, fieldVars
<1>4. ASSUME NEW s \in Stops, StopStep(s)
      PROVE  BatchInv'
  BY <1>1, <1>4 DEF StopStep, ReadContext, ReadCancel, CallCancel, StopAt, callVars
<1>5. ASSUME NEW p \in Projects,
             \/ OtherClaims(p) \/ OtherReleases(p) \/ DeleteProject(p)
             \/ \E s \in AllStatuses : UserUpdatesStatus(p, s)
      PROVE  BatchInv'
  <2>1. StatusUpdate
    BY <1>5 DEF OtherClaims, OtherReleases, DeleteProject, UserUpdatesStatus
  <2> QED
    BY <1>1, <2>1 DEF StatusUpdate, callVars, fieldVars
<1>6. CASE ProducerStep
  BY <1>6, ProduceStep, CloseChannelStep DEF ProducerStep
<1> QED
  BY <1>2, <1>3, <1>4, <1>5, <1>6, HandlerKeepsBatch, ScanKeepsBatch, JobKeepsBatch
  DEF Next, SystemStep

-----------------------------------------------------------------------------
(***************************************************************************)
(* Theorems.                                                               *)
(***************************************************************************)

LEMMA Invariance == Spec => [](Control /\ BatchInv)
<1>1. Init => Control /\ BatchInv
  BY ControlInit, BatchInit
<1>2. Control /\ BatchInv /\ [Next]_vars => (Control /\ BatchInv)'
  BY ControlStep, BatchStep
<1> QED
  BY <1>1, <1>2, PTL DEF Spec

\* Type correctness; in particular the consumer and the queries that end never
\* take more permits of a device than it has, and never give back one too many.
THEOREM ScannerTypes == Spec => []TypeOK
<1>1. Control /\ BatchInv => TypeOK
  BY DEF Control, ControlTypes, BatchInv, BatchTypes, TypeOK, Labels, EarlyLabels,
         ArmedLabels, LateLabels, Phases, Requests, StopRecords
<1> QED
  BY <1>1, Invariance, PTL

\* The gate gives a scan at work the system, however claims and releases time
\* out or come late, so that scanner.mutex is never found taken.
THEOREM ScansAreExclusive == Spec => []ScanIsExclusive
<1>1. Control => ScanIsExclusive
  <2>1. \A c \in Calls : Control /\ AtWork(c) => Owns(c)
    BY DEF Control, GateInv, RequestInv, Owns
  <2> QED
    BY <2>1 DEF Control, GateInv, OwnerInv, VerdictInv, ScanIsExclusive
<1> QED
  BY <1>1, Invariance, PTL

\* Although a stop reads ctx and cancel without the mutex and one after the
\* other, the scan it met passes no checkpoint and completes only if it finds
\* nothing, and no scan that was not at work when the stop called the cancel
\* function is cancelled.
THEOREM StopsReachTheirScan == Spec => StopReachesItsScan
<1> DEFINE Reached(c) ==
      /\ c \in stopped /\ pc[c] \in Phases /\ pc'[c] # pc[c] =>
           /\ pc'[c] = "returned"
           /\ verdict'[c] = "completed" => pc[c] = "discovering"
      /\ verdict'[c] = "cancelled" => c \in asked
<1>1. Control /\ [Next]_vars => [\A c \in Calls : Reached(c)]_vars
  <2> SUFFICES ASSUME Control, [Next]_vars, NEW c \in Calls
               PROVE  Reached(c)
    BY Zenon
  <2>1. /\ c \in stopped => c \in cancelled
        /\ Armed(c) /\ c \in cancelled => c \in asked
        /\ verdict[c] = "cancelled" => c \in asked
        /\ pc[c] \in Phases => Armed(c) /\ verdict[c] = "none"
    BY DEF Control, StopInv, VerdictInv, Armed, ArmedLabels, Phases
  <2>2. ASSUME pc'[c] = pc[c] \/ pc[c] \notin Phases,
               verdict'[c] = verdict[c] \/ verdict'[c] # "cancelled"
        PROVE  Reached(c)
    BY <2>1, <2>2
  <2>3. ASSUME NEW d \in Calls, ScanStep(d)
        PROVE  Reached(c)
    <3>1. CASE TryLock(d) \/ OpenContext(d) \/ Arm(d)
      BY <2>2, <3>1 DEF TryLock, OpenContext, Arm, Scan, Goto, Control, ControlTypes, Phases
    <3>2. CASE Busy(d)
      BY <2>2, <3>2 DEF Busy, Scan, Goto, Control, ControlTypes, Phases
    <3>3. CASE GoesOn(d)
      BY <2>1, <2>2, <3>3 DEF GoesOn, Goto, Control, ControlTypes
    <3>4. ASSUME NEW v, Returns(d, v)
          PROVE  Reached(c)
      <4>1. CASE d = c
        BY <2>1, <3>4, <4>1 DEF Returns, Goto, Control, ControlTypes, Labels, LateLabels
      <4>2. CASE d # c
        BY <2>2, <3>4, <4>2 DEF Returns, Goto, Control, ControlTypes
      <4> QED
        BY <4>1, <4>2
    <3> QED
      BY <2>3, <3>1, <3>2, <3>3, <3>4, ScanMoves
  <2>4. ASSUME NEW d \in Calls, HandlerStep(d) \/ Serve(d)
        PROVE  Reached(c)
    BY <2>2, <2>4
    DEF HandlerStep, ClaimGranted, ClaimFails, SendRelease, Answer, Handler, Serve, Goto,
        Control, ControlTypes, Phases
  <2>5. ASSUME ProducerStep \/ \E q \in Queries : JobStep(q)
        PROVE  Reached(c)
    BY <2>2, <2>5
    DEF ProducerStep, Produce, CloseChannel, JobStep, JobStarts, JobEnds, callVars
  <2>6. ASSUME NEW d \in Calls, NEW p \in Projects, SendClaim(d, p)
        PROVE  Reached(c)
    BY <2>2, <2>6 DEF SendClaim, Handler, Goto, Control, ControlTypes, Phases
  <2>7. ASSUME NEW s \in Stops, StopStep(s)
        PROVE  Reached(c)
    BY <2>2, <2>7 DEF StopStep, ReadContext, ReadCancel, CallCancel, StopAt, callVars
  <2>8. ASSUME NEW p \in Projects,
               \/ OtherClaims(p) \/ OtherReleases(p) \/ DeleteProject(p)
               \/ \E s \in AllStatuses : UserUpdatesStatus(p, s)
        PROVE  Reached(c)
    BY <2>2, <2>8
    DEF OtherClaims, OtherReleases, DeleteProject, UserUpdatesStatus, StatusUpdate, callVars
  <2>9. CASE UNCHANGED vars
    BY <2>2, <2>9 DEF vars, callVars
  <2> QED
    BY <2>3, <2>4, <2>5, <2>6, <2>7, <2>8, <2>9 DEF Next, SystemStep
<1> QED
  BY <1>1, Invariance, PTL DEF Spec, StopReachesItsScan

\* No query is lost or still running when the tables of a batch are read.
THEOREM ResultsAreComplete == Spec => []ResultIsComplete
<1>1. Control /\ BatchInv => ResultIsComplete
  <2> SUFFICES ASSUME Control, BatchInv, NEW c \in Calls, pc[c] = "updating", mapped # {}
               PROVE  /\ finished = mapped \X (1 .. PerDevice)
                      /\ queue = <<>> /\ producer = "closed"
                      /\ \A d \in Devices : sem[d] = 0
    BY DEF ResultIsComplete
  <2>1. Stage = "updating"
    BY StageOf DEF Holds, ArmedLabels, Phases
  <2>2. queue = <<>> /\ producer = "closed" /\ accepted = finished
    BY <2>1 DEF BatchInv, StageInv
  <2>3. Sent = finished
    <3>1. Items(queue) = {} /\ InHand = {}
      BY <2>1, <2>2 DEF Items, InHand
    <3> QED
      BY <2>2, <3>1 DEF BatchInv, SentInv
  <2>4. \A d \in Devices : produced[d] = IF d \in mapped THEN PerDevice ELSE 0
    BY <2>2 DEF BatchInv, ProducedInv
  <2>5. Sent = mapped \X (1 .. PerDevice)
    <3>1. mapped \subseteq Devices
      BY DEF BatchInv, BatchTypes
    <3>2. \A q \in Queries : q[2] <= produced[q[1]] <=> q[1] \in mapped
      BY <2>4, QueryParts, Sizes
    <3>3. \A q \in Queries : q[1] \in mapped <=> q \in mapped \X (1 .. PerDevice)
      BY QueryParts
    <3>4. mapped \X (1 .. PerDevice) \subseteq Queries
      BY <3>1 DEF Queries
    <3> QED
      BY <3>2, <3>3, <3>4 DEF Sent
  <2>6. ASSUME NEW d \in Devices PROVE sem[d] = 0
    <3>1. Held(d) = {}
      BY <2>2 DEF Held
    <3>2. sem[d] = Cardinality(Held(d)) + 0
      BY <2>1 DEF BatchInv, SemInv
    <3> QED
      BY <3>1, <3>2, FS_EmptySet
  <2> QED
    BY <2>2, <2>3, <2>5, <2>6
<1> QED
  BY <1>1, Invariance, PTL

\* The consumer waits for a permit only while a query of that device is with
\* the pool, whose end brings one back.
PermitsComeBack ==
  \A d \in Devices :
    Stage = "acquiring" /\ sem[d] = MaxPerDevice => \E q \in accepted \ finished : q[1] = d

\* The consumer of a batch never waits for a permit that nobody will return:
\* the safety half of ScansEnd.
THEOREM ConsumerIsNotStuck == Spec => []PermitsComeBack
<1>1. BatchInv => PermitsComeBack
  <2> SUFFICES ASSUME BatchInv, NEW d \in Devices, Stage = "acquiring",
                      sem[d] = MaxPerDevice
               PROVE  \E q \in accepted \ finished : q[1] = d
    BY DEF PermitsComeBack
  <2>1. sem[d] = Cardinality(Held(d)) + 0
    BY DEF BatchInv, SemInv
  <2>2. Held(d) # {}
    BY <2>1, FS_EmptySet, Sizes
  <2>3. PICK k \in 1 .. PerDevice : <<d, k>> \in accepted \ finished
    BY <2>2 DEF Held
  <2> QED
    BY <2>3
<1> QED
  BY <1>1, Invariance, PTL

-----------------------------------------------------------------------------
(***************************************************************************)
(* A batch does not stand still: producer, channel, consumer, semaphores   *)
(* and pool never all wait for each other, whatever their sizes.           *)
(***************************************************************************)

InBatch == Stage \in {"receiving", "acquiring", "adding", "waiting"}

\* A query is in one place: in the channel, in hand, or with the pool.
OnceInv ==
  /\ \A i, j \in 1 .. Len(queue) : queue[i] = queue[j] => i = j
  /\ Items(queue) \cap (accepted \cup InHand) = {}
  /\ InHand \cap accepted = {}

\* The producer and the pool are there while the consumer needs them.
OpenInv == InBatch => ~closed /\ producer # "off"

\* The producer is in the middle of one device at most.
BurstInv == \A d, e \in mapped : {produced[d], produced[e]} \cap {0, PerDevice} = {} => d = e

PlaceInv == OnceInv /\ OpenInv /\ BurstInv

\* The guards of the producer's and of the pool's steps.
ProducerMayStep ==
  /\ producer = "on"
  /\ \/ \A d \in mapped : produced[d] = PerDevice
     \/ /\ Len(queue) < ChanSize
        /\ \E d \in mapped :
             /\ produced[d] < PerDevice
             /\ \A e \in mapped \ {d} : produced[e] \in {0, PerDevice}

PoolMayStep ==
  \/ started \ finished # {}
  \/ \E q \in accepted \ started : Cardinality((started \cup {q}) \ finished) <= Total

\* The consumer's next step can be taken, or one of those it waits for can;
\* and what it adds to the pool is new to it, which is still open.
BatchGoesOn ==
  /\ Stage = "receiving" => queue # <<>> \/ producer = "closed" \/ ProducerMayStep
  /\ Stage = "acquiring" => sem[taken[1]] < MaxPerDevice \/ PoolMayStep
  /\ Stage = "adding" =>
       /\ ~closed /\ taken \notin accepted
       /\ Cardinality(accepted \ started) < PoolQueue \/ PoolMayStep
  /\ Stage = "waiting" => ~closed /\ (accepted = finished \/ PoolMayStep)

\* What the steps that leave channel, hand, pool and producer alone keep.
LEMMA PlaceStays ==
  ASSUME PlaceInv, UNCHANGED <<mapped, produced, producer, queue, taken, closed, accepted>>,
         InHand' \subseteq InHand, InBatch' => InBatch
  PROVE  PlaceInv'
<1>1. OnceInv'
  BY DEF PlaceInv, OnceInv, Items
<1>2. OpenInv' /\ BurstInv'
  BY DEF PlaceInv, OpenInv, BurstInv
<1> QED
  BY <1>1, <1>2 DEF PlaceInv

LEMMA PlaceFresh ==
  ASSUME NEW ds \in SUBSET Devices, NEW state \in {"off", "on"}, NewBatch(ds, state),
         Stage' \notin {"acquiring", "adding"}, state = "off" => ~InBatch'
  PROVE  PlaceInv'
<1>1. queue' = <<>> /\ accepted' = {} /\ InHand' = {} /\ Items(queue)' = {}
  BY DEF NewBatch, InHand, Items
<1>2. OnceInv'
  BY <1>1 DEF OnceInv
<1>3. OpenInv'
  BY DEF OpenInv, NewBatch
<1>4. BurstInv'
  BY DEF BurstInv, NewBatch
<1> QED
  BY <1>2, <1>3, <1>4 DEF PlaceInv

LEMMA PlaceInit == Init => PlaceInv
<1> SUFFICES ASSUME Init PROVE PlaceInv
  OBVIOUS
<1>1. queue = <<>> /\ accepted = {} /\ Stage = "none" /\ mapped = {}
  BY DEF Init, Pool!Init, Stage
<1> QED
  BY <1>1 DEF PlaceInv, OnceInv, OpenInv, BurstInv, InBatch, InHand, Items

LEMMA ProducePlaces ==
  ASSUME BatchInv, PlaceInv, NEW d \in Devices, Produce(d)
  PROVE  PlaceInv'
<1> DEFINE q == <<d, produced[d] + 1>>
<1>1. /\ producer = "on" /\ d \in mapped /\ produced[d] < PerDevice
      /\ \A e \in mapped \ {d} : produced[e] \in {0, PerDevice}
      /\ produced' = [produced EXCEPT ![d] = @ + 1] /\ queue' = Append(queue, q)
      /\ UNCHANGED <<callVars, fieldVars, mapped, producer, taken, poolVars>>
  BY DEF Produce
<1>2. UNCHANGED <<Stage, InBatch, InHand, closed, accepted>>
  BY <1>1 DEF Stage, InBatch, InHand, callVars, fieldVars, poolVars
<1>3. /\ produced \in [Devices -> 0 .. PerDevice] /\ mapped \subseteq Devices
      /\ queue \in Seq(Queries)
  BY DEF BatchInv, BatchTypes
<1>4. produced[d] \in Nat /\ produced[d] + 1 \in 1 .. PerDevice
  BY <1>1, <1>3, Sizes
<1>5. q \in Queries /\ q \notin Sent
  <2>1. q \in Queries
    BY <1>4, QueryParts
  <2>2. ~(produced[d] + 1 <= produced[d])
    BY <1>4
  <2> QED
    BY <2>1, <2>2 DEF Sent
<1> HIDE DEF q
<1>6. q \notin Items(queue) \cup InHand \cup accepted
  BY <1>5 DEF BatchInv, SentInv
<1>7. OnceInv'
  <2>1. /\ Len(queue) \in Nat /\ Len(queue') = Len(queue) + 1
        /\ \A i \in 1 .. Len(queue) : queue'[i] = queue[i]
        /\ queue'[Len(queue) + 1] = q
    BY <1>1, <1>3, <1>5
  <2>2. \A i \in 1 .. Len(queue') : i = Len(queue) + 1 \/ i \in 1 .. Len(queue)
    BY <2>1
  <2>3. \A i \in 1 .. Len(queue) : queue[i] # q
    BY <1>6 DEF Items
  <2>4. \A i, j \in 1 .. Len(queue') : queue'[i] = queue'[j] => i = j
    BY <2>1, <2>2, <2>3 DEF PlaceInv, OnceInv
  <2>5. Items(queue') = Items(queue) \cup {q}
    BY <1>1, <1>3, <1>5, ItemsOfAppend
  <2>6. Items(queue)' = Items(queue) \cup {q}
    BY <2>5 DEF Items
  <2>7. (Items(queue) \cap (accepted \cup InHand) = {})' /\ (InHand \cap accepted = {})'
    BY <1>2, <1>6, <2>6 DEF PlaceInv, OnceInv
  <2> QED
    BY <2>4, <2>7 DEF OnceInv
<1>8. OpenInv'
  BY <1>1, <1>2 DEF PlaceInv, OpenInv
<1>9. BurstInv'
  <2>1. \A e \in mapped \ {d} : produced'[e] \in {0, PerDevice}
    BY <1>1, <1>3
  <2> QED
    BY <1>1, <2>1 DEF BurstInv
<1> QED
  BY <1>7, <1>8, <1>9 DEF PlaceInv

LEMMA ReceivePlaces ==
  ASSUME Control, BatchInv, PlaceInv, NEW c \in Calls, Receive(c)
  PROVE  PlaceInv'
<1>1. /\ pc[c] = "receiving" /\ Goto(c, "acquiring") /\ UNCHANGED mutex
      /\ queue # <<>> /\ taken' = Head(queue) /\ queue' = Tail(queue)
      /\ UNCHANGED <<mapped, produced, producer, closed, accepted>>
  BY DEF Receive, Batch, Scan, fieldVars, poolVars
<1>2. Stage = "receiving" /\ Stage' = "acquiring"
  BY <1>1, StageOf, StageMoves DEF Holds, ArmedLabels
<1>3. queue \in Seq(Queries)
  BY DEF BatchInv, BatchTypes
<1>4. /\ Len(queue) \in Nat \ {0} /\ Len(queue') = Len(queue) - 1
      /\ \A i \in 1 .. Len(queue') : queue'[i] = queue[i + 1]
      /\ taken' = queue[1]
  BY <1>1, <1>3
<1>5. \A i \in 1 .. Len(queue') : i + 1 \in 1 .. Len(queue) /\ i + 1 # 1
  BY <1>4
<1>6. 1 \in 1 .. Len(queue)
  BY <1>4
<1>7. /\ \A i, j \in 1 .. Len(queue') : queue'[i] = queue'[j] => i + 1 = j + 1
      /\ \A i \in 1 .. Len(queue') : queue'[i] # taken'
  BY <1>4, <1>5, <1>6 DEF PlaceInv, OnceInv
<1>8. \A i, j \in 1 .. Len(queue') : i + 1 = j + 1 => i = j
  BY <1>4
<1>9. Items(queue') \subseteq Items(queue) /\ taken' \in Items(queue)
  BY <1>4, <1>5, <1>6 DEF Items
<1>10. InHand' = {taken'} /\ Items(queue)' = Items(queue')
  BY <1>2 DEF InHand, Items
<1>11. taken' \notin Items(queue')
  BY <1>7 DEF Items
<1>12. OnceInv'
  BY <1>1, <1>7, <1>8, <1>9, <1>10, <1>11 DEF PlaceInv, OnceInv
<1>13. OpenInv' /\ BurstInv'
  BY <1>1, <1>2 DEF PlaceInv, OpenInv, BurstInv, InBatch
<1> QED
  BY <1>12, <1>13 DEF PlaceInv

LEMMA AddJobPlaces ==
  ASSUME Control, BatchInv, PlaceInv, NEW c \in Calls, AddJob(c)
  PROVE  PlaceInv'
<1>1. /\ pc[c] = "adding" /\ Goto(c, "receiving") /\ UNCHANGED mutex
      /\ accepted' = accepted \cup {taken}
      /\ UNCHANGED <<mapped, produced, producer, queue, closed>>
  BY DEF AddJob, Batch, Scan, Pool!Accept, fieldVars
<1>2. Stage = "adding" /\ Stage' = "receiving"
  BY <1>1, StageOf, StageMoves DEF Holds, ArmedLabels
<1>3. InHand = {taken} /\ InHand' = {} /\ Items(queue)' = Items(queue)
  BY <1>1, <1>2 DEF InHand, Items
<1>4. OnceInv'
  BY <1>1, <1>3 DEF PlaceInv, OnceInv
<1>5. OpenInv' /\ BurstInv'
  BY <1>1, <1>2 DEF PlaceInv, OpenInv, BurstInv, InBatch
<1> QED
  BY <1>4, <1>5 DEF PlaceInv

LEMMA ScanKeepsPlaces ==
  ASSUME Control, BatchInv, PlaceInv, NEW c \in Calls, ScanStep(c)
  PROVE  PlaceInv'
<1> USE DEF Scan, Holds, ArmedLabels, Phases
<1> DEFINE Rest == <<mapped, produced, producer, queue, taken, closed, accepted>>
<1>0. ASSUME NEW from \in ArmedLabels, NEW to, pc[c] = from, Goto(c, to), UNCHANGED mutex
      PROVE  Stage = from /\ Stage' = to
  BY <1>0, StageOf, StageMoves
<1>1. CASE TryLock(c) \/ OpenContext(c) \/ Arm(c)
  <2>1. UNCHANGED Rest
    BY <1>1 DEF TryLock, OpenContext, Arm, batchVars, poolVars
  <2>2. pc' = [pc EXCEPT ![c] = pc'[c]] /\ mutex' = c
        /\ pc'[c] \in {"opening", "arming", "preparing"}
    <3>1. CASE TryLock(c)
      BY <3>1 DEF TryLock, Goto, Control, ControlTypes
    <3>2. CASE OpenContext(c)
      BY <3>2, StageOf DEF OpenContext, Goto, Control, ControlTypes
    <3>3. CASE Arm(c)
      BY <3>3, StageOf DEF Arm, Goto, Control, ControlTypes
    <3> QED
      BY <1>1, <3>1, <3>2, <3>3
  <2>3. Stage' \in {"opening", "arming", "preparing"}
    BY <2>2, ScannerAssumption DEF Stage
  <2> QED
    BY <2>1, <2>3, PlaceStays DEF InHand, InBatch
<1>2. CASE Busy(c)
  <2>1. UNCHANGED Rest /\ UNCHANGED mutex /\ pc[c] = "entering" /\ Goto(c, "returned")
    BY <1>2 DEF Busy, fieldVars, batchVars, poolVars
  <2>2. mutex # c
    BY <2>1 DEF Control, FieldInv
  <2>3. Stage' = Stage
    BY <2>1, <2>2, StageMoves
  <2> QED
    BY <2>1, <2>3, PlaceStays DEF InHand, InBatch
<1>3. ASSUME NEW from \in ArmedLabels, NEW v, Return(c, from, v)
      PROVE  PlaceInv'
  <2>1. NewBatch({}, "off") /\ Stage' = "none"
    BY <1>3 DEF Return, Stage
  <2> QED
    BY <2>1, PlaceFresh DEF InBatch
<1>4. CASE Fail(c) \/ Panic(c) \/ SeeCancel(c) \/ NothingFound(c) \/ Complete(c)
  <2>1. \E from \in ArmedLabels, v \in Verdicts : Return(c, from, v)
    BY <1>4 DEF Fail, Panic, SeeCancel, NothingFound, Complete, Verdicts
  <2> QED
    BY <1>3, <2>1
<1>5. CASE Prepared(c) \/ Discovered(c) \/ NoBatch(c) \/ Acquire(c) \/ Drained(c)
  <2>1. UNCHANGED Rest
    BY <1>5 DEF Prepared, Discovered, NoBatch, Acquire, Drained, batchVars, poolVars
  <2>2. PICK from \in ArmedLabels, to \in ArmedLabels :
          /\ pc[c] = from /\ Goto(c, to) /\ UNCHANGED mutex
          /\ (to = "adding" => from = "acquiring") /\ to # "acquiring"
          /\ (to \in {"adding", "waiting"} => from \in {"acquiring", "receiving"})
          /\ to # "receiving"
    BY <1>5 DEF Prepared, Discovered, NoBatch, Acquire, Drained, Pass, Batch, fieldVars
  <2>3. Stage = from /\ Stage' = to
    BY <1>0, <2>2
  <2>4. InHand' \subseteq InHand /\ (InBatch' => InBatch)
    BY <2>1, <2>2, <2>3 DEF InHand, InBatch
  <2> QED
    BY <2>1, <2>4, PlaceStays
<1>6. CASE Created(c)
  <2>1. UNCHANGED <<produced, producer, queue, taken, closed, accepted>>
    BY <1>6 DEF Created, poolVars
  <2>2. Stage = "creating" /\ Stage' = "querying"
    BY <1>0, <1>6 DEF Created, Pass, fieldVars
  <2>3. \A d \in Devices : produced[d] = 0
    BY <2>2 DEF BatchInv, StageInv, BatchStages
  <2>4. mapped' \subseteq Devices
    BY <1>6 DEF Created
  <2>5. BurstInv'
    BY <2>1, <2>3, <2>4 DEF BurstInv
  <2>6. OnceInv' /\ OpenInv'
    BY <2>1, <2>2 DEF PlaceInv, OnceInv, OpenInv, InHand, InBatch, Items
  <2> QED
    BY <2>5, <2>6 DEF PlaceInv
<1>7. CASE BeginBatch(c)
  <2>1. NewBatch(mapped, "on") /\ Stage' = "receiving" /\ mapped \subseteq Devices
    BY <1>0, <1>7 DEF BeginBatch, Batch, fieldVars, BatchInv, BatchTypes
  <2> QED
    BY <2>1, PlaceFresh
<1>8. CASE WaitAndClose(c)
  <2>1. UNCHANGED <<mapped, produced, producer, queue, taken, accepted>>
    BY <1>8 DEF WaitAndClose, Pool!Shut
  <2>2. Stage = "waiting" /\ Stage' = "updating"
    BY <1>0, <1>8 DEF WaitAndClose, Batch, fieldVars
  <2>3. OnceInv'
    BY <2>1, <2>2 DEF PlaceInv, OnceInv, InHand, Items
  <2>4. OpenInv' /\ BurstInv'
    BY <2>1, <2>2 DEF PlaceInv, OpenInv, BurstInv, InBatch
  <2> QED
    BY <2>3, <2>4 DEF PlaceInv
<1> QED
  BY <1>1, <1>2, <1>4, <1>5, <1>6, <1>7, <1>8, ReceivePlaces, AddJobPlaces DEF ScanStep

LEMMA PlaceStep ==
  ASSUME Control, BatchInv, PlaceInv, [Next]_vars
  PROVE  PlaceInv'
<1> DEFINE Rest == <<mapped, produced, producer, queue, taken, closed, accepted>>
<1>1. ASSUME UNCHANGED Rest, Stage' = Stage
      PROVE  PlaceInv'
  BY <1>1, PlaceStays DEF InHand, InBatch
<1>2. CASE UNCHANGED vars
  BY <1>1, <1>2 DEF vars, callVars, fieldVars, batchVars, poolVars, Stage
<1>3. ASSUME NEW c \in Calls, Serve(c)
      PROVE  PlaceInv'
  BY <1>1, <1>3 DEF Serve, fieldVars, batchVars, poolVars, Stage
<1>4. ASSUME NEW s \in Stops, StopStep(s)
      PROVE  PlaceInv'
  BY <1>1, <1>4
  DEF StopStep, ReadContext, ReadCancel, CallCancel, StopAt, callVars, batchVars, poolVars,
      Stage
<1>5. ASSUME NEW p \in Projects,
             \/ OtherClaims(p) \/ OtherReleases(p) \/ DeleteProject(p)
             \/ \E s \in AllStatuses : UserUpdatesStatus(p, s)
      PROVE  PlaceInv'
  <2>1. StatusUpdate
    BY <1>5 DEF OtherClaims, OtherReleases, DeleteProject, UserUpdatesStatus
  <2> QED
    BY <1>1, <2>1 DEF StatusUpdate, callVars, fieldVars, batchVars, poolVars, Stage
<1>6. CASE CloseChannel
  <2>1. UNCHANGED <<mapped, produced, queue, taken, closed, accepted, pc, mutex>>
        /\ producer' = "closed"
    BY <1>6 DEF CloseChannel, callVars, fieldVars, poolVars
  <2> QED
    BY <2>1 DEF PlaceInv, OnceInv, OpenInv, BurstInv, InHand, InBatch, Items, Stage
<1>7. ASSUME NEW q \in Queries, JobStep(q)
      PROVE  PlaceInv'
  BY <1>1, <1>7
  DEF JobStep, JobStarts, JobEnds, Pool!Start, Pool!Finish, callVars, fieldVars, Stage
<1>8. ASSUME NEW c \in Calls, HandlerStep(c) \/ \E p \in Projects : SendClaim(c, p)
      PROVE  PlaceInv'
  <2>1. PICK l \in Labels :
          /\ UNCHANGED <<mutex, batchVars>> /\ Goto(c, l)
          /\ pc[c] \in {"ready", "claiming", "returned", "releasing"}
    BY <1>8
    DEF HandlerStep, ClaimGranted, ClaimFails, SendRelease, Answer, SendClaim, Handler,
        fieldVars, Labels, EarlyLabels, LateLabels
  <2>2. mutex # c
    BY <2>1 DEF Control, FieldInv, Holds, ArmedLabels, Phases
  <2>3. Stage' = Stage
    BY <2>1, <2>2, StageMoves
  <2> QED
    BY <1>1, <2>1, <2>3 DEF batchVars, poolVars
<1> QED
  BY <1>2, <1>3, <1>4, <1>5, <1>6, <1>7, <1>8, ProducePlaces, ScanKeepsPlaces
  DEF Next, SystemStep, ProducerStep

\* A pool with a query that has not ended can start or end one.
LEMMA PoolServes ==
  ASSUME BatchInv, accepted # finished
  PROVE  PoolMayStep
<1>1. finished \subseteq started /\ started \subseteq accepted
  BY DEF BatchInv, PoolInv
<1>2. CASE started \ finished = {}
  <2>1. PICK q \in accepted \ started : (started \cup {q}) \ finished = {q}
    BY <1>1, <1>2
  <2>2. Cardinality({q}) = 1 /\ Total \in Nat \ {0}
    BY FS_Singleton, ScannerAssumption
  <2>3. Cardinality((started \cup {q}) \ finished) = 1
    BY <2>1, <2>2
  <2>4. Cardinality((started \cup {q}) \ finished) <= Total
    BY <2>2, <2>3
  <2> QED
    BY <2>4 DEF PoolMayStep
<1> QED
  BY <1>2 DEF PoolMayStep

\* BatchQuery has no timeout and never looks at the scan's context: it ends
\* because its producer, consumer, semaphores and pool never all wait for each
\* other, for any number of queries and any sizes.  With goroutines scheduled
\* and queries that end, this is why ScansEnd.
THEOREM BatchIsNotStuck == Spec => []BatchGoesOn
<1>1. BatchInv /\ PlaceInv => BatchGoesOn
  <2> SUFFICES ASSUME BatchInv, PlaceInv PROVE BatchGoesOn
    OBVIOUS
  <2>1. /\ mapped \subseteq Devices /\ produced \in [Devices -> 0 .. PerDevice]
        /\ producer \in {"off", "on", "closed"} /\ sem \in [Devices -> 0 .. MaxPerDevice]
    BY DEF BatchInv, BatchTypes
  <2>2. ASSUME Stage = "receiving", queue = <<>>, producer # "closed"
        PROVE  ProducerMayStep
    <3>1. producer = "on"
      BY <2>1, <2>2 DEF PlaceInv, OpenInv, InBatch
    <3>2. Len(queue) < ChanSize
      BY <2>2, ScannerAssumption
    <3>3. CASE \E d \in mapped : produced[d] \notin {0, PerDevice}
      <4>1. PICK d \in mapped : produced[d] \notin {0, PerDevice}
        BY <3>3
      <4>2. produced[d] < PerDevice
        BY <2>1, <4>1, Sizes
      <4>3. \A e \in mapped \ {d} : produced[e] \in {0, PerDevice}
        BY <4>1 DEF PlaceInv, BurstInv
      <4> QED
        BY <3>1, <3>2, <4>2, <4>3 DEF ProducerMayStep
    <3>4. CASE \A d \in mapped : produced[d] \in {0, PerDevice}
      <4>1. 0 < PerDevice
        BY Sizes
      <4> QED
        BY <3>1, <3>2, <3>4, <4>1 DEF ProducerMayStep
    <3> QED
      BY <3>3, <3>4
  <2>3. ASSUME Stage = "acquiring", ~(sem[taken[1]] < MaxPerDevice)
        PROVE  PoolMayStep
    <3>1. taken[1] \in Devices
      BY <2>3, QueryParts DEF BatchInv, StageInv
    <3>2. sem[taken[1]] = Cardinality(Held(taken[1])) + 0
      BY <2>3, <3>1 DEF BatchInv, SemInv
    <3>3. sem[taken[1]] # 0
      BY <2>3, Sizes
    <3>4. Held(taken[1]) # {}
      BY <3>2, <3>3, FS_EmptySet
    <3>5. accepted # finished
      BY <3>4 DEF Held
    <3> QED
      BY <3>5, PoolServes
  <2>4. ASSUME Stage = "adding"
        PROVE  /\ ~closed /\ taken \notin accepted
               /\ Cardinality(accepted \ started) < PoolQueue \/ PoolMayStep
    <3>1. ~closed /\ taken \notin accepted
      BY <2>4 DEF PlaceInv, OpenInv, OnceInv, InBatch, InHand
    <3>2. CASE accepted = finished
      <4>1. accepted \ started = {}
        BY <3>2 DEF BatchInv, PoolInv
      <4>2. Cardinality(accepted \ started) = 0
        BY <4>1, FS_EmptySet
      <4> QED
        BY <3>1, <4>2, ScannerAssumption
    <3> QED
      BY <3>1, <3>2, PoolServes
  <2>5. Stage = "waiting" => ~closed /\ (accepted = finished \/ PoolMayStep)
    BY PoolServes DEF PlaceInv, OpenInv, InBatch
  <2> QED
    BY <2>2, <2>3, <2>4, <2>5 DEF BatchGoesOn
<1>2. Init => PlaceInv
  BY PlaceInit
<1>3. Control /\ BatchInv /\ PlaceInv /\ [Next]_vars => PlaceInv'
  BY PlaceStep
<1> QED
  BY <1>1, <1>2, <1>3, Invariance, PTL DEF Spec

-----------------------------------------------------------------------------
(***************************************************************************)
(* Scans implement DeviceLease, as the device operations do: a call holds  *)
(* the lease while the gate has granted its claim and not served its       *)
(* release.                                                                *)
(***************************************************************************)

Lease == INSTANCE DeviceLease WITH
  Clients <- Calls,
  holders <- {c \in Calls : Owns(c)},
  atWork  <- {c \in Calls : AtWork(c)},
  revoked <- (overrides > 0)

ImplementsDeviceLease == Lease!Spec

\* The handler begins to work when its claim was granted, and ends it when it
\* sends the release.
LEMMA HandlerLease ==
  ASSUME Control, NEW c \in Calls,
         HandlerStep(c) \/ ScanStep(c) \/ \E p \in Projects : SendClaim(c, p)
  PROVE  Lease!Next \/ UNCHANGED Lease!vars
<1>0. /\ pc \in [Calls -> Labels] /\ request \in [Calls -> Requests]
      /\ RequestInv
  BY DEF Control, ControlTypes, GateInv
<1>1. ASSUME NEW l \in Labels, Goto(c, l), UNCHANGED <<request, overrides>>,
             (l \notin {"ready", "claiming", "releasing", "done"}) = AtWork(c)
      PROVE  UNCHANGED Lease!vars
  <2>1. \A d \in Calls : AtWork(d)' = AtWork(d) /\ Owns(d)' = Owns(d)
    BY <1>0, <1>1 DEF AtWork, Owns, Goto
  <2> QED
    BY <1>1, <2>1 DEF Lease!vars
<1>2. CASE ScanStep(c)
  <2>1. PICK l \in Labels :
          /\ Goto(c, l) /\ UNCHANGED <<request, overrides>>
          /\ l \notin {"ready", "claiming", "releasing", "done"} /\ AtWork(c)
    <3> USE DEF Labels, EarlyLabels, ArmedLabels, LateLabels, Phases, AtWork, histVars
    <3>1. CASE TryLock(c) \/ Busy(c) \/ OpenContext(c) \/ Arm(c)
      BY <3>1 DEF TryLock, Busy, OpenContext, Arm, Scan
    <3>2. CASE GoesOn(c)
      BY <3>2 DEF GoesOn, Armed
    <3>3. CASE \E v : Returns(c, v)
      BY <3>3 DEF Returns, Armed
    <3> QED
      BY <1>2, <3>1, <3>2, <3>3, ScanMoves
  <2> QED
    BY <1>1, <2>1
<1>3. CASE ClaimFails(c) \/ Answer(c)
  <2>1. /\ Goto(c, "done") /\ UNCHANGED <<request, overrides>>
        /\ pc[c] \in {"claiming", "releasing"}
    BY <1>3 DEF ClaimFails, Answer, Handler
  <2> QED
    BY <1>1, <2>1 DEF AtWork, Labels, LateLabels
<1>4. CASE \E p \in Projects : SendClaim(c, p)
  <2>1. /\ pc[c] = "ready" /\ Goto(c, "claiming") /\ UNCHANGED overrides
        /\ request' = [request EXCEPT ![c] = "claim"]
    BY <1>4 DEF SendClaim, Handler
  <2>2. ~Owns(c)
    BY <1>0, <2>1 DEF RequestInv, Owns
  <2>3. \A d \in Calls : AtWork(d)' = AtWork(d) /\ Owns(d)' = Owns(d)
    BY <1>0, <2>1, <2>2 DEF AtWork, Owns, Goto
  <2> QED
    BY <2>1, <2>3 DEF Lease!vars
<1>5. CASE ClaimGranted(c)
  <2>1. /\ pc[c] = "claiming" /\ Goto(c, "entering") /\ request[c] = "granted"
        /\ UNCHANGED <<request, overrides>>
    BY <1>5 DEF ClaimGranted, Handler
  <2>2. ~AtWork(c) /\ AtWork(c)' /\ Owns(c) /\ \A d \in Calls : Owns(d)' = Owns(d)
    BY <1>0, <2>1 DEF AtWork, Owns, Goto
  <2>3. \A d \in Calls \ {c} : AtWork(d)' = AtWork(d)
    BY <1>0, <2>1 DEF AtWork, Goto
  <2>4. Lease!Begin(c)
    BY <2>1, <2>2, <2>3 DEF Lease!Begin
  <2> QED
    BY <2>4 DEF Lease!Next
<1>6. CASE SendRelease(c)
  <2>1. /\ pc[c] = "returned" /\ Goto(c, "releasing") /\ UNCHANGED overrides
        /\ request' = [request EXCEPT ![c] = "release"]
    BY <1>6 DEF SendRelease, Handler
  <2>2. AtWork(c) /\ ~AtWork(c)' /\ Owns(c)
    BY <1>0, <2>1 DEF AtWork, Goto, RequestInv, Owns
  <2>3. \A d \in Calls : Owns(d)' = Owns(d)
    BY <1>0, <2>1, <2>2 DEF Owns
  <2>4. \A d \in Calls \ {c} : AtWork(d)' = AtWork(d)
    BY <1>0, <2>1 DEF AtWork, Goto
  <2>5. Lease!End(c)
    BY <2>1, <2>2, <2>3, <2>4 DEF Lease!End
  <2> QED
    BY <2>5 DEF Lease!Next
<1> QED
  BY <1>2, <1>3, <1>4, <1>5, <1>6 DEF HandlerStep

\* cogsworth grants what nobody holds, and takes back what no scan works under.
LEMMA ServeLease ==
  ASSUME Control, NEW c \in Calls, Serve(c)
  PROVE  Lease!Next \/ UNCHANGED Lease!vars
<1>0. /\ request \in [Calls -> Requests] /\ overrides \in Nat /\ RequestInv
      /\ UNCHANGED <<pc, overrides>>
  BY ScannerAssumption DEF Control, ControlTypes, GateInv, Serve, histVars
<1>1. \A d \in Calls : AtWork(d)' = AtWork(d)
  BY <1>0 DEF AtWork
<1>2. CASE request[c] = "claim" /\ Accepts(project[c], "Scanning")
  <2>1. request' = [request EXCEPT ![c] = "granted"]
    BY <1>2 DEF Serve
  <2>2. ~Owns(c) /\ Owns(c)' /\ \A d \in Calls \ {c} : Owns(d)' = Owns(d)
    BY <1>0, <1>2, <2>1 DEF Owns
  <2>3. \A q \in Projects : status[q] # "Scanning"
    <3>1. "Scanning" \in DeviceStatuses \ FreeStatuses
      BY DEF FreeStatuses, DeviceStatuses
    <3>2. status[project[c]] \in FreeStatuses
      BY <1>2, <3>1 DEF Accepts
    <3>3. \A q \in Projects \ {project[c]} : status[q] \notin DeviceStatuses
      BY <1>2, <3>1 DEF Accepts
    <3> QED
      BY <3>1, <3>2, <3>3
  <2>4. overrides = 0 => \A d \in Calls : ~Owns(d)
    <3>1. \A d \in Calls : Owns(d) => project[d] \in Projects
      BY <1>0 DEF RequestInv, Owns
    <3> QED
      BY <2>3, <3>1 DEF Control, GateInv, OwnerInv
  <2>5. Lease!Grant(c)
    BY <1>0, <1>1, <2>2, <2>4 DEF Lease!Grant
  <2> QED
    BY <2>5 DEF Lease!Next
<1>3. CASE request[c] = "claim" /\ ~Accepts(project[c], "Scanning")
  <2>1. request' = [request EXCEPT ![c] = "refused"]
    BY <1>3 DEF Serve
  <2>2. \A d \in Calls : Owns(d)' = Owns(d)
    BY <1>0, <1>3, <2>1 DEF Owns
  <2> QED
    BY <1>0, <1>1, <2>2 DEF Lease!vars
<1>4. CASE request[c] = "release"
  <2>1. request' = [request EXCEPT ![c] = "released"]
    BY <1>4 DEF Serve
  <2>2. Owns(c) /\ ~Owns(c)' /\ \A d \in Calls \ {c} : Owns(d)' = Owns(d)
    BY <1>0, <1>4, <2>1 DEF Owns
  <2>3. ~AtWork(c)
    BY <1>0, <1>4 DEF RequestInv
  <2>4. Lease!GiveBack(c)
    BY <1>0, <1>1, <2>2, <2>3 DEF Lease!GiveBack
  <2> QED
    BY <2>4 DEF Lease!Next
<1> QED
  BY <1>2, <1>3, <1>4 DEF Serve

LEMMA LeaseStep ==
  ASSUME Control, Control', [Next]_vars
  PROVE  Lease!Next \/ UNCHANGED Lease!vars
<1>0. overrides \in Nat /\ overrides' \in Nat
  BY ScannerAssumption DEF Control, ControlTypes
<1>1. ASSUME NEW p \in Projects,
             DeleteProject(p) \/ \E s \in AllStatuses : UserUpdatesStatus(p, s)
      PROVE  Lease!Next \/ UNCHANGED Lease!vars
  <2>1. UNCHANGED <<pc, request>> /\ Override(p)
    BY <1>1 DEF DeleteProject, UserUpdatesStatus, StatusUpdate, callVars
  <2>2. \A d \in Calls : AtWork(d)' = AtWork(d) /\ Owns(d)' = Owns(d)
    BY <2>1 DEF AtWork, Owns
  <2>3. overrides' = overrides \/ overrides' = overrides + 1
    BY <1>0, <2>1 DEF Override
  <2>4. CASE (overrides' > 0) = (overrides > 0)
    BY <2>2, <2>4 DEF Lease!vars
  <2>5. CASE (overrides' > 0) # (overrides > 0)
    <3>1. ~(overrides > 0) /\ (overrides' > 0) = TRUE
      BY <1>0, <2>3, <2>5
    <3>2. Lease!Revoke
      BY <2>2, <3>1 DEF Lease!Revoke
    <3> QED
      BY <3>2 DEF Lease!Next
  <2> QED
    BY <2>4, <2>5
<1>2. ASSUME UNCHANGED <<pc, request, overrides>>
      PROVE  UNCHANGED Lease!vars
  BY <1>2 DEF Lease!vars, AtWork, Owns
<1>3. ASSUME NEW p \in Projects, OtherClaims(p) \/ OtherReleases(p)
      PROVE  UNCHANGED Lease!vars
  BY <1>2, <1>3 DEF OtherClaims, OtherReleases, StatusUpdate, callVars
<1>4. ASSUME NEW s \in Stops, StopStep(s)
      PROVE  UNCHANGED Lease!vars
  BY <1>2, <1>4 DEF StopStep, ReadContext, ReadCancel, CallCancel, StopAt, callVars
<1>5. CASE ProducerStep \/ \E q \in Queries : JobStep(q)
  BY <1>2, <1>5
  DEF ProducerStep, Produce, CloseChannel, JobStep, JobStarts, JobEnds, callVars, histVars
<1>6. CASE UNCHANGED vars
  BY <1>2, <1>6 DEF vars, callVars, histVars
<1> QED
  BY <1>1, <1>3, <1>4, <1>5, <1>6, HandlerLease, ServeLease DEF Next, SystemStep

\* Scans implement the lease too, for any number of requests, stops and
\* projects: what a scan is granted nobody else holds, and its project is given
\* back only when StartScanTopology has returned.
THEOREM LeaseIsImplemented == Spec => ImplementsDeviceLease
<1>1. Init => Lease!Init
  BY DEF Init, Lease!Init, Owns, AtWork
<1>2. Control /\ Control' /\ [Next]_vars => [Lease!Next]_(Lease!vars)
  BY LeaseStep
<1> QED
  BY <1>1, <1>2, Invariance, PTL DEF Spec, ImplementsDeviceLease, Lease!Spec

=============================================================================

----------------------- MODULE MonitorLifecycle_proofs -----------------------
(***************************************************************************)
(* The monitor runs under its status, for the session it says, with all    *)
(* that belongs to it, and leaves nothing behind: for any number of        *)
(* requests, projects, sessions, edits, failing and late requests.         *)
(***************************************************************************)
EXTENDS MonitorLifecycle, TLAPS

StartPhases == {"checking", "claiming", "loading", "starting", "started", "failing"}
StopPhases == {"examining", "stopping", "draining", "closing", "releasing"}
ReloadPhases == {"updating", "restarting"}

Targets == [op : {"start", "stop"}, project : Projects]

\* What the holder of internalMutex carries.
LockInv ==
  /\ phase = "out" <=> internal \in {"free", "updater"}
  /\ phase # "out" => subject \in Projects
  /\ phase \in StartPhases => internal = "call"
  /\ phase \in ReloadPhases => internal = "poller"
  /\ internal = "poller" => reloader \in Sessions /\ poller[reloader] = "reloading"
  /\ \A s \in Sessions :
       /\ poller[s] \in {"changed", "reloading"} => found[s] \in Settings
       /\ updater[s] = "locked" =>
            internal = "updater" /\ \A t \in Sessions : updater[t] = "locked" => t = s
  /\ internal = "call" => mutex \in Calls /\ pc[mutex] = "inside"
  /\ \A c \in Calls :
       /\ pc[c] # "ready" => target[c] \in Targets
       /\ pc[c] \in {"locking", "inside"} => mutex = c

\* The states in which a monitor changes are those of the subject of the holder
\* of internalMutex, and at most one project is active.
StateInv ==
  /\ \A p \in Projects :
       state[p] \in {"Starting", "Reloading", "Stopping"} => phase # "out" /\ p = subject
  /\ phase \in {"checking", "claiming", "examining", "releasing"} =>
       state[subject] \notin {"Starting", "Reloading", "Stopping"}
  /\ phase = "claiming" => \A p \in Projects : ~Active(p)
  /\ phase \in {"loading", "starting", "started", "failing"} => state[subject] = "Starting"
  /\ phase \in {"stopping", "draining", "closing"} => state[subject] = "Stopping"
  /\ phase \in ReloadPhases => state[subject] = "Reloading"
  /\ phase = "releasing" => ~Active(subject)
  /\ phase = "examining" /\ internal = "poller" => state[subject] = "Running"
  /\ \A p, q \in Projects : Active(p) /\ Active(q) => p = q

\* The context of the latest session is not cancelled.
Live == session # 0 /\ session \notin cancelled

\* Project p has a monitor: NM was started for it and was not yet stopped for good.
Monitored(p) ==
  \/ state[p] \in {"Running", "Reloading"}
  \/ phase \in {"started", "stopping"} /\ p = subject

\* Only the latest session may be live, and it is then that of the one active
\* project.
SessionInv ==
  /\ \A s \in Sessions :
       /\ s <= session => owner[s] \in Projects
       /\ s < session => s \in cancelled
       /\ s > session => s \notin cancelled /\ poller[s] = "off" /\ pool[s] = "none"
  /\ Live => Active(owner[session])
  /\ phase \in {"loading", "draining", "closing"} => ~Live
  /\ phase \in {"draining", "closing"} => session # 0
  /\ phase = "starting" => Live /\ owner[session] = subject
  /\ \A p \in Projects : Monitored(p) => Live /\ owner[session] = p
  /\ phase \in ReloadPhases => reloader = session

\* What belongs to a monitor is there with it and is not there without.
PartsInv ==
  /\ nm # 0 => nm = session /\ Live
  /\ subscribed # 0 => Live
  /\ applied # None => Live
  /\ phase \in {"loading", "starting", "failing"} => nm = 0 /\ applied = None
  /\ phase \in {"loading", "failing"} => subscribed = 0
  /\ phase = "starting" => subscribed = session
  /\ \A s \in Sessions :
       /\ jobs[s] > 0 => pool[s] = "open"
       /\ pool[s] = "open" =>
            /\ s = session /\ (Live \/ phase \in {"draining", "closing"})
            /\ phase \notin {"loading", "starting", "failing"}
  /\ \A p \in Projects :
       Monitored(p) => subscribed = session /\ applied # None /\ pool[session] = "open"

\* NM itself is missing only inside a reload, and after one whose stop failed.
NmInv ==
  ~leftBehind =>
    /\ \A p \in Projects :
         state[p] = "Running" /\ ~(phase = "examining" /\ internal = "poller") => nm # 0
    /\ phase \in {"started", "updating"} => nm # 0
    /\ phase = "stopping" /\ internal = "call" => nm # 0

\* A late release is that of a project still in Monitoring that nobody monitors:
\* until it is served no claim of the project is granted.
StatusInv ==
  overrides = 0 /\ ~restopped =>
    /\ \A p \in Projects :
         /\ Active(p) => status[p] = "Monitoring"
         /\ <<p, "Idle">> \in late => status[p] = "Monitoring" /\ ~Active(p)
    /\ phase \in StopPhases \ {"examining"} =>
         /\ <<subject, "Idle">> \notin late
         /\ snapshot => status[subject] = "Monitoring"

IInv == TypeOK /\ LockInv /\ StateInv /\ SessionInv /\ PartsInv /\ NmInv /\ StatusInv

-----------------------------------------------------------------------------
(***************************************************************************)
(* The steps, by what they change.                                         *)
(***************************************************************************)

USE DEF settingVars

LEMMA Facts ==
  /\ MaxSessions \in Nat /\ PoolSize \in Nat \ {0} /\ MaxEdits \in Nat /\ MaxFaults \in Nat
  /\ MaxOverrides \in Nat /\ Base \in Settings
  /\ None \notin Settings /\ None \notin Calls /\ None \notin Projects
  /\ \A p \in Projects : p # None
BY MonitorAssumption

\* What a request to the gate does to the list.
LEMMA GateKeeps ==
  ASSUME StatusTypeOK, NEW p \in Projects, NEW s \in AllStatuses,
         UpdateProjectStatus(p, s)
  PROVE  /\ StatusTypeOK'
         /\ \A q \in Projects \ {p} : status'[q] = status[q]
         /\ Accepts(p, s) => status'[p] = Stored(p, s)
         /\ ~Accepts(p, s) => status' = status
<1>1. Stored(p, s) \in AllStatuses \cup {"absent"}
  BY DEF Stored, StatusTypeOK, AllStatuses, FreeStatuses
<1> QED
  BY <1>1 DEF UpdateProjectStatus, StatusTypeOK

LEMMA InitIInv == Init => IInv
<1> SUFFICES ASSUME Init PROVE IInv
  OBVIOUS
<1> USE Facts DEF Init, InitStatus
<1>1. TypeOK
  <2>1. StatusTypeOK /\ late \subseteq Projects \X {"Idle", "Monitoring"}
    BY DEF StatusTypeOK, AllStatuses, FreeStatuses
  <2>2. /\ stored \in [Projects -> Settings] /\ wanted \in [Projects -> Settings]
        /\ state \in [Projects -> MonitorStates]
    BY DEF MonitorStates
  <2>3. jobs \in [Sessions -> 0 .. PoolSize] /\ cancelled \subseteq Sessions
    OBVIOUS
  <2>4. /\ {reloader, session, nm, subscribed} \subseteq 0 .. MaxSessions
        /\ edits \in 0 .. MaxEdits /\ faults \in 0 .. MaxFaults
        /\ overrides \in 0 .. MaxOverrides
    OBVIOUS
  <2>5. /\ pool \in [Sessions -> {"none", "open", "closed"}]
        /\ dispatcher \in [Sessions -> {"off", "idle", "adding", "ended"}]
        /\ poller \in [Sessions -> {"off", "idle", "changed", "reloading", "ended"}]
        /\ updater \in [Sessions -> {"off", "idle", "working", "locked", "ended"}]
        /\ found \in [Sessions -> Settings \cup {None}]
        /\ owner \in [Sessions -> Projects \cup {None}]
    OBVIOUS
  <2>6. /\ pc \in [Calls -> {"ready", "trying", "locking", "inside", "done"}]
        /\ target \in [Calls -> [op : {"start", "stop"}, project : Projects] \cup {NoTarget}]
    OBVIOUS
  <2> QED
    BY <2>1, <2>2, <2>3, <2>4, <2>5, <2>6 DEF TypeOK, Phases
<1>2. LockInv /\ StateInv
  BY DEF LockInv, StateInv, Active, StartPhases, ReloadPhases
<1>3. SessionInv /\ PartsInv
  BY DEF SessionInv, PartsInv, Live, Monitored, ReloadPhases, Sessions
<1>4. NmInv /\ StatusInv
  BY DEF NmInv, StatusInv, Active, StopPhases
<1> QED
  BY <1>1, <1>2, <1>3, <1>4 DEF IInv

\* StateInv, SessionInv, PartsInv and NmInv speak of these.
coreVars == <<phase, subject, state, sessionVars, nmVars, pool, leftBehind>>

LEMMA CoreStays ==
  ASSUME IInv, UNCHANGED coreVars, phase = "out" \/ UNCHANGED <<internal, reloader>>,
         \A s \in Sessions : /\ poller'[s] = "off" <=> poller[s] = "off"
                             /\ jobs'[s] > 0 => pool[s] = "open"
  PROVE  StateInv' /\ SessionInv' /\ PartsInv' /\ NmInv'
<1> USE DEF coreVars, sessionVars, nmVars
<1>1. StateInv'
  BY DEF IInv, StateInv, Active, ReloadPhases
<1>2. SessionInv'
  BY DEF IInv, SessionInv, Live, Monitored, Active, ReloadPhases
<1>3. PartsInv'
  BY DEF IInv, PartsInv, Live, Monitored
<1>4. NmInv'
  BY DEF IInv, NmInv
<1> QED
  BY <1>1, <1>2, <1>3, <1>4

LEMMA CallStep ==
  ASSUME IInv, NEW c \in Calls,
         \/ \E op \in {"start", "stop"}, p \in Projects : Call(c, op, p)
         \/ TryLock(c) \/ GiveUp(c)
  PROVE  IInv'
<1>1. /\ UNCHANGED <<gateVars, settingVars, internal, phase, subject, snapshot, reloader, state,
                     sessionVars, nmVars, goVars, edits, faults, histVars>>
      /\ pc[c] \in {"ready", "trying"}
      /\ \/ /\ \E l \in {"trying", "done"} : pc' = [pc EXCEPT ![c] = l]
            /\ UNCHANGED mutex
         \/ /\ pc' = [pc EXCEPT ![c] = "locking"]
            /\ mutex = None /\ mutex' = c
      /\ \/ UNCHANGED target /\ pc[c] # "ready"
         \/ \E t \in Targets : target' = [target EXCEPT ![c] = t]
  BY DEF Call, TryLock, GiveUp, Targets, lockVars
<1> USE <1>1 DEF gateVars, sessionVars, nmVars, goVars, histVars
<1>2. TypeOK'
  <2>1. /\ pc' \in [Calls -> {"ready", "trying", "locking", "inside", "done"}]
        /\ target' \in [Calls -> Targets \cup {NoTarget}]
    BY DEF IInv, TypeOK, Targets
  <2> QED
    BY <2>1 DEF IInv, TypeOK, StatusTypeOK, Targets
<1>3. LockInv'
  BY Facts DEF IInv, TypeOK, LockInv
<1>4. StateInv' /\ SessionInv' /\ PartsInv' /\ NmInv'
  BY CoreStays DEF coreVars, IInv, PartsInv
<1>5. StatusInv'
  BY DEF IInv, StatusInv, Active
<1> QED
  BY <1>2, <1>3, <1>4, <1>5 DEF IInv

LEMMA LockStep ==
  ASSUME IInv, NEW c \in Calls, Lock(c)
  PROVE  IInv'
<1>1. /\ pc[c] = "locking" /\ internal = "free"
      /\ internal' = "call" /\ phase' \in {"checking", "examining"}
      /\ subject' = target[c].project
      /\ pc' = [pc EXCEPT ![c] = "inside"]
      /\ UNCHANGED <<target, poller, gateVars, settingVars, mutex, snapshot, reloader, state,
                     sessionVars, nmVars, pool, jobs, dispatcher, found, updater, edits,
                     faults, histVars>>
  BY DEF Lock, Enter
<1>2. phase = "out" /\ subject' \in Projects
  BY <1>1 DEF IInv, LockInv, Targets
<1> USE <1>1, <1>2 DEF gateVars, sessionVars, nmVars, histVars
<1>3. TypeOK'
  BY DEF IInv, TypeOK, StatusTypeOK, Phases
<1>4. LockInv'
  BY DEF IInv, TypeOK, LockInv, StartPhases, ReloadPhases
<1>5. StateInv'
  BY DEF IInv, StateInv, Active, ReloadPhases
<1>6. SessionInv'
  BY DEF IInv, SessionInv, Live, Monitored, Active, ReloadPhases
<1>7. PartsInv' /\ NmInv'
  BY DEF IInv, PartsInv, NmInv, Live, Monitored
<1>8. StatusInv'
  BY DEF IInv, StatusInv, Active, StopPhases
<1> QED
  BY <1>3, <1>4, <1>5, <1>6, <1>7, <1>8 DEF IInv

\* What is left to show of a step after which internalMutex is free.
LEMMA LeaveKeepsLock ==
  ASSUME IInv, phase # "out", Leave, UNCHANGED <<found, updater>>
  PROVE  /\ LockInv' /\ internal' = "free" /\ phase' = "out" /\ subject' = None
         /\ snapshot' = FALSE /\ reloader' = 0
         /\ mutex' \in Calls \cup {None}
         /\ pc' \in [Calls -> {"ready", "trying", "locking", "inside", "done"}]
         /\ target' \in [Calls -> Targets \cup {NoTarget}]
         /\ poller' \in [Sessions -> {"off", "idle", "changed", "reloading", "ended"}]
         /\ \A s \in Sessions : poller'[s] = "off" <=> poller[s] = "off"
<1>1. internal \in {"call", "poller"}
  BY DEF IInv, LockInv, TypeOK
<1>2. /\ internal' = "free" /\ phase' = "out" /\ subject' = None
      /\ snapshot' = FALSE /\ reloader' = 0
  BY DEF Leave
<1>3. CASE internal = "call"
  <2>1. /\ mutex' = None /\ pc' = [pc EXCEPT ![mutex] = "done"]
        /\ UNCHANGED <<target, poller>>
    BY <1>3 DEF Leave
  <2>2. \A c \in Calls : pc'[c] # "ready" => mutex = c \/ pc[c] # "ready"
    BY <2>1 DEF IInv, TypeOK
  <2>3. pc[mutex] = "ready" => mutex \notin Calls
    BY <1>3 DEF IInv, LockInv
  <2> QED
    BY <1>2, <1>3, <2>1, <2>2, <2>3
    DEF IInv, TypeOK, LockInv, StartPhases, ReloadPhases, Targets
<1>4. CASE internal = "poller"
  <2>1. poller' = [poller EXCEPT ![reloader] = "idle"] /\ UNCHANGED <<mutex, callVars>>
    BY <1>4 DEF Leave
  <2> QED
    BY <1>2, <1>4, <2>1
    DEF IInv, TypeOK, LockInv, StartPhases, ReloadPhases, Targets, callVars
<1> QED
  BY <1>1, <1>3, <1>4

LEMMA LeaveTypes ==
  ASSUME IInv, phase # "out", Leave, UNCHANGED <<found, updater>>
  PROVE  /\ mutex' \in Calls \cup {None} /\ internal' \in {"free", "call", "poller", "updater"}
         /\ phase' \in Phases /\ subject' \in Projects \cup {None} /\ snapshot' \in BOOLEAN
         /\ reloader' \in 0 .. MaxSessions
         /\ pc' \in [Calls -> {"ready", "trying", "locking", "inside", "done"}]
         /\ target' \in [Calls -> [op : {"start", "stop"}, project : Projects] \cup {NoTarget}]
         /\ poller' \in [Sessions -> {"off", "idle", "changed", "reloading", "ended"}]
BY LeaveKeepsLock, Facts DEF Phases, Targets

LEMMA ReleaseKeeps ==
  ASSUME IInv, NEW p \in Projects, Release(p)
  PROVE  /\ StatusTypeOK' /\ late' \subseteq Projects \X {"Idle", "Monitoring"}
         /\ \/ /\ late' = late
               /\ \A q \in Projects \ {p} : status'[q] = status[q]
               /\ status'[p] \in {status[p], "Idle"}
            \/ late' = late \cup {<<p, "Idle">>} /\ status' = status
<1>1. StatusTypeOK /\ "Idle" \in AllStatuses /\ Stored(p, "Idle") = "Idle"
  BY DEF IInv, TypeOK, AllStatuses, FreeStatuses, Stored, ComputeStatuses
<1>2. CASE UpdateProjectStatus(p, "Idle") /\ UNCHANGED late
  BY <1>1, <1>2, GateKeeps DEF IInv, TypeOK
<1>3. CASE late' = late \cup {<<p, "Idle">>} /\ UNCHANGED status
  BY <1>1, <1>3 DEF IInv, TypeOK, StatusTypeOK
<1> QED
  BY <1>2, <1>3 DEF Release

LEMMA OwnerExists ==
  ASSUME IInv, session # 0
  PROVE  session \in Sessions /\ owner[session] \in Projects
<1>1. session \in Sessions
  BY Facts DEF IInv, TypeOK, Sessions
<1> QED
  BY <1>1, Facts DEF IInv, TypeOK, SessionInv, Sessions

LEMMA FaultKeeps == ASSUME IInv, Fault \/ UNCHANGED faults PROVE faults' \in 0 .. MaxFaults
BY Facts DEF Fault, IInv, TypeOK

\* A section that ends and leaves sessions, parts and states alone.
LEMMA LeaveUnchanged ==
  ASSUME IInv, phase \in {"checking", "claiming", "examining", "releasing"}, Leave,
         UNCHANGED <<state, sessionVars, nmVars, pool, jobs, found, updater>>,
         ~leftBehind' => /\ ~leftBehind
                         /\ nm # 0 \/ ~(phase = "examining" /\ internal = "poller")
  PROVE  LockInv' /\ StateInv' /\ SessionInv' /\ PartsInv' /\ NmInv'
<1>1. /\ LockInv' /\ phase' = "out" /\ \A s \in Sessions : poller'[s] = "off" <=> poller[s] = "off"
  BY LeaveKeepsLock
<1> USE <1>1 DEF sessionVars, nmVars
<1>2. StateInv'
  BY DEF IInv, StateInv, Active, ReloadPhases
<1>3. SessionInv'
  BY DEF IInv, SessionInv, Live, Monitored, Active, ReloadPhases
<1>4. PartsInv'
  BY DEF IInv, PartsInv, Live, Monitored
<1>5. NmInv'
  BY DEF IInv, NmInv
<1> QED
  BY <1>2, <1>3, <1>4, <1>5

LEMMA RefusedStep ==
  ASSUME IInv, StartRefused \/ ClaimFails
  PROVE  IInv'
<1>1. /\ phase \in {"checking", "claiming"} /\ Leave
      /\ late' \in {late, late \cup {<<p0, "Monitoring">>}}
      /\ Fault \/ UNCHANGED faults
      /\ UNCHANGED <<status, settingVars, state, sessionVars, nmVars, pool, jobs, dispatcher, found,
                     updater, edits, histVars>>
  BY DEF StartRefused, ClaimFails, ProjectFails, gateVars
<1>2. p0 \in Projects
  BY <1>1 DEF IInv, LockInv, p0
<1>3. LockInv' /\ StateInv' /\ SessionInv' /\ PartsInv' /\ NmInv'
  BY <1>1, LeaveUnchanged DEF histVars
<1> USE DEF sessionVars, nmVars, histVars
<1>4. late' \subseteq Projects \X {"Idle", "Monitoring"}
  BY <1>1, <1>2 DEF IInv, TypeOK
<1>5. \A p : <<p, "Idle">> \in late' => <<p, "Idle">> \in late
  BY <1>1
<1>6. TypeOK'
  BY <1>1, <1>4, LeaveTypes, FaultKeeps DEF IInv, TypeOK, StatusTypeOK
<1>7. StatusInv'
  BY <1>1, <1>5, LeaveKeepsLock DEF IInv, StatusInv, Active, StopPhases
<1> QED
  BY <1>3, <1>6, <1>7 DEF IInv

\* A step inside the section that goes on to another phase.
LEMMA GotoKeepsLock ==
  ASSUME IInv, phase # "out", NEW l \in Phases \ {"out"}, Goto(l),
         l \in StartPhases => phase \in StartPhases,
         l \notin ReloadPhases \/ phase \in ReloadPhases,
         UNCHANGED <<pc, target, poller, found, updater>>
  PROVE  LockInv'
BY DEF Goto, IInv, LockInv, StartPhases, ReloadPhases

LEMMA CheckedStep ==
  ASSUME IInv, StartChecked
  PROVE  IInv'
<1>1. /\ phase = "checking" /\ \A p \in Projects : ~Active(p)
      /\ Goto("claiming")
      /\ UNCHANGED <<gateVars, settingVars, state, sessionVars, nmVars, goVars, callVars, edits,
                     faults, histVars>>
  BY DEF StartChecked
<1> USE DEF gateVars, sessionVars, nmVars, goVars, callVars, histVars
<1>2. LockInv'
  BY <1>1, GotoKeepsLock DEF StartPhases, ReloadPhases, Phases
<1> USE <1>1 DEF Goto
<1>3. TypeOK'
  BY DEF IInv, TypeOK, StatusTypeOK, Phases
<1>4. StateInv'
  BY DEF IInv, StateInv, Active, ReloadPhases
<1>5. SessionInv'
  BY DEF IInv, SessionInv, Live, Monitored, Active, ReloadPhases
<1>6. PartsInv' /\ NmInv'
  BY DEF IInv, PartsInv, NmInv, Live, Monitored
<1>7. StatusInv'
  BY DEF IInv, StatusInv, Active, StopPhases
<1> QED
  BY <1>2, <1>3, <1>4, <1>5, <1>6, <1>7 DEF IInv

LEMMA GrantedStep ==
  ASSUME IInv, ClaimGranted
  PROVE  IInv'
<1>1. /\ phase = "claiming" /\ Accepts(p0, "Monitoring")
      /\ UpdateProjectStatus(p0, "Monitoring")
      /\ state' = [state EXCEPT ![subject] = "Starting"] /\ Goto("loading")
      /\ UNCHANGED <<late, settingVars, sessionVars, nmVars, goVars, callVars, edits, faults,
                     histVars>>
  BY DEF ClaimGranted, SetState, p0
<1>2. p0 \in Projects /\ p0 = subject
  BY <1>1 DEF IInv, LockInv, p0
<1> USE DEF sessionVars, nmVars, goVars, callVars, histVars
<1>3. LockInv'
  BY <1>1, GotoKeepsLock DEF StartPhases, ReloadPhases, Phases
<1>4. \A p \in Projects : state'[p] = IF p = subject THEN "Starting" ELSE state[p]
  BY <1>1 DEF IInv, TypeOK
<1>5. /\ StatusTypeOK' /\ status'[subject] = "Monitoring"
      /\ \A p \in Projects \ {subject} : status'[p] = status[p]
      /\ status[subject] # "Monitoring"
  <2>1. /\ "Monitoring" \in AllStatuses \ FreeStatuses
        /\ "Monitoring" \in DeviceStatuses \ ComputeStatuses
    BY DEF AllStatuses, FreeStatuses, DeviceStatuses, ComputeStatuses
  <2> QED
    BY <1>1, <1>2, <2>1, GateKeeps DEF IInv, TypeOK, Accepts, Stored
<1> USE <1>1 DEF Goto
<1>6. TypeOK'
  <2>1. state' \in [Projects -> MonitorStates] /\ phase' \in Phases
    BY DEF IInv, TypeOK, Phases, MonitorStates
  <2> QED
    BY <1>5, <2>1 DEF IInv, TypeOK
<1>7. StateInv'
  BY <1>2, <1>4 DEF IInv, StateInv, Active, ReloadPhases
<1>8. SessionInv' /\ PartsInv'
  <2>1. ~Live
    BY OwnerExists DEF IInv, SessionInv, StateInv, Live
  <2>2. ~Live' /\ \A p \in Projects : ~Monitored(p)'
    BY <1>2, <1>4, <2>1 DEF IInv, SessionInv, Live, Monitored
  <2>3. SessionInv'
    BY <2>2 DEF IInv, SessionInv, ReloadPhases
  <2>4. PartsInv'
    BY <2>1, <2>2 DEF IInv, PartsInv
  <2> QED
    BY <2>3, <2>4
<1>10. NmInv'
  BY <1>4 DEF IInv, NmInv
<1>11. StatusInv'
  BY <1>2, <1>4, <1>5 DEF IInv, StatusInv, StateInv, Active, StopPhases
<1> QED
  BY <1>3, <1>6, <1>7, <1>8, <1>10, <1>11 DEF IInv

LEMMA LoadedStep ==
  ASSUME IInv, Loaded
  PROVE  IInv'
<1>1. /\ phase = "loading" /\ session < MaxSessions
      /\ LoadBaseline
      /\ session' = session + 1 /\ owner' = [owner EXCEPT ![session + 1] = subject]
      /\ subscribed' = session + 1 /\ Goto("starting")
      /\ UNCHANGED <<gateVars, state, cancelled, nm, applied, goVars, callVars, edits,
                     faults, histVars>>
  BY DEF Loaded, p0
<1>2. subject \in Projects
  BY <1>1 DEF IInv, LockInv
<1> USE DEF gateVars, goVars, callVars, histVars
<1>3. LockInv'
  BY <1>1, GotoKeepsLock DEF StartPhases, ReloadPhases, Phases
<1> USE <1>1 DEF Goto
<1>4. session \in Nat /\ session' \in Sessions /\ MaxSessions \in Nat
  BY Facts DEF IInv, TypeOK, Sessions
<1>5. \A s \in Sessions : owner'[s] = IF s = session + 1 THEN subject ELSE owner[s]
  BY DEF IInv, TypeOK
<1>6. TypeOK'
  <2>1. session' \in 0 .. MaxSessions /\ subscribed' \in 0 .. MaxSessions
    BY <1>4 DEF Sessions
  <2>2. /\ owner' \in [Sessions -> Projects \cup {None}]
        /\ stored' \in [Projects -> Settings] /\ wanted' \in [Projects -> Settings]
    BY <1>2, Facts DEF LoadBaseline, IInv, TypeOK
  <2> QED
    BY <2>1, <2>2 DEF IInv, TypeOK, StatusTypeOK, Phases
<1>7. StateInv'
  BY DEF IInv, StateInv, Active, ReloadPhases
<1>8. SessionInv'
  <2>1. \A s \in Sessions : s \in Nat \ {0}
    BY <1>4 DEF Sessions
  <2>2. \A p \in Projects : ~Monitored(p)'
    BY DEF IInv, SessionInv, Monitored
  <2>3. ~Live /\ \A s \in Sessions : s <= session => s \in cancelled
    BY <1>4, <2>1 DEF IInv, SessionInv, Live
  <2>4. owner'[session'] = subject /\ Active(subject) /\ Live'
    BY <1>2, <1>4, <1>5 DEF IInv, SessionInv, StateInv, Active, Live
  <2>5. \A s \in Sessions :
          /\ s <= session' => owner'[s] \in Projects
          /\ s < session' => s \in cancelled'
          /\ s > session' => s \notin cancelled' /\ poller'[s] = "off" /\ pool'[s] = "none"
    BY <1>2, <1>4, <1>5, <2>1, <2>3 DEF IInv, SessionInv
  <2> QED
    BY <2>2, <2>4, <2>5 DEF SessionInv, ReloadPhases, Active
<1>9. PartsInv'
  <2>1. Live'
    BY <1>4 DEF Live, IInv, SessionInv
  <2>2. nm = 0 /\ applied = None /\ \A s \in Sessions : pool[s] # "open"
    BY DEF IInv, PartsInv
  <2>3. \A p \in Projects : ~Monitored(p)'
    BY DEF IInv, SessionInv, Monitored
  <2> QED
    BY <2>1, <2>2, <2>3, <1>4 DEF PartsInv, IInv
<1>10. NmInv' /\ StatusInv'
  BY DEF IInv, NmInv, StatusInv, Active, StopPhases
<1> QED
  BY <1>3, <1>6, <1>7, <1>8, <1>9, <1>10 DEF IInv

LEMMA LoadFailsStep ==
  ASSUME IInv, LoadFails \/ NmStartFails
  PROVE  IInv'
<1>1. /\ phase \in {"loading", "starting"} /\ Goto("failing")
      /\ UNCHANGED settingVars \/ LoadBaseline
      /\ subscribed' = IF phase = "starting" THEN 0 ELSE subscribed
      /\ Fault \/ UNCHANGED faults
      /\ UNCHANGED <<gateVars, state, sessionVars, nm, applied, goVars, callVars, edits,
                     histVars>>
  BY DEF LoadFails, NmStartFails, ProjectFails, nmVars
<1> USE DEF gateVars, sessionVars, goVars, callVars, histVars
<1>2. LockInv'
  BY <1>1, GotoKeepsLock DEF StartPhases, ReloadPhases, Phases
<1> USE <1>1 DEF Goto
<1>3. TypeOK'
  <2>1. stored' \in [Projects -> Settings] /\ wanted' \in [Projects -> Settings]
    BY Facts DEF LoadBaseline, IInv, TypeOK
  <2> QED
    BY <2>1, FaultKeeps, Facts DEF IInv, TypeOK, StatusTypeOK, Phases
<1>4. StateInv'
  BY DEF IInv, StateInv, Active, ReloadPhases
<1>5. SessionInv'
  BY DEF IInv, SessionInv, Live, Monitored, Active, ReloadPhases
<1>6. PartsInv'
  <2>1. \A p \in Projects : ~Monitored(p)'
    BY DEF IInv, SessionInv, StateInv, Active, Live, Monitored
  <2> QED
    BY <2>1 DEF IInv, PartsInv, Live
<1>7. NmInv' /\ StatusInv'
  BY DEF IInv, NmInv, StatusInv, Active, StopPhases
<1> QED
  BY <1>2, <1>3, <1>4, <1>5, <1>6, <1>7 DEF IInv

LEMMA NmStartsStep ==
  ASSUME IInv, NmStarts
  PROVE  IInv'
<1>1. /\ phase = "starting" /\ nm' = session /\ leftBehind' = FALSE /\ applied' = Base
      /\ pool' = [pool EXCEPT ![session] = "open"]
      /\ dispatcher' = [dispatcher EXCEPT ![session] = "idle"]
      /\ poller' = [poller EXCEPT ![session] = "idle"]
      /\ updater' = [updater EXCEPT ![session] = "idle"] /\ Goto("started")
      /\ UNCHANGED <<gateVars, settingVars, state, sessionVars, subscribed, jobs, found, callVars,
                     edits, faults, overrides, restopped>>
  BY DEF NmStarts
<1> USE DEF gateVars, sessionVars, callVars
<1>2. /\ Live /\ owner[session] = subject /\ session \in Sessions /\ subject \in Projects
      /\ state[subject] = "Starting" /\ internal = "call" /\ subscribed = session
  BY <1>1, OwnerExists
  DEF IInv, LockInv, StateInv, SessionInv, PartsInv, Live, StartPhases
<1> USE <1>1 DEF Goto
<1>3. \A s \in Sessions : /\ pool'[s] = IF s = session THEN "open" ELSE pool[s]
                          /\ poller'[s] = IF s = session THEN "idle" ELSE poller[s]
                          /\ updater'[s] = IF s = session THEN "idle" ELSE updater[s]
  BY DEF IInv, TypeOK
<1>4. TypeOK'
  <2>1. /\ pool' \in [Sessions -> {"none", "open", "closed"}]
        /\ dispatcher' \in [Sessions -> {"off", "idle", "adding", "ended"}]
        /\ poller' \in [Sessions -> {"off", "idle", "changed", "reloading", "ended"}]
        /\ updater' \in [Sessions -> {"off", "idle", "working", "locked", "ended"}]
    BY DEF IInv, TypeOK
  <2> QED
    BY <2>1, Facts DEF IInv, TypeOK, StatusTypeOK, Phases
<1>5. LockInv'
  BY <1>2, <1>3 DEF IInv, LockInv, StartPhases, ReloadPhases
<1>6. StateInv'
  BY DEF IInv, StateInv, Active, ReloadPhases
<1>7. SessionInv'
  <2>1. \A p \in Projects : Monitored(p)' => p = subject
    BY <1>2 DEF IInv, StateInv, SessionInv, Monitored, Active
  <2>2. \A s \in Sessions : s > session => s # session
    BY <1>2 DEF Sessions
  <2> QED
    BY <1>2, <1>3, <2>1, <2>2 DEF IInv, SessionInv, Live, Active, ReloadPhases
<1>8. PartsInv'
  BY <1>2, <1>3, Facts DEF IInv, PartsInv, Live
<1>9. NmInv'
  BY <1>2 DEF IInv, NmInv, Live
<1>10. StatusInv'
  BY DEF IInv, StatusInv, Active, StopPhases
<1> QED
  BY <1>4, <1>5, <1>6, <1>7, <1>8, <1>9, <1>10 DEF IInv

\* The subject's monitor goes on in a state that is not of a section.
SetTo(s) == state' = [state EXCEPT ![subject] = s]

LEMMA Changed ==
  ASSUME IInv, phase # "out", NEW s \in MonitorStates, SetTo(s)
  PROVE  /\ state' \in [Projects -> MonitorStates] /\ subject \in Projects
         /\ \A p \in Projects : state'[p] = IF p = subject THEN s ELSE state[p]
BY DEF SetTo, IInv, TypeOK, LockInv

\* A section ends and its monitor runs: it has started, it was reloaded, or
\* stopping or reloading it did not get under way.
LEMMA RunsStep ==
  ASSUME IInv, phase \in {"started", "stopping", "updating", "restarting"},
         SetTo("Running"), Leave, UNCHANGED <<sessionVars, subscribed, pool, jobs, found, updater>>,
         nm' \in {nm, session}, applied' \in Settings \/ UNCHANGED applied,
         ~leftBehind' => nm' # 0
  PROVE  LockInv' /\ StateInv' /\ SessionInv' /\ PartsInv' /\ NmInv'
<1> USE DEF sessionVars
<1>1. /\ LockInv' /\ phase' = "out"
      /\ \A s \in Sessions : poller'[s] = "off" <=> poller[s] = "off"
  BY LeaveKeepsLock
<1>2. /\ subject \in Projects
      /\ \A p \in Projects : state'[p] = IF p = subject THEN "Running" ELSE state[p]
  BY Changed DEF MonitorStates
<1>3. state[subject] \in {"Starting", "Stopping", "Reloading"}
  BY DEF IInv, StateInv, ReloadPhases
<1>4. /\ Monitored(subject) /\ \A p \in Projects : Monitored(p)' <=> p = subject
      /\ \A p \in Projects : Active(p)' <=> p = subject
  <2>1. Monitored(subject)
    BY DEF IInv, StateInv, ReloadPhases, Monitored
  <2>2. \A p \in Projects : Active(p) => p = subject
    BY <1>2, <1>3 DEF IInv, StateInv, Active
  <2>3. \A p \in Projects : Active(p)' <=> p = subject
    BY <1>2, <2>2 DEF Active
  <2>4. \A p \in Projects : state'[p] \in {"Running", "Reloading"} <=> p = subject
    BY <1>2, <2>2 DEF Active
  <2> QED
    BY <1>1, <2>1, <2>3, <2>4 DEF Monitored
<1>5. StateInv'
  BY <1>1, <1>2, <1>4 DEF IInv, StateInv, ReloadPhases
<1>6. SessionInv'
  BY <1>1, <1>2, <1>4 DEF IInv, SessionInv, Live, ReloadPhases
<1>7. PartsInv'
  <2>1. Live' /\ Live /\ session # 0
    BY <1>2, <1>4 DEF IInv, SessionInv, Live
  <2> QED
    BY <1>1, <1>2, <1>4, <2>1, Facts DEF IInv, PartsInv
<1>8. NmInv'
  BY <1>1 DEF IInv, NmInv
<1> QED
  BY <1>1, <1>5, <1>6, <1>7, <1>8

LEMMA StartSucceedsStep ==
  ASSUME IInv, StartSucceeds
  PROVE  IInv'
<1>1. /\ phase = "started" /\ SetTo("Running") /\ Leave
      /\ UNCHANGED <<gateVars, settingVars, sessionVars, nmVars, pool, jobs, dispatcher, found,
                     updater, edits, faults, histVars>>
  BY DEF StartSucceeds, SetState, SetTo, p0
<1> USE DEF gateVars, nmVars, histVars
<1>2. /\ state' \in [Projects -> MonitorStates] /\ subject \in Projects
      /\ \A p \in Projects : state'[p] = IF p = subject THEN "Running" ELSE state[p]
  BY <1>1, Changed DEF MonitorStates
<1>3. LockInv' /\ StateInv' /\ SessionInv' /\ PartsInv' /\ NmInv'
  BY <1>1, RunsStep DEF IInv, NmInv
<1>4. TypeOK'
  BY <1>1, <1>2, LeaveTypes DEF IInv, TypeOK, StatusTypeOK, sessionVars
<1>5. StatusInv'
  BY <1>1, <1>2, LeaveKeepsLock DEF IInv, StatusInv, StateInv, Active, StopPhases
<1> QED
  BY <1>3, <1>4, <1>5 DEF IInv

LEMMA StartFailsStep ==
  ASSUME IInv, StartFails
  PROVE  IInv'
<1>1. /\ phase = "failing" /\ cancelled' = (cancelled \cup {session}) \ {0}
      /\ SetTo("Stopped") /\ Release(subject) /\ Leave
      /\ UNCHANGED <<settingVars, session, owner, nmVars, pool, jobs, dispatcher, found, updater,
                     edits, faults, histVars>>
  BY DEF StartFails, SetState, SetTo, p0
<1> USE DEF nmVars, histVars
<1>2. /\ state' \in [Projects -> MonitorStates] /\ subject \in Projects
      /\ \A p \in Projects : state'[p] = IF p = subject THEN "Stopped" ELSE state[p]
      /\ state[subject] = "Starting"
  BY <1>1, Changed DEF MonitorStates, IInv, StateInv
<1>3. /\ LockInv' /\ phase' = "out"
      /\ \A s \in Sessions : poller'[s] = "off" <=> poller[s] = "off"
  BY <1>1, LeaveKeepsLock
<1>4. /\ cancelled' \subseteq Sessions
      /\ \A s \in Sessions : s \in cancelled' <=> s \in cancelled \/ s = session
      /\ ~Live'
  <2>1. \A s \in Sessions : s # 0
    BY Facts DEF Sessions
  <2>2. session = 0 \/ session \in Sessions
    BY OwnerExists
  <2> QED
    BY <1>1, <2>1, <2>2 DEF Live, IInv, TypeOK
<1>5. TypeOK'
  BY <1>1, <1>2, <1>4, LeaveTypes, ReleaseKeeps DEF IInv, TypeOK
<1>6. \A p \in Projects : ~Active(p)' /\ ~Monitored(p)'
  BY <1>2, <1>3 DEF IInv, StateInv, Active, Monitored
<1>7. StateInv'
  BY <1>2, <1>3, <1>6 DEF IInv, StateInv, ReloadPhases
<1>8. SessionInv'
  <2>1. \A s \in Sessions : s > session => s # session
    BY Facts DEF Sessions, IInv, TypeOK
  <2> QED
    BY <1>1, <1>3, <1>4, <1>6, <2>1 DEF IInv, SessionInv, ReloadPhases
<1>9. PartsInv'
  BY <1>1, <1>3, <1>6 DEF IInv, PartsInv
<1>10. NmInv'
  BY <1>1, <1>2, <1>3 DEF IInv, NmInv
<1>11. StatusInv'
  <2>1. \A p \in Projects : <<p, "Idle">> \in late' => <<p, "Idle">> \in late \/ p = subject
    BY <1>1, <1>2, ReleaseKeeps
  <2>2. overrides = 0 /\ ~restopped =>
          status[subject] = "Monitoring" /\ <<subject, "Idle">> \notin late
    BY <1>2 DEF IInv, StatusInv, Active
  <2>3. \/ late' = late /\ \A q \in Projects \ {subject} : status'[q] = status[q]
        \/ status' = status
    BY <1>1, <1>2, ReleaseKeeps
  <2> QED
    BY <1>1, <1>2, <1>3, <1>6, <2>1, <2>2, <2>3 DEF IInv, StatusInv, StopPhases, Active
<1> QED
  BY <1>3, <1>5, <1>7, <1>8, <1>9, <1>10, <1>11 DEF IInv

-----------------------------------------------------------------------------

LEMMA StopCannotReadStep ==
  ASSUME IInv, StopCannotRead
  PROVE  IInv'
<1>1. /\ phase = "examining" /\ Leave /\ NoteLeftBehind
      /\ Fault \/ UNCHANGED faults
      /\ UNCHANGED <<gateVars, settingVars, state, sessionVars, nmVars, pool, jobs, dispatcher,
                     found, updater, edits, overrides, restopped>>
  BY DEF StopCannotRead, ProjectFails
<1>2. /\ leftBehind' \in BOOLEAN
      /\ ~leftBehind' => ~leftBehind /\ (nm # 0 \/ internal # "poller")
  BY <1>1 DEF NoteLeftBehind, IInv, TypeOK
<1>3. LockInv' /\ StateInv' /\ SessionInv' /\ PartsInv' /\ NmInv'
  BY <1>1, <1>2, LeaveUnchanged
<1> USE DEF gateVars, sessionVars, nmVars
<1>4. TypeOK'
  BY <1>1, <1>2, LeaveTypes, FaultKeeps DEF IInv, TypeOK, StatusTypeOK
<1>5. StatusInv'
  BY <1>1, LeaveKeepsLock DEF IInv, StatusInv, Active, StopPhases
<1> QED
  BY <1>3, <1>4, <1>5 DEF IInv

LEMMA StopFailsStep ==
  ASSUME IInv, StopFails
  PROVE  IInv'
<1>1. /\ phase = "stopping" /\ SetTo("Running") /\ Leave /\ NoteLeftBehind
      /\ Fault
      /\ UNCHANGED <<gateVars, settingVars, sessionVars, nmVars, pool, jobs, dispatcher, found,
                     updater, edits, overrides, restopped>>
  BY DEF StopFails, SetState, SetTo, p0
<1>2. /\ leftBehind' \in BOOLEAN
      /\ ~leftBehind' => ~leftBehind /\ (nm # 0 \/ internal # "poller")
  BY <1>1 DEF NoteLeftBehind, IInv, TypeOK
<1>3. internal \in {"call", "poller"}
  BY <1>1 DEF IInv, LockInv, TypeOK
<1>4. /\ state' \in [Projects -> MonitorStates] /\ subject \in Projects
      /\ \A p \in Projects : state'[p] = IF p = subject THEN "Running" ELSE state[p]
  BY <1>1, Changed DEF MonitorStates
<1> USE DEF gateVars, nmVars
<1>5. LockInv' /\ StateInv' /\ SessionInv' /\ PartsInv' /\ NmInv'
  BY <1>1, <1>2, <1>3, RunsStep DEF IInv, NmInv
<1>6. TypeOK'
  BY <1>1, <1>2, <1>4, LeaveTypes, FaultKeeps DEF IInv, TypeOK, StatusTypeOK, sessionVars
<1>7. StatusInv'
  BY <1>1, <1>4, LeaveKeepsLock DEF IInv, StatusInv, StateInv, Active, StopPhases
<1> QED
  BY <1>5, <1>6, <1>7 DEF IInv

LEMMA StopBeginsStep ==
  ASSUME IInv, StopBegins
  PROVE  IInv'
<1>1. /\ phase = "examining" /\ snapshot' = (status[subject] = "Monitoring")
      /\ restopped' = (restopped \/ <<subject, "Idle">> \in late)
      /\ IF state[subject] \in {"Running", "Reloading"}
           THEN SetTo("Stopping") /\ phase' = "stopping"
           ELSE phase' = "releasing" /\ UNCHANGED state
      /\ UNCHANGED <<gateVars, settingVars, mutex, internal, subject, reloader, sessionVars,
                     nmVars, goVars, callVars, edits, faults, overrides, leftBehind>>
  BY DEF StopBegins, SetState, SetTo, p0
<1> USE DEF gateVars, sessionVars, nmVars, goVars, callVars
<1>2. subject \in Projects /\ state[subject] \in {"none", "Running", "Stopped"}
  BY <1>1 DEF IInv, LockInv, StateInv, TypeOK, MonitorStates
<1>3. /\ restopped' \in BOOLEAN /\ snapshot' \in BOOLEAN
      /\ ~restopped' => ~restopped /\ <<subject, "Idle">> \notin late
      /\ snapshot' => status[subject] = "Monitoring"
  BY <1>1 DEF IInv, TypeOK
<1>4. LockInv'
  BY <1>1 DEF IInv, LockInv, StartPhases, ReloadPhases
<1>5. CASE state[subject] = "Running"
  <2>1. phase' = "stopping" /\ SetTo("Stopping")
    BY <1>1, <1>5
  <2>2. /\ state' \in [Projects -> MonitorStates]
        /\ \A p \in Projects : state'[p] = IF p = subject THEN "Stopping" ELSE state[p]
    BY <1>1, <2>1, Changed DEF MonitorStates
  <2>3. TypeOK'
    BY <1>1, <1>3, <2>1, <2>2 DEF IInv, TypeOK, StatusTypeOK, Phases
  <2>4. /\ Monitored(subject) /\ \A p \in Projects : Monitored(p)' <=> p = subject
        /\ \A p \in Projects : Active(p)' <=> p = subject
    BY <1>1, <1>2, <1>5, <2>1, <2>2 DEF IInv, StateInv, Monitored, Active
  <2>5. StateInv'
    BY <1>1, <1>2, <2>1, <2>2, <2>4 DEF IInv, StateInv, ReloadPhases
  <2>6. SessionInv'
    BY <1>1, <1>2, <2>1, <2>4 DEF IInv, SessionInv, Live, ReloadPhases
  <2>7. PartsInv'
    BY <1>1, <1>2, <2>1, <2>4 DEF IInv, PartsInv, Live
  <2>8. NmInv'
    BY <1>1, <1>2, <1>5, <2>1, <2>2, <2>4 DEF IInv, NmInv, Active
  <2>9. StatusInv'
    BY <1>1, <1>2, <1>3, <1>5, <2>1, <2>2, <2>4 DEF IInv, StatusInv, StopPhases, Active
  <2> QED
    BY <1>4, <2>3, <2>5, <2>6, <2>7, <2>8, <2>9 DEF IInv
<1>6. CASE state[subject] # "Running"
  <2>1. phase' = "releasing" /\ UNCHANGED state /\ ~Active(subject)
    BY <1>1, <1>2, <1>6 DEF Active
  <2>2. TypeOK'
    BY <1>1, <1>3, <2>1 DEF IInv, TypeOK, StatusTypeOK, Phases
  <2>3. StateInv'
    BY <1>1, <1>2, <2>1 DEF IInv, StateInv, ReloadPhases, Active
  <2>4. SessionInv'
    BY <1>1, <2>1 DEF IInv, SessionInv, Live, Monitored, Active, ReloadPhases
  <2>5. PartsInv'
    BY <1>1, <2>1 DEF IInv, PartsInv, Live, Monitored
  <2>6. NmInv'
    BY <1>1, <1>2, <1>6, <2>1 DEF IInv, StateInv, NmInv
  <2>7. StatusInv'
    BY <1>1, <1>3, <2>1 DEF IInv, StatusInv, StopPhases, Active
  <2> QED
    BY <1>4, <2>2, <2>3, <2>4, <2>5, <2>6, <2>7 DEF IInv
<1> QED
  BY <1>5, <1>6

LEMMA NmStopsStep ==
  ASSUME IInv, NmStops
  PROVE  IInv'
<1>1. /\ phase = "stopping" /\ nm' = 0 /\ applied' = None /\ subscribed' = 0
      /\ cancelled' = cancelled \cup {session} /\ phase' = "draining" /\ leftBehind' = FALSE
      /\ UNCHANGED <<gateVars, settingVars, mutex, internal, subject, snapshot, reloader, state,
                     session, owner, goVars, callVars, edits, faults, overrides,
                     restopped>>
  BY DEF NmStops
<1> USE DEF gateVars, goVars, callVars
<1>2. /\ subject \in Projects /\ state[subject] = "Stopping" /\ Live /\ session \in Sessions
      /\ pool[session] = "open"
  BY <1>1, OwnerExists DEF IInv, LockInv, StateInv, SessionInv, PartsInv, Monitored, Live
<1>3. TypeOK'
  <2>1. nm' \in 0 .. MaxSessions /\ subscribed' \in 0 .. MaxSessions
    BY <1>1, Facts
  <2>2. /\ applied' \in Settings \cup {None} /\ cancelled' \subseteq Sessions
        /\ phase' \in Phases /\ leftBehind' \in BOOLEAN
    BY <1>1, <1>2 DEF IInv, TypeOK, Phases
  <2> QED
    BY <1>1, <2>1, <2>2 DEF IInv, TypeOK, StatusTypeOK
<1>4. LockInv'
  BY <1>1 DEF IInv, LockInv, StartPhases, ReloadPhases
<1>5. StateInv'
  BY <1>1 DEF IInv, StateInv, Active, ReloadPhases
<1>6. ~Live' /\ \A p \in Projects : ~Monitored(p)'
  BY <1>1, <1>2 DEF Live, Monitored, IInv, StateInv, Active
<1>7. SessionInv'
  <2>1. \A s \in Sessions : s > session => s # session
    BY <1>2 DEF Sessions
  <2> QED
    BY <1>1, <1>2, <1>6, <2>1 DEF IInv, SessionInv, Live, ReloadPhases
<1>8. PartsInv'
  BY <1>1, <1>2, <1>6 DEF IInv, PartsInv
<1>9. NmInv'
  BY <1>1, <1>2 DEF NmInv, IInv, StateInv, Active
<1>10. StatusInv'
  BY <1>1 DEF IInv, StatusInv, Active, StopPhases
<1> QED
  BY <1>3, <1>4, <1>5, <1>7, <1>8, <1>9, <1>10 DEF IInv

LEMMA DrainStep ==
  ASSUME IInv, Drain
  PROVE  IInv'
<1>1. /\ phase = "draining" /\ Goto("closing")
      /\ UNCHANGED <<gateVars, settingVars, state, sessionVars, nmVars, goVars, callVars, edits,
                     faults, histVars>>
  BY DEF Drain
<1> USE DEF gateVars, sessionVars, nmVars, goVars, callVars, histVars
<1>2. LockInv'
  BY <1>1, GotoKeepsLock DEF StartPhases, ReloadPhases, Phases
<1> USE <1>1 DEF Goto
<1>3. TypeOK'
  BY DEF IInv, TypeOK, StatusTypeOK, Phases
<1>4. StateInv'
  BY DEF IInv, StateInv, Active, ReloadPhases
<1>5. SessionInv'
  BY DEF IInv, SessionInv, Live, Monitored, Active, ReloadPhases
<1>6. PartsInv' /\ NmInv'
  BY DEF IInv, PartsInv, NmInv, Live, Monitored
<1>7. StatusInv'
  BY DEF IInv, StatusInv, Active, StopPhases
<1> QED
  BY <1>2, <1>3, <1>4, <1>5, <1>6, <1>7 DEF IInv

LEMMA CloseStep ==
  ASSUME IInv, Close
  PROVE  IInv'
<1>1. /\ phase = "closing" /\ jobs[session] = 0
      /\ pool' = [pool EXCEPT ![session] = "closed"] /\ SetTo("Stopped") /\ Goto("releasing")
      /\ UNCHANGED <<gateVars, settingVars, sessionVars, nmVars, jobs, dispatcher, poller, found,
                     updater, callVars, edits, faults, histVars>>
  BY DEF Close, SetState, SetTo, p0
<1> USE DEF gateVars, sessionVars, nmVars, callVars, histVars
<1>2. LockInv'
  BY <1>1, GotoKeepsLock DEF StartPhases, ReloadPhases, Phases
<1>3. /\ state' \in [Projects -> MonitorStates] /\ subject \in Projects
      /\ \A p \in Projects : state'[p] = IF p = subject THEN "Stopped" ELSE state[p]
      /\ state[subject] = "Stopping" /\ ~Live /\ session \in Sessions
  BY <1>1, Changed, OwnerExists DEF MonitorStates, IInv, StateInv, SessionInv
<1> USE <1>1 DEF Goto
<1>4. \A s \in Sessions : pool'[s] = IF s = session THEN "closed" ELSE pool[s]
  BY DEF IInv, TypeOK
<1>5. TypeOK'
  <2>1. pool' \in [Sessions -> {"none", "open", "closed"}]
    BY DEF IInv, TypeOK
  <2> QED
    BY <1>3, <2>1 DEF IInv, TypeOK, StatusTypeOK, Phases
<1>6. ~Live' /\ \A p \in Projects : ~Monitored(p)' /\ ~Active(p)'
  BY <1>3 DEF IInv, StateInv, Live, Monitored, Active
<1>7. StateInv'
  BY <1>3, <1>6 DEF IInv, StateInv, ReloadPhases
<1>8. SessionInv'
  <2>1. \A s \in Sessions : s > session => s # session
    BY <1>3 DEF Sessions
  <2> QED
    BY <1>4, <1>6, <2>1 DEF IInv, SessionInv, ReloadPhases
<1>9. PartsInv'
  BY <1>3, <1>4, <1>6 DEF IInv, PartsInv, Live
<1>10. NmInv'
  BY <1>6 DEF NmInv, Monitored
<1>11. StatusInv'
  BY <1>6 DEF IInv, StatusInv, StopPhases
<1> QED
  BY <1>2, <1>5, <1>7, <1>8, <1>9, <1>10, <1>11 DEF IInv

LEMMA StopReturnsStep ==
  ASSUME IInv, StopReturns
  PROVE  IInv'
<1>1. /\ phase = "releasing" /\ Leave
      /\ IF snapshot THEN Release(subject) ELSE UNCHANGED gateVars
      /\ UNCHANGED <<settingVars, state, sessionVars, nmVars, pool, jobs, dispatcher, found,
                     updater, edits, faults, histVars>>
  BY DEF StopReturns, p0
<1>2. subject \in Projects /\ ~Active(subject)
  BY <1>1 DEF IInv, LockInv, StateInv
<1>3. LockInv' /\ StateInv' /\ SessionInv' /\ PartsInv' /\ NmInv'
  BY <1>1, LeaveUnchanged DEF histVars
<1>4. /\ StatusTypeOK' /\ late' \subseteq Projects \X {"Idle", "Monitoring"}
      /\ \/ UNCHANGED <<status, late>>
         \/ /\ snapshot /\ late' = late
            /\ \A q \in Projects \ {subject} : status'[q] = status[q]
         \/ snapshot /\ late' = late \cup {<<subject, "Idle">>} /\ status' = status
  BY <1>1, <1>2, ReleaseKeeps DEF gateVars, IInv, TypeOK, StatusTypeOK
<1> USE DEF sessionVars, nmVars, histVars
<1>5. TypeOK'
  BY <1>1, <1>4, LeaveTypes DEF IInv, TypeOK
<1>6. StatusInv'
  <2>1. \A p \in Projects : <<p, "Idle">> \in late' =>
          <<p, "Idle">> \in late \/ (p = subject /\ snapshot /\ status' = status)
    BY <1>4
  <2>2. overrides = 0 /\ ~restopped =>
          <<subject, "Idle">> \notin late /\ (snapshot => status[subject] = "Monitoring")
    BY <1>1 DEF IInv, StatusInv, StopPhases
  <2>3. \A p \in Projects : p # subject \/ status' = status => status'[p] = status[p]
    BY <1>4
  <2> QED
    BY <1>1, <1>2, <2>1, <2>2, <2>3, LeaveKeepsLock DEF IInv, StatusInv, Active, StopPhases
<1> QED
  BY <1>3, <1>5, <1>6 DEF IInv

-----------------------------------------------------------------------------

LEMMA ReloadLeavesStep ==
  ASSUME IInv, ReloadFails \/ ReloadPanics \/ ReloadSucceeds
  PROVE  IInv'
<1>1. /\ phase \in ReloadPhases /\ SetTo("Running") /\ Leave
      /\ \/ phase = "updating" /\ UNCHANGED <<nm, leftBehind>>
         \/ UNCHANGED nm /\ leftBehind' = TRUE
         \/ nm' = reloader /\ leftBehind' = FALSE
      /\ UNCHANGED applied \/ applied' = found[reloader]
      /\ UNCHANGED settingVars \/ NewSettings
      /\ Fault \/ UNCHANGED faults
      /\ UNCHANGED <<gateVars, sessionVars, subscribed, pool, jobs, dispatcher, found, updater,
                     edits, overrides, restopped>>
  BY DEF ReloadFails, ReloadPanics, ReloadSucceeds, SetState, SetTo, p0, ReloadPhases, nmVars,
         histVars
<1>2. /\ reloader = session /\ session \in Sessions /\ session # 0
      /\ found[reloader] \in Settings
  BY <1>1, Facts DEF IInv, LockInv, SessionInv, Sessions, ReloadPhases
<1>3. /\ state' \in [Projects -> MonitorStates] /\ subject \in Projects
      /\ \A p \in Projects : state'[p] = IF p = subject THEN "Running" ELSE state[p]
  BY <1>1, Changed DEF MonitorStates, ReloadPhases
<1> USE DEF gateVars
<1>4. LockInv' /\ StateInv' /\ SessionInv' /\ PartsInv' /\ NmInv'
  <2>1. (~leftBehind' => nm' # 0) /\ nm' \in {nm, session}
    BY <1>1, <1>2 DEF IInv, NmInv
  <2>2. applied' \in Settings \/ UNCHANGED applied
    BY <1>1, <1>2
  <2> QED
    BY <1>1, <2>1, <2>2, RunsStep DEF ReloadPhases
<1>5. TypeOK'
  <2>1. stored' \in [Projects -> Settings] /\ wanted' \in [Projects -> Settings]
    BY <1>1, <1>2 DEF NewSettings, p0, IInv, TypeOK
  <2>2. /\ nm' \in 0 .. MaxSessions /\ applied' \in Settings \cup {None}
        /\ leftBehind' \in BOOLEAN
    BY <1>1, <1>2 DEF IInv, TypeOK
  <2> QED
    BY <1>1, <1>3, <2>1, <2>2, LeaveTypes, FaultKeeps
    DEF IInv, TypeOK, StatusTypeOK, sessionVars, ReloadPhases
<1>6. StatusInv'
  BY <1>1, <1>3, LeaveKeepsLock DEF IInv, StatusInv, StateInv, Active, StopPhases, ReloadPhases
<1> QED
  BY <1>4, <1>5, <1>6 DEF IInv

LEMMA UpdatesStep ==
  ASSUME IInv, ReloadUpdates
  PROVE  IInv'
<1>1. /\ phase = "updating" /\ NewSettings
      /\ nm' = 0 /\ Goto("restarting")
      /\ UNCHANGED <<gateVars, state, sessionVars, subscribed, applied, goVars, callVars,
                     edits, faults, histVars>>
  BY DEF ReloadUpdates
<1> USE DEF gateVars, sessionVars, goVars, callVars, histVars
<1>2. LockInv'
  BY <1>1, GotoKeepsLock DEF StartPhases, ReloadPhases, Phases
<1>3. found[reloader] \in Settings /\ internal = "poller"
  BY <1>1 DEF IInv, LockInv, ReloadPhases
<1> USE <1>1 DEF Goto
<1>4. TypeOK'
  <2>1. stored' \in [Projects -> Settings] /\ wanted' \in [Projects -> Settings]
    BY <1>3 DEF NewSettings, p0, IInv, TypeOK
  <2>2. nm' \in 0 .. MaxSessions /\ phase' \in Phases
    BY Facts DEF Phases
  <2> QED
    BY <2>1, <2>2 DEF IInv, TypeOK, StatusTypeOK
<1>5. StateInv'
  BY DEF IInv, StateInv, Active, ReloadPhases
<1>6. SessionInv'
  BY DEF IInv, SessionInv, Live, Monitored, Active, ReloadPhases
<1>7. PartsInv'
  BY DEF IInv, PartsInv, Live, Monitored
<1>8. NmInv'
  <2>1. subject \in Projects /\ state[subject] = "Reloading"
    BY DEF IInv, LockInv, StateInv, ReloadPhases
  <2>2. \A p \in Projects : state[p] # "Running"
    BY <2>1 DEF IInv, StateInv, Active
  <2> QED
    BY <2>2 DEF NmInv
<1>9. StatusInv'
  BY DEF IInv, StatusInv, Active, StopPhases
<1> QED
  BY <1>2, <1>4, <1>5, <1>6, <1>7, <1>8, <1>9 DEF IInv

LEMMA ReloadStopsStep ==
  ASSUME IInv, ReloadUpdateFails \/ RestartFails
  PROVE  IInv'
<1>1. /\ phase \in ReloadPhases /\ SetTo("Running") /\ Goto("examining")
      /\ UNCHANGED settingVars \/ NewSettings
      /\ Fault \/ UNCHANGED faults
      /\ UNCHANGED <<gateVars, sessionVars, nmVars, goVars, callVars, edits, histVars>>
  BY DEF ReloadUpdateFails, RestartFails, SetState, SetTo, ProjectFails, p0, ReloadPhases
<1> USE DEF gateVars, sessionVars, nmVars, goVars, callVars, histVars
<1>2. LockInv'
  BY <1>1, GotoKeepsLock DEF StartPhases, ReloadPhases, Phases
<1>3. found[reloader] \in Settings /\ internal = "poller" /\ state[subject] = "Reloading"
  BY <1>1 DEF IInv, LockInv, StateInv
<1>4. /\ state' \in [Projects -> MonitorStates] /\ subject \in Projects
      /\ \A p \in Projects : state'[p] = IF p = subject THEN "Running" ELSE state[p]
  BY <1>1, Changed DEF MonitorStates, ReloadPhases
<1> USE <1>1 DEF Goto
<1>5. TypeOK'
  <2>1. stored' \in [Projects -> Settings] /\ wanted' \in [Projects -> Settings]
    BY <1>3 DEF NewSettings, p0, IInv, TypeOK
  <2> QED
    BY <1>4, <2>1, FaultKeeps DEF IInv, TypeOK, StatusTypeOK, Phases
<1>6. \A p \in Projects : /\ Active(p)' <=> p = subject
                          /\ Monitored(p)' <=> p = subject
                          /\ Monitored(subject)
  BY <1>3, <1>4 DEF IInv, StateInv, Active, Monitored
<1>7. StateInv'
  BY <1>3, <1>4, <1>6 DEF IInv, StateInv, ReloadPhases
<1>8. SessionInv'
  BY <1>4, <1>6 DEF IInv, SessionInv, Live, ReloadPhases
<1>9. PartsInv'
  BY <1>4, <1>6 DEF IInv, PartsInv, Live, ReloadPhases
<1>10. NmInv'
  BY <1>3 DEF NmInv
<1>11. StatusInv'
  BY <1>3, <1>4, <1>6 DEF IInv, StatusInv, StopPhases, Active, ReloadPhases
<1> QED
  BY <1>2, <1>5, <1>7, <1>8, <1>9, <1>10, <1>11 DEF IInv

LEMMA ReloadBeginsStep ==
  ASSUME IInv, NEW s \in Sessions, ReloadBegins(s)
  PROVE  IInv'
<1>1. /\ poller[s] = "changed" /\ internal = "free" /\ s \notin cancelled
      /\ state[owner[s]] = "Running"
      /\ internal' = "poller" /\ reloader' = s /\ phase' = "updating" /\ subject' = owner[s]
      /\ state' = [state EXCEPT ![owner[s]] = "Reloading"]
      /\ poller' = [poller EXCEPT ![s] = "reloading"]
      /\ UNCHANGED <<gateVars, settingVars, mutex, snapshot, sessionVars, nmVars, pool, jobs,
                     dispatcher, found, updater, callVars, edits, faults, histVars>>
  BY DEF ReloadBegins, SetState, SetPoller
<1> USE DEF gateVars, sessionVars, nmVars, callVars, histVars
<1>2. phase = "out"
  BY <1>1 DEF IInv, LockInv
<1>3. s = session /\ Live /\ owner[session] \in Projects /\ s \in Nat \ {0}
  <2>1. s \in Nat \ {0} /\ session \in Nat /\ s \in 0 .. MaxSessions
    BY Facts DEF Sessions, IInv, TypeOK
  <2>2. s <= session /\ ~(s < session)
    BY <1>1, <2>1 DEF IInv, SessionInv
  <2> QED
    BY <1>1, <2>1, <2>2 DEF Live, IInv, SessionInv
<1>4. /\ \A p \in Projects : state'[p] = IF p = subject' THEN "Reloading" ELSE state[p]
      /\ \A t \in Sessions : poller'[t] = IF t = s THEN "reloading" ELSE poller[t]
  BY <1>1, <1>3 DEF IInv, TypeOK
<1>5. TypeOK'
  <2>1. /\ state' \in [Projects -> MonitorStates]
        /\ poller' \in [Sessions -> {"off", "idle", "changed", "reloading", "ended"}]
        /\ reloader' \in 0 .. MaxSessions
    BY <1>1, <1>3, Facts DEF IInv, TypeOK, MonitorStates
  <2> QED
    BY <1>1, <1>3, <2>1 DEF IInv, TypeOK, StatusTypeOK, Phases
<1>6. LockInv'
  BY <1>1, <1>3, <1>4 DEF IInv, LockInv, StartPhases, ReloadPhases
<1>7. \A p \in Projects : /\ Active(p)' <=> Active(p)
                          /\ Monitored(p)' <=> Monitored(p)
  BY <1>1, <1>2, <1>3, <1>4 DEF Active, Monitored
<1>8. StateInv'
  BY <1>1, <1>2, <1>3, <1>4, <1>7 DEF IInv, StateInv, ReloadPhases
<1>9. SessionInv'
  BY <1>1, <1>2, <1>3, <1>4, <1>7 DEF IInv, SessionInv, Live, ReloadPhases
<1>10. PartsInv'
  BY <1>1, <1>2, <1>7 DEF IInv, PartsInv, Live
<1>11. NmInv'
  BY <1>1, <1>2, <1>3, <1>4 DEF IInv, NmInv
<1>12. StatusInv'
  BY <1>1, <1>7 DEF IInv, StatusInv, StopPhases
<1> QED
  BY <1>5, <1>6, <1>8, <1>9, <1>10, <1>11, <1>12 DEF IInv

-----------------------------------------------------------------------------

LEMMA PollerKeeps ==
  ASSUME IInv, NEW s \in Sessions, Poll(s) \/ ReloadGivesUp(s) \/ PollerEnds(s)
  PROVE  IInv'
<1>1. /\ poller[s] \in {"idle", "changed"}
      /\ \/ /\ \E l \in {"idle", "ended"} : poller' = [poller EXCEPT ![s] = l]
            /\ UNCHANGED found
         \/ /\ poller[s] = "idle" /\ poller' = [poller EXCEPT ![s] = "changed"]
            /\ found' = [found EXCEPT ![s] = stored[owner[s]]]
      /\ UNCHANGED <<gateVars, settingVars, lockVars, state, sessionVars, nmVars, pool, jobs,
                     dispatcher, updater, callVars, edits, faults, histVars>>
  BY DEF Poll, ReloadGivesUp, PollerEnds, SetPoller
<1> USE <1>1 DEF gateVars, lockVars, callVars, histVars
<1>2. stored[owner[s]] \in Settings
  <2>1. s \in Nat /\ session \in Nat
    BY Facts DEF IInv, TypeOK, Sessions
  <2>2. poller[s] # "off"
    BY <1>1
  <2>3. s <= session
    BY <2>1, <2>2 DEF IInv, SessionInv
  <2> QED
    BY <2>3 DEF IInv, TypeOK, SessionInv
<1>3. \A t \in Sessions : t # s => poller'[t] = poller[t] /\ found'[t] = found[t]
  BY DEF IInv, TypeOK
<1>4. poller'[s] \in {"idle", "ended", "changed"}
      /\ (poller'[s] = "changed" => found'[s] \in Settings)
  BY <1>2 DEF IInv, TypeOK
<1>5. TypeOK'
  <2>1. /\ poller' \in [Sessions -> {"off", "idle", "changed", "reloading", "ended"}]
        /\ found' \in [Sessions -> Settings \cup {None}]
    BY <1>2 DEF IInv, TypeOK
  <2> QED
    BY <2>1 DEF IInv, TypeOK, StatusTypeOK, sessionVars, nmVars
<1>6. LockInv'
  BY <1>3, <1>4 DEF IInv, LockInv
<1>7. StateInv' /\ SessionInv' /\ PartsInv' /\ NmInv'
  BY <1>3, <1>4, CoreStays DEF coreVars, IInv, PartsInv
<1>8. StatusInv'
  BY DEF IInv, StatusInv, Active
<1> QED
  BY <1>5, <1>6, <1>7, <1>8 DEF IInv

LEMMA DispatcherKeeps ==
  ASSUME IInv, NEW s \in Sessions, DispatcherStep(s)
  PROVE  IInv'
<1>1. /\ UNCHANGED <<gateVars, settingVars, lockVars, state, sessionVars, nmVars, pool, poller,
                     found, updater, callVars, edits, faults, histVars>>
      /\ \/ UNCHANGED dispatcher
         \/ \E l \in {"idle", "adding", "ended"} : dispatcher' = [dispatcher EXCEPT ![s] = l]
      /\ \/ UNCHANGED jobs
         \/ pool[s] = "open" /\ jobs[s] < PoolSize /\ jobs' = [jobs EXCEPT ![s] = @ + 1]
         \/ jobs[s] > 0 /\ jobs' = [jobs EXCEPT ![s] = @ - 1]
  BY DEF DispatcherStep, Tick, AddTasks, DispatcherEnds, JobEnds, Dispatch
<1> USE <1>1 DEF gateVars, lockVars, callVars, histVars
<1>2. /\ jobs' \in [Sessions -> 0 .. PoolSize]
      /\ \A t \in Sessions : jobs'[t] > 0 => jobs[t] > 0 \/ pool[t] = "open"
  BY Facts DEF IInv, TypeOK
<1>3. TypeOK'
  <2>1. dispatcher' \in [Sessions -> {"off", "idle", "adding", "ended"}]
    BY DEF IInv, TypeOK
  <2> QED
    BY <1>2, <2>1 DEF IInv, TypeOK, StatusTypeOK, sessionVars, nmVars
<1>4. LockInv'
  BY DEF IInv, LockInv
<1>5. StateInv' /\ SessionInv' /\ PartsInv' /\ NmInv'
  BY <1>2, CoreStays DEF coreVars, IInv, PartsInv
<1>6. StatusInv'
  BY DEF IInv, StatusInv, Active
<1> QED
  BY <1>3, <1>4, <1>5, <1>6 DEF IInv

LEMMA UpdaterKeeps ==
  ASSUME IInv, NEW s \in Sessions, UpdaterStep(s)
  PROVE  IInv'
<1>1. /\ UNCHANGED <<gateVars, settingVars, mutex, phase, subject, snapshot, reloader, state,
                     sessionVars, nmVars, pool, jobs, dispatcher, poller, found, callVars,
                     edits, faults, histVars>>
      /\ \E l \in {"idle", "working", "locked", "ended"} :
           /\ updater' = [updater EXCEPT ![s] = l]
           /\ \/ l # "locked" /\ updater[s] # "locked" /\ UNCHANGED internal
              \/ l = "locked" /\ internal = "free" /\ internal' = "updater"
              \/ l # "locked" /\ updater[s] = "locked" /\ internal' = "free"
  BY DEF UpdaterStep, UpdateBegins, UpdaterLocks, UpdaterUnlocks, UpdateEnds, UpdaterEnds,
         Update
<1> USE <1>1 DEF gateVars, callVars, histVars
<1>2. PICK l \in {"idle", "working", "locked", "ended"} :
        /\ \A t \in Sessions : updater'[t] = IF t = s THEN l ELSE updater[t]
        /\ updater' \in [Sessions -> {"off", "idle", "working", "locked", "ended"}]
        /\ \/ l # "locked" /\ updater[s] # "locked" /\ UNCHANGED internal
           \/ l = "locked" /\ internal = "free" /\ internal' = "updater"
           \/ l # "locked" /\ updater[s] = "locked" /\ internal' = "free"
  BY DEF IInv, TypeOK
<1>3. TypeOK'
  BY <1>2 DEF IInv, TypeOK, StatusTypeOK, sessionVars, nmVars
<1>4. LockInv' /\ (phase = "out" \/ UNCHANGED internal)
  BY <1>2 DEF IInv, LockInv
<1>5. StateInv' /\ SessionInv' /\ PartsInv' /\ NmInv'
  BY <1>4, CoreStays DEF coreVars, IInv, PartsInv
<1>6. StatusInv'
  BY DEF IInv, StatusInv, Active
<1> QED
  BY <1>3, <1>4, <1>5, <1>6 DEF IInv

\* Users, other operations and late requests: settings, statuses and what is
\* late.  Who could disturb a monitored project or a late release is counted.
LEMMA GateStep ==
  ASSUME IInv, StatusTypeOK',
         stored' \in [Projects -> Settings], wanted' \in [Projects -> Settings],
         late' \subseteq late, edits' \in 0 .. MaxEdits,
         overrides' \in 0 .. MaxOverrides, overrides' = 0 => overrides = 0,
         overrides' = 0 /\ ~restopped =>
           \A p \in Projects :
             /\ status[p] = "Monitoring"
             /\ \/ Active(p) \/ <<p, "Idle">> \in late'
                \/ subject = p /\ phase \in StopPhases \ {"examining"}
             => status'[p] = "Monitoring",
         UNCHANGED <<lockVars, state, sessionVars, nmVars, goVars, callVars, faults,
                     restopped, leftBehind>>
  PROVE  IInv'
<1> USE DEF lockVars, goVars, callVars
<1>1. TypeOK'
  BY DEF IInv, TypeOK, sessionVars, nmVars
<1>2. LockInv'
  BY DEF IInv, LockInv
<1>3. StateInv' /\ SessionInv' /\ PartsInv' /\ NmInv'
  BY CoreStays DEF coreVars, IInv, PartsInv
<1>4. StatusInv'
  BY DEF IInv, StatusInv, Active, LockInv, StopPhases
<1> QED
  BY <1>1, <1>2, <1>3, <1>4 DEF IInv

LEMMA UserKeeps ==
  ASSUME IInv, NEW p \in Projects, UserStep(p)
  PROVE  IInv'
<1>1. /\ "Monitoring" \in DeviceStatuses \ FreeStatuses
      /\ "Deploying" # "Monitoring" /\ "Deploying" \in DeviceStatuses
      /\ {"Idle", "Deploying"} \subseteq AllStatuses
  BY DEF AllStatuses, DeviceStatuses, FreeStatuses
<1>2. /\ StatusTypeOK /\ overrides \in 0 .. MaxOverrides /\ edits \in 0 .. MaxEdits
      /\ stored \in [Projects -> Settings] /\ wanted \in [Projects -> Settings]
  BY DEF IInv, TypeOK
<1>3. ASSUME NEW v \in Settings, EditSettings(p, v)
      PROVE  IInv'
  <2>1. /\ edits' \in 0 .. MaxEdits /\ StatusTypeOK'
        /\ stored' \in [Projects -> Settings] /\ wanted' \in [Projects -> Settings]
    BY <1>2, <1>3, Facts DEF EditSettings, gateVars, StatusTypeOK
  <2> QED
    BY <1>2, <1>3, <2>1, GateStep DEF EditSettings, gateVars, histVars
<1>4. CASE OtherClaims(p)
  <2>1. UpdateProjectStatus(p, "Deploying") /\ StatusUpdate /\ UNCHANGED overrides
    BY <1>4 DEF OtherClaims
  <2>2. status[p] # "Monitoring"
    BY <1>1, <1>4 DEF OtherClaims, Accepts
  <2>3. StatusTypeOK' /\ \A q \in Projects \ {p} : status'[q] = status[q]
    BY <1>1, <1>2, <2>1, GateKeeps
  <2> QED
    BY <1>2, <2>1, <2>2, <2>3, GateStep DEF StatusUpdate
<1>5. CASE OtherReleases(p)
  <2>1. UpdateProjectStatus(p, "Idle") /\ StatusUpdate /\ UNCHANGED overrides
    BY <1>5 DEF OtherReleases
  <2>2. status[p] # "Monitoring"
    BY <1>5 DEF OtherReleases
  <2>3. StatusTypeOK' /\ \A q \in Projects \ {p} : status'[q] = status[q]
    BY <1>1, <1>2, <2>1, GateKeeps
  <2> QED
    BY <1>2, <2>1, <2>2, <2>3, GateStep DEF StatusUpdate
<1>6. ASSUME overrides < MaxOverrides, Override(p)
      PROVE  /\ overrides' \in 0 .. MaxOverrides
             /\ overrides' = 0 => overrides = 0
             /\ overrides' = 0 /\ status[p] = "Monitoring" => status'[p] = "Monitoring"
  BY <1>1, <1>2, <1>6, Facts DEF Override
<1>7. CASE DeleteProject(p)
  <2>1. /\ overrides < MaxOverrides /\ Override(p) /\ StatusUpdate
        /\ status' = [status EXCEPT ![p] = "absent"]
    BY <1>7 DEF DeleteProject
  <2>2. StatusTypeOK' /\ \A q \in Projects \ {p} : status'[q] = status[q]
    BY <1>2, <2>1 DEF StatusTypeOK
  <2> QED
    BY <1>2, <1>6, <2>1, <2>2, GateStep DEF StatusUpdate
<1>8. ASSUME NEW s \in AllStatuses, UserUpdatesStatus(p, s)
      PROVE  IInv'
  <2>1. /\ overrides < MaxOverrides /\ Override(p) /\ StatusUpdate
        /\ UpdateProjectStatus(p, s)
    BY <1>8 DEF UserUpdatesStatus
  <2>2. StatusTypeOK' /\ \A q \in Projects \ {p} : status'[q] = status[q]
    BY <1>2, <2>1, GateKeeps
  <2> QED
    BY <1>2, <1>6, <2>1, <2>2, GateStep DEF StatusUpdate
<1> QED
  BY <1>3, <1>4, <1>5, <1>7, <1>8 DEF UserStep

\* A late release is served to a project nobody monitors or stops, a late claim
\* finds a monitored project taken.
LEMMA LateStep ==
  ASSUME IInv, NEW p \in Projects, NEW s \in {"Idle", "Monitoring"}, ServeLate(p, s)
  PROVE  IInv'
<1>1. /\ <<p, s>> \in late /\ late' = late \ {<<p, s>>} /\ UpdateProjectStatus(p, s)
      /\ UNCHANGED <<settingVars, lockVars, state, sessionVars, nmVars, goVars, callVars, edits,
                     faults, histVars>>
  BY DEF ServeLate
<1>2. "Monitoring" \notin FreeStatuses \cup ComputeStatuses
      /\ {"Idle", "Monitoring"} \subseteq AllStatuses /\ "Monitoring" \in DeviceStatuses
  BY DEF FreeStatuses, ComputeStatuses, AllStatuses, DeviceStatuses
<1>3. StatusTypeOK' /\ \A q \in Projects \ {p} : status'[q] = status[q]
  BY <1>1, <1>2, GateKeeps DEF IInv, TypeOK
<1>4. CASE s = "Monitoring"
  <2>1. status[p] = "Monitoring" => status'[p] = "Monitoring"
    BY <1>1, <1>2, <1>4, GateKeeps DEF IInv, TypeOK, Accepts
  <2> QED
    BY <1>1, <1>3, <2>1, GateStep DEF IInv, TypeOK, histVars
<1>5. CASE s = "Idle"
  <2>1. overrides = 0 /\ ~restopped =>
          ~Active(p) /\ ~(subject = p /\ phase \in StopPhases \ {"examining"})
    BY <1>1, <1>5 DEF IInv, StatusInv
  <2>2. late' \subseteq late /\ <<p, "Idle">> \notin late'
    BY <1>1, <1>5
  <2>3. overrides = 0 /\ ~restopped =>
          \A q \in Projects :
            Active(q) \/ <<q, "Idle">> \in late'
              \/ (subject = q /\ phase \in StopPhases \ {"examining"})
            => q # p
    BY <2>1, <2>2
  <2>4. /\ stored' \in [Projects -> Settings] /\ wanted' \in [Projects -> Settings]
        /\ edits' \in 0 .. MaxEdits
        /\ overrides' \in 0 .. MaxOverrides /\ UNCHANGED <<overrides, restopped, leftBehind>>
    BY <1>1 DEF IInv, TypeOK, histVars
  <2> QED
    BY <1>1, <1>3, <2>2, <2>3, <2>4, GateStep
<1> QED
  BY <1>4, <1>5

LEMMA StepIInv == IInv /\ [Next]_vars => IInv'
<1> SUFFICES ASSUME IInv, [Next]_vars
             PROVE  IInv'
  OBVIOUS
<1>1. ASSUME NEW c \in Calls,
             \/ \E op \in {"start", "stop"}, p \in Projects : Call(c, op, p)
             \/ TryLock(c) \/ GiveUp(c) \/ Lock(c)
      PROVE  IInv'
  BY <1>1, CallStep, LockStep
<1>2. CASE StartStep
  BY <1>2, RefusedStep, CheckedStep, GrantedStep, LoadedStep, LoadFailsStep, NmStartsStep,
     StartSucceedsStep, StartFailsStep DEF StartStep
<1>3. CASE StopStep
  BY <1>3, StopCannotReadStep, StopBeginsStep, StopFailsStep, NmStopsStep, DrainStep,
     CloseStep, StopReturnsStep DEF StopStep
<1>4. CASE ReloadStep
  BY <1>4, ReloadLeavesStep, UpdatesStep, ReloadStopsStep DEF ReloadStep
<1>5. ASSUME NEW s \in Sessions, PollerStep(s) \/ DispatcherStep(s) \/ UpdaterStep(s)
      PROVE  IInv'
  BY <1>5, ReloadBeginsStep, PollerKeeps, DispatcherKeeps, UpdaterKeeps DEF PollerStep
<1>6. ASSUME NEW p \in Projects,
             UserStep(p) \/ \E s \in {"Idle", "Monitoring"} : ServeLate(p, s)
      PROVE  IInv'
  BY <1>6, UserKeeps, LateStep
<1>7. CASE UNCHANGED vars
  <2>1. TypeOK'
    BY <1>7
    DEF IInv, TypeOK, StatusTypeOK, vars, gateVars, lockVars, sessionVars, nmVars, goVars,
        callVars, histVars
  <2>2. LockInv'
    BY <1>7 DEF IInv, LockInv, vars, lockVars, goVars, callVars
  <2>3. StateInv' /\ SessionInv' /\ PartsInv' /\ NmInv'
    BY <1>7, CoreStays
    DEF IInv, PartsInv, coreVars, vars, lockVars, sessionVars, nmVars, goVars, histVars
  <2>4. StatusInv'
    BY <1>7 DEF IInv, StatusInv, Active, vars, gateVars, lockVars, histVars
  <2> QED
    BY <2>1, <2>2, <2>3, <2>4 DEF IInv
<1> QED
  BY <1>1, <1>2, <1>3, <1>4, <1>5, <1>6, <1>7 DEF Next, SectionStep

LEMMA Invariance == Spec => []IInv
BY InitIInv, StepIInv, PTL DEF Spec

-----------------------------------------------------------------------------
(***************************************************************************)
(* The theorems.                                                           *)
(***************************************************************************)

\* Type correctness; in particular the dispatcher of a session never puts more
\* jobs into its pool than the pool takes.
THEOREM MonitorTypes == Spec => []TypeOK
BY Invariance, PTL DEF IInv

\* A monitored project keeps the status Monitoring, although claims, releases
\* and failures of them are served late or only logged.
THEOREM MonitorsAreUnderStatus == Spec => []MonitorUnderStatus
<1>1. IInv => MonitorUnderStatus
  BY DEF IInv, StatusInv, MonitorUnderStatus
<1> QED
  BY <1>1, Invariance, PTL

\* No poller an earlier session left behind starts NM again: NM runs for the
\* session of the one active project.
THEOREM NmRunsForItsSession == Spec => []NmHasItsSession
<1>1. IInv => NmHasItsSession
  <2> SUFFICES ASSUME IInv, nm # 0
               PROVE  /\ nm = session /\ nm \notin cancelled
                      /\ \A p \in Projects : Active(p) <=> p = owner[nm]
    BY DEF NmHasItsSession
  <2>1. nm = session /\ Live
    BY DEF IInv, PartsInv
  <2>2. owner[session] \in Projects /\ Active(owner[session])
    BY <2>1, OwnerExists DEF IInv, SessionInv, Live
  <2> QED
    BY <2>1, <2>2 DEF Live, IInv, StateInv
<1> QED
  BY <1>1, Invariance, PTL

\* Outside the section of internalMutex a monitor that says it runs is that of
\* the latest session, which is live and has its subscription, its settings and
\* an open pool; it has NM too, or the last reload stopped NM and panicked, or
\* failed and the stop after it failed too.
THEOREM RunningIsBackedByNm == Spec => []RunningIsBacked
<1>1. IInv => RunningIsBacked
  <2> SUFFICES ASSUME IInv, internal = "free", NEW p \in Projects, state[p] = "Running"
               PROVE  /\ session # 0 /\ session \notin cancelled /\ owner[session] = p
                      /\ subscribed = session /\ applied # None /\ pool[session] = "open"
                      /\ nm = session \/ leftBehind
    BY DEF RunningIsBacked
  <2>1. phase = "out"
    BY DEF IInv, LockInv
  <2>2. Monitored(p)
    BY DEF Monitored
  <2>3. Live /\ owner[session] = p
    BY <2>2 DEF IInv, SessionInv
  <2>4. subscribed = session /\ applied # None /\ pool[session] = "open"
    BY <2>2 DEF IInv, PartsInv
  <2>5. ~leftBehind => nm = session
    BY <2>1 DEF IInv, NmInv, PartsInv
  <2> QED
    BY <2>3, <2>4, <2>5 DEF Live
<1> QED
  BY <1>1, Invariance, PTL

\* While no monitor is active no session has NM, a subscription, jobs, an open
\* pool or a live context, whichever way the last one ended.
THEOREM StoppedLeavesNothing == Spec => []StoppedIsQuiet
<1>1. IInv => StoppedIsQuiet
  <2> SUFFICES ASSUME IInv, \A p \in Projects : ~Active(p)
               PROVE  /\ nm = 0 /\ subscribed = 0 /\ applied = None
                      /\ \A s \in 1 .. session :
                           s \in cancelled /\ jobs[s] = 0 /\ pool[s] # "open"
    BY DEF StoppedIsQuiet
  <2>1. ~Live
    BY OwnerExists DEF IInv, SessionInv, Live
  <2>2. phase \notin {"draining", "closing"}
    BY DEF IInv, LockInv, StateInv, Active
  <2>3. nm = 0 /\ subscribed = 0 /\ applied = None
    BY <2>1 DEF IInv, PartsInv
  <2>4. ASSUME NEW s \in 1 .. session
        PROVE  s \in cancelled /\ jobs[s] = 0 /\ pool[s] # "open"
    <3>1. /\ session \in Nat /\ session <= MaxSessions
          /\ s \in Sessions /\ s \in Nat /\ session # 0
      BY Facts DEF IInv, TypeOK, Sessions
    <3>2. s = session \/ s < session
      BY <3>1
    <3>3. s \in cancelled
      BY <2>1, <3>1, <3>2 DEF IInv, SessionInv, Live
    <3>4. pool[s] # "open"
      BY <2>1, <2>2, <3>1 DEF IInv, PartsInv
    <3>5. jobs[s] \in Nat
      BY <3>1, Facts DEF IInv, TypeOK
    <3> QED
      BY <3>1, <3>3, <3>4, <3>5 DEF IInv, PartsInv
  <2> QED
    BY <2>3, <2>4
<1> QED
  BY <1>1, Invariance, PTL

\* A stop, and a start that fails, put a project back to Idle only out of
\* Monitoring: the claim another operation made meanwhile is left alone.
THEOREM ReleasesAreItsOwn == Spec => MonitorReleasesItsOwn
<1> DEFINE Own ==
      overrides = 0 /\ ~restopped /\ phase \in {"failing", "releasing"}
        => \A p \in Projects :
             phase' = "out" /\ status'[p] # status[p] => status[p] = "Monitoring"
<1>1. IInv /\ [Next]_vars => [Own]_vars
  <2> SUFFICES ASSUME IInv, [Next]_vars, overrides = 0, ~restopped,
                      phase \in {"failing", "releasing"}, phase' = "out",
                      NEW p \in Projects, status'[p] # status[p]
               PROVE  status[p] = "Monitoring"
    BY Zenon
  <2>1. StartFails \/ StopReturns
    <3>1. ASSUME NEW c \in Calls,
                 \/ \E op \in {"start", "stop"}, q \in Projects : Call(c, op, q)
                 \/ TryLock(c) \/ GiveUp(c) \/ Lock(c)
          PROVE  FALSE
      BY <3>1 DEF Call, TryLock, GiveUp, Lock, lockVars, gateVars
    <3>2. ASSUME NEW s \in Sessions, PollerStep(s) \/ DispatcherStep(s) \/ UpdaterStep(s)
          PROVE  FALSE
      BY <3>2
      DEF PollerStep, Poll, ReloadGivesUp, ReloadBegins, PollerEnds, DispatcherStep, Tick,
          AddTasks, DispatcherEnds, JobEnds, Dispatch, UpdaterStep, UpdateBegins,
          UpdaterLocks, UpdaterUnlocks, UpdateEnds, UpdaterEnds, Update, gateVars
    <3>3. ASSUME NEW q \in Projects,
                 UserStep(q) \/ \E s \in {"Idle", "Monitoring"} : ServeLate(q, s)
          PROVE  FALSE
      BY <3>3
      DEF UserStep, EditSettings, OtherClaims, OtherReleases, DeleteProject,
          UserUpdatesStatus, StatusUpdate, ServeLate, lockVars
    <3>4. StartStep => StartFails
      BY DEF StartStep, StartRefused, StartChecked, ClaimGranted, ClaimFails, Loaded,
             LoadFails, NmStarts, NmStartFails, StartSucceeds
    <3>5. StopStep => StopReturns
      BY DEF StopStep, StopCannotRead, StopBegins, StopFails, NmStops, Drain, Close
    <3>6. ~ReloadStep
      BY DEF ReloadStep, ReloadFails, ReloadPanics, ReloadUpdates, ReloadUpdateFails,
             ReloadSucceeds, RestartFails
    <3>7. ~UNCHANGED vars
      BY DEF vars, gateVars
    <3> QED
      BY <3>1, <3>2, <3>3, <3>4, <3>5, <3>6, <3>7 DEF Next, SectionStep
  <2>2. subject \in Projects
    BY DEF IInv, LockInv
  <2>3. p = subject /\ (phase = "releasing" => snapshot)
    BY <2>1, <2>2, ReleaseKeeps DEF StartFails, StopReturns, p0, gateVars
  <2>4. phase = "failing" => Active(subject)
    BY DEF IInv, StateInv, Active
  <2> QED
    BY <2>2, <2>3, <2>4 DEF IInv, StatusInv, StopPhases
<1> QED
  BY <1>1, Invariance, PTL DEF Spec, MonitorReleasesItsOwn

-----------------------------------------------------------------------------
(***************************************************************************)
(* The two mutexes are held by somebody, and by one only.                  *)
(***************************************************************************)

\* A mutex that is taken has its holder in the section, in whichever of the
\* three kinds of goroutines.
HolderInv ==
  /\ mutex # None => pc[mutex] \in {"locking", "inside"}
  /\ \A c \in Calls : pc[c] = "inside" => internal = "call"
  /\ \A s \in Sessions : poller[s] = "reloading" => internal = "poller" /\ reloader = s
  /\ internal = "updater" => \E s \in Sessions : updater[s] = "locked"

\* The goroutines between the Lock (or TryLock) of internalMutex and its Unlock.
InSection ==
  {<<"call", c>> : c \in {d \in Calls : pc[d] = "inside"}}
    \cup {<<"poller", s>> : s \in {r \in Sessions : poller[r] = "reloading"}}
    \cup {<<"updater", s>> : s \in {r \in Sessions : updater[r] = "locked"}}

\* internalMutex is free exactly when nobody is in its section, and one
\* goroutine is at most; m.mutex is held by a call that waits for internalMutex
\* or is in its section.
LocksHaveHolders ==
  /\ IF internal = "free" THEN InSection = {} ELSE \E g : InSection = {g}
  /\ mutex # None => pc[mutex] = "locking" \/ <<"call", mutex>> \in InSection

LEMMA HolderInit == Init => HolderInv
BY DEF Init, HolderInv

\* A step of a section ends it or leaves both mutexes alone; the poller that a
\* start begins is not in one.
LEMMA SectionLocks ==
  ASSUME SectionStep
  PROVE  /\ phase # "out"
         /\ \/ Leave /\ UNCHANGED updater
            \/ UNCHANGED <<mutex, internal, reloader, poller, pc, updater>>
            \/ NmStarts
<1> USE DEF Goto, goVars, callVars
<1>1. CASE StartStep
  <2>1. CASE StartRefused \/ ClaimFails \/ StartSucceeds \/ StartFails
    BY <2>1 DEF StartRefused, ClaimFails, StartSucceeds, StartFails
  <2>2. CASE StartChecked \/ ClaimGranted \/ Loaded \/ LoadFails
    BY <2>2 DEF StartChecked, ClaimGranted, Loaded, LoadFails
  <2>3. CASE NmStarts
    BY <2>3 DEF NmStarts
  <2>4. CASE NmStartFails
    BY <2>4 DEF NmStartFails
  <2> QED
    BY <1>1, <2>1, <2>2, <2>3, <2>4 DEF StartStep
<1>2. CASE StopStep
  BY <1>2
  DEF StopStep, StopCannotRead, StopBegins, StopFails, NmStops, Drain, Close, StopReturns
<1>3. CASE ReloadStep
  BY <1>3
  DEF ReloadStep, ReloadFails, ReloadPanics, ReloadUpdates, ReloadUpdateFails,
      ReloadSucceeds, RestartFails
<1> QED
  BY <1>1, <1>2, <1>3 DEF SectionStep

LEMMA LeaveFrees ==
  ASSUME IInv, HolderInv, phase # "out", Leave, UNCHANGED updater
  PROVE  HolderInv'
<1>0. /\ pc \in [Calls -> {"ready", "trying", "locking", "inside", "done"}]
      /\ poller \in [Sessions -> {"off", "idle", "changed", "reloading", "ended"}]
      /\ internal \in {"call", "poller"} /\ internal' = "free" /\ reloader' = 0
  BY DEF IInv, TypeOK, LockInv, Leave
<1>1. CASE internal = "call"
  <2>1. mutex' = None /\ pc' = [pc EXCEPT ![mutex] = "done"] /\ UNCHANGED poller
    BY <1>1 DEF Leave
  <2>2. \A c \in Calls : pc'[c] # "inside"
    BY <1>0, <2>1 DEF IInv, LockInv
  <2> QED
    BY <1>0, <1>1, <2>1, <2>2 DEF HolderInv
<1>2. CASE internal = "poller"
  <2>1. poller' = [poller EXCEPT ![reloader] = "idle"] /\ UNCHANGED <<mutex, pc>>
    BY <1>2 DEF Leave, callVars
  <2>2. \A s \in Sessions : poller'[s] # "reloading"
    BY <1>0, <2>1 DEF HolderInv
  <2>3. \A c \in Calls : pc'[c] # "inside"
    BY <1>2, <2>1 DEF HolderInv
  <2> QED
    BY <1>0, <2>1, <2>2, <2>3 DEF HolderInv
<1> QED
  BY <1>0, <1>1, <1>2

LEMMA NextHolders == IInv /\ HolderInv /\ [Next]_vars => HolderInv'
<1> SUFFICES ASSUME IInv, HolderInv, [Next]_vars PROVE HolderInv'
  OBVIOUS
<1>0. /\ pc \in [Calls -> {"ready", "trying", "locking", "inside", "done"}]
      /\ poller \in [Sessions -> {"off", "idle", "changed", "reloading", "ended"}]
      /\ updater \in [Sessions -> {"off", "idle", "working", "locked", "ended"}]
  BY DEF IInv, TypeOK
<1>1. ASSUME UNCHANGED <<mutex, internal, reloader, poller, pc, updater>>
      PROVE  HolderInv'
  BY <1>1 DEF HolderInv
<1>2. ASSUME NEW c \in Calls,
             \/ \E op \in {"start", "stop"}, p \in Projects : Call(c, op, p)
             \/ TryLock(c) \/ GiveUp(c)
      PROVE  HolderInv'
  <2>1. /\ UNCHANGED <<internal, reloader, poller, updater>> /\ pc[c] \in {"ready", "trying"}
        /\ \/ UNCHANGED mutex /\ \E l \in {"trying", "done"} : pc' = [pc EXCEPT ![c] = l]
           \/ mutex' = c /\ pc' = [pc EXCEPT ![c] = "locking"]
    BY <1>2 DEF Call, TryLock, GiveUp, lockVars, goVars
  <2>2. \A d \in Calls : pc'[d] = "inside" => pc[d] = "inside"
    BY <1>0, <2>1
  <2>3. mutex' # None => pc'[mutex'] \in {"locking", "inside"}
    <3>1. mutex \in Calls \cup {None} /\ c # None
      BY Facts DEF IInv, TypeOK
    <3>2. CASE UNCHANGED mutex
      <4>1. mutex # None => mutex # c
        BY <2>1 DEF HolderInv
      <4> QED
        BY <1>0, <2>1, <3>1, <3>2, <4>1 DEF HolderInv
    <3>3. CASE mutex' = c /\ pc' = [pc EXCEPT ![c] = "locking"]
      BY <1>0, <3>3
    <3> QED
      BY <2>1, <3>2, <3>3
  <2> QED
    BY <2>1, <2>2, <2>3 DEF HolderInv
<1>3. ASSUME NEW c \in Calls, Lock(c)
      PROVE  HolderInv'
  <2>1. /\ pc[c] = "locking" /\ internal = "free" /\ internal' = "call"
        /\ pc' = [pc EXCEPT ![c] = "inside"]
        /\ UNCHANGED <<mutex, reloader, poller, updater>>
    BY <1>3 DEF Lock, Enter
  <2> QED
    BY <1>0, <2>1 DEF HolderInv
<1>4. CASE SectionStep
  <2>1. CASE NmStarts
    <3>1. /\ phase = "starting" /\ UNCHANGED <<mutex, internal, reloader, pc>>
          /\ poller' = [poller EXCEPT ![session] = "idle"]
          /\ updater' = [updater EXCEPT ![session] = "idle"]
      BY <2>1 DEF NmStarts, Goto, callVars
    <3>2. internal = "call"
      BY <3>1 DEF IInv, LockInv, StartPhases
    <3>3. \A s \in Sessions : poller'[s] # "reloading"
      BY <1>0, <3>1, <3>2 DEF HolderInv
    <3> QED
      BY <3>1, <3>2, <3>3 DEF HolderInv
  <2> QED
    BY <1>1, <1>4, <2>1, SectionLocks, LeaveFrees
<1>5. ASSUME NEW s \in Sessions, PollerStep(s)
      PROVE  HolderInv'
  <2>1. UNCHANGED <<mutex, pc, updater>> /\ poller[s] \in {"idle", "changed"}
    BY <1>5
    DEF PollerStep, Poll, ReloadGivesUp, ReloadBegins, PollerEnds, lockVars, callVars
  <2>2. CASE ReloadBegins(s)
    <3>1. /\ internal = "free" /\ internal' = "poller" /\ reloader' = s
          /\ poller' = [poller EXCEPT ![s] = "reloading"]
      BY <2>2 DEF ReloadBegins, SetPoller
    <3> QED
      BY <1>0, <2>1, <3>1 DEF HolderInv
  <2>3. CASE Poll(s) \/ ReloadGivesUp(s) \/ PollerEnds(s)
    <3>1. /\ UNCHANGED <<internal, reloader>>
          /\ \E l \in {"changed", "idle", "ended"} : poller' = [poller EXCEPT ![s] = l]
      BY <2>3 DEF Poll, ReloadGivesUp, PollerEnds, SetPoller, lockVars
    <3> QED
      BY <1>0, <2>1, <3>1 DEF HolderInv
  <2> QED
    BY <1>5, <2>2, <2>3 DEF PollerStep
<1>6. ASSUME NEW s \in Sessions, UpdaterStep(s)
      PROVE  HolderInv'
  <2>1. UNCHANGED <<mutex, pc, poller, reloader>>
    BY <1>6
    DEF UpdaterStep, UpdateBegins, UpdaterLocks, UpdaterUnlocks, UpdateEnds, UpdaterEnds,
        Update, callVars
  <2>2. CASE UpdaterLocks(s)
    <3>1. /\ internal = "free" /\ internal' = "updater"
          /\ updater' = [updater EXCEPT ![s] = "locked"]
      BY <2>2 DEF UpdaterLocks, Update
    <3> QED
      BY <1>0, <2>1, <3>1 DEF HolderInv
  <2>3. CASE UpdaterUnlocks(s)
    <3>1. internal = "updater" /\ internal' = "free"
      BY <2>3 DEF UpdaterUnlocks, Update, IInv, LockInv
    <3> QED
      BY <2>1, <3>1 DEF HolderInv
  <2>4. CASE UpdateBegins(s) \/ UpdateEnds(s) \/ UpdaterEnds(s)
    <3>1. /\ UNCHANGED internal /\ updater[s] \in {"idle", "working"}
          /\ \E l \in {"idle", "working", "ended"} : updater' = [updater EXCEPT ![s] = l]
      BY <2>4 DEF UpdateBegins, UpdateEnds, UpdaterEnds, Update
    <3>2. \A r \in Sessions : updater[r] = "locked" => updater'[r] = "locked"
      BY <1>0, <3>1
    <3> QED
      BY <2>1, <3>1, <3>2 DEF HolderInv
  <2> QED
    BY <1>6, <2>2, <2>3, <2>4 DEF UpdaterStep
<1>7. ASSUME NEW s \in Sessions, DispatcherStep(s)
      PROVE  HolderInv'
  BY <1>1, <1>7
  DEF DispatcherStep, Tick, AddTasks, DispatcherEnds, JobEnds, Dispatch, lockVars, callVars
<1>8. ASSUME NEW p \in Projects,
             UserStep(p) \/ \E s \in {"Idle", "Monitoring"} : ServeLate(p, s)
      PROVE  HolderInv'
  BY <1>1, <1>8
  DEF UserStep, EditSettings, OtherClaims, OtherReleases, DeleteProject, UserUpdatesStatus,
      StatusUpdate, ServeLate, lockVars, goVars, callVars
<1>9. CASE UNCHANGED vars
  BY <1>1, <1>9 DEF vars, lockVars, goVars, callVars
<1> QED
  BY <1>2, <1>3, <1>4, <1>5, <1>6, <1>7, <1>8, <1>9 DEF Next

\* Start, Stop, reloads and topology updates lock internalMutex in four ways and
\* leave it by many returns: none of them leaves it, or m.mutex, taken behind
\* itself, and no two are in the section at a time.  With the section's own
\* steps scheduled, this is why calls return.
THEOREM LocksAreHeld == Spec => []LocksHaveHolders
<1>1. IInv /\ HolderInv => LocksHaveHolders
  <2> SUFFICES ASSUME IInv, HolderInv PROVE LocksHaveHolders
    OBVIOUS
  <2>1. /\ internal \in {"free", "call", "poller", "updater"}
        /\ mutex \in Calls \cup {None} /\ None \notin Calls
    BY Facts DEF IInv, TypeOK
  <2>2. internal = "free" => InSection = {}
    BY DEF IInv, LockInv, HolderInv, InSection
  <2>3. ASSUME internal = "call"
        PROVE  InSection = {<<"call", mutex>>}
    <3>1. {c \in Calls : pc[c] = "inside"} = {mutex}
      BY <2>3 DEF IInv, LockInv
    <3>2. /\ {s \in Sessions : poller[s] = "reloading"} = {}
          /\ {s \in Sessions : updater[s] = "locked"} = {}
      BY <2>3 DEF IInv, LockInv, HolderInv
    <3> QED
      BY <3>1, <3>2 DEF InSection
  <2>4. ASSUME internal = "poller"
        PROVE  InSection = {<<"poller", reloader>>}
    <3>1. {s \in Sessions : poller[s] = "reloading"} = {reloader}
      BY <2>4 DEF IInv, LockInv, HolderInv
    <3>2. /\ {c \in Calls : pc[c] = "inside"} = {}
          /\ {s \in Sessions : updater[s] = "locked"} = {}
      BY <2>4 DEF IInv, LockInv, HolderInv
    <3> QED
      BY <3>1, <3>2 DEF InSection
  <2>5. ASSUME internal = "updater"
        PROVE  \E g : InSection = {g}
    <3>1. PICK s \in Sessions : {r \in Sessions : updater[r] = "locked"} = {s}
      BY <2>5 DEF IInv, LockInv, HolderInv
    <3>2. /\ {c \in Calls : pc[c] = "inside"} = {}
          /\ {r \in Sessions : poller[r] = "reloading"} = {}
      BY <2>5 DEF HolderInv
    <3>3. InSection = {<<"updater", s>>}
      BY <3>1, <3>2 DEF InSection
    <3> QED
      BY <3>3
  <2>6. mutex # None => pc[mutex] = "locking" \/ <<"call", mutex>> \in InSection
    BY <2>1 DEF HolderInv, InSection
  <2> QED
    BY <2>1, <2>2, <2>3, <2>4, <2>5, <2>6 DEF LocksHaveHolders
<1>2. Init => HolderInv
  BY HolderInit
<1>3. IInv /\ HolderInv /\ [Next]_vars => HolderInv'
  BY NextHolders
<1> QED
  BY <1>1, <1>2, <1>3, Invariance, PTL DEF Spec

=============================================================================

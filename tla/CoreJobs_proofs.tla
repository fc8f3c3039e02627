--------------------------- MODULE CoreJobs_proofs ---------------------------
(***************************************************************************)
(* Safety of cogsworth's job threads for any number of projects and        *)
(* starts, whatever statuses sebastian requests at the gate.               *)
(***************************************************************************)
EXTENDS CoreJobs, TLAPS

\* Threads are created in order, each for a project, and only ended ones have
\* been joined.
ThreadInv ==
  \A t \in Threads :
    /\ at[t] = "new" <=> t > spawned
    /\ at[t] # "new" => job[t].project \in Projects /\ job[t].kind \in Kinds
    /\ t \in joined => at[t] = "ended"

\* An entry of the pool is a thread of that project which nobody joined yet,
\* and a deleted project has none.
PoolInv ==
  \A p \in Projects :
    pool[p] # NoThread =>
      /\ status[p] # "absent"
      /\ at[pool[p]] # "new"
      /\ job[pool[p]].project = p
      /\ pool[p] \notin joined

\* What the request that holds g_core.mutex_ relies on until it returns.
HandlerInv ==
  /\ handler.phase = "none" <=> handler = Free
  /\ handler.phase # "none" =>
       handler.project \in Projects /\ status[handler.project] # "absent"
  /\ handler.phase = "checking" => handler.request = "start"
  /\ handler.phase = "joining" =>
       handler.request # "none" /\ pool[handler.project] # NoThread
  /\ handler.request = "start" => handler.kind \in Kinds /\ spawned < MaxStarts

\* StatusHasAJob with the part of a job in which the status is set: a thread
\* takes the status back before or while it ends.
StatusInv ==
  \A p \in Projects : status[p] \in StatusKinds \ GateStatuses =>
    /\ pool[p] # NoThread
    /\ at[pool[p]] \in {"running", "closing"}
    /\ job[pool[p]] = [project |-> p, kind |-> status[p]]

IInv == /\ TypeOK /\ ThreadInv /\ PoolInv /\ HandlerInv /\ StatusInv
        /\ NoJoinableThreadDropped

Labels == {"new", "starting", "engine", "running", "finishing", "closing", "ended"}

-----------------------------------------------------------------------------

LEMMA InitIInv == Init => IInv
<1> SUFFICES ASSUME Init PROVE IInv
  OBVIOUS
<1> USE CoreAssumption DEF Init, InitStatus, Free, NoThread, Threads
<1>1. TypeOK
  <2>1. StatusTypeOK
    BY DEF StatusTypeOK, AllStatuses, FreeStatuses
  <2>2. pool \in [Projects -> Threads \cup {NoThread}] /\ spawned \in 0 .. MaxStarts
    OBVIOUS
  <2>3. /\ at \in [Threads -> Labels]
        /\ job \in [Threads -> [project : Projects \cup {"none"}, kind : Kinds \cup {"none"}]]
    BY DEF Labels
  <2> QED
    BY <2>1, <2>2, <2>3 DEF TypeOK, Labels
<1>2. ThreadInv /\ PoolInv /\ HandlerInv /\ StatusInv /\ NoJoinableThreadDropped
  BY DEF ThreadInv, PoolInv, HandlerInv, StatusInv, NoJoinableThreadDropped, StatusKinds
<1> QED
  BY <1>1, <1>2 DEF IInv

\* A request that only changes what the handler does, whom it signalled and
\* which project is remembered as monitored.
LEMMA RequestStep ==
  ASSUME IInv, UNCHANGED <<status, systemStatus, pool, at, crashed>>,
         UNCHANGED threadVars,
         monitorProject' \in Projects \cup {"none"},
         signalled' \subseteq Threads,
         handler' \in [request : {"none", "start", "stop", "stopMonitor", "delete"},
                       project : Projects \cup {"none"}, kind : Kinds \cup {"none"},
                       phase : {"none", "checking", "joining"}],
         HandlerInv'
  PROVE  IInv'
<1> USE DEF threadVars
<1>1. TypeOK'
  BY DEF IInv, TypeOK, StatusTypeOK
<1>2. ThreadInv' /\ PoolInv' /\ StatusInv' /\ NoJoinableThreadDropped'
  BY DEF IInv, ThreadInv, PoolInv, StatusInv, NoJoinableThreadDropped
<1> QED
  BY <1>1, <1>2 DEF IInv

\* A job thread: it moves, may set its project's status and may change the
\* system's.  A status of its kind is set only on the way to where it is kept.
LEMMA ThreadStepKeeps ==
  ASSUME IInv, NEW t \in Threads, NEW l \in Labels \ {"new"},
         at[t] \notin {"new", "ended"}, at' = [at EXCEPT ![t] = l],
         NEW s \in AllStatuses,
         \/ UNCHANGED status /\ (at[t] \in {"running", "closing"} =>
                                   l \in {"running", "closing"}
                                   \/ job[t].kind \notin StatusKinds)
         \/ SetStatus(t, s) /\ s \in FreeStatuses
         \/ SetStatus(t, s) /\ s = job[t].kind /\ l \in {"running", "closing"},
         systemStatus' \in {"Idle", "Monitoring"},
         monitorProject' \in Projects \cup {"none"},
         crashed' \in BOOLEAN,
         UNCHANGED <<handlerVars, threadVars>>
  PROVE  IInv'
<1> DEFINE p == job[t].project
<1> USE DEF handlerVars, threadVars
<1>1. p \in Projects /\ t \notin joined /\ pool[p] = t
  BY DEF IInv, ThreadInv, NoJoinableThreadDropped
<1>2. /\ t # NoThread
      /\ status[p] # "absent"
  BY <1>1 DEF IInv, PoolInv, Threads, NoThread
<1>3. \A q \in Projects \ {p} : status'[q] = status[q] /\ pool[q] # t
  BY <1>1, <1>2 DEF SetStatus, IInv, TypeOK, StatusTypeOK, PoolInv
<1>4. status' \in [Projects -> AllStatuses \cup {"absent"}]
  BY <1>1 DEF SetStatus, IInv, TypeOK, StatusTypeOK
<1>5. status'[p] # "absent"
  BY <1>1, <1>2 DEF SetStatus, IInv, TypeOK, StatusTypeOK, AllStatuses, DeviceStatuses,
     ComputeStatuses, FreeStatuses
<1>6. \A u \in Threads : at'[u] = IF u = t THEN l ELSE at[u]
  BY DEF IInv, TypeOK
<1>7. TypeOK'
  <2>1. at' \in [Threads -> Labels]
    BY DEF IInv, TypeOK, Labels
  <2> QED
    BY <1>4, <2>1 DEF IInv, TypeOK, StatusTypeOK, Labels
<1> HIDE DEF p
<1>8. ThreadInv'
  BY <1>1, <1>6 DEF IInv, ThreadInv
<1>9. PoolInv'
  BY <1>1, <1>3, <1>5, <1>6 DEF IInv, PoolInv, TypeOK, NoThread
<1>10. HandlerInv'
  BY <1>3, <1>5 DEF IInv, HandlerInv, Free
<1>11. NoJoinableThreadDropped'
  BY <1>6, <1>1 DEF IInv, NoJoinableThreadDropped
<1>12. StatusInv'
  <2>1. ASSUME NEW q \in Projects \ {p}, status'[q] \in StatusKinds \ GateStatuses
        PROVE  /\ pool[q] # NoThread
               /\ at'[pool[q]] \in {"running", "closing"}
               /\ job[pool[q]] = [project |-> q, kind |-> status'[q]]
    BY <2>1, <1>3, <1>6 DEF IInv, StatusInv, TypeOK, NoThread
  <2>2. ASSUME status'[p] \in StatusKinds \ GateStatuses
        PROVE  /\ at'[t] \in {"running", "closing"}
               /\ job[t] = [project |-> p, kind |-> status'[p]]
    <3>0. job[t] = [project |-> p, kind |-> job[t].kind]
      BY DEF IInv, TypeOK, p
    <3>1. CASE UNCHANGED status /\ (at[t] \in {"running", "closing"} =>
                                   l \in {"running", "closing"}
                                   \/ job[t].kind \notin StatusKinds)
      BY <3>1, <2>2, <1>1, <1>6 DEF IInv, StatusInv
    <3>2. CASE SetStatus(t, s) /\ s \in FreeStatuses
      <4>1. CASE job[t].kind \in StatusKinds
        BY <4>1, <3>2, <2>2, <1>1 DEF SetStatus, IInv, TypeOK, StatusTypeOK,
           FreeStatuses, StatusKinds, p
      <4>2. CASE job[t].kind \notin StatusKinds
        <5>1. status'[p] = status[p]
          BY <4>2, <3>2 DEF SetStatus
        <5> QED
          BY <5>1, <4>2, <2>2, <1>1 DEF IInv, StatusInv
      <4> QED
        BY <4>1, <4>2
    <3>3. CASE SetStatus(t, s) /\ s = job[t].kind /\ l \in {"running", "closing"}
      <4>1. CASE job[t].kind \in StatusKinds
        BY <4>1, <3>0, <3>3, <1>1, <1>6 DEF SetStatus, IInv, TypeOK, StatusTypeOK, p
      <4>2. CASE job[t].kind \notin StatusKinds
        <5>1. status'[p] = status[p]
          BY <4>2, <3>3 DEF SetStatus
        <5> QED
          BY <5>1, <4>2, <2>2, <1>1 DEF IInv, StatusInv
      <4> QED
        BY <4>1, <4>2
    <3> QED
      BY <3>1, <3>2, <3>3
  <2> QED
    BY <2>1, <2>2, <1>1, <1>2 DEF StatusInv
<1> QED
  BY <1>7, <1>8, <1>9, <1>10, <1>11, <1>12 DEF IInv

-----------------------------------------------------------------------------

LEMMA StartRequestStep ==
  ASSUME IInv, NEW p \in Projects, NEW k \in Kinds, StartRequest(p, k)
  PROVE  IInv'
<1>1. HandlerInv'
  BY DEF StartRequest, threadVars, IInv, HandlerInv, Free
<1>2. signalled' \subseteq Threads /\ monitorProject' \in Projects \cup {"none"}
  BY DEF StartRequest, IInv, TypeOK
<1> QED
  BY <1>1, <1>2, RequestStep DEF StartRequest

LEMMA StopRequestStep ==
  ASSUME IInv, NEW p \in Projects, StopRequest(p) \/ StopMonitorRequest(p)
  PROVE  IInv'
<1> USE DEF StopRequest, StopMonitorRequest, SignalAndJoin
<1>1. signalled' \subseteq Threads /\ monitorProject' \in Projects \cup {"none"}
  BY DEF IInv, TypeOK
<1>2. HandlerInv'
  BY DEF threadVars, IInv, HandlerInv, PoolInv, Free
<1> QED
  BY <1>1, <1>2, RequestStep DEF IInv, TypeOK

\* A change of the list that touches no status of a job: by the gate, by the
\* deletion of a project without job.
LEMMA ListStep ==
  ASSUME IInv, NEW p \in Projects, handler = Free,
         status' \in [Projects -> AllStatuses \cup {"absent"}],
         \A q \in Projects \ {p} : status'[q] = status[q],
         status'[p] = status[p] \/ status'[p] \notin StatusKinds \ GateStatuses,
         status'[p] = "absent" => pool[p] = NoThread,
         monitorProject' \in Projects \cup {"none"},
         UNCHANGED <<systemStatus, pool, at, signalled, handler, crashed>>,
         UNCHANGED threadVars
  PROVE  IInv'
<1> USE DEF threadVars
<1>1. TypeOK'
  BY DEF IInv, TypeOK, StatusTypeOK
<1>2. ThreadInv' /\ NoJoinableThreadDropped'
  BY DEF IInv, ThreadInv, NoJoinableThreadDropped
<1>3. PoolInv' /\ StatusInv'
  BY DEF IInv, PoolInv, StatusInv
<1>4. HandlerInv'
  BY DEF IInv, HandlerInv, Free
<1> QED
  BY <1>1, <1>2, <1>3, <1>4 DEF IInv

LEMMA DeleteRequestStep ==
  ASSUME IInv, NEW p \in Projects, DeleteRequest(p)
  PROVE  IInv'
<1>1. monitorProject' \in Projects \cup {"none"}
  BY DEF DeleteRequest, ForgetMonitored, IInv, TypeOK
<1>2. CASE SignalAndJoin(p, "delete") /\ UNCHANGED status
  <2>1. signalled' \subseteq Threads
    BY <1>2 DEF SignalAndJoin, IInv, TypeOK
  <2>2. HandlerInv'
    BY <1>2 DEF DeleteRequest, SignalAndJoin, threadVars, IInv, HandlerInv, PoolInv, Free
  <2>3. UNCHANGED <<status, systemStatus, pool, at, crashed>> /\ UNCHANGED threadVars
    BY <1>2 DEF DeleteRequest
  <2> QED
    BY <1>1, <1>2, <2>1, <2>2, <2>3, RequestStep DEF SignalAndJoin
<1>3. CASE UNCHANGED <<status, signalled, handler>>
  BY <1>1, <1>3, ListStep DEF DeleteRequest, IInv, TypeOK, StatusTypeOK, PoolInv
<1>4. CASE /\ pool[p] = NoThread
           /\ status' = [status EXCEPT ![p] = "absent"]
           /\ UNCHANGED <<signalled, handler>>
  <2>1. /\ status' \in [Projects -> AllStatuses \cup {"absent"}]
        /\ \A q \in Projects \ {p} : status'[q] = status[q]
        /\ status'[p] = "absent"
    BY <1>4 DEF IInv, TypeOK, StatusTypeOK
  <2>2. /\ handler = Free
        /\ UNCHANGED <<systemStatus, pool, at, signalled, handler, crashed>>
        /\ UNCHANGED threadVars
    BY <1>4 DEF DeleteRequest
  <2>3. status'[p] \notin StatusKinds \ GateStatuses
    BY <2>1 DEF StatusKinds
  <2> QED
    BY <1>1, <1>4, <2>1, <2>2, <2>3, ListStep
<1> QED
  BY <1>2, <1>3, <1>4 DEF DeleteRequest

LEMMA GateRequestStep ==
  ASSUME IInv, NEW p \in Projects, NEW s \in GateStatuses, GateRequest(p, s)
  PROVE  IInv'
<1>1. /\ handler = Free
      /\ UpdateProjectStatus(p, s)
      /\ UNCHANGED <<systemStatus, monitorProject, pool, at, signalled, handler, crashed>>
      /\ UNCHANGED threadVars
  BY DEF GateRequest
<1>2. s \in AllStatuses /\ "Idle" \in AllStatuses
  BY CoreAssumption DEF AllStatuses, FreeStatuses
<1>3. status \in [Projects -> AllStatuses \cup {"absent"}]
      /\ monitorProject' \in Projects \cup {"none"}
  BY <1>1 DEF IInv, TypeOK, StatusTypeOK
<1>4. CASE ~Accepts(p, s)
  <2>1. status' = status
    BY <1>1, <1>4 DEF UpdateProjectStatus
  <2>2. status'[p] = "absent" => pool[p] = NoThread
    BY <2>1 DEF IInv, PoolInv
  <2> QED
    BY <1>1, <1>3, <2>1, <2>2, ListStep
<1>5. CASE Accepts(p, s)
  <2>1. status' = [status EXCEPT ![p] = Stored(p, s)] /\ status[p] # "absent"
    BY <1>1, <1>5 DEF UpdateProjectStatus, Accepts
  <2>2. Stored(p, s) \in {status[p], "Idle", s}
    BY DEF Stored
  <2>3. Stored(p, s) = status[p] \/ Stored(p, s) \notin StatusKinds \ GateStatuses
    BY <2>2 DEF StatusKinds
  <2>4. Stored(p, s) \in AllStatuses
    BY <1>2, <1>3, <2>1, <2>2
  <2>5. "absent" \notin AllStatuses
    BY DEF AllStatuses, DeviceStatuses, ComputeStatuses, FreeStatuses
  <2>6. /\ status' \in [Projects -> AllStatuses \cup {"absent"}]
        /\ \A q \in Projects \ {p} : status'[q] = status[q]
        /\ status'[p] = Stored(p, s)
    BY <1>3, <2>1, <2>4
  <2> QED
    BY <1>1, <1>3, <2>3, <2>4, <2>5, <2>6, ListStep
<1> QED
  BY <1>4, <1>5

\* A new thread takes the place of none or of one that ended and is joined now.
LEMMA SpawnStep ==
  ASSUME IInv, handler.request = "start", handler.phase # "none", Spawn,
         \/ pool[handler.project] = NoThread /\ joined' = joined
         \/ /\ at[pool[handler.project]] = "ended"
            /\ pool[handler.project] # NoThread
            /\ joined' = joined \cup {pool[handler.project]},
         UNCHANGED <<status, systemStatus, monitorProject, signalled, crashed>>
  PROVE  IInv'
<1> DEFINE t == spawned + 1
           p == handler.project
<1>1. /\ spawned' = t
      /\ at' = [at EXCEPT ![t] = "starting"]
      /\ job' = [job EXCEPT ![t] = [project |-> p, kind |-> handler.kind]]
      /\ pool' = [pool EXCEPT ![p] = t]
      /\ handler' = Free
  BY DEF Spawn
<1>2. p \in Projects /\ status[p] # "absent" /\ handler.kind \in Kinds
  BY DEF IInv, HandlerInv
<1>3. t \in Threads /\ t # NoThread /\ spawned \in Nat /\ t \in 0 .. MaxStarts
  BY CoreAssumption DEF IInv, HandlerInv, TypeOK, Threads, NoThread
<1>4. at[t] = "new" /\ t \notin joined
  BY <1>3 DEF IInv, ThreadInv
<1>5. pool[p] \in Threads \cup {NoThread}
  BY <1>2 DEF IInv, TypeOK
<1>6. pool[p] # t
  BY <1>2, <1>3, <1>4 DEF IInv, PoolInv
<1>7. joined' \subseteq Threads /\ t \notin joined'
  BY <1>4, <1>5, <1>6 DEF IInv, TypeOK
<1> HIDE DEF t, p
<1>8. \A u \in Threads : u # t => at'[u] = at[u] /\ job'[u] = job[u]
  BY <1>1 DEF IInv, TypeOK
<1>9. at'[t] = "starting" /\ job'[t] = [project |-> p, kind |-> handler.kind]
  BY <1>1, <1>3 DEF IInv, TypeOK
<1>10. pool'[p] = t /\ \A q \in Projects \ {p} : pool'[q] = pool[q]
  BY <1>1, <1>2 DEF IInv, TypeOK
<1>11. TypeOK'
  <2>1. at' \in [Threads -> Labels]
    BY <1>1 DEF IInv, TypeOK, Labels
  <2>2. job' \in [Threads -> [project : Projects \cup {"none"}, kind : Kinds \cup {"none"}]]
    BY <1>1, <1>2 DEF IInv, TypeOK
  <2>3. pool' \in [Projects -> Threads \cup {NoThread}]
    BY <1>1, <1>3 DEF IInv, TypeOK
  <2>4. handler' \in [request : {"none", "start", "stop", "stopMonitor", "delete"},
                      project : Projects \cup {"none"}, kind : Kinds \cup {"none"},
                      phase : {"none", "checking", "joining"}]
    BY <1>1 DEF Free
  <2>5. spawned' \in 0 .. MaxStarts
    BY <1>1, <1>3
  <2> QED
    BY <1>7, <2>1, <2>2, <2>3, <2>4, <2>5 DEF IInv, TypeOK, StatusTypeOK, Labels
<1>12. ThreadInv'
  <2>1. \A u \in Threads : at'[u] = "new" <=> u > t
    BY <1>3, <1>8, <1>9 DEF IInv, ThreadInv, t, Threads
  <2>2. \A u \in Threads : at'[u] # "new" =>
          job'[u].project \in Projects /\ job'[u].kind \in Kinds
    BY <1>2, <1>8, <1>9 DEF IInv, ThreadInv
  <2>3. \A u \in Threads : u \in joined' => at'[u] = "ended"
    BY <1>7, <1>8, <1>3 DEF IInv, ThreadInv
  <2> QED
    BY <1>1, <2>1, <2>2, <2>3 DEF ThreadInv
<1>13. PoolInv'
  <2>1. ASSUME NEW q \in Projects \ {p}, pool[q] # NoThread
        PROVE  pool[q] \in Threads /\ pool[q] # t /\ pool[q] \notin joined'
    <3>1. pool[q] \in Threads
      BY <2>1 DEF IInv, TypeOK
    <3>2. at[pool[q]] # "new" /\ job[pool[q]].project = q /\ pool[q] \notin joined
      BY <2>1 DEF IInv, PoolInv
    <3>3. pool[p] # NoThread => job[pool[p]].project = p
      BY <1>2 DEF IInv, PoolInv
    <3> QED
      BY <1>4, <3>1, <3>2, <3>3 DEF p
  <2>2. ASSUME NEW q \in Projects \ {p}, pool'[q] # NoThread
        PROVE  /\ status'[q] # "absent" /\ at'[pool'[q]] # "new"
               /\ job'[pool'[q]].project = q /\ pool'[q] \notin joined'
    BY <2>1, <2>2, <1>8, <1>10 DEF IInv, PoolInv
  <2>3. status'[p] # "absent" /\ at'[t] # "new" /\ job'[t].project = p /\ t \notin joined'
    BY <1>2, <1>7, <1>9
  <2> QED
    BY <2>2, <2>3, <1>10 DEF PoolInv
<1>14. HandlerInv'
  BY <1>1 DEF HandlerInv, Free
<1>15. StatusInv'
  <2>1. status[p] \notin StatusKinds \ GateStatuses
    BY <1>2 DEF IInv, StatusInv, p
  <2>2. ASSUME NEW q \in Projects \ {p}, status[q] \in StatusKinds \ GateStatuses
        PROVE  /\ pool'[q] # NoThread
               /\ at'[pool'[q]] \in {"running", "closing"}
               /\ job'[pool'[q]] = [project |-> q, kind |-> status[q]]
    <3>1. /\ pool[q] # NoThread
          /\ at[pool[q]] \in {"running", "closing"}
          /\ job[pool[q]] = [project |-> q, kind |-> status[q]]
      BY <2>2 DEF IInv, StatusInv
    <3>2. pool[q] \in Threads /\ pool[q] # t
      BY <3>1, <1>4 DEF IInv, TypeOK
    <3> QED
      BY <3>1, <3>2, <1>8, <1>10
  <2> QED
    BY <2>1, <2>2 DEF StatusInv
<1>16. NoJoinableThreadDropped'
  <2>1. ASSUME NEW u \in Threads, u # t, at'[u] # "new", u \notin joined'
        PROVE  pool'[job'[u].project] = u
    <3>1. at[u] # "new" /\ u \notin joined /\ job'[u] = job[u]
      BY <2>1, <1>8
    <3>2. pool[job[u].project] = u /\ job[u].project \in Projects
      BY <3>1 DEF IInv, NoJoinableThreadDropped, ThreadInv
    <3>3. job[u].project # p
      BY <3>2, <2>1 DEF Threads, NoThread, p
    <3> QED
      BY <3>1, <3>2, <3>3, <1>10
  <2> QED
    BY <2>1, <1>9, <1>10 DEF NoJoinableThreadDropped
<1> QED
  BY <1>11, <1>12, <1>13, <1>14, <1>15, <1>16 DEF IInv

\* The joined thread leaves the pool, its project's status becomes Aborted or
\* the project is gone.
LEMMA RemoveAfterJoinStep ==
  ASSUME IInv, RemoveAfterJoin
  PROVE  IInv'
<1> DEFINE p == handler.project
           t == pool[p]
           s == IF handler.request = "delete" THEN "absent" ELSE "Aborted"
<1>1. /\ handler.phase = "joining"
      /\ at[t] = "ended"
      /\ joined' = joined \cup {t}
      /\ pool' = [pool EXCEPT ![p] = NoThread]
      /\ status' = [status EXCEPT ![p] = s]
      /\ handler' = Free
      /\ UNCHANGED <<at, spawned, job, systemStatus, signalled, crashed>>
  BY DEF RemoveAfterJoin, JoinReturns
<1>2. p \in Projects /\ t \in Threads /\ t # NoThread
  BY <1>1 DEF IInv, HandlerInv, TypeOK
<1>3. job[t].project = p
  BY <1>2 DEF IInv, PoolInv
<1>4. s \in AllStatuses \cup {"absent"} /\ s \notin StatusKinds
  BY DEF AllStatuses, FreeStatuses, StatusKinds
<1>5. monitorProject' \in Projects \cup {"none"}
  BY DEF RemoveAfterJoin, IInv, TypeOK
<1>6. handler' \in [request : {"none", "start", "stop", "stopMonitor", "delete"},
                    project : Projects \cup {"none"}, kind : Kinds \cup {"none"},
                    phase : {"none", "checking", "joining"}]
  BY <1>1 DEF Free
<1> HIDE DEF s, p
<1>7. /\ pool'[p] = NoThread /\ status'[p] = s
      /\ \A q \in Projects \ {p} : pool'[q] = pool[q] /\ status'[q] = status[q]
  BY <1>1, <1>2 DEF IInv, TypeOK, StatusTypeOK
<1>8. TypeOK'
  <2>1. StatusTypeOK' /\ pool' \in [Projects -> Threads \cup {NoThread}]
    BY <1>1, <1>2, <1>4 DEF IInv, TypeOK, StatusTypeOK
  <2> QED
    BY <1>1, <1>2, <1>5, <1>6, <2>1 DEF IInv, TypeOK
<1>9. ThreadInv'
  BY <1>1, <1>2 DEF IInv, ThreadInv
<1>10. PoolInv'
  BY <1>1, <1>3, <1>7 DEF IInv, PoolInv
<1>11. HandlerInv'
  BY <1>1 DEF HandlerInv, Free
<1>12. StatusInv'
  BY <1>1, <1>4, <1>7 DEF IInv, StatusInv
<1>13. NoJoinableThreadDropped'
  <2>1. ASSUME NEW u \in Threads, at[u] # "new", u \notin joined, u # t
        PROVE  pool'[job[u].project] = u
    <3>1. pool[job[u].project] = u /\ job[u].project \in Projects
      BY <2>1 DEF IInv, NoJoinableThreadDropped, ThreadInv
    <3>2. job[u].project # p
      BY <3>1, <2>1
    <3> QED
      BY <3>1, <3>2, <1>7
  <2> QED
    BY <1>1, <2>1 DEF NoJoinableThreadDropped
<1> QED
  BY <1>8, <1>9, <1>10, <1>11, <1>12, <1>13 DEF IInv

LEMMA HandlerStepIInv ==
  ASSUME IInv, HandlerStep
  PROVE  IInv'
<1>1. CASE StartWithEmptyPool
  BY <1>1, SpawnStep DEF StartWithEmptyPool, IInv, HandlerInv
<1>2. CASE StartRefused
  <2>1. HandlerInv' /\ handler' \in
          [request : {"none", "start", "stop", "stopMonitor", "delete"},
           project : Projects \cup {"none"}, kind : Kinds \cup {"none"},
           phase : {"none", "checking", "joining"}]
    BY <1>2 DEF StartRefused, HandlerInv, Free
  <2> QED
    BY <1>2, <2>1, RequestStep DEF StartRefused, IInv, TypeOK
<1>3. CASE StartJoins
  <2>1. handler' \in
          [request : {"none", "start", "stop", "stopMonitor", "delete"},
           project : Projects \cup {"none"}, kind : Kinds \cup {"none"},
           phase : {"none", "checking", "joining"}]
    BY <1>3 DEF StartJoins, IInv, TypeOK
  <2>2. /\ handler.request = "start" /\ handler' = [handler EXCEPT !.phase = "joining"]
        /\ pool[handler.project] # NoThread
        /\ UNCHANGED <<status, pool, spawned>>
    BY <1>3 DEF StartJoins, threadVars, IInv, HandlerInv
  <2>3. /\ handler'.request = "start" /\ handler'.phase = "joining"
        /\ handler'.project = handler.project /\ handler'.kind = handler.kind
    BY <2>2 DEF IInv, TypeOK
  <2>4. HandlerInv'
    BY <1>3, <2>2, <2>3 DEF StartJoins, IInv, HandlerInv, Free
  <2> QED
    BY <1>3, <2>1, <2>4, RequestStep DEF StartJoins, IInv, TypeOK
<1>4. CASE StartAfterJoin
  BY <1>4, SpawnStep DEF StartAfterJoin, JoinReturns, IInv, HandlerInv
<1>5. CASE RemoveAfterJoin
  BY <1>5, RemoveAfterJoinStep
<1> QED
  BY <1>1, <1>2, <1>3, <1>4, <1>5 DEF HandlerStep

LEMMA ThreadStepIInv ==
  ASSUME IInv, NEW t \in Threads, ThreadStep(t)
  PROVE  IInv'
<1> DEFINE Moves(l) == /\ l \in Labels \ {"new"}
                       /\ at[t] \notin {"new", "ended"}
                       /\ at' = [at EXCEPT ![t] = l]
           Others == /\ systemStatus' \in {"Idle", "Monitoring"}
                     /\ monitorProject' \in Projects \cup {"none"}
                     /\ crashed' \in BOOLEAN
                     /\ UNCHANGED <<handlerVars, threadVars>>
<1> USE DEF Labels
<1>1. "Idle" \in AllStatuses /\ "Finished" \in AllStatuses /\ "Aborted" \in AllStatuses
      /\ "Finished" \in FreeStatuses /\ "Aborted" \in FreeStatuses
      /\ "Computing" \in AllStatuses /\ "Scanning" \in AllStatuses
      /\ "Monitoring" \in AllStatuses /\ "DeviceConfiguring" \in AllStatuses
  BY DEF AllStatuses, FreeStatuses, ComputeStatuses, DeviceStatuses
<1>2. at[t] # "new" => job[t].project \in Projects /\ job[t].kind \in Kinds
      /\ job[t].kind \in AllStatuses
  BY <1>1, CoreAssumption DEF IInv, ThreadInv
<1>3. CASE JobFailsToStart(t)
  <2>1. Moves("ended") /\ Others /\ UNCHANGED status /\ at[t] = "starting"
    BY <1>3 DEF JobFailsToStart, Move, IInv, TypeOK
  <2> QED
    BY <1>1, <2>1, ThreadStepKeeps
<1>4. CASE JobRuns(t)
  <2>1. Moves("running") /\ Others /\ SetStatus(t, job[t].kind)
    BY <1>4 DEF JobRuns, Move, IInv, TypeOK
  <2> QED
    BY <1>2, <2>1, ThreadStepKeeps
<1>5. CASE JobCompletes(t)
  <2>1. Moves("finishing") /\ Others /\ SetStatus(t, "Finished")
    BY <1>5 DEF JobCompletes, Move, IInv, TypeOK
  <2> QED
    BY <1>1, <2>1, ThreadStepKeeps
<1>6. CASE JobEnds(t)
  <2>1. Moves("ended") /\ Others /\ UNCHANGED status /\ at[t] = "finishing"
    BY <1>6 DEF JobEnds, Move, IInv, TypeOK
  <2> QED
    BY <1>1, <2>1, ThreadStepKeeps
<1>7. CASE JobAborts(t)
  <2>1. Moves("ended") /\ Others /\ SetStatus(t, "Aborted")
    BY <1>7 DEF JobAborts, Move, IInv, TypeOK
  <2> QED
    BY <1>1, <2>1, ThreadStepKeeps
<1>8. CASE MonitorStartsEngine(t)
  <2>1. Moves("engine") /\ Others /\ UNCHANGED status /\ at[t] = "starting"
    BY <1>8, <1>2 DEF MonitorStartsEngine, MonitorAt, Move, IInv, TypeOK
  <2> QED
    BY <1>1, <2>1, ThreadStepKeeps
<1>9. CASE MonitorRuns(t)
  <2>1. Moves("running") /\ Others /\ SetStatus(t, "Monitoring")
        /\ job[t].kind = "Monitoring"
    BY <1>9 DEF MonitorRuns, Move, IInv, TypeOK
  <2> QED
    BY <1>1, <2>1, ThreadStepKeeps
<1>10. CASE MonitorStopsEngine(t)
  <2>1. Moves("closing") /\ Others /\ UNCHANGED status
    BY <1>10 DEF MonitorStopsEngine, Move, IInv, TypeOK
  <2> QED
    BY <1>1, <2>1, ThreadStepKeeps
<1>11. CASE MonitorEnds(t)
  <2>1. Moves("ended") /\ Others /\ SetStatus(t, "Finished")
    BY <1>11 DEF MonitorEnds, Move, IInv, TypeOK
  <2> QED
    BY <1>1, <2>1, ThreadStepKeeps
<1> QED
  BY <1>3, <1>4, <1>5, <1>6, <1>7, <1>8, <1>9, <1>10, <1>11 DEF ThreadStep

LEMMA NextIInv == IInv /\ [Next]_vars => IInv'
<1> SUFFICES ASSUME IInv, [Next]_vars PROVE IInv'
  OBVIOUS
<1>1. ASSUME NEW p \in Projects, Request(p) PROVE IInv'
  BY <1>1, StartRequestStep, StopRequestStep, DeleteRequestStep, GateRequestStep
     DEF Request
<1>2. CASE HandlerStep
  BY <1>2, HandlerStepIInv
<1>3. ASSUME NEW t \in Threads, ThreadStep(t) PROVE IInv'
  BY <1>3, ThreadStepIInv
<1>4. CASE UNCHANGED vars
  <2> USE <1>4 DEF vars
  <2>1. TypeOK'
    BY DEF IInv, TypeOK, StatusTypeOK
  <2>2. ThreadInv' /\ PoolInv' /\ HandlerInv' /\ StatusInv' /\ NoJoinableThreadDropped'
    BY DEF IInv, ThreadInv, PoolInv, HandlerInv, StatusInv, NoJoinableThreadDropped
  <2> QED
    BY <2>1, <2>2 DEF IInv
<1> QED
  BY <1>1, <1>2, <1>3, <1>4 DEF Next

LEMMA SpecIInv == Spec => []IInv
BY InitIInv, NextIInv, PTL DEF Spec

-----------------------------------------------------------------------------

\* The types of all variables.
THEOREM TypeCorrect == Spec => []TypeOK
<1>1. IInv => TypeOK
  BY DEF IInv
<1> QED
  BY SpecIInv, <1>1, PTL

\* CheckWSJobCanStart, StopWSJob and DeleteProject never drop the handle of a
\* thread that is still joinable, and a project never has two threads.
THEOREM HandlesAreJoined == Spec => []NoJoinableThreadDropped
<1>1. IInv => NoJoinableThreadDropped
  BY DEF IInv
<1> QED
  BY SpecIInv, <1>1, PTL

\* No job thread outlives its project.
THEOREM DeletionIsClean == Spec => []DeletedProjectsHaveNoJob
<1>1. IInv => DeletedProjectsHaveNoJob
  <2> SUFFICES ASSUME IInv, NEW t \in Threads, Alive(t)
               PROVE  status[job[t].project] # "absent"
    BY DEF DeletedProjectsHaveNoJob
  <2>1. at[t] # "new" /\ t \notin joined
    BY DEF Alive, IInv, ThreadInv
  <2>2. job[t].project \in Projects /\ pool[job[t].project] = t
    BY <2>1 DEF IInv, ThreadInv, NoJoinableThreadDropped
  <2> QED
    BY <2>2 DEF IInv, PoolInv, Threads, NoThread
<1> QED
  BY SpecIInv, <1>1, PTL

\* No project is left in a status of a job that is no longer there.
THEOREM NoOrphanedStatus == Spec => []StatusHasAJob
<1>1. IInv => StatusHasAJob
  BY DEF IInv, StatusInv, StatusHasAJob, Alive
<1> QED
  BY SpecIInv, <1>1, PTL

-----------------------------------------------------------------------------
(***************************************************************************)
(* What a request that joins a thread under g_core.mutex_ waits for.       *)
(***************************************************************************)

\* The thread a request other than a start joins has been told to stop.
SignalInv ==
  handler.phase = "joining" /\ handler.request # "start" =>
    pool[handler.project] \in signalled

\* Only a monitor has a process engine.
EngineInv == \A t \in Threads : at[t] = "engine" => job[t].kind = "Monitoring"

\* The guards of the thread's steps: it waits for nothing, or for a promise
\* that is set.
CanMove(t) ==
  \/ at[t] \in {"starting", "finishing", "closing"}
  \/ at[t] = "engine" /\ job[t].kind = "Monitoring"
  \/ at[t] = "running" /\ (job[t].kind # "Monitoring" \/ t \in signalled)

\* A request that joins a thread under g_core.mutex_ finds it ended or able to
\* go on without any other request, unless it is a start that joins a monitor.
JoinCanReturn ==
  handler.phase = "joining" =>
    LET t == pool[handler.project] IN at[t] = "ended" \/ CanMove(t) \/ JoinsMonitor

LEMMA SignalInit == Init => SignalInv /\ EngineInv
BY DEF Init, SignalInv, EngineInv, Free

LEMMA RequestSignals ==
  ASSUME IInv, SignalInv, NEW p \in Projects, Request(p)
  PROVE  SignalInv' /\ UNCHANGED <<at, job>>
<1>1. ASSUME NEW k \in Kinds, StartRequest(p, k) PROVE SignalInv' /\ UNCHANGED <<at, job>>
  BY <1>1 DEF StartRequest, threadVars, SignalInv
<1>2. ASSUME NEW request \in {"stop", "stopMonitor", "delete"}, SignalAndJoin(p, request),
             UNCHANGED pool
      PROVE  SignalInv'
  BY <1>2 DEF SignalAndJoin, SignalInv
<1>3. CASE StopRequest(p)
  BY <1>2, <1>3 DEF StopRequest, threadVars
<1>4. ASSUME UNCHANGED <<handler, signalled, pool>> PROVE SignalInv'
  BY <1>4 DEF SignalInv
<1>5. CASE StopMonitorRequest(p)
  BY <1>2, <1>4, <1>5 DEF StopMonitorRequest, threadVars
<1>6. CASE DeleteRequest(p)
  BY <1>2, <1>4, <1>6 DEF DeleteRequest, threadVars
<1>7. ASSUME NEW s \in GateStatuses, GateRequest(p, s) PROVE SignalInv' /\ UNCHANGED <<at, job>>
  BY <1>4, <1>7 DEF GateRequest, threadVars
<1> QED
  BY <1>1, <1>3, <1>5, <1>6, <1>7 DEF Request

LEMMA HandlerSignals ==
  ASSUME IInv, EngineInv, HandlerStep
  PROVE  SignalInv' /\ EngineInv'
<1>1. ASSUME Spawn PROVE SignalInv' /\ EngineInv'
  <2>1. SignalInv'
    BY <1>1 DEF Spawn, SignalInv, Free
  <2>2. EngineInv'
    BY <1>1 DEF Spawn, EngineInv, IInv, TypeOK
  <2> QED
    BY <2>1, <2>2
<1>2. CASE StartWithEmptyPool \/ StartAfterJoin
  BY <1>1, <1>2 DEF StartWithEmptyPool, StartAfterJoin
<1>3. CASE StartRefused
  BY <1>3 DEF StartRefused, threadVars, SignalInv, EngineInv, Free
<1>4. CASE StartJoins
  <2>1. handler'.request = "start" /\ UNCHANGED <<at, job>>
    BY <1>4 DEF StartJoins, threadVars, IInv, TypeOK, HandlerInv
  <2> QED
    BY <2>1 DEF SignalInv, EngineInv
<1>5. CASE RemoveAfterJoin
  BY <1>5 DEF RemoveAfterJoin, SignalInv, EngineInv, Free
<1> QED
  BY <1>2, <1>3, <1>4, <1>5 DEF HandlerStep

LEMMA ThreadSignals ==
  ASSUME IInv, SignalInv, EngineInv, NEW t \in Threads, ThreadStep(t)
  PROVE  SignalInv' /\ EngineInv'
<1>1. UNCHANGED <<handler, pool, signalled, job>>
  BY DEF ThreadStep, JobFailsToStart, JobRuns, JobCompletes, JobEnds, JobAborts,
     MonitorStartsEngine, MonitorRuns, MonitorStopsEngine, MonitorEnds, handlerVars, threadVars
<1>2. SignalInv'
  BY <1>1 DEF SignalInv
<1>3. PICK l \in Labels : at' = [at EXCEPT ![t] = l]
                          /\ (l = "engine" => job[t].kind = "Monitoring")
  BY DEF ThreadStep, JobFailsToStart, JobRuns, JobCompletes, JobEnds, JobAborts,
     MonitorStartsEngine, MonitorRuns, MonitorStopsEngine, MonitorEnds, Move, Labels
<1>4. EngineInv'
  BY <1>1, <1>3 DEF EngineInv, IInv, TypeOK
<1> QED
  BY <1>2, <1>4

LEMMA NextSignals ==
  IInv /\ SignalInv /\ EngineInv /\ [Next]_vars => SignalInv' /\ EngineInv'
<1> SUFFICES ASSUME IInv, SignalInv, EngineInv, [Next]_vars PROVE SignalInv' /\ EngineInv'
  OBVIOUS
<1>1. ASSUME NEW p \in Projects, Request(p) PROVE SignalInv' /\ EngineInv'
  BY <1>1, RequestSignals DEF EngineInv
<1>2. CASE HandlerStep
  BY <1>2, HandlerSignals
<1>3. ASSUME NEW t \in Threads, ThreadStep(t) PROVE SignalInv' /\ EngineInv'
  BY <1>3, ThreadSignals
<1>4. CASE UNCHANGED vars
  BY <1>4 DEF vars, SignalInv, EngineInv, threadVars
<1> QED
  BY <1>1, <1>2, <1>3, <1>4 DEF Next

\* RemoveWSJob sets the promise before it joins and CheckWSJobCanStart joins
\* what it takes for ended: whoever keeps g_core.mutex_ for a join waits for a
\* thread that can go on by itself - except a start that finds the monitor in
\* the pool.  With threads scheduled, this is why requests return.
THEOREM JoinsReturn == Spec => []JoinCanReturn
<1>1. Init => SignalInv /\ EngineInv
  BY SignalInit
<1>2. IInv /\ SignalInv /\ EngineInv /\ [Next]_vars => SignalInv' /\ EngineInv'
  BY NextSignals
<1>3. IInv /\ SignalInv /\ EngineInv => JoinCanReturn
  <2> DEFINE t == pool[handler.project]
  <2> SUFFICES ASSUME IInv, SignalInv, EngineInv, handler.phase = "joining"
               PROVE  at[t] = "ended" \/ CanMove(t) \/ JoinsMonitor
    BY DEF JoinCanReturn
  <2>1. /\ handler.project \in Projects /\ t \in Threads
        /\ at[t] # "new" /\ at[t] \in Labels
    BY DEF IInv, HandlerInv, PoolInv, TypeOK, Labels
  <2>2. handler.request # "start" => t \in signalled
    BY DEF SignalInv
  <2> HIDE DEF t
  <2>3. at[t] = "engine" => job[t].kind = "Monitoring"
    BY <2>1 DEF EngineInv
  <2>4. handler.request = "start" /\ job[t].kind = "Monitoring" => JoinsMonitor
    BY DEF JoinsMonitor, t
  <2> QED
    BY <2>1, <2>2, <2>3, <2>4 DEF CanMove, Labels
<1> QED
  BY <1>1, <1>2, <1>3, SpecIInv, PTL DEF Spec

=============================================================================

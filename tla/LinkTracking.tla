----------------------------- MODULE LinkTracking -----------------------------
(***************************************************************************)
(* How a running monitor keeps the links of the operation project in step  *)
(* with the network (sebastian, modules/monitor: monitor_diff.go,          *)
(* link_diff.go, monitor_helper.go).                                       *)
(*                                                                         *)
(* Two goroutines create and delete links in cogsworth and record what     *)
(* they did in m.currentLinkMap.  The callback handles what the device     *)
(* manager (NM) reports as it changes.  The updater compares, round after  *)
(* round, the baseline with all that NM knows.  They share nothing but one *)
(* mutex per link; both look links up before they take it.                 *)
(*                                                                         *)
(* A step that takes the mutex of a link also does its request to          *)
(* cogsworth, and one that records the outcome gives the mutex back.       *)
(***************************************************************************)
EXTENDS Naturals, Sequences, FiniteSets

CONSTANTS
  Links,            \* links, each named by its two ports (getMafLinkIdentifier)
  Ports, Devices,
  From, To,         \* the ports of each link, in the order of their addresses
  DeviceOf,         \* the device of each port
  Baseline,         \* the links and
  BaselineDevices,  \* devices of the activated baseline
  MaxLinkChanges,   \* bound on the changes of links in the network
  MaxDeviceChanges, \* bound on the changes of devices
  MaxFaults,        \* bound on requests to cogsworth that fail
  None

Ends(l) == {From[l], To[l]}
DevicesOf(l) == {DeviceOf[e] : e \in Ends(l)}
Conflict(k, l) == Ends(k) \cap Ends(l) # {}

ASSUME LinkAssumption ==
  /\ IsFiniteSet(Links) /\ None \notin Links
  /\ From \in [Links -> Ports] /\ To \in [Links -> Ports]
  /\ DeviceOf \in [Ports -> Devices]
  /\ \A l \in Links : From[l] # To[l]
  /\ Baseline \subseteq Links /\ BaselineDevices \subseteq Devices
  /\ \A k, l \in Baseline : Conflict(k, l) => k = l
  /\ \A l \in Baseline : DevicesOf(l) \subseteq BaselineDevices
  /\ MaxLinkChanges \in Nat /\ MaxDeviceChanges \in Nat /\ MaxFaults \in Nat

\* Identities of link objects.  cogsworth never uses one twice; here one that is
\* nowhere in use any more stands for a new one.
Nil == 0      \* no link object
Gone == 1     \* a link object one of whose devices was deleted
Ids == 2 .. 3 * Cardinality(Links) + 4

VARIABLES
  network,  \* NM: what it knows of each link: absent, up, down
  alive,    \* NM: the devices it reaches
  diffs,    \* NM: changes of links not yet handed to the callback
  changes,  \* bound: changes of links and of devices so far
  core,     \* cogsworth: the link objects of the operation project
  present,  \* the devices of the operation project (also m.currentDeviceMap)
  maf,      \* m.mafLinksCache
  current,  \* m.currentLinkMap
  cb,       \* the callback: its step, the link and the object it works on
  phase,    \* the updater: idle, sync, devices, read, copy and the passes of its round
  todo,     \* links the pass has still to look at
  seen,     \* the copy of NM's links or of m.mafLinksCache it works with
  cur,      \* its copy of m.currentLinkMap
  ports,    \* its currentLinkEndpointMap: the link of cur that occupies a port
  at,       \* pick, evict, evicted, create, created, updated
  item,     \* the link it is installing or updating
  victims,  \* the links to delete before
  faults,
  unsure    \* history: cogsworth did a request whose reply was lost

nmVars == <<network, alive, diffs, changes>>
copyVars == <<seen, cur, ports>>
jobVars == <<at, item, victims>>
upVars == <<phase, todo, copyVars, jobVars>>
faultVars == <<faults, unsure>>
vars == <<nmVars, core, present, maf, current, cb, upVars, faultVars>>

NoJob == [step |-> "idle", link |-> None, id |-> Nil]

\* onStartMonitor: the operation project is the baseline, NM is reset.
Init ==
  /\ network = [l \in Links |-> "absent"]
  /\ alive = {} /\ diffs = <<>> /\ changes = [links |-> 0, devices |-> 0]
  /\ \E id \in [Links -> Ids \cup {Nil}] :
       /\ \A l \in Links : id[l] # Nil <=> l \in Baseline
       /\ \A k, l \in Baseline : id[k] = id[l] => k = l
       /\ \A l \in Baseline : id[l] <= Cardinality(Baseline) + 1
       /\ core = id /\ current = id
  /\ present = BaselineDevices
  /\ maf = network
  /\ cb = NoJob
  /\ phase = "idle" /\ todo = {}
  /\ seen = network
  /\ cur = [l \in Links |-> Nil]
  /\ ports = [e \in Ports |-> None]
  /\ at = "pick" /\ item = None /\ victims = <<>>
  /\ faults = 0 /\ unsure = FALSE

-----------------------------------------------------------------------------
(***************************************************************************)
(* The network, as NM records and reports it.                              *)
(***************************************************************************)

ChangeLink(l, s) ==
  /\ changes.links < MaxLinkChanges
  /\ changes' = [changes EXCEPT !.links = @ + 1]
  /\ network[l] # s
  /\ network' = [network EXCEPT ![l] = s]
  /\ diffs' = Append(diffs, [link |-> l, status |-> s,
                             kind |-> IF network[l] = "absent" THEN "added"
                                      ELSE IF s = "absent" THEN "deleted" ELSE "updated"])
  /\ UNCHANGED <<alive, core, present, maf, current, cb, upVars, faultVars>>

ChangeDevice(d) ==
  /\ changes.devices < MaxDeviceChanges
  /\ changes' = [changes EXCEPT !.devices = @ + 1]
  /\ alive' = IF d \in alive THEN alive \ {d} ELSE alive \cup {d}
  /\ UNCHANGED <<network, diffs, core, present, maf, current, cb, upVars, faultVars>>

-----------------------------------------------------------------------------
(***************************************************************************)
(* Requests to cogsworth.  A request may fail, and it may be done although *)
(* the caller sees a failure.                                              *)
(***************************************************************************)

Fault == faults < MaxFaults /\ faults' = faults + 1

InUse == {core[l] : l \in Links} \cup {current[l] : l \in Links}
           \cup {cur[l] : l \in Links} \cup {cb.id}

NewId == CHOOSE i \in Ids : i \notin InUse

\* ActCore::CreateLink, after the monitor has looked up the devices: no other
\* link may occupy one of the ports.
CanCreate(l) ==
  /\ DevicesOf(l) \subseteq present
  /\ \A k \in Links : core[k] # Nil => ~Conflict(k, l)

Created(l) == CanCreate(l) /\ core' = [core EXCEPT ![l] = NewId]

\* ActCore::DeleteLink finds a link by its id.
Deleted(l, id) == id # Nil /\ core[l] = id /\ core' = [core EXCEPT ![l] = Nil]

Succeeds(request) == request /\ UNCHANGED faultVars

Fails(possible, request) ==
  \/ ~possible /\ UNCHANGED <<core, faultVars>>
  \/ Fault /\ UNCHANGED <<core, unsure>>
  \/ Fault /\ request /\ unsure' = TRUE

CreateFails(l) == Fails(CanCreate(l), Created(l))
DeleteFails(l, id) == Fails(id # Nil /\ core[l] = id, Deleted(l, id))

-----------------------------------------------------------------------------
(***************************************************************************)
(* The callback: onAddMafLink, onUpdateMafLink, onDeleteMafLink.           *)
(***************************************************************************)

CallbackLeaves == UNCHANGED <<network, alive, changes, present, upVars>>

\* The MAF cache follows, and the current link is looked up; an update of a link
\* the cache does not have is dropped.
Deliver ==
  /\ cb.step = "idle" /\ diffs # <<>>
  /\ diffs' = Tail(diffs)
  /\ LET m == Head(diffs) IN
       IF m.kind = "updated" /\ maf[m.link] = "absent"
         THEN UNCHANGED <<maf, cb>>
         ELSE /\ maf' = [maf EXCEPT ![m.link] = m.status]
              /\ cb' = IF m.status = "up" THEN [cb EXCEPT !.step = "up", !.link = m.link]
                       ELSE IF m.kind = "added" THEN NoJob
                       ELSE [cb EXCEPT !.step = "down", !.link = m.link]
  /\ UNCHANGED <<core, current, faultVars>> /\ CallbackLeaves

\* findActLinkInCurrentByMafLink, before the mutex is taken
Exists(l) == current[l] \notin {Nil, Gone}

Examine ==
  /\ cb.step \in {"up", "down"}
  /\ LET l == cb.link IN
       cb' = IF cb.step = "up" /\ ~Exists(l) THEN [cb EXCEPT !.step = "creating"]
             ELSE IF cb.step = "down" /\ Exists(l) /\ l \notin Baseline
               THEN [cb EXCEPT !.step = "deleting", !.id = current[l]]
             ELSE NoJob
  /\ UNCHANGED <<diffs, core, maf, current, faultVars>> /\ CallbackLeaves

UpdaterHolds(l) ==
  \/ at = "evicted" /\ Head(victims) = l
  \/ at \in {"created", "updated"} /\ item = l

CallbackCreates ==
  /\ cb.step = "creating" /\ ~UpdaterHolds(cb.link)
  /\ \/ /\ Succeeds(Created(cb.link))
        /\ cb' = [cb EXCEPT !.step = "recording", !.id = NewId]
     \/ CreateFails(cb.link) /\ cb' = NoJob
  /\ UNCHANGED <<diffs, maf, current>> /\ CallbackLeaves

\* FAULT: a link that cogsworth does not find counts as deleted.
CallbackDeletesUnfound ==
  /\ cb.step = "deleting" /\ ~UpdaterHolds(cb.link)
  /\ \/ Succeeds(Deleted(cb.link, cb.id))
     \/ DeleteFails(cb.link, cb.id)
  /\ cb' = [cb EXCEPT !.step = "recording", !.id = Nil]
  /\ UNCHANGED <<diffs, maf, current>> /\ CallbackLeaves

CallbackDeletes ==
  /\ cb.step = "deleting" /\ ~UpdaterHolds(cb.link)
  /\ \/ /\ Succeeds(Deleted(cb.link, cb.id))
        /\ cb' = [cb EXCEPT !.step = "recording", !.id = Nil]
     \/ DeleteFails(cb.link, cb.id) /\ cb' = NoJob
  /\ UNCHANGED <<diffs, maf, current>> /\ CallbackLeaves

\* m.currentLinkMap.Set or Delete
CallbackRecords ==
  /\ cb.step = "recording"
  /\ current' = [current EXCEPT ![cb.link] = cb.id]
  /\ cb' = NoJob
  /\ UNCHANGED <<diffs, core, maf, faultVars>> /\ CallbackLeaves

-----------------------------------------------------------------------------
(***************************************************************************)
(* The updater: one round of periodicallyUpdateTopology.                   *)
(***************************************************************************)

UpdaterLeaves == UNCHANGED <<network, alive, diffs, changes, cb>>

Goto(p) == phase' = p

\* syncLatestMafDevicesAndLinks reads NM ...
BeginRound ==
  /\ phase = "idle" /\ Goto("sync")
  /\ seen' = network
  /\ UNCHANGED <<core, present, maf, current, todo, cur, ports, jobVars, faultVars>>
  /\ UpdaterLeaves

\* ... and later replaces the cache by what it read.
Sync ==
  /\ phase = "sync" /\ Goto("devices")
  /\ maf' = seen
  /\ todo' = Devices
  /\ UNCHANGED <<core, present, current, copyVars, jobVars, faultVars>>
  /\ UpdaterLeaves

DeviceDone(d) ==
  /\ phase = "devices" /\ d \in todo
  /\ todo' = todo \ {d}
  /\ UNCHANGED <<phase, maf, seen, cur, ports, jobVars>>

\* updateTopologyDevice deletes a device NM does not reach; cogsworth deletes its
\* links, which nobody tells m.currentLinkMap.
DeleteDevice(d) ==
  LET mine == {l \in Links : d \in DevicesOf(l)} IN
  /\ DeviceDone(d)
  /\ d \in present \ (alive \cup BaselineDevices)
  /\ present' = present \ {d}
  /\ core' = [l \in Links |-> IF l \in mine THEN Nil ELSE core[l]]
  /\ current' = [l \in Links |-> IF l \in mine /\ current[l] # Nil THEN Gone
                                 ELSE current[l]]
  /\ cb' = IF cb.step = "recording" /\ cb.link \in mine /\ cb.id # Nil
             THEN [cb EXCEPT !.id = Gone] ELSE cb
  /\ UNCHANGED <<network, alive, diffs, changes, faultVars>>

CreateDevice(d) ==
  /\ DeviceDone(d)
  /\ d \in alive \ present
  /\ present' = present \cup {d}
  /\ UNCHANGED <<core, current, faultVars>> /\ UpdaterLeaves

\* Nothing to do, or a request about the device fails.
KeepDevice(d) ==
  /\ DeviceDone(d)
  /\ IF d \in present <=> d \in alive \cup BaselineDevices THEN UNCHANGED faults ELSE Fault
  /\ UNCHANGED <<core, present, current, unsure>>
  /\ UpdaterLeaves

\* updateTopologyLink copies the two caches, one after the other.
Read ==
  /\ phase = "devices" /\ todo = {} /\ Goto("copy")
  /\ seen' = maf
  /\ UNCHANGED <<core, present, maf, current, todo, cur, ports, jobVars, faultVars>>
  /\ UpdaterLeaves

\* m.currentLinkMap, and the links of it that occupy the ports; one whose
\* device is gone occupies none.
Copy ==
  /\ phase = "copy" /\ Goto("prune")
  /\ cur' = current
  /\ ports' \in [Ports -> Links \cup {None}]
  /\ \A e \in Ports :
       LET here == {l \in Links : Exists(l) /\ e \in Ends(l)} IN
       IF here = {} THEN ports'[e] = None ELSE ports'[e] \in here
  /\ todo' = {l \in Links : current[l] # Nil}
  /\ UNCHANGED <<core, present, maf, current, seen, jobVars, faultVars>>
  /\ UpdaterLeaves

\* ComputeLinkDiff
Actual == {l \in Links : seen[l] = "up"}
Unchanged == Baseline \cap Actual
New == Actual \ Baseline
Rewired == {l \in New : \E b \in Baseline : Conflict(l, b)}

\* The next pass begins when the last has seen its links.
NextPass(from, to, links) ==
  /\ phase = from /\ Goto(to)
  /\ at = "pick" /\ todo = {}
  /\ todo' = links
  /\ UNCHANGED <<core, present, maf, current, jobVars, faultVars>>
  /\ UpdaterLeaves

\* updateLinkInfo copies the caches anew.
InfoPass ==
  /\ NextPass("restore", "info", {l \in Links : current[l] # Nil})
  /\ seen' = maf /\ cur' = current /\ ports' = ports

Passes ==
  \/ /\ \/ NextPass("prune", "unchanged", Unchanged)
        \/ NextPass("unchanged", "new", New \ Rewired)
        \/ NextPass("new", "rewired", Rewired)
        \/ NextPass("rewired", "restore", Baseline)
        \/ NextPass("info", "idle", {})
     /\ UNCHANGED copyVars
  \/ InfoPass

\* FAULT: a port without a link is not skipped.
VictimsUnfiltered(l) ==
  IF phase = "restore" THEN <<>> ELSE <<ports[From[l]], ports[To[l]]>>

Found(k) == IF k = None THEN <<>> ELSE <<k>>

\* The links to delete before l can be created.  Only the pass for new links
\* looks the second port up after the first deletion.
Victims(l) ==
  LET first == ports[From[l]]
      second == ports[To[l]] IN
  CASE phase = "restore" -> <<>>
    [] phase = "new" /\ first # None /\ To[l] \in Ends(first) -> <<first>>
    [] OTHER -> Found(first) \o (IF second = first THEN <<>> ELSE Found(second))

\* FAULT: a link of the baseline that is not up is deleted, and restored later.
PrunesBaseline(l) == cur[l] # Gone /\ l \notin Actual

\* A link that is neither up nor in the baseline is deleted.
Prunes(l) == cur[l] # Gone /\ l \notin Baseline \cup New

\* Whether the pass does anything about l.  A link already in the copy of
\* m.currentLinkMap is skipped by its key, whatever its object.
Applies(l) ==
  CASE phase = "prune" -> Prunes(l)
    [] phase = "info" -> seen[l] # "absent"
    [] phase = "restore" ->
         cur[l] = Nil /\ ports[From[l]] = None /\ ports[To[l]] = None
    [] phase = "new" -> cur[l] = Nil
    [] OTHER -> /\ cur[l] = Nil
                /\ ports[From[l]] = ports[To[l]] => ports[From[l]] = None

Job(step, link, links) == at' = step /\ item' = link /\ victims' = links
Drop == Job("pick", None, <<>>)

Pick(l) ==
  /\ phase \in {"prune", "unchanged", "new", "rewired", "restore", "info"}
  /\ at = "pick" /\ l \in todo
  /\ todo' = todo \ {l}
  /\ IF ~Applies(l) THEN Drop
     ELSE IF phase = "prune" THEN Job("evict", None, <<l>>)
     ELSE IF phase = "info" THEN Job("update", l, <<>>)
     ELSE Job(IF Victims(l) = <<>> THEN "create" ELSE "evict", l, Victims(l))
  /\ UNCHANGED <<phase, copyVars, core, present, maf, current, faultVars>>
  /\ UpdaterLeaves

CallbackHolds(l) == cb.step = "recording" /\ cb.link = l

JobLeaves == UNCHANGED <<phase, todo, seen, present, maf>> /\ UpdaterLeaves

\* A link in the way is deleted; if that fails the link is given up.
Evict ==
  LET v == Head(victims) IN
  /\ at = "evict" /\ ~CallbackHolds(v)
  /\ \/ Succeeds(Deleted(v, cur[v])) /\ Job("evicted", item, victims)
     \/ DeleteFails(v, cur[v]) /\ Drop
  /\ UNCHANGED <<cur, ports, current>> /\ JobLeaves

RecordEvicted ==
  LET v == Head(victims)
      rest == Tail(victims) IN
  /\ at = "evicted"
  /\ ports' = [e \in Ports |-> IF e \in Ends(v) THEN None ELSE ports[e]]
  /\ cur' = [cur EXCEPT ![v] = Nil]
  /\ current' = [current EXCEPT ![v] = Nil]
  /\ IF rest # <<>> THEN Job("evict", item, rest)
     ELSE IF item # None THEN Job("create", item, <<>>)
     ELSE Drop
  /\ UNCHANGED <<core, faultVars>> /\ JobLeaves

Create ==
  /\ at = "create" /\ ~CallbackHolds(item)
  /\ \/ Succeeds(Created(item)) /\ Job("created", item, <<>>)
     \/ CreateFails(item) /\ Drop
  /\ UNCHANGED <<cur, ports, current>> /\ JobLeaves

RecordCreated ==
  /\ at = "created"
  /\ ports' = [e \in Ports |-> IF e \in Ends(item) THEN item ELSE ports[e]]
  /\ cur' = [cur EXCEPT ![item] = core[item]]
  /\ current' = [current EXCEPT ![item] = core[item]]
  /\ Drop
  /\ UNCHANGED <<core, faultVars>> /\ JobLeaves

\* updateLinkInfo: the speed of the object it copied, if that is still the
\* link of cogsworth; nothing if it has not changed.
Update ==
  /\ at = "update" /\ ~CallbackHolds(item)
  /\ \/ core[item] = cur[item] /\ Job("updated", item, <<>>) /\ UNCHANGED faults
     \/ Drop /\ UNCHANGED faults
     \/ Drop /\ Fault
  /\ UNCHANGED <<core, cur, ports, current, unsure>> /\ JobLeaves

RecordUpdated ==
  /\ at = "updated"
  /\ current' = [current EXCEPT ![item] = cur[item]]
  /\ Drop
  /\ UNCHANGED <<core, cur, ports, faultVars>> /\ JobLeaves

-----------------------------------------------------------------------------

CallbackStep ==
  Deliver \/ Examine \/ CallbackCreates \/ CallbackDeletes \/ CallbackRecords

UpdaterStep ==
  \/ BeginRound \/ Sync \/ Read \/ Copy \/ Passes
  \/ \E d \in Devices : DeleteDevice(d) \/ CreateDevice(d) \/ KeepDevice(d)
  \/ \E l \in Links : Pick(l)
  \/ Evict \/ RecordEvicted \/ Create \/ RecordCreated \/ Update \/ RecordUpdated

Next ==
  \/ \E l \in Links, s \in {"absent", "up", "down"} : ChangeLink(l, s)
  \/ \E d \in Devices : ChangeDevice(d)
  \/ CallbackStep
  \/ UpdaterStep

Spec == Init /\ [][Next]_vars

\* Both goroutines go on; the network and the faults owe nothing.
FairSpec == Spec /\ WF_vars(CallbackStep) /\ WF_vars(UpdaterStep)

-----------------------------------------------------------------------------
(***************************************************************************)
(* Properties.                                                             *)
(***************************************************************************)

Status == {"absent", "up", "down"}

\* Type invariant.
TypeOK ==
  /\ network \in [Links -> Status] /\ maf \in [Links -> Status]
  /\ seen \in [Links -> Status]
  /\ alive \subseteq Devices /\ present \subseteq Devices
  /\ diffs \in Seq([link : Links, status : Status, kind : {"added", "updated", "deleted"}])
  /\ changes \in [links : 0 .. MaxLinkChanges, devices : 0 .. MaxDeviceChanges]
  /\ core \in [Links -> Ids \cup {Nil}]
  /\ current \in [Links -> Ids \cup {Nil, Gone}]
  /\ cur \in [Links -> Ids \cup {Nil, Gone}]
  /\ cb \in [step : {"idle", "up", "down", "creating", "deleting", "recording"},
             link : Links \cup {None}, id : Ids \cup {Nil, Gone}]
  /\ phase \in {"idle", "sync", "devices", "copy", "prune", "unchanged", "new",
                "rewired", "restore", "info"}
  /\ todo \subseteq Links \cup Devices
  /\ ports \in [Ports -> Links \cup {None}]
  /\ at \in {"pick", "evict", "evicted", "create", "created", "update", "updated"}
  /\ item \in Links \cup {None}
  /\ victims \in Seq(Links)
  /\ faults \in 0 .. MaxFaults
  /\ unsure \in BOOLEAN

\* What the monitor believes of a link is what cogsworth has, whenever neither
\* goroutine is between a request about it and the record of its outcome:
\* however they overtake each other between looking a link up and locking it.
\* Excepted are links of a device that was deleted.
InStep ==
  ~unsure => \A l \in Links :
    \/ UpdaterHolds(l) \/ CallbackHolds(l)
    \/ current[l] = core[l]
    \/ current[l] = Gone /\ core[l] = Nil

Plausible ==
  /\ \A k, l \in Links : network[k] = "up" /\ network[l] = "up" /\ Conflict(k, l) => k = l
  /\ \A l \in Links : network[l] = "up" => DevicesOf(l) \subseteq alive \cup BaselineDevices

\* The links of the operation project once the network is at rest.
Installed == {l \in Links : network[l] = "up" /\ current[l] # Gone}
Expected ==
  Installed \cup {b \in Baseline : \A l \in Installed : Conflict(b, l) => b = l}

\* The operation project comes to show the links that are up and the links of
\* the baseline these leave room for, and stays so.
Converges ==
  <>[](~unsure /\ Plausible => {l \in Links : core[l] # Nil} = Expected)

\* "create new link if not exist in project and not rewired link": a link that
\* stays up and takes no port of a baseline link is in the operation project in
\* the end, also when a device of it went away and came back.
NewLinksAreCreated ==
  <>[](~unsure /\ Plausible =>
         \A l \in Links \ Baseline :
           network[l] = "up" /\ (\A b \in Baseline : ~Conflict(l, b)) => core[l] # Nil)

=============================================================================

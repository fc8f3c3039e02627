---------------------------- MODULE ProjectStatus ----------------------------
(***************************************************************************)
(* The status gate of cogsworth: ActCore::UpdateProjectStatus, which every *)
(* device operation of sebastian passes (PUT /project/{id}/status, served  *)
(* under g_core.mutex_, hence atomic).  The gate is the only thing that    *)
(* keeps two operations from working on devices at the same time.          *)
(***************************************************************************)
CONSTANT Projects

\* Statuses only one project of the system may be in.
DeviceStatuses == {"Deploying", "Syncing", "Scanning", "Monitoring",
                   "TopologyMapping", "BroadcastSearching", "DeviceConfiguring"}

\* Statuses the gate checks but never stores.  The three Intelligent*Sending
\* statuses of the enumeration are one here.
ComputeStatuses == {"Computing", "Comparing", "IntelligentSending"}

FreeStatuses == {"Idle", "Finished", "Aborted"}

AllStatuses == DeviceStatuses \cup ComputeStatuses \cup FreeStatuses

VARIABLE status    \* project_status_list; "absent" for a deleted project

InitStatus == status = [p \in Projects |-> "Idle"]

StatusTypeOK == status \in [Projects -> AllStatuses \cup {"absent"}]

\* Whether a request to put project p into status s is answered by success.
Accepts(p, s) ==
  /\ status[p] # "absent"
  /\ s = "Aborted" => status[p] \notin {"Idle", "Finished"}
  /\ s \in ComputeStatuses \cup DeviceStatuses => status[p] \in FreeStatuses
  /\ s \in DeviceStatuses =>
       \A q \in Projects \ {p} : status[q] \notin DeviceStatuses

\* What an accepted request stores: "Finished" is stored as "Idle", and the
\* branch of the compute statuses leaves the list alone.
Stored(p, s) ==
  CASE s \in ComputeStatuses -> status[p]
    [] s = "Finished"        -> "Idle"
    [] OTHER                 -> s

\* ActCore::UpdateProjectStatus
UpdateProjectStatus(p, s) ==
  IF Accepts(p, s) THEN status' = [status EXCEPT ![p] = Stored(p, s)]
                   ELSE UNCHANGED status

\* The purpose of the gate.
OneDeviceProject ==
  \A p, q \in Projects :
    status[p] \in DeviceStatuses /\ status[q] \in DeviceStatuses => p = q

=============================================================================

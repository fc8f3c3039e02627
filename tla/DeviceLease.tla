----------------------------- MODULE DeviceLease -----------------------------
(***************************************************************************)
(* What the status gate promises the operations that pass it, without      *)
(* projects, statuses, requests or timeouts: a lease of the devices.  It   *)
(* is granted while nobody holds it, devices are worked on only under it,  *)
(* and it is given back only when the work has ended.  A holder may vanish *)
(* with it.  Once a user has taken it away the gate promises no more than  *)
(* that nobody works without having been granted it.                       *)
(***************************************************************************)
CONSTANT Clients

VARIABLES
  holders,   \* clients the lease was granted to and not taken back from
  atWork,    \* those who work on devices
  revoked    \* a user has intervened

vars == <<holders, atWork, revoked>>

Init ==
  /\ holders = {}
  /\ atWork = {}
  /\ revoked = FALSE

Grant(c) ==
  /\ c \notin holders
  /\ revoked \/ holders = {}
  /\ holders' = holders \cup {c}
  /\ UNCHANGED <<atWork, revoked>>

Begin(c) ==
  /\ c \in holders \ atWork
  /\ atWork' = atWork \cup {c}
  /\ UNCHANGED <<holders, revoked>>

End(c) ==
  /\ c \in atWork
  /\ atWork' = atWork \ {c}
  /\ UNCHANGED <<holders, revoked>>

GiveBack(c) ==
  /\ c \in holders \ atWork
  /\ holders' = holders \ {c}
  /\ UNCHANGED <<atWork, revoked>>

Revoke ==
  /\ ~revoked
  /\ revoked' = TRUE
  /\ UNCHANGED <<holders, atWork>>

Next ==
  \/ \E c \in Clients : Grant(c) \/ Begin(c) \/ End(c) \/ GiveBack(c)
  \/ Revoke

Spec == Init /\ [][Next]_vars

=============================================================================

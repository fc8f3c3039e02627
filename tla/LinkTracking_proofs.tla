------------------------- MODULE LinkTracking_proofs -------------------------
(***************************************************************************)
(* That the monitor stays in step with cogsworth, for any links, devices   *)
(* and baseline and any number of changes and failures.                    *)
(***************************************************************************)
EXTENDS LinkTracking, FiniteSetTheorems, SequenceTheorems, TLAPS

CoreType == core \in [Links -> Ids \cup {Nil}]
FaultType == faults \in 0 .. MaxFaults /\ unsure \in BOOLEAN

\* A goroutine past its lookup has a link to work on, and the updater works on
\* one only in a pass.
Shape ==
  /\ cb.step # "idle" => cb.link \in Links
  /\ at \in {"evict", "evicted"} => victims # <<>>
  /\ at \in {"create", "created", "update", "updated"} => item \in Links
  /\ phase \in {"idle", "sync", "devices", "copy"} => at = "pick"

\* What a goroutine that holds a link is about to record is true.
Truth ==
  ~unsure =>
    /\ at = "evicted" => core[Head(victims)] = Nil
    /\ at = "updated" => core[item] = cur[item]
    /\ cb.step = "recording" =>
         \/ cb.id = core[cb.link]
         \/ cb.id = Gone /\ core[cb.link] = Nil

IInv == TypeOK /\ Shape /\ Truth /\ InStep

-----------------------------------------------------------------------------
(***************************************************************************)
(* Identities and requests.                                                *)
(***************************************************************************)

\* A function on the links has at most as many values as there are links.
LEMMA ImageIsSmall ==
  ASSUME NEW S, NEW f \in [Links -> S]
  PROVE  /\ IsFiniteSet({f[l] : l \in Links})
         /\ Cardinality({f[l] : l \in Links}) \in Nat
         /\ Cardinality({f[l] : l \in Links}) <= Cardinality(Links)
<1> DEFINE T == {f[l] : l \in Links}
<1>1. f \in Surjection(Links, T)
  BY DEF Surjection
<1>2. IsFiniteSet(Links)
  BY LinkAssumption
<1> QED
  BY <1>1, <1>2, FS_Surjection, FS_CardinalityType

LEMMA UnionIsSmall ==
  ASSUME NEW S, NEW T, IsFiniteSet(S), IsFiniteSet(T)
  PROVE  /\ IsFiniteSet(S \cup T)
         /\ Cardinality(S \cup T) <= Cardinality(S) + Cardinality(T)
<1>1. Cardinality(S \cap T) \in Nat
  BY FS_Intersection, FS_CardinalityType
<1>2. Cardinality(S) \in Nat /\ Cardinality(T) \in Nat
  BY FS_CardinalityType
<1>3. /\ IsFiniteSet(S \cup T)
      /\ Cardinality(S \cup T) = Cardinality(S) + Cardinality(T) - Cardinality(S \cap T)
  BY FS_Union
<1> QED
  BY <1>1, <1>2, <1>3

\* There is always an identity no link object in sight has.
LEMMA NewIdIsAnId == ASSUME TypeOK PROVE NewId \in Ids
<1> DEFINE A == {core[l] : l \in Links}
           B == {current[l] : l \in Links}
           C == {cur[l] : l \in Links}
           n == Cardinality(Links)
<1>1. n \in Nat
  BY LinkAssumption, FS_CardinalityType
<1>2. IsFiniteSet(A) /\ Cardinality(A) \in Nat /\ Cardinality(A) <= n
  <2>1. core \in [Links -> Ids \cup {Nil}]
    BY DEF TypeOK
  <2> QED
    BY <2>1, ImageIsSmall
<1>3. IsFiniteSet(B) /\ Cardinality(B) \in Nat /\ Cardinality(B) <= n
  <2>1. current \in [Links -> Ids \cup {Nil, Gone}]
    BY DEF TypeOK
  <2> QED
    BY <2>1, ImageIsSmall
<1>4. IsFiniteSet(C) /\ Cardinality(C) \in Nat /\ Cardinality(C) <= n
  <2>1. cur \in [Links -> Ids \cup {Nil, Gone}]
    BY DEF TypeOK
  <2> QED
    BY <2>1, ImageIsSmall
<1>5. IsFiniteSet({cb.id}) /\ Cardinality({cb.id}) = 1
  BY FS_Singleton
<1> HIDE DEF A, B, C, n
<1>6. IsFiniteSet(A \cup B) /\ Cardinality(A \cup B) <= Cardinality(A) + Cardinality(B)
  BY <1>2, <1>3, UnionIsSmall
<1>7. /\ IsFiniteSet((A \cup B) \cup C)
      /\ Cardinality((A \cup B) \cup C) <= Cardinality(A \cup B) + Cardinality(C)
  BY <1>4, <1>6, UnionIsSmall
<1>8. /\ IsFiniteSet(((A \cup B) \cup C) \cup {cb.id})
      /\ Cardinality(((A \cup B) \cup C) \cup {cb.id}) <= Cardinality((A \cup B) \cup C) + 1
  BY <1>5, <1>7, UnionIsSmall
<1>9. InUse = ((A \cup B) \cup C) \cup {cb.id}
  BY DEF InUse, A, B, C
<1>10. Cardinality(A \cup B) \in Nat /\ Cardinality((A \cup B) \cup C) \in Nat
  BY <1>6, <1>7, FS_CardinalityType
<1>11. IsFiniteSet(InUse) /\ Cardinality(InUse) \in Nat
  BY <1>8, <1>9, FS_CardinalityType
<1>12. Cardinality(InUse) <= 3 * n + 1
  BY <1>1, <1>2, <1>3, <1>4, <1>6, <1>7, <1>8, <1>9, <1>10, <1>11
<1>13. Ids = 2 .. 3 * n + 4
  BY DEF Ids, n
<1>14. IsFiniteSet(Ids) /\ Cardinality(Ids) = 3 * n + 3
  BY <1>1, <1>13, FS_Interval
<1>15. ~(Ids \subseteq InUse)
  <2> SUFFICES ASSUME Ids \subseteq InUse PROVE FALSE
    OBVIOUS
  <2>1. Cardinality(Ids) <= Cardinality(InUse)
    BY <1>11, FS_Subset
  <2> QED
    BY <2>1, <1>1, <1>11, <1>12, <1>14
<1> QED
  BY <1>15 DEF NewId

\* What the answers to a request can do to cogsworth.
LEMMA CreateAnswered ==
  ASSUME TypeOK, NEW l \in Links, Succeeds(Created(l))
  PROVE  /\ CoreType' /\ FaultType'
         /\ unsure' = unsure
         /\ core' = [core EXCEPT ![l] = NewId] /\ core[l] = Nil
<1>1. From[l] \in Ends(l)
  BY DEF Ends
<1>2. core[l] = Nil
  BY <1>1 DEF Succeeds, Created, CanCreate, Conflict
<1> HIDE DEF NewId
<1> QED
  BY <1>2, NewIdIsAnId DEF Succeeds, Created, TypeOK, CoreType, FaultType, faultVars

LEMMA DeleteAnswered ==
  ASSUME TypeOK, NEW l \in Links, NEW id, Succeeds(Deleted(l, id))
  PROVE  /\ CoreType' /\ FaultType'
         /\ unsure' = unsure
         /\ core' = [core EXCEPT ![l] = Nil]
BY DEF Succeeds, Deleted, TypeOK, CoreType, FaultType, faultVars

LEMMA RequestFails ==
  ASSUME TypeOK, NEW l \in Links, NEW id, CreateFails(l) \/ DeleteFails(l, id)
  PROVE  /\ CoreType' /\ FaultType'
         /\ ~unsure' => core' = core /\ unsure' = unsure
<1>0. NewId \in Ids /\ MaxFaults \in Nat
  BY NewIdIsAnId, LinkAssumption
<1>1. CoreType /\ FaultType
  BY DEF TypeOK, CoreType, FaultType
<1> HIDE DEF NewId, Ids, CanCreate
<1>2. CASE CreateFails(l)
  <2>1. CASE UNCHANGED <<core, faultVars>>
    BY <1>1, <2>1 DEF CoreType, FaultType, faultVars
  <2>2. CASE Fault /\ UNCHANGED <<core, unsure>>
    BY <1>0, <1>1, <2>2 DEF Fault, CoreType, FaultType
  <2>3. CASE Fault /\ Created(l) /\ unsure' = TRUE
    BY <1>0, <1>1, <2>3 DEF Fault, Created, CoreType, FaultType
  <2> QED
    BY <1>2, <2>1, <2>2, <2>3 DEF CreateFails, Fails, faultVars
<1>3. CASE DeleteFails(l, id)
  <2>1. CASE UNCHANGED <<core, faultVars>>
    BY <1>1, <2>1 DEF CoreType, FaultType, faultVars
  <2>2. CASE Fault /\ UNCHANGED <<core, unsure>>
    BY <1>0, <1>1, <2>2 DEF Fault, CoreType, FaultType
  <2>3. CASE Fault /\ Deleted(l, id) /\ unsure' = TRUE
    BY <1>0, <1>1, <2>3 DEF Fault, Deleted, CoreType, FaultType
  <2> QED
    BY <1>3, <2>1, <2>2, <2>3 DEF DeleteFails, Fails, faultVars
<1> QED
  BY <1>2, <1>3

-----------------------------------------------------------------------------
(***************************************************************************)
(* Types and shape.                                                        *)
(***************************************************************************)

NmType ==
  /\ network \in [Links -> Status] /\ alive \subseteq Devices
  /\ diffs \in Seq([link : Links, status : Status, kind : {"added", "updated", "deleted"}])
  /\ changes \in [links : 0 .. MaxLinkChanges, devices : 0 .. MaxDeviceChanges]

CacheType ==
  /\ maf \in [Links -> Status] /\ present \subseteq Devices
  /\ current \in [Links -> Ids \cup {Nil, Gone}]

CallbackType ==
  cb \in [step : {"idle", "up", "down", "creating", "deleting", "recording"},
          link : Links \cup {None}, id : Ids \cup {Nil, Gone}]

RoundType ==
  /\ phase \in {"idle", "sync", "devices", "copy", "prune", "unchanged", "new",
                "rewired", "restore", "info"}
  /\ todo \subseteq Links \cup Devices

CopyType ==
  /\ seen \in [Links -> Status]
  /\ cur \in [Links -> Ids \cup {Nil, Gone}]
  /\ ports \in [Ports -> Links \cup {None}]

JobType ==
  /\ at \in {"pick", "evict", "evicted", "create", "created", "update", "updated"}
  /\ item \in Links \cup {None}
  /\ victims \in Seq(Links)

LEMMA TypeParts ==
  TypeOK <=> /\ NmType /\ CacheType /\ CallbackType /\ RoundType /\ CopyType
             /\ JobType /\ CoreType /\ FaultType
BY DEF TypeOK, NmType, CacheType, CallbackType, RoundType, CopyType, JobType, CoreType,
       FaultType

LEMMA TypePartsNext ==
  ASSUME NmType', CacheType', CallbackType', RoundType', CopyType', JobType', CoreType',
         FaultType'
  PROVE  TypeOK'
BY DEF TypeOK, NmType, CacheType, CallbackType, RoundType, CopyType, JobType, CoreType,
       FaultType

\* What stays of a part whose variables an action leaves alone.
LEMMA PartsStay ==
  /\ NmType /\ UNCHANGED nmVars => NmType'
  /\ CacheType /\ UNCHANGED <<maf, present, current>> => CacheType'
  /\ CallbackType /\ UNCHANGED cb => CallbackType'
  /\ RoundType /\ UNCHANGED <<phase, todo>> => RoundType'
  /\ CopyType /\ UNCHANGED copyVars => CopyType'
  /\ JobType /\ UNCHANGED jobVars => JobType'
  /\ CoreType /\ UNCHANGED core => CoreType'
  /\ FaultType /\ UNCHANGED faultVars => FaultType'
BY DEF nmVars, copyVars, jobVars, faultVars, NmType, CacheType, CallbackType, RoundType,
       CopyType, JobType, CoreType, FaultType

\* Every step keeps types and shape.
LEMMA VictimsType ==
  ASSUME TypeOK, NEW l \in Links
  PROVE  Victims(l) \in Seq(Links)
<1> DEFINE first == ports[From[l]]
           second == ports[To[l]]
<1>1. first \in Links \cup {None} /\ second \in Links \cup {None}
  BY LinkAssumption DEF TypeOK
<1> HIDE DEF first, second
<1>2. Found(first) \in Seq(Links) /\ Found(second) \in Seq(Links)
  BY <1>1, EmptySeq DEF Found
<1>3. /\ <<>> \in Seq(Links) /\ Found(first) \o <<>> \in Seq(Links)
      /\ Found(first) \o Found(second) \in Seq(Links)
  BY <1>2, EmptySeq, ConcatProperties
<1>4. first # None => <<first>> \in Seq(Links)
  BY <1>1
<1>5. \/ Victims(l) = <<>> \/ (first # None /\ Victims(l) = <<first>>)
      \/ Victims(l) = Found(first) \o <<>> \/ Victims(l) = Found(first) \o Found(second)
  BY DEF Victims, first, second
<1> QED
  BY <1>3, <1>4, <1>5

LEMMA ChangeLinkTypes ==
  ASSUME TypeOK, Shape, NEW l \in Links, NEW s \in {"absent", "up", "down"}, ChangeLink(l, s)
  PROVE  TypeOK' /\ Shape'
<1> USE TypeParts
<1>0. Nil \notin Ids /\ Gone \notin Ids /\ Nil # Gone
  BY DEF Nil, Gone, Ids
<1> HIDE DEF Ids, Nil, Gone, NewId
<1>1. NmType'
  <2> DEFINE kind == IF network[l] = "absent" THEN "added"
                     ELSE IF s = "absent" THEN "deleted" ELSE "updated"
             Diff == [link : Links, status : Status, kind : {"added", "updated", "deleted"}]
             diff == [link |-> l, status |-> s, kind |-> kind]
  <2>1. /\ network' = [network EXCEPT ![l] = s] /\ diffs' = Append(diffs, diff)
        /\ changes.links < MaxLinkChanges
        /\ changes' = [changes EXCEPT !.links = @ + 1] /\ alive' = alive
    BY DEF ChangeLink
  <2>2. diff \in Diff
    BY DEF Status
  <2>3. diffs' \in Seq(Diff)
    <3> HIDE DEF Diff, diff
    <3> QED
      BY <2>1, <2>2 DEF NmType, Diff
  <2>4. network' \in [Links -> Status]
    BY <2>1 DEF NmType, Status
  <2>5. changes' \in [links : 0 .. MaxLinkChanges, devices : 0 .. MaxDeviceChanges]
    BY <2>1, LinkAssumption DEF NmType
  <2> QED
    BY <2>1, <2>3, <2>4, <2>5 DEF NmType
<1>2. CacheType' /\ CallbackType' /\ RoundType' /\ CopyType' /\ JobType' /\ CoreType' /\ FaultType'
  BY PartsStay DEF ChangeLink, upVars, copyVars, jobVars, nmVars, faultVars
<1>3. Shape'
  BY DEF ChangeLink, Shape, CallbackType, NoJob, upVars, jobVars, Job, Drop, Goto
<1> QED
  BY <1>1, <1>2, <1>3, TypePartsNext

LEMMA ChangeDeviceTypes ==
  ASSUME TypeOK, Shape, NEW d \in Devices, ChangeDevice(d)
  PROVE  TypeOK' /\ Shape'
<1> USE TypeParts
<1>0. Nil \notin Ids /\ Gone \notin Ids /\ Nil # Gone
  BY DEF Nil, Gone, Ids
<1> HIDE DEF Ids, Nil, Gone, NewId
<1>1. NmType'
  BY LinkAssumption DEF ChangeDevice, NmType
<1>2. CacheType' /\ CallbackType' /\ RoundType' /\ CopyType' /\ JobType' /\ CoreType' /\ FaultType'
  BY PartsStay DEF ChangeDevice, upVars, copyVars, jobVars, nmVars, faultVars
<1>3. Shape'
  BY DEF ChangeDevice, Shape, CallbackType, NoJob, upVars, jobVars, Job, Drop, Goto
<1> QED
  BY <1>1, <1>2, <1>3, TypePartsNext

LEMMA DeliverTypes ==
  ASSUME TypeOK, Shape, Deliver
  PROVE  TypeOK' /\ Shape'
<1> USE TypeParts
<1> DEFINE m == Head(diffs)
           M == [link : Links, status : Status, kind : {"added", "updated", "deleted"}]
<1>a. diffs \in Seq(M)
  BY DEF NmType
<1>b. diffs # <<>>
  BY DEF Deliver
<1>1. m \in M /\ Tail(diffs) \in Seq(M)
  BY <1>a, <1>b, HeadTailProperties
<1>2. m.link \in Links /\ m.status \in Status
  BY <1>1
<1>3. NmType'
  BY <1>1 DEF Deliver, NmType, CallbackLeaves
<1> HIDE DEF m
<1>4. \/ UNCHANGED <<maf, cb>>
      \/ /\ maf' = [maf EXCEPT ![m.link] = m.status]
         /\ \/ cb' = NoJob
            \/ cb' = [cb EXCEPT !.step = "up", !.link = m.link]
            \/ cb' = [cb EXCEPT !.step = "down", !.link = m.link]
  BY DEF Deliver, m
<1>5. UNCHANGED <<present, current>>
  BY DEF Deliver, CallbackLeaves
<1>6. CacheType'
  BY <1>2, <1>4, <1>5 DEF CacheType
<1>7. CallbackType' /\ (cb'.step # "idle" => cb'.link \in Links)
  <2> USE <1>2 DEF CallbackType
  <2>1. CASE cb' = NoJob
    BY <2>1 DEF NoJob
  <2>2. CASE cb' = [cb EXCEPT !.step = "up", !.link = m.link]
    BY <2>2
  <2>3. CASE cb' = [cb EXCEPT !.step = "down", !.link = m.link]
    BY <2>3
  <2>4. CASE cb' = cb
    BY <2>4 DEF Shape
  <2> QED
    BY <1>4, <2>1, <2>2, <2>3, <2>4
<1>8. RoundType' /\ CopyType' /\ JobType' /\ CoreType' /\ FaultType'
  BY PartsStay DEF Deliver, upVars, copyVars, jobVars, faultVars, CallbackLeaves
<1>9. Shape'
  BY <1>7 DEF Deliver, Shape, upVars, jobVars, CallbackLeaves
<1> QED
  BY <1>3, <1>6, <1>7, <1>8, <1>9, TypePartsNext

LEMMA ExamineTypes ==
  ASSUME TypeOK, Shape, Examine
  PROVE  TypeOK' /\ Shape'
<1> USE TypeParts
<1>0. Nil \notin Ids /\ Gone \notin Ids /\ Nil # Gone
  BY DEF Nil, Gone, Ids
<1> HIDE DEF Ids, Nil, Gone, NewId
<1>1. CallbackType'
  BY <1>0 DEF Examine, CallbackType, CacheType, Exists, NoJob, Shape
<1>2. NmType' /\ CacheType' /\ RoundType' /\ CopyType' /\ JobType' /\ CoreType' /\ FaultType'
  BY PartsStay DEF Examine, upVars, copyVars, jobVars, nmVars, faultVars, CallbackLeaves
<1>3. Shape'
  BY DEF Examine, Shape, CallbackType, NoJob, upVars, jobVars, Job, Drop, Goto, CallbackLeaves
<1> QED
  BY <1>1, <1>2, <1>3, TypePartsNext

LEMMA CallbackCreatesTypes ==
  ASSUME TypeOK, Shape, CallbackCreates
  PROVE  TypeOK' /\ Shape'
<1> USE TypeParts
<1>1. cb.link \in Links
  BY DEF CallbackCreates, Shape
<1>2. CoreType' /\ FaultType'
  BY <1>1, CreateAnswered, RequestFails DEF CallbackCreates
<1>3. cb' = NoJob \/ cb' = [cb EXCEPT !.step = "recording", !.id = NewId]
  BY DEF CallbackCreates
<1>4. NewId \in Ids \cup {Nil, Gone}
  BY NewIdIsAnId
<1> HIDE DEF NewId
<1>5. CallbackType' /\ (cb'.step # "idle" => cb'.link \in Links)
  <2>1. CASE cb' = NoJob
    BY <2>1 DEF CallbackType, NoJob
  <2>2. CASE cb' = [cb EXCEPT !.step = "recording", !.id = NewId]
    BY <1>1, <1>4, <2>2 DEF CallbackType
  <2> QED
    BY <1>3, <2>1, <2>2
<1>6. NmType' /\ CacheType' /\ RoundType' /\ CopyType' /\ JobType'
  BY PartsStay DEF CallbackCreates, upVars, copyVars, jobVars, nmVars, CallbackLeaves
<1>7. Shape'
  BY <1>5 DEF CallbackCreates, Shape, upVars, jobVars, CallbackLeaves
<1> QED
  BY <1>2, <1>5, <1>6, <1>7, TypePartsNext

LEMMA CallbackDeletesTypes ==
  ASSUME TypeOK, Shape, CallbackDeletes
  PROVE  TypeOK' /\ Shape'
<1> USE TypeParts
<1>1. cb.link \in Links
  BY DEF CallbackDeletes, Shape
<1>2. CoreType' /\ FaultType'
  BY <1>1, DeleteAnswered, RequestFails DEF CallbackDeletes
<1>3. cb' = NoJob \/ cb' = [cb EXCEPT !.step = "recording", !.id = Nil]
  BY DEF CallbackDeletes
<1>4. Nil \in Ids \cup {Nil, Gone}
  BY NewIdIsAnId
<1> HIDE DEF NewId
<1>5. CallbackType' /\ (cb'.step # "idle" => cb'.link \in Links)
  <2>1. CASE cb' = NoJob
    BY <2>1 DEF CallbackType, NoJob
  <2>2. CASE cb' = [cb EXCEPT !.step = "recording", !.id = Nil]
    BY <1>1, <1>4, <2>2 DEF CallbackType
  <2> QED
    BY <1>3, <2>1, <2>2
<1>6. NmType' /\ CacheType' /\ RoundType' /\ CopyType' /\ JobType'
  BY PartsStay DEF CallbackDeletes, upVars, copyVars, jobVars, nmVars, CallbackLeaves
<1>7. Shape'
  BY <1>5 DEF CallbackDeletes, Shape, upVars, jobVars, CallbackLeaves
<1> QED
  BY <1>2, <1>5, <1>6, <1>7, TypePartsNext

LEMMA CallbackRecordsTypes ==
  ASSUME TypeOK, Shape, CallbackRecords
  PROVE  TypeOK' /\ Shape'
<1> USE TypeParts
<1>0. Nil \notin Ids /\ Gone \notin Ids /\ Nil # Gone
  BY DEF Nil, Gone, Ids
<1> HIDE DEF Ids, Nil, Gone, NewId
<1>1. CacheType'
  BY DEF CallbackRecords, CacheType, CallbackType, CallbackLeaves
<1>2. CallbackType'
  BY <1>0 DEF CallbackRecords, CallbackType, NoJob
<1>3. NmType' /\ RoundType' /\ CopyType' /\ JobType' /\ CoreType' /\ FaultType'
  BY PartsStay DEF CallbackRecords, upVars, copyVars, jobVars, nmVars, faultVars, CallbackLeaves
<1>4. Shape'
  BY DEF CallbackRecords, Shape, CallbackType, NoJob, upVars, jobVars, Job, Drop, Goto, CallbackLeaves
<1> QED
  BY <1>1, <1>2, <1>3, <1>4, TypePartsNext

LEMMA BeginRoundTypes ==
  ASSUME TypeOK, Shape, BeginRound
  PROVE  TypeOK' /\ Shape'
<1> USE TypeParts
<1>0. Nil \notin Ids /\ Gone \notin Ids /\ Nil # Gone
  BY DEF Nil, Gone, Ids
<1> HIDE DEF Ids, Nil, Gone, NewId
<1>1. RoundType'
  BY DEF BeginRound, RoundType, Goto
<1>2. CopyType'
  BY DEF BeginRound, CopyType, NmType
<1>3. NmType' /\ CacheType' /\ CallbackType' /\ JobType' /\ CoreType' /\ FaultType'
  BY PartsStay DEF BeginRound, upVars, copyVars, jobVars, nmVars, faultVars, UpdaterLeaves
<1>4. Shape'
  BY DEF BeginRound, Shape, CallbackType, NoJob, upVars, jobVars, Job, Drop, Goto, UpdaterLeaves
<1> QED
  BY <1>1, <1>2, <1>3, <1>4, TypePartsNext

LEMMA SyncTypes ==
  ASSUME TypeOK, Shape, Sync
  PROVE  TypeOK' /\ Shape'
<1> USE TypeParts
<1>0. Nil \notin Ids /\ Gone \notin Ids /\ Nil # Gone
  BY DEF Nil, Gone, Ids
<1> HIDE DEF Ids, Nil, Gone, NewId
<1>1. RoundType'
  BY DEF Sync, RoundType, Goto
<1>2. CacheType'
  BY DEF Sync, CacheType, CopyType
<1>3. NmType' /\ CallbackType' /\ CopyType' /\ JobType' /\ CoreType' /\ FaultType'
  BY PartsStay DEF Sync, upVars, copyVars, jobVars, nmVars, faultVars, UpdaterLeaves
<1>4. Shape'
  BY DEF Sync, Shape, CallbackType, NoJob, upVars, jobVars, Job, Drop, Goto, UpdaterLeaves
<1> QED
  BY <1>1, <1>2, <1>3, <1>4, TypePartsNext

LEMMA DeleteDeviceTypes ==
  ASSUME TypeOK, Shape, NEW d \in Devices, DeleteDevice(d)
  PROVE  TypeOK' /\ Shape'
<1> USE TypeParts
<1> DEFINE mine == {l \in Links : d \in DevicesOf(l)}
<1> HIDE DEF mine
<1>1. /\ present' = present \ {d}
      /\ core' = [l \in Links |-> IF l \in mine THEN Nil ELSE core[l]]
      /\ current' = [l \in Links |-> IF l \in mine /\ current[l] # Nil THEN Gone
                                      ELSE current[l]]
      /\ cb' = [cb EXCEPT !.id = Gone] \/ cb' = cb
      /\ phase' = phase /\ phase = "devices" /\ todo' = todo \ {d}
      /\ UNCHANGED <<maf, copyVars, jobVars, nmVars, faultVars>>
  BY DEF DeleteDevice, DeviceDone, mine, copyVars, jobVars, nmVars
<1>2. RoundType'
  BY <1>1 DEF RoundType
<1>3. CacheType'
  BY <1>1 DEF CacheType
<1>4. CallbackType' /\ cb'.step = cb.step /\ cb'.link = cb.link
  BY <1>1 DEF CallbackType
<1>5. CoreType'
  BY <1>1 DEF CoreType
<1>6. NmType' /\ CopyType' /\ JobType' /\ FaultType'
  BY <1>1, PartsStay
<1>7. Shape'
  BY <1>1, <1>4 DEF Shape, jobVars
<1> QED
  BY <1>2, <1>3, <1>4, <1>5, <1>6, <1>7, TypePartsNext

LEMMA CreateDeviceTypes ==
  ASSUME TypeOK, Shape, NEW d \in Devices, CreateDevice(d)
  PROVE  TypeOK' /\ Shape'
<1> USE TypeParts
<1>0. Nil \notin Ids /\ Gone \notin Ids /\ Nil # Gone
  BY DEF Nil, Gone, Ids
<1> HIDE DEF Ids, Nil, Gone, NewId
<1>1. RoundType'
  BY DEF CreateDevice, RoundType, DeviceDone
<1>2. CacheType'
  BY DEF CreateDevice, CacheType, DeviceDone
<1>3. NmType' /\ CallbackType' /\ CopyType' /\ JobType' /\ CoreType' /\ FaultType'
  BY PartsStay DEF CreateDevice, upVars, copyVars, jobVars, nmVars, faultVars, DeviceDone, UpdaterLeaves
<1>4. Shape'
  BY DEF CreateDevice, Shape, CallbackType, NoJob, upVars, jobVars, Job, Drop, Goto, DeviceDone, UpdaterLeaves
<1> QED
  BY <1>1, <1>2, <1>3, <1>4, TypePartsNext

LEMMA KeepDeviceTypes ==
  ASSUME TypeOK, Shape, NEW d \in Devices, KeepDevice(d)
  PROVE  TypeOK' /\ Shape'
<1> USE TypeParts
<1>0. Nil \notin Ids /\ Gone \notin Ids /\ Nil # Gone
  BY DEF Nil, Gone, Ids
<1> HIDE DEF Ids, Nil, Gone, NewId
<1>1. RoundType'
  BY DEF KeepDevice, RoundType, DeviceDone
<1>2. FaultType'
  BY LinkAssumption DEF KeepDevice, FaultType, Fault
<1>3. NmType' /\ CacheType' /\ CallbackType' /\ CopyType' /\ JobType' /\ CoreType'
  BY PartsStay DEF KeepDevice, upVars, copyVars, jobVars, nmVars, faultVars, DeviceDone, UpdaterLeaves
<1>4. Shape'
  BY DEF KeepDevice, Shape, CallbackType, NoJob, upVars, jobVars, Job, Drop, Goto, DeviceDone, UpdaterLeaves
<1> QED
  BY <1>1, <1>2, <1>3, <1>4, TypePartsNext

LEMMA ReadTypes ==
  ASSUME TypeOK, Shape, Read
  PROVE  TypeOK' /\ Shape'
<1> USE TypeParts
<1>0. Nil \notin Ids /\ Gone \notin Ids /\ Nil # Gone
  BY DEF Nil, Gone, Ids
<1> HIDE DEF Ids, Nil, Gone, NewId
<1>1. RoundType'
  BY DEF Read, RoundType, Goto
<1>2. CopyType'
  BY DEF Read, CopyType, CacheType
<1>3. NmType' /\ CacheType' /\ CallbackType' /\ JobType' /\ CoreType' /\ FaultType'
  BY PartsStay DEF Read, upVars, copyVars, jobVars, nmVars, faultVars, UpdaterLeaves
<1>4. Shape'
  BY DEF Read, Shape, CallbackType, NoJob, upVars, jobVars, Job, Drop, Goto, UpdaterLeaves
<1> QED
  BY <1>1, <1>2, <1>3, <1>4, TypePartsNext

LEMMA CopyTypes ==
  ASSUME TypeOK, Shape, Copy
  PROVE  TypeOK' /\ Shape'
<1> USE TypeParts
<1>0. Nil \notin Ids /\ Gone \notin Ids /\ Nil # Gone
  BY DEF Nil, Gone, Ids
<1> HIDE DEF Ids, Nil, Gone, NewId
<1>1. RoundType'
  BY DEF Copy, RoundType, Goto
<1>2. CopyType'
  BY DEF Copy, CopyType, CacheType
<1>3. NmType' /\ CacheType' /\ CallbackType' /\ JobType' /\ CoreType' /\ FaultType'
  BY PartsStay DEF Copy, upVars, copyVars, jobVars, nmVars, faultVars, UpdaterLeaves
<1>4. Shape'
  BY DEF Copy, Shape, CallbackType, NoJob, upVars, jobVars, Job, Drop, Goto, UpdaterLeaves
<1> QED
  BY <1>1, <1>2, <1>3, <1>4, TypePartsNext

LEMMA PassesTypes ==
  ASSUME TypeOK, Shape, Passes
  PROVE  TypeOK' /\ Shape'
<1> USE TypeParts
<1>1. RoundType'
  BY LinkAssumption DEF Passes, RoundType, InfoPass, NextPass, Goto, Unchanged, New, Rewired,
     Actual
<1>2. CopyType'
  <2>1. CASE UNCHANGED copyVars
    BY <2>1, PartsStay
  <2>2. CASE InfoPass
    BY <2>2 DEF InfoPass, CacheType, CopyType
  <2> QED
    BY <2>1, <2>2 DEF Passes
<1>3. NmType' /\ CacheType' /\ CallbackType' /\ JobType' /\ CoreType' /\ FaultType'
  BY PartsStay DEF Passes, InfoPass, NextPass, UpdaterLeaves, nmVars
<1>4. Shape'
  BY DEF Passes, InfoPass, NextPass, Goto, Shape, jobVars, UpdaterLeaves
<1> QED
  BY <1>1, <1>2, <1>3, <1>4, TypePartsNext

LEMMA PickTypes ==
  ASSUME TypeOK, Shape, NEW l \in Links, Pick(l)
  PROVE  TypeOK' /\ Shape'
<1> USE TypeParts
<1>1. RoundType'
  BY DEF Pick, RoundType
<1>2. \/ at' = "pick" /\ item' = None /\ victims' = <<>>
      \/ at' = "evict" /\ item' = None /\ victims' = <<l>>
      \/ at' = "update" /\ item' = l /\ victims' = <<>>
      \/ at' = "create" /\ item' = l /\ victims' = Victims(l)
      \/ at' = "evict" /\ item' = l /\ victims' = Victims(l) /\ Victims(l) # <<>>
  BY DEF Pick, Job, Drop
<1>3. Victims(l) \in Seq(Links) /\ <<l>> \in Seq(Links) /\ <<>> \in Seq(Links)
  BY VictimsType, EmptySeq
<1>4. JobType'
  BY <1>2, <1>3 DEF JobType
<1>5. NmType' /\ CacheType' /\ CallbackType' /\ CopyType' /\ CoreType' /\ FaultType'
  BY PartsStay DEF Pick, UpdaterLeaves, nmVars
<1>6. phase' = phase /\ cb' = cb /\ phase \notin {"idle", "sync", "devices", "copy"}
  BY DEF Pick, UpdaterLeaves
<1>7. <<l>> # <<>>
  BY SMT
<1>8. Shape'
  BY <1>2, <1>6, <1>7 DEF Shape
<1> QED
  BY <1>1, <1>4, <1>5, <1>8, TypePartsNext

LEMMA EvictTypes ==
  ASSUME TypeOK, Shape, Evict
  PROVE  TypeOK' /\ Shape'
<1> USE TypeParts
<1>0. /\ phase' = phase /\ todo' = todo /\ cb' = cb
      /\ UNCHANGED <<maf, present, seen, nmVars>>
      /\ phase \notin {"idle", "sync", "devices", "copy"}
  BY DEF Evict, Shape, JobLeaves, UpdaterLeaves, nmVars
<1> DEFINE v == Head(victims)
<1>1. v \in Links /\ victims # <<>> /\ victims \in Seq(Links)
  BY HeadTailProperties DEF Evict, Shape, JobType
<1>2. CoreType' /\ FaultType'
  BY <1>1, DeleteAnswered, RequestFails DEF Evict
<1>3. \/ at' = "evicted" /\ item' = item /\ victims' = victims
      \/ at' = "pick" /\ item' = None /\ victims' = <<>>
  BY DEF Evict, Job, Drop
<1>4. JobType'
  BY <1>3, EmptySeq DEF JobType
<1>5. CacheType' /\ CopyType'
  BY <1>0, PartsStay DEF Evict, copyVars
<1>8. NmType' /\ CallbackType' /\ RoundType'
  BY <1>0, PartsStay
<1>9. Shape'
  BY <1>0, <1>1, <1>3 DEF Shape
<1> QED
  BY <1>2, <1>4, <1>5, <1>8, <1>9, TypePartsNext

LEMMA RecordEvictedTypes ==
  ASSUME TypeOK, Shape, RecordEvicted
  PROVE  TypeOK' /\ Shape'
<1> USE TypeParts
<1>0. /\ phase' = phase /\ todo' = todo /\ cb' = cb
      /\ UNCHANGED <<maf, present, seen, nmVars>>
      /\ phase \notin {"idle", "sync", "devices", "copy"}
  BY DEF RecordEvicted, Shape, JobLeaves, UpdaterLeaves, nmVars
<1> DEFINE v == Head(victims)
           rest == Tail(victims)
<1>1. v \in Links /\ rest \in Seq(Links)
  BY HeadTailProperties DEF RecordEvicted, Shape, JobType
<1>2. /\ ports' = [e \in Ports |-> IF e \in Ends(v) THEN None ELSE ports[e]]
      /\ cur' = [cur EXCEPT ![v] = Nil] /\ current' = [current EXCEPT ![v] = Nil]
      /\ UNCHANGED <<core, faultVars>>
  BY DEF RecordEvicted
<1>3. \/ at' = "evict" /\ item' = item /\ victims' = rest /\ rest # <<>>
      \/ at' = "create" /\ item' = item /\ item # None /\ victims' = <<>>
      \/ at' = "pick" /\ item' = None /\ victims' = <<>>
  BY DEF RecordEvicted, Job, Drop
<1> HIDE DEF v, rest
<1>4. JobType'
  BY <1>1, <1>3, EmptySeq DEF JobType
<1>5. CacheType' /\ CopyType'
  BY <1>0, <1>1, <1>2 DEF CacheType, CopyType
<1>6. CoreType' /\ FaultType'
  BY <1>2, PartsStay
<1>8. NmType' /\ CallbackType' /\ RoundType'
  BY <1>0, PartsStay
<1>9. Shape'
  BY <1>0, <1>3 DEF Shape, JobType
<1> QED
  BY <1>4, <1>5, <1>6, <1>8, <1>9, TypePartsNext

LEMMA CreateTypes ==
  ASSUME TypeOK, Shape, Create
  PROVE  TypeOK' /\ Shape'
<1> USE TypeParts
<1>0. /\ phase' = phase /\ todo' = todo /\ cb' = cb
      /\ UNCHANGED <<maf, present, seen, nmVars>>
      /\ phase \notin {"idle", "sync", "devices", "copy"}
  BY DEF Create, Shape, JobLeaves, UpdaterLeaves, nmVars
<1>1. item \in Links
  BY DEF Create, Shape
<1>2. CoreType' /\ FaultType'
  BY <1>1, CreateAnswered, RequestFails DEF Create
<1>3. \/ at' = "created" /\ item' = item /\ victims' = <<>>
      \/ at' = "pick" /\ item' = None /\ victims' = <<>>
  BY DEF Create, Job, Drop
<1>4. JobType'
  BY <1>3, EmptySeq DEF JobType
<1>5. CacheType' /\ CopyType'
  BY <1>0, PartsStay DEF Create, copyVars
<1>8. NmType' /\ CallbackType' /\ RoundType'
  BY <1>0, PartsStay
<1>9. Shape'
  BY <1>0, <1>1, <1>3 DEF Shape
<1> QED
  BY <1>2, <1>4, <1>5, <1>8, <1>9, TypePartsNext

LEMMA RecordCreatedTypes ==
  ASSUME TypeOK, Shape, RecordCreated
  PROVE  TypeOK' /\ Shape'
<1> USE TypeParts
<1>0. /\ phase' = phase /\ todo' = todo /\ cb' = cb
      /\ UNCHANGED <<maf, present, seen, nmVars>>
      /\ phase \notin {"idle", "sync", "devices", "copy"}
  BY DEF RecordCreated, Shape, JobLeaves, UpdaterLeaves, nmVars
<1>1. item \in Links
  BY DEF RecordCreated, Shape
<1>2. /\ ports' = [e \in Ports |-> IF e \in Ends(item) THEN item ELSE ports[e]]
      /\ cur' = [cur EXCEPT ![item] = core[item]]
      /\ current' = [current EXCEPT ![item] = core[item]]
      /\ UNCHANGED <<core, faultVars>>
  BY DEF RecordCreated
<1>3. at' = "pick" /\ item' = None /\ victims' = <<>>
  BY DEF RecordCreated, Job, Drop
<1>4. JobType'
  BY <1>3, EmptySeq DEF JobType
<1>5. CacheType' /\ CopyType'
  BY <1>0, <1>1, <1>2 DEF CacheType, CopyType, CoreType
<1>6. CoreType' /\ FaultType'
  BY <1>2, PartsStay
<1>8. NmType' /\ CallbackType' /\ RoundType'
  BY <1>0, PartsStay
<1>9. Shape'
  BY <1>0, <1>3 DEF Shape
<1> QED
  BY <1>4, <1>5, <1>6, <1>8, <1>9, TypePartsNext

LEMMA UpdateTypes ==
  ASSUME TypeOK, Shape, Update
  PROVE  TypeOK' /\ Shape'
<1> USE TypeParts
<1>0. /\ phase' = phase /\ todo' = todo /\ cb' = cb
      /\ UNCHANGED <<maf, present, seen, nmVars>>
      /\ phase \notin {"idle", "sync", "devices", "copy"}
  BY DEF Update, Shape, JobLeaves, UpdaterLeaves, nmVars
<1>1. item \in Links
  BY DEF Update, Shape
<1>2. UNCHANGED <<core, cur, ports, current, unsure>>
  BY DEF Update
<1>3. \/ at' = "updated" /\ item' = item /\ victims' = <<>>
      \/ at' = "pick" /\ item' = None /\ victims' = <<>>
  BY DEF Update, Job, Drop
<1>4. JobType'
  BY <1>3, EmptySeq DEF JobType
<1>5. CacheType' /\ CopyType' /\ CoreType'
  BY <1>0, <1>2, PartsStay DEF copyVars
<1>6. FaultType'
  BY LinkAssumption DEF Update, FaultType, Fault
<1>8. NmType' /\ CallbackType' /\ RoundType'
  BY <1>0, PartsStay
<1>9. Shape'
  BY <1>0, <1>1, <1>3 DEF Shape
<1> QED
  BY <1>4, <1>5, <1>6, <1>8, <1>9, TypePartsNext

LEMMA RecordUpdatedTypes ==
  ASSUME TypeOK, Shape, RecordUpdated
  PROVE  TypeOK' /\ Shape'
<1> USE TypeParts
<1>0. /\ phase' = phase /\ todo' = todo /\ cb' = cb
      /\ UNCHANGED <<maf, present, seen, nmVars>>
      /\ phase \notin {"idle", "sync", "devices", "copy"}
  BY DEF RecordUpdated, Shape, JobLeaves, UpdaterLeaves, nmVars
<1>1. item \in Links
  BY DEF RecordUpdated, Shape
<1>2. current' = [current EXCEPT ![item] = cur[item]] /\ UNCHANGED <<core, cur, ports, faultVars>>
  BY DEF RecordUpdated
<1>3. at' = "pick" /\ item' = None /\ victims' = <<>>
  BY DEF RecordUpdated, Job, Drop
<1>4. JobType'
  BY <1>3, EmptySeq DEF JobType
<1>5. CacheType' /\ CopyType'
  BY <1>0, <1>1, <1>2 DEF CacheType, CopyType
<1>6. CoreType' /\ FaultType'
  BY <1>2, PartsStay
<1>8. NmType' /\ CallbackType' /\ RoundType'
  BY <1>0, PartsStay
<1>9. Shape'
  BY <1>0, <1>3 DEF Shape
<1> QED
  BY <1>4, <1>5, <1>6, <1>8, <1>9, TypePartsNext

LEMMA InitTypes == Init => TypeOK /\ Shape
<1> SUFFICES ASSUME Init PROVE TypeOK /\ Shape
  OBVIOUS
<1>1. PICK id \in [Links -> Ids \cup {Nil}] : core = id /\ current = id
  BY DEF Init
<1>a. NmType
  <2>1. diffs = <<>> /\ alive = {} /\ network = [l \in Links |-> "absent"]
        /\ changes = [links |-> 0, devices |-> 0]
    BY DEF Init
  <2> QED
    BY <2>1, EmptySeq, LinkAssumption DEF NmType, Status
<1>b. RoundType /\ FaultType
  <2>1. phase = "idle" /\ todo = {} /\ faults = 0 /\ unsure = FALSE
    BY DEF Init
  <2>2. MaxFaults \in Nat
    BY LinkAssumption
  <2>3. RoundType
    BY <2>1 DEF RoundType
  <2>4. 0 \in 0 .. MaxFaults /\ FALSE \in BOOLEAN
    BY <2>2
  <2> QED
    BY <2>1, <2>3, <2>4 DEF FaultType
<1>c. CallbackType
  <2>1. cb = [step |-> "idle", link |-> None, id |-> Nil]
    BY DEF Init, NoJob
  <2> QED
    BY <2>1 DEF CallbackType
<1>2. NmType /\ CallbackType /\ RoundType /\ FaultType
  BY <1>a, <1>b, <1>c
<1>3. CacheType /\ CoreType
  BY <1>1, LinkAssumption DEF Init, CacheType, CoreType, Status
<1>4. CopyType /\ JobType
  BY EmptySeq DEF Init, CopyType, JobType, Status
<1>5. Shape
  BY DEF Init, Shape, NoJob
<1> QED
  BY <1>2, <1>3, <1>4, <1>5, TypeParts

LEMMA NextTypes == TypeOK /\ Shape /\ [Next]_vars => TypeOK' /\ Shape'
<1> SUFFICES ASSUME TypeOK, Shape, [Next]_vars PROVE TypeOK' /\ Shape'
  OBVIOUS
<1>1. ASSUME CallbackStep PROVE TypeOK' /\ Shape'
  BY <1>1, DeliverTypes, ExamineTypes, CallbackCreatesTypes, CallbackDeletesTypes,
     CallbackRecordsTypes DEF CallbackStep
<1>2. ASSUME UpdaterStep PROVE TypeOK' /\ Shape'
  BY <1>2, BeginRoundTypes, SyncTypes, ReadTypes, CopyTypes, PassesTypes, DeleteDeviceTypes,
     CreateDeviceTypes, KeepDeviceTypes, PickTypes, EvictTypes, RecordEvictedTypes,
     CreateTypes, RecordCreatedTypes, UpdateTypes, RecordUpdatedTypes DEF UpdaterStep
<1>3. ASSUME NEW l \in Links, NEW s \in {"absent", "up", "down"}, ChangeLink(l, s)
      PROVE  TypeOK' /\ Shape'
  BY <1>3, ChangeLinkTypes
<1>4. ASSUME NEW d \in Devices, ChangeDevice(d) PROVE TypeOK' /\ Shape'
  BY <1>4, ChangeDeviceTypes
<1>5. CASE UNCHANGED vars
  <2>1. TypeOK'
    BY <1>5, TypeParts, PartsStay, TypePartsNext
       DEF vars, upVars, nmVars, copyVars, jobVars, faultVars
  <2>2. Shape'
    BY <1>5 DEF vars, upVars, jobVars, Shape
  <2> QED
    BY <2>1, <2>2
<1> QED
  BY <1>1, <1>2, <1>3, <1>4, <1>5 DEF Next

-----------------------------------------------------------------------------
(***************************************************************************)
(* What the monitor believes.                                              *)
(***************************************************************************)

Believed == Truth /\ InStep

\* A step that touches neither cogsworth nor m.currentLinkMap and by which the
\* updater neither takes nor gives back a link.
LEMMA BystanderBelieves ==
  ASSUME Believed, UNCHANGED <<core, current, cb, unsure>>,
         \/ UNCHANGED <<jobVars, cur>>
         \/ at = "pick" /\ at' \in {"pick", "evict", "update", "create"}
  PROVE  Believed'
BY DEF Believed, Truth, InStep, UpdaterHolds, CallbackHolds, jobVars

\* The same of the callback.
LEMMA CallbackLooks ==
  ASSUME Believed, UNCHANGED <<core, current, unsure, jobVars, cur>>,
         cb.step # "recording", cb'.step # "recording"
  PROVE  Believed'
BY DEF Believed, Truth, InStep, UpdaterHolds, CallbackHolds, jobVars

\* The callback changes a link of cogsworth, whose mutex it then holds.
LEMMA CallbackChanges ==
  ASSUME TypeOK, Believed, NEW l \in Links, NEW id, ~UpdaterHolds(l),
         cb.step # "recording", cb'.step = "recording", cb'.link = l, cb'.id = id,
         core' = [core EXCEPT ![l] = id],
         UNCHANGED <<current, unsure, jobVars, cur>>,
         at = "evicted" => Head(victims) \in Links,
         at = "updated" => item \in Links
  PROVE  Believed'
<1>1. \A k \in Links : core'[k] = IF k = l THEN id ELSE core[k]
  BY DEF TypeOK
<1>2. \A k \in Links : UpdaterHolds(k)' <=> UpdaterHolds(k)
  BY DEF UpdaterHolds, jobVars
<1>3. Truth'
  BY <1>1 DEF Believed, Truth, UpdaterHolds, jobVars
<1>4. InStep'
  BY <1>1, <1>2 DEF Believed, InStep, CallbackHolds
<1> QED
  BY <1>3, <1>4 DEF Believed

LEMMA CallbackCreatesBelieves ==
  ASSUME TypeOK, Shape, Believed, CallbackCreates PROVE Believed'
<1>1. cb.link \in Links /\ ~UpdaterHolds(cb.link) /\ cb.step # "recording"
  BY DEF CallbackCreates, Shape
<1>2. UNCHANGED <<current, jobVars, cur>>
  BY DEF CallbackCreates, CallbackLeaves, upVars, copyVars
<1>3. CASE Succeeds(Created(cb.link)) /\ cb' = [cb EXCEPT !.step = "recording", !.id = NewId]
  <2>1. unsure' = unsure /\ core' = [core EXCEPT ![cb.link] = NewId]
    BY <1>1, <1>3, CreateAnswered
  <2>2. /\ cb'.step = "recording" /\ cb'.link = cb.link
        /\ cb'.id = NewId
    BY <1>3 DEF TypeOK
  <2>3. /\ at = "evicted" => Head(victims) \in Links
        /\ at = "updated" => item \in Links
    BY HeadTailProperties DEF Shape, TypeOK
  <2> HIDE DEF NewId
  <2> QED
    BY <1>1, <1>2, <2>1, <2>2, <2>3, CallbackChanges
<1>4. CASE CreateFails(cb.link) /\ cb' = NoJob
  <2>1. ~unsure' => core' = core /\ unsure' = unsure
    BY <1>1, <1>4, RequestFails
  <2>2. cb'.step # "recording"
    BY <1>4 DEF NoJob
  <2>3. CASE unsure'
    BY <2>3 DEF Believed, Truth, InStep
  <2>4. CASE ~unsure'
    BY <1>1, <1>2, <2>1, <2>2, <2>4, CallbackLooks
  <2> QED
    BY <2>3, <2>4
<1> QED
  BY <1>3, <1>4 DEF CallbackCreates

LEMMA CallbackDeletesBelieves ==
  ASSUME TypeOK, Shape, Believed, CallbackDeletes PROVE Believed'
<1>1. cb.link \in Links /\ ~UpdaterHolds(cb.link) /\ cb.step # "recording"
  BY DEF CallbackDeletes, Shape
<1>2. UNCHANGED <<current, jobVars, cur>>
  BY DEF CallbackDeletes, CallbackLeaves, upVars, copyVars
<1>3. CASE Succeeds(Deleted(cb.link, cb.id)) /\ cb' = [cb EXCEPT !.step = "recording", !.id = Nil]
  <2>1. unsure' = unsure /\ core' = [core EXCEPT ![cb.link] = Nil]
    BY <1>1, <1>3, DeleteAnswered
  <2>2. /\ cb'.step = "recording" /\ cb'.link = cb.link
        /\ cb'.id = Nil
    BY <1>3 DEF TypeOK
  <2>3. /\ at = "evicted" => Head(victims) \in Links
        /\ at = "updated" => item \in Links
    BY HeadTailProperties DEF Shape, TypeOK
  <2> HIDE DEF NewId
  <2> QED
    BY <1>1, <1>2, <2>1, <2>2, <2>3, CallbackChanges
<1>4. CASE DeleteFails(cb.link, cb.id) /\ cb' = NoJob
  <2>1. ~unsure' => core' = core /\ unsure' = unsure
    BY <1>1, <1>4, RequestFails
  <2>2. cb'.step # "recording"
    BY <1>4 DEF NoJob
  <2>3. CASE unsure'
    BY <2>3 DEF Believed, Truth, InStep
  <2>4. CASE ~unsure'
    BY <1>1, <1>2, <2>1, <2>2, <2>4, CallbackLooks
  <2> QED
    BY <2>3, <2>4
<1> QED
  BY <1>3, <1>4 DEF CallbackDeletes

LEMMA CallbackRecordsBelieves ==
  ASSUME TypeOK, Shape, Believed, CallbackRecords PROVE Believed'
<1>1. /\ cb.step = "recording" /\ cb.link \in Links
      /\ current' = [current EXCEPT ![cb.link] = cb.id] /\ cb' = NoJob
      /\ UNCHANGED <<core, unsure, jobVars, cur>>
  BY DEF CallbackRecords, CallbackLeaves, Shape, upVars, copyVars, faultVars
<1>2. \A l \in Links : current'[l] = IF l = cb.link THEN cb.id ELSE current[l]
  BY <1>1 DEF TypeOK
<1>3. cb'.step = "idle"
  BY <1>1 DEF NoJob
<1>4. \A l \in Links : UpdaterHolds(l)' <=> UpdaterHolds(l)
  BY <1>1 DEF UpdaterHolds, jobVars
<1>5. Truth'
  BY <1>1, <1>3 DEF Believed, Truth, jobVars
<1>6. InStep'
  BY <1>1, <1>2, <1>3, <1>4 DEF Believed, Truth, InStep, CallbackHolds
<1> QED
  BY <1>5, <1>6 DEF Believed

\* cogsworth deletes the links of the device; m.currentLinkMap keeps them.
LEMMA DeleteDeviceBelieves ==
  ASSUME TypeOK, Shape, Believed, NEW d \in Devices, DeleteDevice(d) PROVE Believed'
<1> DEFINE mine == {l \in Links : d \in DevicesOf(l)}
<1> HIDE DEF mine
<1>1. /\ core' = [l \in Links |-> IF l \in mine THEN Nil ELSE core[l]]
      /\ current' = [l \in Links |-> IF l \in mine /\ current[l] # Nil THEN Gone
                                      ELSE current[l]]
      /\ at = "pick" /\ UNCHANGED <<unsure, jobVars, cur>>
  BY DEF DeleteDevice, DeviceDone, mine, Shape, jobVars, faultVars
<1>2. cb' = IF cb.step = "recording" /\ cb.link \in mine /\ cb.id # Nil
              THEN [cb EXCEPT !.id = Gone] ELSE cb
  BY DEF DeleteDevice, mine
<1>3. /\ cb'.step = cb.step /\ cb'.link = cb.link
      /\ cb'.id = IF cb.step = "recording" /\ cb.link \in mine /\ cb.id # Nil
                  THEN Gone ELSE cb.id
  BY <1>2 DEF TypeOK
<1>4. Nil \notin Ids /\ Gone # Nil
  BY DEF Nil, Gone, Ids
<1>5. Truth'
  <2>1. at' = "pick"
    BY <1>1 DEF jobVars
  <2> QED
    BY <1>1, <1>3, <1>4, <2>1 DEF Believed, Truth, Shape
<1>6. InStep'
  BY <1>1, <1>3, <1>4 DEF Believed, InStep, UpdaterHolds, CallbackHolds, jobVars
<1> QED
  BY <1>5, <1>6 DEF Believed

LEMMA EvictBelieves ==
  ASSUME TypeOK, Shape, Believed, Evict PROVE Believed'
<1> DEFINE v == Head(victims)
<1>1. v \in Links /\ at = "evict" /\ ~CallbackHolds(v)
  BY HeadTailProperties DEF Evict, Shape, TypeOK
<1>2. UNCHANGED <<current, cur, cb>>
  BY DEF Evict, JobLeaves, UpdaterLeaves
<1>3. CASE Succeeds(Deleted(v, cur[v])) /\ Job("evicted", item, victims)
  <2>1. unsure' = unsure /\ core' = [core EXCEPT ![v] = Nil]
    BY <1>1, <1>3, DeleteAnswered
  <2>2. \A k \in Links : core'[k] = IF k = v THEN Nil ELSE core[k]
    BY <2>1 DEF TypeOK
  <2>3. at' = "evicted" /\ victims' = victims /\ item' = item
    BY <1>3 DEF Job
  <2>4. Truth'
    BY <1>1, <1>2, <2>1, <2>2, <2>3 DEF Believed, Truth, CallbackHolds, Shape
  <2>5. InStep'
    BY <1>1, <1>2, <2>1, <2>2, <2>3 DEF Believed, InStep, UpdaterHolds, CallbackHolds
  <2> QED
    BY <2>4, <2>5 DEF Believed
<1>4. CASE DeleteFails(v, cur[v]) /\ Drop
  <2>1. ~unsure' => core' = core /\ unsure' = unsure
    BY <1>1, <1>4, RequestFails
  <2>2. at' = "pick"
    BY <1>4 DEF Drop, Job
  <2> QED
    BY <1>1, <1>2, <2>1, <2>2 DEF Believed, Truth, InStep, UpdaterHolds, CallbackHolds
<1> QED
  BY <1>3, <1>4 DEF Evict

LEMMA CreateBelieves ==
  ASSUME TypeOK, Shape, Believed, Create PROVE Believed'
<1>1. item \in Links /\ at = "create" /\ ~CallbackHolds(item)
  BY DEF Create, Shape
<1>2. UNCHANGED <<current, cur, cb>>
  BY DEF Create, JobLeaves, UpdaterLeaves
<1>3. CASE Succeeds(Created(item)) /\ Job("created", item, <<>>)
  <2>1. unsure' = unsure /\ core' = [core EXCEPT ![item] = NewId]
    BY <1>1, <1>3, CreateAnswered
  <2> HIDE DEF NewId
  <2>2. \A k \in Links : core'[k] = IF k = item THEN NewId ELSE core[k]
    BY <2>1 DEF TypeOK
  <2>3. at' = "created" /\ item' = item
    BY <1>3 DEF Job
  <2>4. Truth'
    BY <1>1, <1>2, <2>1, <2>2, <2>3 DEF Believed, Truth, CallbackHolds, Shape
  <2>5. InStep'
    BY <1>1, <1>2, <2>1, <2>2, <2>3 DEF Believed, InStep, UpdaterHolds, CallbackHolds
  <2> QED
    BY <2>4, <2>5 DEF Believed
<1>4. CASE CreateFails(item) /\ Drop
  <2>1. ~unsure' => core' = core /\ unsure' = unsure
    BY <1>1, <1>4, RequestFails
  <2>2. at' = "pick"
    BY <1>4 DEF Drop, Job
  <2> QED
    BY <1>1, <1>2, <2>1, <2>2 DEF Believed, Truth, InStep, UpdaterHolds, CallbackHolds
<1> QED
  BY <1>3, <1>4 DEF Create

LEMMA UpdateBelieves ==
  ASSUME TypeOK, Shape, Believed, Update PROVE Believed'
<1>1. item \in Links /\ at = "update"
  BY DEF Update, Shape
<1>2. UNCHANGED <<core, current, cur, cb, unsure>>
  BY DEF Update, JobLeaves, UpdaterLeaves
<1>3. (at' = "updated" /\ item' = item /\ core[item] = cur[item]) \/ at' = "pick"
  BY DEF Update, Drop, Job
<1> QED
  BY <1>1, <1>2, <1>3 DEF Believed, Truth, InStep, UpdaterHolds, CallbackHolds

\* The updater records the outcome of a request and gives the link back.
LEMMA UpdaterRecords ==
  ASSUME TypeOK, Believed, NEW l \in Links, \A k \in Links : UpdaterHolds(k) <=> k = l,
         at' \in {"pick", "evict", "create"},
         UNCHANGED <<core, cb, unsure>>,
         current' = [current EXCEPT ![l] = core[l]]
  PROVE  Believed'
<1>1. \A k \in Links : current'[k] = IF k = l THEN core[l] ELSE current[k]
  BY DEF TypeOK
<1>2. Truth'
  BY DEF Believed, Truth
<1>3. InStep'
  BY <1>1 DEF Believed, InStep, UpdaterHolds, CallbackHolds
<1> QED
  BY <1>2, <1>3 DEF Believed

LEMMA RecordEvictedBelieves ==
  ASSUME TypeOK, Shape, Believed, RecordEvicted PROVE Believed'
<1> DEFINE v == Head(victims)
<1>1. v \in Links /\ at = "evicted"
  BY HeadTailProperties DEF RecordEvicted, Shape, TypeOK
<1>2. /\ current' = [current EXCEPT ![v] = Nil]
      /\ UNCHANGED <<core, cb, unsure>>
  BY DEF RecordEvicted, JobLeaves, UpdaterLeaves, faultVars
<1>3. at' \in {"pick", "evict", "create"}
  BY DEF RecordEvicted, Job, Drop
<1>4. \A k \in Links : UpdaterHolds(k) <=> k = v
  BY <1>1 DEF UpdaterHolds
<1> HIDE DEF v
<1>5. CASE unsure
  BY <1>2, <1>5 DEF Believed, Truth, InStep
<1>6. CASE ~unsure
  <2>1. core[v] = Nil
    BY <1>1, <1>6 DEF Believed, Truth, v
  <2> QED
    BY <1>1, <1>2, <1>3, <1>4, <2>1, UpdaterRecords
<1> QED
  BY <1>5, <1>6

LEMMA RecordCreatedBelieves ==
  ASSUME TypeOK, Shape, Believed, RecordCreated PROVE Believed'
<1>1. item \in Links /\ at = "created"
  BY DEF RecordCreated, Shape
<1>2. /\ current' = [current EXCEPT ![item] = core[item]] /\ at' = "pick"
      /\ UNCHANGED <<core, cb, unsure>>
  BY DEF RecordCreated, JobLeaves, UpdaterLeaves, faultVars, Drop, Job
<1>3. \A k \in Links : UpdaterHolds(k) <=> k = item
  BY <1>1 DEF UpdaterHolds
<1> QED
  BY <1>1, <1>2, <1>3, UpdaterRecords

LEMMA RecordUpdatedBelieves ==
  ASSUME TypeOK, Shape, Believed, RecordUpdated PROVE Believed'
<1>1. item \in Links /\ at = "updated"
  BY DEF RecordUpdated, Shape
<1>2. /\ current' = [current EXCEPT ![item] = cur[item]] /\ at' = "pick"
      /\ UNCHANGED <<core, cb, unsure>>
  BY DEF RecordUpdated, JobLeaves, UpdaterLeaves, faultVars, Drop, Job
<1>3. \A k \in Links : UpdaterHolds(k) <=> k = item
  BY <1>1 DEF UpdaterHolds
<1>4. CASE unsure
  BY <1>2, <1>4 DEF Believed, Truth, InStep
<1>5. CASE ~unsure
  <2>1. core[item] = cur[item]
    BY <1>1, <1>5 DEF Believed, Truth
  <2> QED
    BY <1>1, <1>2, <1>3, <2>1, UpdaterRecords
<1> QED
  BY <1>4, <1>5

LEMMA CallbackBelieves ==
  ASSUME TypeOK, Shape, Believed, CallbackStep PROVE Believed'
<1>1. CASE Deliver \/ Examine
  <2>1. UNCHANGED <<core, current, unsure, jobVars, cur>> /\ cb.step # "recording"
    BY <1>1 DEF Deliver, Examine, CallbackLeaves, upVars, copyVars, faultVars
  <2>2. \/ cb' = NoJob \/ cb' = cb
        \/ \E l \in Links : \/ cb' = [cb EXCEPT !.step = "up", !.link = l]
                           \/ cb' = [cb EXCEPT !.step = "down", !.link = l]
        \/ cb' = [cb EXCEPT !.step = "creating"]
        \/ cb' = [cb EXCEPT !.step = "deleting", !.id = current[cb.link]]
    <3>1. CASE Deliver
      <4> DEFINE M == [link : Links, status : Status, kind : {"added", "updated", "deleted"}]
      <4>a. diffs \in Seq(M) /\ diffs # <<>>
        <5>1. diffs \in Seq(M)
          BY DEF TypeOK
        <5>2. diffs # <<>>
          BY <3>1 DEF Deliver
        <5> QED
          BY <5>1, <5>2
      <4>b. Head(diffs) \in M
        BY <4>a, HeadTailProperties
      <4>1. Head(diffs).link \in Links
        BY <4>b
      <4> QED
        BY <3>1, <4>1 DEF Deliver
    <3>2. CASE Examine
      BY <3>2 DEF Examine
    <3> QED
      BY <1>1, <3>1, <3>2
  <2>3. cb'.step # "recording"
    <3>1. cb \in [step : {"idle", "up", "down", "creating", "deleting", "recording"},
                  link : Links \cup {None}, id : Ids \cup {Nil, Gone}]
      BY DEF TypeOK
    <3>2. NoJob.step = "idle"
      BY DEF NoJob
    <3> HIDE DEF Ids, Nil, Gone
    <3> QED
      BY <2>1, <2>2, <3>1, <3>2
  <2> QED
    BY <2>1, <2>3, CallbackLooks
<1> QED
  BY <1>1, CallbackCreatesBelieves, CallbackDeletesBelieves, CallbackRecordsBelieves
     DEF CallbackStep

LEMMA UpdaterBelieves ==
  ASSUME TypeOK, Shape, Believed, UpdaterStep PROVE Believed'
<1>1. CASE BeginRound \/ Sync \/ Read \/ \E d \in Devices : CreateDevice(d) \/ KeepDevice(d)
  <2>1. UNCHANGED <<core, current, cb, unsure, jobVars, cur>>
    BY <1>1 DEF BeginRound, Sync, Read, CreateDevice, KeepDevice, DeviceDone, UpdaterLeaves,
       faultVars, copyVars
  <2> QED
    BY <2>1, BystanderBelieves
<1>2. CASE Copy \/ Passes
  <2>1. UNCHANGED <<core, current, cb, unsure>> /\ at' = at
    BY <1>2 DEF Copy, Passes, InfoPass, NextPass, UpdaterLeaves, faultVars, jobVars
  <2>2. at = "pick"
    BY <1>2 DEF Copy, Passes, InfoPass, NextPass, Shape
  <2> QED
    BY <2>1, <2>2, BystanderBelieves
<1>3. ASSUME NEW l \in Links, Pick(l) PROVE Believed'
  <2>1. UNCHANGED <<core, current, cb, unsure>>
    BY <1>3 DEF Pick, UpdaterLeaves, faultVars
  <2>2. at = "pick" /\ at' \in {"pick", "evict", "update", "create"}
    BY <1>3 DEF Pick, Job, Drop
  <2> QED
    BY <2>1, <2>2, BystanderBelieves
<1>4. ASSUME NEW d \in Devices, DeleteDevice(d) PROVE Believed'
  BY <1>4, DeleteDeviceBelieves
<1> QED
  BY <1>1, <1>2, <1>3, <1>4, EvictBelieves, RecordEvictedBelieves, CreateBelieves,
     RecordCreatedBelieves, UpdateBelieves, RecordUpdatedBelieves DEF UpdaterStep

LEMMA InitHolds == Init => IInv
<1> SUFFICES ASSUME Init PROVE IInv
  OBVIOUS
<1>1. TypeOK /\ Shape
  BY InitTypes
<1>2. Truth
  BY DEF Init, Truth, NoJob
<1>3. InStep
  BY DEF Init, InStep
<1> QED
  BY <1>1, <1>2, <1>3 DEF IInv

LEMMA NextBelieves ==
  ASSUME TypeOK, Shape, Believed, [Next]_vars PROVE Believed'
<1>1. CASE CallbackStep
  BY <1>1, CallbackBelieves
<1>2. CASE UpdaterStep
  BY <1>2, UpdaterBelieves
<1>3. ASSUME UNCHANGED <<core, current, cb, upVars, faultVars>> PROVE Believed'
  <2>1. UNCHANGED <<core, current, cb, unsure, jobVars, cur>>
    BY <1>3 DEF upVars, faultVars, copyVars
  <2> QED
    BY <2>1, BystanderBelieves
<1>4. ASSUME NEW l \in Links, NEW s \in {"absent", "up", "down"}, ChangeLink(l, s)
      PROVE  Believed'
  BY <1>3, <1>4 DEF ChangeLink
<1>5. ASSUME NEW d \in Devices, ChangeDevice(d) PROVE Believed'
  BY <1>3, <1>5 DEF ChangeDevice
<1>6. CASE UNCHANGED vars
  BY <1>3, <1>6 DEF vars
<1> QED
  BY <1>1, <1>2, <1>4, <1>5, <1>6 DEF Next

LEMMA NextHolds == IInv /\ [Next]_vars => IInv'
BY NextTypes, NextBelieves DEF IInv, Believed

LEMMA InvariantHolds == Spec => []IInv
BY InitHolds, NextHolds, PTL DEF Spec

\* The state keeps its types: a new link object always gets an identity that is
\* nowhere in use (createActLink), and no goroutine works on nothing.
THEOREM TypeCorrect == Spec => []TypeOK
BY InvariantHolds, PTL DEF IInv

\* Whatever the callback and the updater do between looking a link up and
\* locking it, m.currentLinkMap agrees with cogsworth about every link whose
\* mutex is free, as long as no reply of cogsworth was lost.
THEOREM StaysInStep == Spec => []InStep
BY InvariantHolds, PTL DEF IInv

=============================================================================

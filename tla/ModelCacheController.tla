------------------------ MODULE ModelCacheController ------------------------
(***************************************************************************)
(* The ModelCache controller, the downloader Jobs it runs and the node     *)
(* disks they fill.                                                        *)
(*                                                                         *)
(* Reconcile(c) reads and decides; it leaves its API writes in todo, and   *)
(* each of them is a step of its own.  The controller runs one reconcile   *)
(* at a time.  It reads ModelCaches from view, the informer's copy of obj: *)
(* with Lagging the copy follows by Deliver steps, without it at once.     *)
(* Status is written with a merge patch: only the fields that the          *)
(* reconcile changed relative to what it read are sent.                    *)
(*                                                                         *)
(* A hash (CacheInputHash) is the record of what it hashes.  A cache       *)
(* stands for one object UID.  Which specs are valid is a field of the     *)
(* spec; size and revision are as written, so the default revision is a    *)
(* revision like the others.                                               *)
(***************************************************************************)
EXTENDS CachePlanner, Sequences

CONSTANTS
  Specs,          \* specs a user may write
  InitialSpecs,   \* the possible initial assignments of specs
  Tokens,         \* retry tokens: 0 is no annotation
  Lagging,        \* whether the informer's copy may lag
  FaultKinds,     \* the kinds of fault the environment may inject
  MaxEdits,       \* bound: user edits
  MaxFaults       \* bound: injected faults

VARIABLES
  obj,            \* ModelCaches in the API server
  view,           \* ModelCaches in the informer cache
  nodes,          \* nodes: existence, UID, eligibility
  job,            \* the downloader Job of each cache
  disk,           \* the marker at each path of each node
  secret,         \* whether the referenced Secret holds a token
  todo,           \* writes the running reconcile has still to issue
  edits, faults   \* how much of the two bounds is used

vars == <<obj, view, nodes, job, disk, secret, todo, edits, faults>>

NoHash == [rev |-> 0]
Hash == [rev: Nat, path: Paths, node: Nodes, uid: Nat, size: Nat]
Spec_ == [path: Paths, pin: Nodes \cup {NoNode}, size: Nat \ {0}, rev: Nat \ {0},
          valid: BOOLEAN, secretRef: BOOLEAN]
CachePhases == {"New", "Pending", "Downloading", "Ready", "Failed"}
PendingReasons == {"NodeLost", "SecretNotFound", "NoEligibleNode",
                   "PinnedNodeUnavailable", "PathConflict", "InsufficientCapacity"}
Reasons == PendingReasons \cup
  {"None", "SpecInvalid", "IdentityChanged", "SpecValidated", "Placed",
   "DownloadRunning", "DownloadFailed", "CacheReady"}
(* The condition Placed names the place in its message, and every condition *)
(* carries the generation it was observed at.                               *)
Place == (Nodes \cup {NoNode}) \X (Paths \cup {NoPath})
Nowhere == <<NoNode, NoPath>>
Conditions == [placed: Place, downloaded: BOOLEAN, ready: BOOLEAN, reason: Reasons, gen: Nat]
Status == [phase: CachePhases, node: Nodes \cup {NoNode}, uid: Nat,
           path: Paths \cup {NoPath}, size: Nat, hash: Hash \cup {NoHash},
           conds: Conditions]
NewStatus ==
  [phase |-> "New", node |-> NoNode, uid |-> 0, path |-> NoPath, size |-> 0,
   hash |-> NoHash,
   conds |-> [placed |-> Nowhere, downloaded |-> FALSE, ready |-> FALSE,
              reason |-> "None", gen |-> 0]]

NoJob == [state |-> "None"]
Job == [state: {"Running", "Complete", "Failed"}, deleting: BOOLEAN, hash: Hash,
        secretRef: BOOLEAN, token: Tokens]
FaultKind == {"Error", "Download", "Expire", "Node", "Secret"}

ASSUME ControllerAssumption ==
  /\ Specs \subseteq Spec_
  /\ InitialSpecs \subseteq [Caches -> Spec_]
  /\ Tokens \subseteq Nat /\ 0 \in Tokens
  /\ Lagging \in BOOLEAN
  /\ FaultKinds \subseteq FaultKind
  /\ MaxEdits \in Nat
  /\ MaxFaults \in Nat

Init ==
  /\ \E s \in InitialSpecs :
       obj = [c \in Caches |-> [exists |-> TRUE, spec |-> s[c], gen |-> 1, token |-> 0,
                                 st |-> NewStatus]]
  /\ view = obj
  /\ nodes = [n \in Nodes |-> [exists |-> TRUE, uid |-> NodeRank[n], eligible |-> TRUE]]
  /\ job = [c \in Caches |-> NoJob]
  /\ disk = [n \in Nodes |-> [p \in Paths |-> NoHash]]
  /\ secret = TRUE
  /\ todo = <<>>
  /\ edits = 0
  /\ faults = 0

-----------------------------------------------------------------------------
(* What a reconcile reads. *)

CacheInputHash(s, pl) ==
  [rev |-> s.rev, path |-> pl.path, node |-> pl.node, uid |-> pl.uid, size |-> pl.size]

HasCompletedArtifact(o) == o.st.conds.downloaded

NodeIs(n, uid) == nodes[n].exists /\ nodes[n].uid = uid

(* The recorded placement is one the spec still asks for. *)
RecordedForSpec(o) ==
  /\ o.spec.path = o.st.path
  /\ o.spec.pin \in {NoNode, o.st.node}

WasReady(o) ==
  /\ o.st.phase = "Ready" \/ HasCompletedArtifact(o)
  /\ o.st.node # NoNode
  /\ RecordedForSpec(o)

ExpectedHash(o) ==
  CacheInputHash(o.spec, [o.st EXCEPT !.size = o.spec.size])

ReadyPlacementMatches(c) ==
  LET o == view[c]
  IN  /\ WasReady(o)
      /\ NodeIs(o.st.node, o.st.uid)
      /\ \/ o.st.hash = ExpectedHash(o)
         \/ job[c] # NoJob /\ job[c].hash = ExpectedHash(o) /\ job[c].state = "Complete"

NodeLost(c) == WasReady(view[c]) /\ ~NodeIs(view[c].st.node, view[c].st.uid)

InFlight(o) == o.st.phase = "Downloading" /\ o.st.hash # NoHash

InFlightIdentityMatches(o) == RecordedForSpec(o) /\ o.st.hash = ExpectedHash(o)

Placement(st) == [node |-> st.node, uid |-> st.uid, path |-> st.path, size |-> st.size]

PlacementRecorded(o, pl) == Placement(o.st) = pl

-----------------------------------------------------------------------------
(* The statuses a reconcile writes. *)

SetPending(o, reason) ==
  [o.st EXCEPT !.phase = "Pending",
               !.conds.placed = Nowhere,
               !.conds.downloaded = @ \/ (reason = "NodeLost" /\ o.st.phase = "Ready"),
               !.conds.ready = FALSE, !.conds.reason = reason]

Fail(st, reason) ==
  [st EXCEPT !.phase = "Failed",
             !.conds.placed = IF reason = "SpecInvalid" THEN Nowhere ELSE @,
             !.conds.downloaded = @ /\ reason # "SpecInvalid",
             !.conds.ready = FALSE, !.conds.reason = reason]

SetReady(o) ==
  [o.st EXCEPT !.phase = "Ready", !.hash = ExpectedHash(o), !.size = o.spec.size,
               !.conds.placed = <<o.st.node, o.st.path>>, !.conds.downloaded = TRUE,
               !.conds.ready = TRUE, !.conds.reason = "CacheReady"]

RecordPlacement(pl) ==
  [phase |-> "Pending", node |-> pl.node, uid |-> pl.uid, path |-> pl.path, size |-> pl.size,
   hash |-> NoHash,
   conds |-> [placed |-> <<pl.node, pl.path>>, downloaded |-> FALSE, ready |-> FALSE,
              reason |-> "Placed", gen |-> 0]]

IdentityReset(o) ==
  [o.st EXCEPT !.phase = "Pending", !.hash = NoHash,
               !.conds.placed = Nowhere, !.conds.downloaded = FALSE,
               !.conds.ready = FALSE, !.conds.reason = "SpecValidated"]

(* Faulty variant: a Job that no longer runs counts as complete. *)
ProjectJobStatusAnyEnd(pl, j) ==
  LET st == [RecordPlacement(pl) EXCEPT !.hash = j.hash]
  IN  IF j.state = "Running"
      THEN [st EXCEPT !.phase = "Downloading", !.conds.reason = "DownloadRunning"]
      ELSE [st EXCEPT !.phase = "Ready",
                      !.conds.downloaded = TRUE, !.conds.ready = TRUE,
                      !.conds.reason = "CacheReady"]

(* Faulty variant: a failed Job counts as one that still runs. *)
ProjectJobStatusCompleteOnly(pl, j) ==
  LET st == [RecordPlacement(pl) EXCEPT !.hash = j.hash]
  IN  IF j.state = "Complete"
      THEN [st EXCEPT !.phase = "Ready",
                      !.conds.downloaded = TRUE, !.conds.ready = TRUE,
                      !.conds.reason = "CacheReady"]
      ELSE [st EXCEPT !.phase = "Downloading", !.conds.reason = "DownloadRunning"]

ProjectJobStatus(pl, j) ==
  LET st == [RecordPlacement(pl) EXCEPT !.hash = j.hash]
  IN  CASE j.state = "Complete" ->
             [st EXCEPT !.phase = "Ready",
                        !.conds.downloaded = TRUE, !.conds.ready = TRUE,
                        !.conds.reason = "CacheReady"]
        [] j.state = "Failed"  -> Fail(st, "DownloadFailed")
        [] j.state = "Running" -> [st EXCEPT !.phase = "Downloading",
                                             !.conds.reason = "DownloadRunning"]

BuildCacheDownloaderJob(o, pl) ==
  [state |-> "Running", deleting |-> FALSE, hash |-> CacheInputHash(o.spec, pl),
   secretRef |-> o.spec.secretRef, token |-> o.token]

-----------------------------------------------------------------------------
(* The writes of a reconcile. *)

(* Nothing is written when nothing changes.  Every status that is written   *)
(* has been observed at the generation that was read.                       *)
PatchStatus(c, st) ==
  LET new == [st EXCEPT !.conds.gen = view[c].gen]
  IN  IF new = view[c].st THEN <<>>
      ELSE <<[op |-> "PatchStatus", c |-> c, base |-> view[c].st, new |-> new]>>

CreateJob(c, j) == [op |-> "CreateJob", c |-> c, job |-> j]
DeleteJob(c) == [op |-> "DeleteJob", c |-> c]

DeleteDownloaderJob(c) == IF job[c].deleting THEN <<>> ELSE <<DeleteJob(c)>>

(* Faulty variant: retry tokens are ignored. *)
NeedsReplaceOnHash(c, desired) ==
  job[c].hash # desired.hash \/ job[c].secretRef # desired.secretRef

(* Faulty variant: the token is not compared with the one on the Job. *)
NeedsReplaceAlways(c, desired) ==
  \/ view[c].st.phase # "Ready" /\ view[c].token # 0
  \/ job[c].hash # desired.hash \/ job[c].secretRef # desired.secretRef

(* The Job runs something else than the spec asks for, or answers to an    *)
(* older retry token (cacheJobHash and the retry annotation).              *)
NeedsReplace(c, desired) ==
  \/ /\ view[c].st.phase # "Ready"
     /\ view[c].token # 0
     /\ view[c].token # job[c].token
  \/ job[c].hash # desired.hash
  \/ job[c].secretRef # desired.secretRef

ReconcileDownloaderJob(c, pl) ==
  LET desired == BuildCacheDownloaderJob(view[c], pl)
  IN  CASE job[c] = NoJob ->
             <<CreateJob(c, desired)>> \o PatchStatus(c, ProjectJobStatus(pl, desired))
        [] job[c] # NoJob /\ job[c].deleting -> <<>>
        [] job[c] # NoJob /\ ~job[c].deleting /\ NeedsReplace(c, desired) -> <<DeleteJob(c)>>
        [] OTHER -> PatchStatus(c, ProjectJobStatus(pl, job[c]))

ReconcileSpecInvalid(c) ==
  /\ ~view[c].spec.valid
  /\ todo' = PatchStatus(c, Fail(view[c].st, "SpecInvalid"))

ReconcileReady(c) ==
  /\ view[c].spec.valid
  /\ ReadyPlacementMatches(c)
  /\ todo' = PatchStatus(c, SetReady(view[c]))

ReconcileNodeLost(c) ==
  /\ view[c].spec.valid
  /\ NodeLost(c)
  /\ todo' = PatchStatus(c, SetPending(view[c], "NodeLost"))

(* What the three cases above and a completed artifact leave over. *)
Unfinished(c) ==
  /\ view[c].spec.valid
  /\ ~ReadyPlacementMatches(c)
  /\ ~NodeLost(c)
  /\ ~HasCompletedArtifact(view[c])

ReconcileIdentityChanged(c) ==
  /\ view[c].spec.valid
  /\ ~ReadyPlacementMatches(c)
  /\ ~NodeLost(c)
  /\ HasCompletedArtifact(view[c])
  /\ todo' = PatchStatus(c, Fail(view[c].st, "IdentityChanged"))

ReconcileInFlightEdited(c) ==
  /\ Unfinished(c)
  /\ InFlight(view[c])
  /\ ~InFlightIdentityMatches(view[c])
  /\ todo' = IF job[c] # NoJob THEN DeleteDownloaderJob(c)
                               ELSE PatchStatus(c, IdentityReset(view[c]))

ReconcileInFlight(c) ==
  /\ Unfinished(c)
  /\ InFlight(view[c])
  /\ InFlightIdentityMatches(view[c])
  /\ NodeIs(view[c].st.node, view[c].st.uid)
  /\ todo' = ReconcileDownloaderJob(c, Placement(view[c].st))

(* The node of the download is gone, and its Job with it. *)
InFlightLost(o) ==
  /\ InFlight(o)
  /\ InFlightIdentityMatches(o)
  /\ ~NodeIs(o.st.node, o.st.uid)

ReconcileInFlightLost(c) ==
  /\ Unfinished(c)
  /\ InFlightLost(view[c])
  /\ job[c] # NoJob
  /\ todo' = DeleteDownloaderJob(c)

(* Faulty variant: planning again for a download that is under way. *)
PlannableInFlight(c) == Unfinished(c)

Plannable(c) ==
  /\ Unfinished(c)
  /\ InFlight(view[c]) => InFlightLost(view[c]) /\ job[c] = NoJob

ReconcileSecretMissing(c) ==
  /\ Plannable(c)
  /\ view[c].spec.secretRef /\ ~secret
  /\ todo' = PatchStatus(c, SetPending(view[c], "SecretNotFound"))

ResolvesPlacement(c) ==
  /\ Plannable(c)
  /\ view[c].spec.secretRef => secret

ReconcileUnplaced(c) ==
  /\ ResolvesPlacement(c)
  /\ PlanResult(view, c, nodes) # "Placed"
  /\ todo' = PatchStatus(c, SetPending(view[c], PlanResult(view, c, nodes)))

ReconcilePlace(c) ==
  /\ ResolvesPlacement(c)
  /\ PlanResult(view, c, nodes) = "Placed"
  /\ ~PlacementRecorded(view[c], Plan(view, c, nodes))
  /\ todo' = PatchStatus(c, RecordPlacement(Plan(view, c, nodes)))

ReconcilePlaced(c) ==
  /\ ResolvesPlacement(c)
  /\ PlanResult(view, c, nodes) = "Placed"
  /\ PlacementRecorded(view[c], Plan(view, c, nodes))
  /\ todo' = ReconcileDownloaderJob(c, Plan(view, c, nodes))

ReconcilePlan(c) ==
  \/ ReconcileSpecInvalid(c)
  \/ ReconcileReady(c)
  \/ ReconcileNodeLost(c)
  \/ ReconcileIdentityChanged(c)
  \/ ReconcileInFlightEdited(c)
  \/ ReconcileInFlight(c)
  \/ ReconcileInFlightLost(c)
  \/ ReconcileSecretMissing(c)
  \/ ReconcileUnplaced(c)
  \/ ReconcilePlace(c)
  \/ ReconcilePlaced(c)

Reconcile(c) ==
  /\ todo = <<>>
  /\ view[c].exists
  /\ ReconcilePlan(c)
  /\ UNCHANGED <<obj, view, nodes, job, disk, secret, edits, faults>>

-----------------------------------------------------------------------------
(* The API server applies the next write.  Without Lagging the informer    *)
(* has the result before the next read.                                    *)

Issue(op) == todo # <<>> /\ Head(todo).op = op /\ todo' = Tail(todo)

Stored(new) ==
  /\ obj' = new
  /\ view' = IF Lagging THEN view ELSE new

(* A merge patch: fields that the reconcile did not change keep the value  *)
(* they have in the API server.  Conditions are one field.                 *)
MergePatch(cur, base, new) ==
  [f \in DOMAIN cur |-> IF new[f] = base[f] THEN cur[f] ELSE new[f]]

WriteStatus ==
  /\ Issue("PatchStatus")
  /\ LET w == Head(todo)
     IN  /\ obj[w.c].exists
         /\ Stored([obj EXCEPT ![w.c].st = MergePatch(@, w.base, w.new)])
  /\ UNCHANGED <<nodes, job, disk, secret, edits, faults>>

(* The garbage collector deletes a Job whose owner is gone. *)
WriteJob ==
  /\ Issue("CreateJob")
  /\ job' = [job EXCEPT ![Head(todo).c] =
               [Head(todo).job EXCEPT !.deleting = ~obj[Head(todo).c].exists]]
  /\ UNCHANGED <<obj, view, nodes, disk, secret, edits, faults>>

(* Foreground deletion: the Job stays until its pods are gone. *)
WriteJobDeletion ==
  /\ Issue("DeleteJob")
  /\ job' = IF job[Head(todo).c] = NoJob THEN job
            ELSE [job EXCEPT ![Head(todo).c].deleting = TRUE]
  /\ UNCHANGED <<obj, view, nodes, disk, secret, edits, faults>>

Fault(kind) ==
  /\ kind \in FaultKinds
  /\ faults < MaxFaults
  /\ faults' = faults + 1

(* An API error or an operator crash: the rest of the reconcile is lost.   *)
ReconcileError ==
  /\ todo # <<>>
  /\ todo' = <<>>
  /\ Fault("Error")
  /\ UNCHANGED <<obj, view, nodes, job, disk, secret, edits>>

(* A status patch of a deleted cache fails. *)
PatchNotFound ==
  /\ todo # <<>>
  /\ Head(todo).op = "PatchStatus"
  /\ ~obj[Head(todo).c].exists
  /\ todo' = <<>>
  /\ UNCHANGED <<obj, view, nodes, job, disk, secret, edits, faults>>

Deliver(c) ==
  /\ view[c] # obj[c]
  /\ view' = [view EXCEPT ![c] = obj[c]]
  /\ UNCHANGED <<obj, nodes, job, disk, secret, todo, edits, faults>>

-----------------------------------------------------------------------------
(* Users. *)

UserEdit == edits < MaxEdits /\ edits' = edits + 1

EditSpec(c, s) ==
  /\ UserEdit
  /\ obj[c].exists /\ obj[c].spec # s
  /\ Stored([obj EXCEPT ![c].spec = s, ![c].gen = @ + 1])
  /\ UNCHANGED <<nodes, job, disk, secret, todo, faults>>

SetRetryToken(c, t) ==
  /\ UserEdit
  /\ obj[c].exists /\ t > obj[c].token
  /\ Stored([obj EXCEPT ![c].token = t])
  /\ UNCHANGED <<nodes, job, disk, secret, todo, faults>>

(* There is no finalizer: the object goes at once, its files stay and its  *)
(* Job is garbage collected.                                               *)
DeleteCache(c) ==
  /\ UserEdit
  /\ obj[c].exists
  /\ Stored([obj EXCEPT ![c].exists = FALSE])
  /\ job' = IF job[c] = NoJob THEN job ELSE [job EXCEPT ![c].deleting = TRUE]
  /\ UNCHANGED <<nodes, disk, secret, todo, faults>>

-----------------------------------------------------------------------------
(* Downloader pods, the Job controller and the nodes. *)

Runs(c) == job[c] # NoJob /\ job[c].state = "Running" /\ nodes[job[c].hash.node].exists

Marker(c) == disk[job[c].hash.node][job[c].hash.path]

(* Faulty variant: the download replaces whatever is at its destination. *)
PodOverwrites(c) ==
  /\ Runs(c)
  /\ Marker(c) # job[c].hash
  /\ disk' = [disk EXCEPT ![job[c].hash.node][job[c].hash.path] = job[c].hash]
  /\ UNCHANGED <<obj, view, nodes, job, secret, todo, edits, faults>>

(* The staged download replaces an absent destination in one rename; a     *)
(* destination that holds a marker is never overwritten.                   *)
PodPublishes(c) ==
  /\ Runs(c)
  /\ Marker(c) = NoHash
  /\ disk' = [disk EXCEPT ![job[c].hash.node][job[c].hash.path] = job[c].hash]
  /\ UNCHANGED <<obj, view, nodes, job, secret, todo, edits, faults>>

(* A pod exits 0 when it finds its own marker, 1 when it finds another. *)
JobFinishes(c) ==
  /\ Runs(c)
  /\ Marker(c) # NoHash
  /\ job' = [job EXCEPT ![c].state = IF Marker(c) = job[c].hash THEN "Complete" ELSE "Failed"]
  /\ UNCHANGED <<obj, view, nodes, disk, secret, todo, edits, faults>>

(* The backoff limit or the deadline of the Job is exceeded. *)
JobFails(c) ==
  /\ job[c] # NoJob /\ job[c].state = "Running"
  /\ job' = [job EXCEPT ![c].state = "Failed"]
  /\ Fault("Download")
  /\ UNCHANGED <<obj, view, nodes, disk, secret, todo, edits>>

(* The TTL controller removes a finished Job. *)
JobExpires(c) ==
  /\ job[c] # NoJob /\ job[c].state # "Running"
  /\ job' = [job EXCEPT ![c] = NoJob]
  /\ Fault("Expire")
  /\ UNCHANGED <<obj, view, nodes, disk, secret, todo, edits>>

JobGone(c) ==
  /\ job[c] # NoJob /\ job[c].deleting
  /\ job' = [job EXCEPT ![c] = NoJob]
  /\ UNCHANGED <<obj, view, nodes, disk, secret, todo, edits, faults>>

NodeCordoned(n) ==
  /\ nodes[n].exists
  /\ nodes' = [nodes EXCEPT ![n].eligible = ~@]
  /\ Fault("Node")
  /\ UNCHANGED <<obj, view, job, disk, secret, todo, edits>>

NodeDeleted(n) ==
  /\ nodes[n].exists
  /\ nodes' = [nodes EXCEPT ![n].exists = FALSE]
  /\ Fault("Node")
  /\ UNCHANGED <<obj, view, job, disk, secret, todo, edits>>

(* A node of the same name registers again, with its old disk or an empty  *)
(* one.                                                                    *)
NodeRecreated(n) ==
  /\ ~nodes[n].exists
  /\ nodes' = [nodes EXCEPT ![n] = [exists |-> TRUE, eligible |-> TRUE,
                                      uid |-> Max({nodes[m].uid : m \in Nodes}) + 1]]
  /\ disk' \in {disk, [disk EXCEPT ![n] = [p \in Paths |-> NoHash]]}
  /\ UNCHANGED <<obj, view, job, secret, todo, edits, faults>>

SecretChanges ==
  /\ secret' = ~secret
  /\ Fault("Secret")
  /\ UNCHANGED <<obj, view, nodes, job, disk, todo, edits>>

-----------------------------------------------------------------------------
Next ==
  \/ \E c \in Caches :
       \/ Reconcile(c)
       \/ Deliver(c)
       \/ \E s \in Specs : EditSpec(c, s)
       \/ \E t \in Tokens : SetRetryToken(c, t)
       \/ DeleteCache(c)
       \/ PodPublishes(c)
       \/ JobFinishes(c)
       \/ JobFails(c)
       \/ JobExpires(c)
       \/ JobGone(c)
  \/ \E n \in Nodes : NodeCordoned(n) \/ NodeDeleted(n) \/ NodeRecreated(n)
  \/ WriteStatus
  \/ WriteJob
  \/ WriteJobDeletion
  \/ ReconcileError
  \/ PatchNotFound
  \/ SecretChanges

Spec == Init /\ [][Next]_vars

(* The controller watches caches, Jobs and nodes, requeues what waits and  *)
(* retries errors; Kubernetes runs downloads and deletions to their end.   *)
FairSpec ==
  /\ Spec
  /\ \A c \in Caches :
       /\ SF_vars(Reconcile(c))
       /\ WF_vars(Deliver(c))
       /\ WF_vars(PodPublishes(c) \/ JobFinishes(c) \/ JobGone(c))
  /\ WF_vars(WriteStatus \/ WriteJob \/ WriteJobDeletion \/ PatchNotFound)

-----------------------------------------------------------------------------
CacheObject == [exists: BOOLEAN, spec: Spec_, gen: Nat, token: Tokens, st: Status]
Write == [op: {"PatchStatus"}, c: Caches, base: Status, new: Status]
           \cup [op: {"CreateJob"}, c: Caches, job: Job]
           \cup [op: {"DeleteJob"}, c: Caches]

(* Objects, Jobs, markers and pending writes are well formed. *)
TypeOK ==
  /\ obj \in [Caches -> CacheObject]
  /\ view \in [Caches -> CacheObject]
  /\ nodes \in [Nodes -> [exists: BOOLEAN, uid: Nat, eligible: BOOLEAN]]
  /\ job \in [Caches -> Job \cup {NoJob}]
  /\ disk \in [Nodes -> [Paths -> Hash \cup {NoHash}]]
  /\ secret \in BOOLEAN
  /\ todo \in Seq(Write)
  /\ edits \in 0..MaxEdits
  /\ faults \in 0..MaxFaults

(* A cache that reports Ready on a node that still is the node it was      *)
(* filled on has its own artifact at its path there: a Job that was        *)
(* replaced, lost, deleted or raced by another cache's Job never makes the *)
(* controller announce data that is missing or is somebody else's.         *)
ReadyOnDisk ==
  \A c \in Caches :
    LET st == obj[c].st
    IN  obj[c].exists /\ st.phase = "Ready" /\ NodeIs(st.node, st.uid)
          => disk[st.node][st.path] = st.hash

(* The cache has been given its path: it is placed and not failed, or its  *)
(* artifact is complete.                                                   *)
Holds(c) ==
  LET st == obj[c].st
  IN  /\ obj[c].exists
      /\ st.node # NoNode
      /\ st.conds.downloaded \/ (st.conds.placed # Nowhere /\ st.phase # "Failed")

(* Two caches never hold the same path of the same node, whatever fails,   *)
(* is edited or is deleted between the steps of their reconciles.          *)
NoSharedPlacement ==
  \A c, d \in Caches :
    c # d /\ Holds(c) /\ Holds(d)
      => obj[c].st.node # obj[d].st.node \/ obj[c].st.path # obj[d].st.path

(* The sizes reserved by the caches placed on a node stay within the       *)
(* capacity the node advertises.                                           *)
CapacityRespected ==
  \A n \in Nodes :
    LET held == {c \in Caches : Holds(c) /\ obj[c].st.node = n}
    IN  SumFunctionOnSet([c \in Caches |-> obj[c].st.size], held) <= Capacity[n]

(* At most one downloader works on a path of a node; a Job that is being   *)
(* deleted is on its way out.                                              *)
OneWriter ==
  \A c, d \in Caches :
    c # d /\ Runs(c) /\ Runs(d) /\ ~job[c].deleting /\ ~job[d].deleting
      => job[c].hash.node # job[d].hash.node \/ job[c].hash.path # job[d].hash.path

(* A download that failed and is asked for again, by a retry token that    *)
(* its Job does not carry, gets a Job for that token, unless the cache is  *)
(* edited, deleted or refused a place in the meantime: no such request     *)
(* waits for ever, however late the controller sees the objects.           *)
RetryHonoured ==
  []<>(\A c \in Caches, t \in Tokens \ {0} :
         /\ obj[c].exists /\ obj[c].token = t /\ obj[c].spec.valid
         /\ obj[c].st.conds.reason = "DownloadFailed"
         => job[c] # NoJob /\ job[c].token = t)

(* A download that is under way ends: no order of retries, deletions, late *)
(* views and lost writes leaves a cache Downloading for ever, and the      *)
(* caches do not keep each other downloading in turn.                      *)
DownloadEnds ==
  []<>(\A c \in Caches : obj[c].exists => obj[c].st.phase # "Downloading")

(* The controller comes to rest: caches do not keep taking places or Jobs  *)
(* from each other.                                                        *)
Settles == <>[][UNCHANGED <<obj, job>>]_vars

(* A cache that is refused for a path conflict is refused because another  *)
(* cache has the path: it does not wait for a cache that waits for it.     *)
PathConflictHasOwner ==
  \A c \in Caches :
    []<>(obj[c].st.conds.reason = "PathConflict"
           => \E d \in Caches \ {c} : Holds(d) /\ obj[d].st.path = obj[c].spec.path)

(* The artifact a cache has once announced is the only one it announces. *)
ReadyImmutable ==
  \A c \in Caches, s \in Specs :
    LET announced == /\ obj[c].st.phase = "Ready"
                     /\ obj[c].st.hash.path = s.path
                     /\ obj[c].st.hash.rev = s.rev
    IN  [](announced => [](obj[c].st.phase = "Ready" => announced))

(* Once a download has failed for a retry token, no other Job runs for it. *)
RetryOnce ==
  \A c \in Caches, t \in Tokens \ {0} :
    [](job[c] # NoJob /\ job[c].token = t /\ job[c].state = "Failed"
         => [](job[c] # NoJob /\ job[c].token = t => job[c].state = "Failed"))
=============================================================================

--------------------------- MODULE RemoteResource ---------------------------
(***************************************************************************)
(* The controllers that keep one object of the Datadog account in step     *)
(* with a custom resource: DatadogMonitor, DatadogSLO, DatadogDashboard    *)
(* and DatadogGenericResource, with the finalizer they share.  They are    *)
(* one algorithm that differs in what it does on a 404, on a failed call   *)
(* and on a conflicting status write; the variable `kind' says which of    *)
(* them runs.  One action per call to the API server or to Datadog.        *)
(***************************************************************************)
EXTENDS Integers, Sequences, FiniteSets

CONSTANTS
  Kinds,      \* the controllers considered
  Bodies,     \* what a custom resource may describe
  Rejected,   \* the bodies refused by IsValidDatadog* or by the Datadog API
  NoSpec,     \* no spec was pushed yet
  Absent,     \* the remote object does not exist any more
  Drifted,    \* the remote object was changed in the Datadog UI
  Stale,      \* may a reconcile start from a cached object that is out of date?
  MaxRemote,  \* bound: objects created in the Datadog account
  MaxEdits,   \* bound: edits and deletions by users, on either side
  MaxFaults   \* bound: failed calls and operator restarts

ASSUME KindsAssumption == Kinds \subseteq {"monitor", "slo", "dashboard", "generic"}
ASSUME RejectedAssumption == Rejected \subseteq Bodies
ASSUME StaleAssumption == Stale \in BOOLEAN

(* A spec with the state of its required tag; "disabled" is the option     *)
(* DisableRequiredTags.  The hash of a spec is taken to be injective, so   *)
(* the spec stands for it.                                                 *)
Specs == [body : Bodies, tags : {"missing", "present", "disabled"}]

(* Status: the remote ID, CurrentHash, and the age of the last force sync. *)
NoID == 0
Statuses == [id : 0 .. MaxRemote, hash : Specs \cup {NoSpec},
             last : {"never", "recent", "due"}]
NoStatus == [id |-> NoID, hash |-> NoSpec, last |-> "never"]

Resources == [live : BOOLEAN, deleting : BOOLEAN, fin : BOOLEAN,
              spec : Specs, st : Statuses]

Steps == {"idle", "addFinalizer", "delete", "dropFinalizer", "get",
          "refresh", "tags", "create", "update", "status", "retry"}

(* A reconcile: the spec and status it read, the status it will write,     *)
(* whether the object it holds has the current ResourceVersion, whether    *)
(* its result asks for another pass.                                       *)
Recs == [pc : Steps, spec : Specs \cup {NoSpec}, old : Statuses, st : Statuses,
         rvOK : BOOLEAN, requeue : BOOLEAN]
Idle == [pc |-> "idle", spec |-> NoSpec, old |-> NoStatus, st |-> NoStatus,
         rvOK |-> FALSE, requeue |-> FALSE]

VARIABLES
  kind,     \* the controller
  cr,       \* the custom resource in the API server
  cache,    \* the informer's copy of it
  fresh,    \* the informer's copy has the current ResourceVersion
  event,    \* the informer has yet to see a change of the generation
  remote,   \* remote[id]: the object Datadog gave that ID
  rec,      \* the reconcile in progress
  queued,   \* a reconcile request is queued or scheduled
  edits,    \* users' operations so far
  faults    \* failures so far

vars == <<kind, cr, cache, fresh, event, remote, rec, queued, edits, faults>>
store == <<cr, cache, fresh, event>>
-----------------------------------------------------------------------------
(* Where the controllers differ. *)

(* Mutation of RetriesConflict: a conflict always drops the new status.    *)
RetriesConflictNever(k) == FALSE

(* updateStatusIfNeeded re-reads the object and writes the status again.   *)
RetriesConflict(k) == k \in {"monitor", "generic"}

(* Mutation of SwallowsDeleteError: so does the SLO controller.            *)
SwallowsDeleteErrorSLO(k) == k \in {"dashboard", "slo"}

(* deleteResource returns nil although the delete call failed.             *)
SwallowsDeleteError(k) == k = "dashboard"

(* Mutation of Tolerates404: an already deleted monitor is a failed deletion.       *)
Tolerates404SLO(k) == k \in {"slo", "generic"}

(* deleteResource counts a 404 as done.                                    *)
Tolerates404(k) == k \in {"monitor", "slo", "generic"}

(* update sets CurrentHash before it calls Datadog, so also when that fails. *)
Attempted(k, st, s) == IF k = "monitor" THEN st ELSE [st EXCEPT !.hash = s]

(* The force sync restarts its period even when its get failed.            *)
Checked(k, st) ==
  IF k \in {"slo", "dashboard"} THEN [st EXCEPT !.last = "recent"] ELSE st

(* Mutation of Created: the hash leaves the tags out.                      *)
CreatedUntagged(k, st, id, s) == [id |-> id, hash |-> s.body, last |-> "recent"]

(* create: a monitor's first force sync is left to the next reconcile.     *)
Created(k, st, id, s) ==
  [id |-> id, hash |-> s, last |-> IF k = "monitor" THEN st.last ELSE "recent"]

Updated(st, s) == [st EXCEPT !.hash = s, !.last = "recent"]

(* checkRequiredTags has something to add.                                 *)
LacksTags(k, s) == k \in {"monitor", "slo"} /\ s.tags = "missing"

(* Mutation of Due: the periodic sync only ever happens once.              *)
DueOnce(st) == st.last = "never"

(* The force sync period has elapsed.                                      *)
Due(st) == st.last # "recent"
-----------------------------------------------------------------------------
(* The reconcile. *)

Init ==
  /\ kind \in Kinds
  /\ cr \in [live : {TRUE}, deleting : {FALSE}, fin : {FALSE}, spec : Specs, st : {NoStatus}]
  /\ cache = cr
  /\ fresh = TRUE
  /\ event = FALSE
  /\ remote = << >>
  /\ rec = Idle
  /\ queued = TRUE
  /\ edits = 0
  /\ faults = 0

(* The reconcile returns; `again' says that its result or error requeues.  *)
Return(again) == rec' = Idle /\ queued' = (queued \/ again)

(* It goes on to the step pc, with st as the status to be written.         *)
Continue(pc, st) == rec' = [rec EXCEPT !.pc = pc, !.st = st] /\ UNCHANGED queued

(* To the create or update call, by way of checkRequiredTags.              *)
Act(pc, s) == IF LacksTags(kind, s) THEN "tags" ELSE pc

(* A reconcile takes the object from the cache and gets to the step pc.    *)
Read(pc, requeue) ==
  /\ rec.pc = "idle" /\ queued /\ (Stale \/ fresh)
  /\ cache.live
  /\ rec' = [pc |-> pc, spec |-> cache.spec, old |-> cache.st, st |-> cache.st,
             rvOK |-> fresh, requeue |-> requeue]
  /\ queued' = FALSE
  /\ UNCHANGED <<kind, store, remote, edits, faults>>

ReadNotFound ==
  /\ rec.pc = "idle" /\ queued /\ (Stale \/ fresh)
  /\ ~cache.live
  /\ queued' = FALSE
  /\ UNCHANGED <<kind, store, remote, rec, edits, faults>>

(* HandleFinalizer.  A monitor whose ID was cleared calls delete with ID 0, *)
(* which is a 404 and done.                                                *)
ReadDeleting ==
  /\ cache.deleting
  /\ Read(IF cache.st.id = NoID THEN "dropFinalizer" ELSE "delete", TRUE)

ReadUnguarded ==
  /\ ~cache.deleting /\ ~cache.fin
  /\ Read("addFinalizer", TRUE)

Guarded == ~cache.deleting /\ cache.fin

(* IsValidDatadog* fails: the error goes to the status, nothing requeues.  *)
ReadInvalid ==
  /\ Guarded /\ cache.spec.body \in Rejected /\ kind # "generic"
  /\ Read("status", FALSE)

ReadUncreated ==
  /\ Guarded /\ cache.st.id = NoID
  /\ Read(Act("create", cache.spec), TRUE)

ReadChanged ==
  /\ Guarded /\ cache.st.id # NoID /\ cache.st.hash # cache.spec
  /\ Read(IF kind = "monitor" THEN "get" ELSE Act("update", cache.spec), TRUE)

ReadDue ==
  /\ Guarded /\ cache.st.id # NoID /\ cache.st.hash = cache.spec /\ Due(cache.st)
  /\ Read("get", TRUE)

(* Nothing to do, or only the state of the monitor to be refreshed.        *)
ReadUnchanged ==
  /\ Guarded /\ cache.st.id # NoID /\ cache.st.hash = cache.spec /\ ~Due(cache.st)
  /\ \/ Read("status", TRUE)
     \/ kind = "monitor" /\ Read("refresh", TRUE)

(* A write accepted by the API server.                                     *)
Write(new) ==
  /\ cr' = new
  /\ fresh' = FALSE
  /\ event' = (event \/ new.spec # cr.spec \/ new.deleting # cr.deleting \/ ~new.live)
  /\ UNCHANGED cache

AddFinalizer ==
  /\ rec.pc = "addFinalizer"
  /\ IF rec.rvOK THEN Write([cr EXCEPT !.fin = TRUE]) ELSE UNCHANGED store
  /\ Return(TRUE)
  /\ UNCHANGED <<kind, remote, edits, faults>>

(* deleteResource: the delete call, answered.                              *)
DeleteRemote ==
  /\ rec.pc = "delete"
  /\ IF remote[rec.old.id] # Absent \/ Tolerates404(kind) \/ SwallowsDeleteError(kind)
       THEN Continue("dropFinalizer", rec.st)
       ELSE Return(TRUE)
  /\ remote' = [remote EXCEPT ![rec.old.id] = Absent]
  /\ UNCHANGED <<kind, store, edits, faults>>

(* The last finalizer goes: the API server removes the object.             *)
DropFinalizer ==
  /\ rec.pc = "dropFinalizer"
  /\ IF rec.rvOK THEN Write([cr EXCEPT !.fin = FALSE, !.live = FALSE])
     ELSE UNCHANGED store
  /\ Return(TRUE)
  /\ UNCHANGED <<kind, remote, edits, faults>>

(* get before an update, when the spec changed (monitor) or on force sync. *)
GetRemote ==
  /\ rec.pc = "get"
  /\ Continue(Act(IF remote[rec.old.id] = Absent THEN "create" ELSE "update", rec.spec),
              Checked(kind, rec.st))
  /\ UNCHANGED <<kind, store, remote, edits, faults>>

(* get for the state of the monitor, which updateMonitorState copies.      *)
RefreshState ==
  /\ rec.pc = "refresh"
  /\ Continue(IF remote[rec.old.id] = Absent THEN Act("create", rec.spec) ELSE "status",
              rec.st)
  /\ UNCHANGED <<kind, store, remote, edits, faults>>

(* checkRequiredTags: Update, then the status; the write's own event asks  *)
(* for the next pass, a conflict asks for it in the result.                *)
AddTags ==
  /\ rec.pc = "tags"
  /\ IF rec.rvOK THEN Write([cr EXCEPT !.spec.tags = "present"]) ELSE UNCHANGED store
  /\ rec' = [rec EXCEPT !.pc = "status", !.requeue = ~rec.rvOK]
  /\ UNCHANGED <<kind, remote, queued, edits, faults>>

CreateRemote ==
  /\ rec.pc = "create" /\ rec.spec.body \notin Rejected /\ Len(remote) < MaxRemote
  /\ remote' = Append(remote, rec.spec)
  /\ Continue("status", Created(kind, rec.st, Len(remote) + 1, rec.spec))
  /\ UNCHANGED <<kind, store, edits, faults>>

UpdateRemote ==
  /\ rec.pc = "update" /\ rec.spec.body \notin Rejected
  /\ remote[rec.old.id] # Absent
  /\ remote' = [remote EXCEPT ![rec.old.id] = rec.spec]
  /\ Continue("status", Updated(rec.st, rec.spec))
  /\ UNCHANGED <<kind, store, edits, faults>>

(* update is answered by a 404: a monitor forgets the ID, a generic        *)
(* resource is created at once, the others wait for the next force sync.   *)
UpdateNotFound ==
  /\ rec.pc = "update" /\ remote[rec.old.id] = Absent
  /\ Continue(IF kind = "generic" THEN "create" ELSE "status",
              IF kind = "monitor" THEN [rec.st EXCEPT !.id = NoID]
              ELSE Attempted(kind, rec.st, rec.spec))
  /\ UNCHANGED <<kind, store, remote, edits, faults>>

(* Datadog refuses the spec.                                               *)
Refused ==
  /\ rec.pc \in {"create", "update"} /\ rec.spec.body \in Rejected
  /\ Continue("status", IF rec.pc = "update" THEN Attempted(kind, rec.st, rec.spec) ELSE rec.st)
  /\ UNCHANGED <<kind, store, remote, edits, faults>>

(* updateStatusIfNeeded: only the fields of Statuses are told apart here,  *)
(* so a write that changes none of them may or may not happen.             *)
SkipStatus ==
  /\ rec.pc = "status" /\ rec.st = rec.old
  /\ Return(rec.requeue)
  /\ UNCHANGED <<kind, store, remote, edits, faults>>

WriteStatus ==
  /\ rec.pc = "status"
  /\ \/ /\ rec.rvOK
        /\ Write([cr EXCEPT !.st = rec.st])
        /\ Return(rec.requeue \/ kind = "monitor")
     \/ /\ ~rec.rvOK
        /\ UNCHANGED store
        /\ IF RetriesConflict(kind) THEN Continue("retry", rec.st) ELSE Return(TRUE)
  /\ UNCHANGED <<kind, remote, edits, faults>>

(* RetryOnConflict: an attempt succeeds once the cache it reads has caught *)
(* up.                                                                     *)
RetryStatus ==
  /\ rec.pc = "retry" /\ fresh
  /\ Write([cr EXCEPT !.st = rec.st])
  /\ Return(TRUE)
  /\ UNCHANGED <<kind, remote, edits, faults>>
-----------------------------------------------------------------------------
(* Failures. *)

Fault == faults < MaxFaults /\ faults' = faults + 1

(* A failed call to Datadog may have taken effect all the same.            *)
DeleteFails ==
  /\ rec.pc = "delete" /\ Fault
  /\ remote' \in {remote, [remote EXCEPT ![rec.old.id] = Absent]}
  /\ IF SwallowsDeleteError(kind) THEN Continue("dropFinalizer", rec.st) ELSE Return(TRUE)
  /\ UNCHANGED <<kind, store, edits>>

GetFails ==
  /\ rec.pc \in {"get", "refresh"} /\ Fault
  /\ Continue("status", IF rec.pc = "get" THEN Checked(kind, rec.st) ELSE rec.st)
  /\ UNCHANGED <<kind, store, remote, edits>>

CreateFails ==
  /\ rec.pc = "create" /\ Len(remote) < MaxRemote /\ Fault
  /\ remote' \in {remote, Append(remote, rec.spec)}
  /\ Continue("status", rec.st)
  /\ UNCHANGED <<kind, store, edits>>

UpdateFails ==
  /\ rec.pc = "update" /\ remote[rec.old.id] # Absent /\ Fault
  /\ remote' \in {remote, [remote EXCEPT ![rec.old.id] = rec.spec]}
  /\ Continue("status", Attempted(kind, rec.st, rec.spec))
  /\ UNCHANGED <<kind, store, edits>>

(* A write to the API server fails, and not by a conflict; or the five     *)
(* attempts of RetryOnConflict all read a cache that is too old.           *)
StoreFails ==
  /\ rec.pc \in {"addFinalizer", "dropFinalizer", "tags", "status", "retry"} /\ Fault
  /\ IF rec.pc = "tags" THEN Continue("status", rec.st) ELSE Return(TRUE)
  /\ UNCHANGED <<kind, store, remote, edits>>

(* The operator restarts: the reconcile is lost, every object is queued.   *)
Restart ==
  /\ rec.pc # "idle" /\ Fault
  /\ rec' = Idle /\ queued' = TRUE
  /\ cache' = cr /\ fresh' = TRUE /\ event' = FALSE
  /\ UNCHANGED <<kind, cr, remote, edits>>
-----------------------------------------------------------------------------
(* The cluster and the users. *)

(* The informer catches up.  GenerationChangedPredicate passes an event    *)
(* when the spec changed or the deletion began.                            *)
Observe ==
  /\ ~fresh
  /\ cache' = cr /\ fresh' = TRUE /\ event' = FALSE
  /\ queued' = (queued \/ event)
  /\ UNCHANGED <<kind, cr, remote, rec, edits, faults>>

Aged(st) == IF st.last = "recent" THEN [st EXCEPT !.last = "due"] ELSE st

(* The force sync period passes for every copy of the status alike.        *)
Elapse ==
  /\ cr.live /\ cr.st.last = "recent"
  /\ cr' = [cr EXCEPT !.st = Aged(@)]
  /\ cache' = [cache EXCEPT !.st = Aged(@)]
  /\ rec' = [rec EXCEPT !.old = Aged(@), !.st = Aged(@)]
  /\ UNCHANGED <<kind, fresh, event, remote, queued, edits, faults>>

Edited == edits < MaxEdits /\ edits' = edits + 1

EditResource(s) ==
  /\ cr.live /\ s # cr.spec /\ Edited
  /\ Write([cr EXCEPT !.spec = s])
  /\ rec' = [rec EXCEPT !.rvOK = FALSE]
  /\ UNCHANGED <<kind, remote, queued, faults>>

DeleteResource ==
  /\ cr.live /\ ~cr.deleting /\ Edited
  /\ Write(IF cr.fin THEN [cr EXCEPT !.deleting = TRUE] ELSE [cr EXCEPT !.live = FALSE])
  /\ rec' = [rec EXCEPT !.rvOK = FALSE]
  /\ UNCHANGED <<kind, remote, queued, faults>>

(* Somebody changes or deletes the object in the Datadog UI.               *)
TouchRemote(i, v) ==
  /\ remote[i] \notin {Absent, v} /\ Edited
  /\ remote' = [remote EXCEPT ![i] = v]
  /\ UNCHANGED <<kind, store, rec, queued, faults>>
-----------------------------------------------------------------------------
Reconcile ==
  \/ ReadNotFound \/ ReadDeleting \/ ReadUnguarded \/ ReadInvalid \/ ReadUncreated
  \/ ReadChanged \/ ReadDue \/ ReadUnchanged
  \/ AddFinalizer \/ DeleteRemote \/ DropFinalizer \/ GetRemote \/ RefreshState
  \/ AddTags \/ CreateRemote \/ UpdateRemote \/ UpdateNotFound \/ Refused
  \/ SkipStatus \/ WriteStatus \/ RetryStatus

Fails ==
  \/ DeleteFails \/ GetFails \/ CreateFails \/ UpdateFails \/ StoreFails
  \/ Restart

Next ==
  \/ Reconcile
  \/ Fails
  \/ Observe
  \/ Elapse
  \/ \E s \in Specs : EditResource(s)
  \/ DeleteResource
  \/ \E i \in DOMAIN remote, v \in {Absent, Drifted} : TouchRemote(i, v)

Spec == Init /\ [][Next]_vars

(* The work queue hands out what is queued and a reconcile runs to its     *)
(* end; watches deliver; time passes.                                      *)
FairSpec == Spec /\ WF_vars(Reconcile) /\ WF_vars(Observe) /\ WF_vars(Elapse)
-----------------------------------------------------------------------------
(* The resource, its copies, the account and the reconcile are well formed. *)
TypeOK ==
  /\ kind \in Kinds
  /\ cr \in Resources
  /\ cache \in Resources
  /\ fresh \in BOOLEAN /\ event \in BOOLEAN
  /\ remote \in Seq(Specs \cup {Absent, Drifted}) /\ Len(remote) <= MaxRemote
  /\ rec \in Recs
  /\ queued \in BOOLEAN
  /\ edits \in 0 .. MaxEdits
  /\ faults \in 0 .. MaxFaults

(* The objects of the account that neither the stored status nor the       *)
(* reconcile in progress knows of.                                         *)
Orphans == {i \in DOMAIN remote : remote[i] # Absent /\ i \notin {cr.st.id, rec.st.id}}

(* The controllers never leave an object behind in the account by          *)
(* themselves: every one they lost track of goes back to a failed call or  *)
(* a restart of its own.  The SLO and dashboard controllers, which drop    *)
(* the new status on a conflict, may lose one for each edit of a user as   *)
(* well.                                                                   *)
OrphansAccounted ==
  Cardinality(Orphans) <= faults + (IF kind \in {"slo", "dashboard"} THEN edits ELSE 0)

(* The finalizer: a custom resource does not go before the object its      *)
(* status names is gone.  The dashboard controller keeps this only as long *)
(* as its delete calls succeed.                                            *)
DeletedWithIt ==
  ~cr.live /\ (kind = "dashboard" => faults = 0) /\ cr.st.id # NoID
    => remote[cr.st.id] = Absent

(* Whatever was edited, deleted in the UI, lost or left half done: the     *)
(* account ends up with what the custom resource says.                     *)
Mirrored ==
  cr.live /\ ~cr.deleting /\ cr.spec.body \notin Rejected
    => cr.st.id # NoID /\ remote[cr.st.id] = cr.spec
EventuallyMirrored == <>[]Mirrored

(* A custom resource that is deleted goes away: the finalizer never blocks *)
(* it for good.                                                            *)
DeletionCompletes == cr.deleting ~> ~cr.live

(* "The following commands delete the SLO from your Datadog account": when *)
(* the custom resource is gone, so is everything created for it.           *)
DeletedFromAccount == ~cr.live => \A i \in DOMAIN remote : remote[i] = Absent
=============================================================================

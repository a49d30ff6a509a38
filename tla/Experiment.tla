----------------------------- MODULE Experiment -----------------------------
(***************************************************************************)
(* The experiment half of the DatadogAgent (DDA) reconciler:               *)
(* manageExperiment, manageRevision, the DatadogAgentInternal (DDAI)       *)
(* roll-out and the status write, one action per API call.  Reads go       *)
(* through informer caches that may lag behind the API server; Update and  *)
(* Status().Update carry a ResourceVersion, patches do not.                *)
(*                                                                         *)
(* A ResourceVersion is only ever compared for equality with the current   *)
(* one, so a boolean stands for it: ddaFresh says the cached DDA is the    *)
(* stored one, rec.rvOK that the instance the reconcile holds is.          *)
(***************************************************************************)
EXTENDS Integers, FiniteSets

CONSTANTS
  Specs,      \* user-submitted DDA specs
  Anns,       \* preview annotations (".datadoghq.com/") that a snapshot keeps
  IDs,        \* experiment IDs (Remote Config versions)
  Tasks,      \* Fleet task IDs
  NoSpec,     \* no spec, while no reconcile runs
  NoID,       \* the empty experiment ID
  NoTask,     \* the empty task ID
  Timeout,    \* ExperimentTimeout in clock ticks
  StaleDDA,   \* may a reconcile start from a cached DDA that is out of date?
  StaleRevs,  \* may it list cached ControllerRevisions that are out of date?
  Unreliable, \* the steps of a reconcile whose API call may fail
  MaxTime,    \* bound: clock ticks
  MaxOps,     \* bound: patches of the DDA by other clients
  MaxFaults   \* bound: failed calls and operator restarts

ASSUME SpecAssumption == NoSpec \notin Specs
ASSUME IDAssumption == NoID \notin IDs
ASSUME TaskAssumption == NoTask \notin Tasks
ASSUME TimeoutAssumption == Timeout \in Nat
ASSUME StaleAssumption == StaleDDA \in BOOLEAN /\ StaleRevs \in BOOLEAN

-----------------------------------------------------------------------------
(* What a ControllerRevision snapshots, and what it is named after.  The   *)
(* hash in the name is taken to be injective.                              *)
Contents == [spec : Specs, ann : SUBSET Anns]

(* Mutation of Merge: the spec of the object re-read is kept.              *)
MergeCurrent(cur, snap) == [spec |-> cur.spec, ann |-> cur.ann \cup snap.ann]

(* rollback: the snapshot's annotations are merged over the current ones.  *)
Merge(cur, snap) == [spec |-> snap.spec, ann |-> cur.ann \cup snap.ann]

Phases == {"nil", "", "running", "terminated", "promoted", "aborted"}
Terminal == {"terminated", "promoted", "aborted"}
Signals == {"none", "start", "rollback", "promote"}
Reasons == {"", "stopped", "timed_out"}
RevStates == {"", "promoted", "rolled-back"}

(* Status.Experiment; phase "nil" is a nil pointer, phase "" an experiment *)
(* whose phase was never set.                                              *)
Exps == [phase : Phases, id : IDs \cup {NoID}, at : Nat,
         reason : Reasons, task : Tasks \cup {NoTask}]
NilExp == [phase |-> "nil", id |-> NoID, at |-> 0, reason |-> "", task |-> NoTask]

(* The fleet.datadoghq.com/pending-* annotations.                          *)
Pendings == [task : Tasks \cup {NoTask}, id : IDs \cup {NoID},
             intent : {"none", "start", "stop", "promote"}, result : IDs \cup {NoID}]
NoPending == [task |-> NoTask, id |-> NoID, intent |-> "none", result |-> NoID]

DDAs == [spec : Contents, sig : Signals, sid : IDs \cup {NoID},
         pend : Pendings, exp : Exps]

(* The ControllerRevisions of the DDA by name; n = 0 means there is none.  *)
RevSets == [Contents -> [n : Nat, st : RevStates]]
NoRev == [n |-> 0, st |-> ""]

VARIABLES
  dda,       \* the DatadogAgent in the API server
  revs,      \* its ControllerRevisions in the API server
  ddaCache,  \* the informer's copy of the DatadogAgent
  ddaFresh,  \* the informer's copy has the current ResourceVersion
  revCache,  \* the informer's copy of the ControllerRevisions
  ddai,      \* the content the DatadogAgentInternal was last generated from
  now,       \* the clock
  rec,       \* the reconcile in progress
  ops,       \* patches by other clients so far
  faults     \* failures so far

cluster == <<dda, revs, ddaCache, ddaFresh, revCache, ddai>>
vars == <<dda, revs, ddaCache, ddaFresh, revCache, ddai, now, rec, ops, faults>>
-----------------------------------------------------------------------------
(* Operators on a revision list. *)

Listed(l) == {c \in Contents : l[c].n > 0}
Several(l) == \E c, d \in Listed(l) : c # d

(* highestRevision; the list has no order, so equal numbers leave a choice. *)
Highest(l) == {c \in Listed(l) : \A d \in Listed(l) : l[d].n <= l[c].n}

(* findRollbackTarget, when `top` is the one found to be the highest.      *)
RollbackTargets(l, top) ==
  {c \in Listed(l) \ {top} : \A d \in Listed(l) \ {top} : l[d].n <= l[c].n}

MaxRevision(l) ==
  IF Listed(l) = {} THEN 0 ELSE l[CHOOSE c \in Highest(l) : TRUE].n

(* Mutation of Matches: only the newest revision is looked at.             *)
MatchesNewest(i, l) == i.spec \in Highest(l)

(* findMostRecentMatchingRevision # nil *)
Matches(i, l) == i.spec \in Listed(l)

(* The spec was changed by hand: there is a history and it has no such spec. *)
ManualChange(i, l) == Several(l) /\ ~Matches(i, l)
-----------------------------------------------------------------------------
(* What manageExperiment decides about the instance i it was given, the    *)
(* revisions l it listed and the time t.                                   *)

Running(e) == e.phase = "running"
Signalled(i, s) == i.sig = s /\ i.sid # NoID
HasSignal(i) == i.sig # "none" /\ i.sid # NoID

(* Mutation of Started: the signal is copied into the phase.               *)
StartedAsSignalled(i, t) ==
  [phase |-> i.sig, id |-> i.sid, at |-> t, reason |-> "", task |-> i.pend.task]

Started(i, t) ==
  [phase |-> "running", id |-> i.sid, at |-> t, reason |-> "", task |-> i.pend.task]

StartAccepted(i) ==
  Signalled(i, "start") /\ ~Running(i.exp) /\ i.sid # i.exp.id

(* Mutations of Expired: strictly later than the timeout; one tick early.  *)
ExpiredLate(i, l, t) == Matches(i, l) /\ t - i.exp.at > Timeout
ExpiredEarly(i, l, t) == Matches(i, l) /\ t - i.exp.at >= Timeout - 1

Expired(i, l, t) == Matches(i, l) /\ t - i.exp.at >= Timeout

(* A stop that reaches the DDA before its start was recorded in the status. *)
RollbackUnstarted(i, l) ==
  /\ Signalled(i, "rollback")
  /\ i.exp.phase \in {"nil", ""}
  /\ Several(l) /\ Matches(i, l) /\ l[i.spec].n = MaxRevision(l)

(* The reason with which restorePreviousSpec is called, "" if it is not.   *)
RestoreReason(i, l, t) ==
  IF Running(i.exp)
    THEN IF ManualChange(i, l) THEN ""
         ELSE IF Signalled(i, "rollback") THEN "stopped"
         ELSE IF ~Signalled(i, "promote") /\ Expired(i, l, t) THEN "timed_out"
         ELSE ""
    ELSE IF RollbackUnstarted(i, l) THEN "stopped" ELSE ""

(* Mutation of NewExp: a promote is taken in any phase.                    *)
NewExpPromoteAny(i, l, t) ==
  IF Signalled(i, "promote") THEN [i.exp EXCEPT !.phase = "promoted"]
  ELSE IF StartAccepted(i) THEN Started(i, t)
  ELSE i.exp

(* newStatus.Experiment before restorePreviousSpec sets the final phase.   *)
NewExp(i, l, t) ==
  IF Running(i.exp)
    THEN IF ManualChange(i, l) THEN [i.exp EXCEPT !.phase = "aborted"]
         ELSE IF Signalled(i, "promote") THEN [i.exp EXCEPT !.phase = "promoted"]
         ELSE i.exp
    ELSE IF StartAccepted(i) THEN Started(i, t)
         ELSE IF RollbackUnstarted(i, l)
           THEN [NilExp EXCEPT !.phase = "", !.id = i.sid]
         ELSE i.exp

(* The state written on the highest revision, apart from a rollback's.     *)
MarkState(i, l) ==
  IF Listed(l) = {} THEN ""
  ELSE IF i.exp.phase = "promoted" THEN "promoted"
  ELSE IF Running(i.exp) /\ ManualChange(i, l) THEN "rolled-back"
  ELSE ""

(* Mutation of Clears: the signal is cleared along with taking it.         *)
ClearsAny(i, l, t) == HasSignal(i)

(* A signal that changed nothing has been dealt with: clear it.            *)
Clears(i, l, t) ==
  HasSignal(i) /\ RestoreReason(i, l, t) = "" /\ NewExp(i, l, t) = i.exp

(* markRevisionState returns early when the state is already recorded.     *)
MarkOwed(l, top, st) == IF st # "" /\ l[top].st # st THEN st ELSE ""
-----------------------------------------------------------------------------
(* The reconcile in progress. *)

Pcs == {"idle", "restore", "mark", "clear", "revision", "recreate", "gc",
        "apply", "status"}
NoContent == [spec |-> NoSpec, ann |-> {}]
NoRevs == [c \in Contents |-> NoRev]
NoDDA == [spec |-> NoContent, sig |-> "none", sid |-> NoID,
          pend |-> NoPending, exp |-> NilExp]
Idle == [pc |-> "idle", inst |-> NoDDA, list |-> NoRevs, top |-> NoContent,
         exp |-> NilExp, reason |-> "", mark |-> "", clear |-> FALSE,
         gc |-> {}, rvOK |-> FALSE]

Recs == [pc : Pcs, inst : DDAs \cup {NoDDA}, list : RevSets,
         top : Contents \cup {NoContent}, exp : Exps, reason : Reasons,
         mark : RevStates, clear : BOOLEAN, gc : SUBSET Contents, rvOK : BOOLEAN]

(* Every object in the API server, the caches and the reconcile is well    *)
(* formed.                                                                 *)
TypeOK ==
  /\ dda \in DDAs
  /\ revs \in RevSets
  /\ ddaCache \in DDAs
  /\ ddaFresh \in BOOLEAN
  /\ revCache \in RevSets
  /\ ddai \in Contents
  /\ now \in Nat
  /\ ops \in Nat
  /\ faults \in Nat
  /\ rec \in Recs

(* The DDA was created, reconciled once and snapshotted.                   *)
Init ==
  \E c \in Contents :
    /\ dda = [NoDDA EXCEPT !.spec = c]
    /\ revs = [NoRevs EXCEPT ![c] = [n |-> 1, st |-> ""]]
    /\ ddaCache = dda
    /\ ddaFresh = TRUE
    /\ revCache = revs
    /\ ddai = c
    /\ now = 0
    /\ rec = Idle
    /\ ops = 0
    /\ faults = 0

(* Where a reconcile goes once the mark and the clear it owes are done.    *)
Follow(r) ==
  IF r.mark # "" THEN [r EXCEPT !.pc = "mark"]
  ELSE IF r.clear THEN [r EXCEPT !.pc = "clear"]
  ELSE [r EXCEPT !.pc = "revision"]

(* reconcileInstance up to the first API write: the cached DDA and the     *)
(* cached revisions are read and manageExperiment's decision is made.      *)
Begin ==
  /\ rec.pc = "idle"
  /\ StaleDDA \/ ddaFresh
  /\ StaleRevs \/ revCache = revs
  /\ \E top \in IF Listed(revCache) = {} THEN {NoContent} ELSE Highest(revCache) :
       LET i == ddaCache
           l == revCache
           r == [pc |-> "restore", inst |-> i, list |-> l, top |-> top,
                 exp |-> NewExp(i, l, now), reason |-> RestoreReason(i, l, now),
                 mark |-> MarkOwed(l, top, MarkState(i, l)),
                 clear |-> Clears(i, l, now), gc |-> {}, rvOK |-> ddaFresh]
       IN rec' = IF r.reason # "" THEN r ELSE Follow(r)
  /\ UNCHANGED <<cluster, now, ops, faults>>

(* restorePreviousSpec after its rollback succeeded: the instance now has  *)
(* the ResourceVersion `ok` tells of, and the highest revision is marked   *)
(* unless it is the one restored.                                          *)
Terminated(target, ok) ==
  rec' = Follow([rec EXCEPT
    !.exp = [@ EXCEPT !.phase = "terminated", !.reason = rec.reason],
    !.mark = IF Listed(rec.list) = {} \/ target = {rec.top} THEN ""
             ELSE MarkOwed(rec.list, rec.top, "rolled-back"),
    !.rvOK = ok])

(* An error return: what is left is to write the status.                   *)
Fail(exp) == rec' = [rec EXCEPT !.pc = "status", !.exp = exp]

(* rollback without a target: the spec stays, the experiment terminates.   *)
RestoreNothing ==
  /\ rec.pc = "restore"
  /\ RollbackTargets(rec.list, rec.top) = {}
  /\ Terminated({}, rec.rvOK)
  /\ UNCHANGED <<cluster, now, ops, faults>>

(* rollback to the previous revision, read from the cache like the DDA it  *)
(* is compared with and written over.                                      *)
Restore ==
  /\ rec.pc = "restore"
  /\ \E c \in RollbackTargets(rec.list, rec.top) :
       \/ /\ revCache[c].n > 0
          /\ ddaCache.spec = c
          /\ Terminated({c}, ddaFresh)
          /\ UNCHANGED <<dda, ddaFresh>>
       \/ /\ revCache[c].n > 0
          /\ ddaCache.spec # c
          /\ ddaFresh
          /\ dda' = [dda EXCEPT !.spec = Merge(@, c)]
          /\ ddaFresh' = FALSE
          /\ Terminated({c}, TRUE)
       \/ /\ revCache[c].n = 0 \/ (ddaCache.spec # c /\ ~ddaFresh)
          /\ Fail(rec.exp)
          /\ UNCHANGED <<dda, ddaFresh>>
  /\ UNCHANGED <<revs, ddaCache, revCache, ddai, now, ops, faults>>

(* markRevisionState; the patched object replaces the one in the list.     *)
Mark ==
  /\ rec.pc = "mark"
  /\ LET found == revs[rec.top].n > 0
         r == [rec EXCEPT !.mark = "",
                 !.list[rec.top] = IF found THEN [revs[rec.top] EXCEPT !.st = rec.mark]
                                   ELSE @]
     IN /\ revs' = IF found THEN [revs EXCEPT ![rec.top].st = rec.mark] ELSE revs
        /\ rec' = Follow(r)
  /\ UNCHANGED <<dda, ddaCache, ddaFresh, revCache, ddai, now, ops, faults>>

(* clearExperimentAnnotations: a JSON patch guarded by the ID alone.       *)
Clear ==
  /\ rec.pc = "clear"
  /\ IF dda.sid = rec.inst.sid
       THEN /\ dda' = [dda EXCEPT !.sig = "none", !.sid = NoID]
            /\ ddaFresh' = FALSE
            /\ rec' = Follow([rec EXCEPT !.clear = FALSE, !.rvOK = FALSE])
       ELSE /\ UNCHANGED <<dda, ddaFresh>>
            /\ rec' = Follow([rec EXCEPT !.clear = FALSE])
  /\ UNCHANGED <<revs, ddaCache, revCache, ddai, now, ops, faults>>

(* Mutations of ToGc: the current revision goes; the previous one goes.    *)
ToGcCurrent(r) ==
  LET gone == Listed(r.list) \ RollbackTargets(r.list, r.inst.spec)
  IN rec' = [r EXCEPT !.gc = gone, !.pc = IF gone = {} THEN "apply" ELSE "gc"]
ToGcPrevious(r) ==
  LET gone == Listed(r.list) \ {r.inst.spec}
  IN rec' = [r EXCEPT !.gc = gone, !.pc = IF gone = {} THEN "apply" ELSE "gc"]

(* gcOldRevisions works on the list of the start of the reconcile and      *)
(* keeps the current revision and the highest of the others.               *)
ToGc(r) ==
  LET c == r.inst.spec
      previous == RollbackTargets(r.list, c)
  IN \E p \in IF previous = {} THEN {c} ELSE previous :
       LET gone == Listed(r.list) \ {c, p}
       IN rec' = [r EXCEPT !.gc = gone, !.pc = IF gone = {} THEN "apply" ELSE "gc"]

(* skipRevisionBump *)
SkipBump(e) == e.phase = "terminated"

(* Mutation of CreateRevision: the highest number instead of the next.     *)
CreateRevisionSame(c, n) ==
  revs' = IF revs[c].n = 0 /\ n > 1 THEN [revs EXCEPT ![c] = [n |-> n - 1, st |-> ""]] ELSE revs

CreateRevision(c, n) ==
  revs' = IF revs[c].n = 0 THEN [revs EXCEPT ![c] = [n |-> n, st |-> ""]] ELSE revs

(* ensureRevision *)
EnsureRevision ==
  /\ rec.pc = "revision"
  /\ LET c == rec.inst.spec
         l == rec.list
         next == MaxRevision(l) + 1
     IN \/ /\ l[c].n = 0
           /\ CreateRevision(c, next)
           /\ ToGc(rec)
        \/ /\ l[c].n > 0 /\ l[c].st = "rolled-back" /\ ~SkipBump(rec.exp)
           /\ revs' = [revs EXCEPT ![c] = NoRev]
           /\ rec' = [rec EXCEPT !.pc = "recreate"]
        \/ /\ l[c].n > 0 /\ l[c].st # "rolled-back" /\ ~SkipBump(rec.exp)
           /\ l[c].n < MaxRevision(l)
           /\ IF revs[c].n > 0
                THEN revs' = [revs EXCEPT ![c].n = next] /\ ToGc(rec)
                ELSE revs' = revs /\ Fail(rec.exp)
        \/ /\ l[c].n > 0
           /\ SkipBump(rec.exp) \/ (l[c].st # "rolled-back" /\ l[c].n = MaxRevision(l))
           /\ revs' = revs
           /\ ToGc(rec)
  /\ UNCHANGED <<dda, ddaCache, ddaFresh, revCache, ddai, now, ops, faults>>

(* The Create of recreateRevision, after its Delete.                       *)
RecreateRevision ==
  /\ rec.pc = "recreate"
  /\ CreateRevision(rec.inst.spec, MaxRevision(rec.list) + 1)
  /\ ToGc(rec)
  /\ UNCHANGED <<dda, ddaCache, ddaFresh, revCache, ddai, now, ops, faults>>

GcRevision ==
  /\ rec.pc = "gc"
  /\ \E c \in rec.gc :
       /\ revs' = [revs EXCEPT ![c] = NoRev]
       /\ rec' = [rec EXCEPT !.gc = @ \ {c},
                     !.pc = IF rec.gc = {c} THEN "apply" ELSE "gc"]
  /\ UNCHANGED <<dda, ddaCache, ddaFresh, revCache, ddai, now, ops, faults>>

(* generateDDAIFromDDA and createOrUpdateDDAI, from the instance read at   *)
(* the start even when the spec was rolled back since.                     *)
Apply ==
  /\ rec.pc = "apply"
  /\ ddai' = rec.inst.spec
  /\ rec' = [rec EXCEPT !.pc = "status"]
  /\ UNCHANGED <<dda, revs, ddaCache, ddaFresh, revCache, now, ops, faults>>

(* Mutation of WriteStatus: a patch, which has no ResourceVersion.         *)
WriteStatusPatch ==
  /\ rec.pc = "status"
  /\ rec' = Idle
  /\ dda' = [dda EXCEPT !.exp = rec.exp]
  /\ ddaFresh' = FALSE
  /\ UNCHANGED <<revs, ddaCache, revCache, ddai, now, ops, faults>>

(* updateStatusIfNeeded replaces the whole status; it must write when the  *)
(* experiment changed and may when other status fields did.                *)
WriteStatus ==
  /\ rec.pc = "status"
  /\ rec' = Idle
  /\ \/ rec.exp = rec.inst.exp /\ UNCHANGED <<dda, ddaFresh>>
     \/ ~rec.rvOK /\ UNCHANGED <<dda, ddaFresh>>
     \/ rec.rvOK /\ dda' = [dda EXCEPT !.exp = rec.exp] /\ ddaFresh' = FALSE
  /\ UNCHANGED <<revs, ddaCache, revCache, ddai, now, ops, faults>>
-----------------------------------------------------------------------------
(* Failures of single calls and of the process. *)

(* The call the reconcile is at fails: manageExperiment and ensureRevision *)
(* return the error, markRevisionState, clearExperimentAnnotations and     *)
(* gcOldRevisions only log it, and an error around the DDAIs writes the    *)
(* status the reconcile started from.                                      *)
CallFails ==
  /\ rec.pc \in Unreliable
  /\ faults < MaxFaults
  /\ faults' = faults + 1
  /\ \/ rec.pc \in {"restore", "revision", "recreate"} /\ Fail(rec.exp) /\ ddai' = ddai
     \/ rec.pc = "mark" /\ rec' = Follow([rec EXCEPT !.mark = ""]) /\ ddai' = ddai
     \/ rec.pc = "clear" /\ rec' = Follow([rec EXCEPT !.clear = FALSE]) /\ ddai' = ddai
     \/ rec.pc = "gc" /\ rec' = [rec EXCEPT !.pc = "apply", !.gc = {}] /\ ddai' = ddai
     \/ rec.pc = "apply" /\ Fail(rec.inst.exp) /\ ddai' \in {ddai, rec.inst.spec}
     \/ rec.pc = "status" /\ rec' = Idle /\ ddai' = ddai
  /\ UNCHANGED <<dda, revs, ddaCache, ddaFresh, revCache, now, ops>>

(* The operator restarts: the reconcile is lost, the caches are re-listed. *)
Restart ==
  /\ faults < MaxFaults
  /\ faults' = faults + 1
  /\ rec' = Idle
  /\ ddaCache' = dda
  /\ ddaFresh' = TRUE
  /\ revCache' = revs
  /\ UNCHANGED <<dda, revs, ddai, now, ops>>
-----------------------------------------------------------------------------
(* The environment of the reconciler. *)

(* The informers catch up with the API server. *)
SyncDDA ==
  /\ ~ddaFresh
  /\ ddaCache' = dda
  /\ ddaFresh' = TRUE
  /\ UNCHANGED <<dda, revs, revCache, ddai, now, rec, ops, faults>>

SyncRevs ==
  /\ revCache # revs
  /\ revCache' = revs
  /\ UNCHANGED <<dda, revs, ddaCache, ddaFresh, ddai, now, rec, ops, faults>>

Tick ==
  /\ now < MaxTime
  /\ now' = now + 1
  /\ UNCHANGED <<cluster, rec, ops, faults>>

(* Another client's write of the DDA: every ResourceVersion held is stale. *)
Patched(d) ==
  /\ dda' = d
  /\ ddaFresh' = FALSE
  /\ rec' = [rec EXCEPT !.rvOK = FALSE]
  /\ UNCHANGED <<revs, ddaCache, revCache, ddai, now, faults>>

(* Any client may patch the spec and write any signal at any time; the     *)
(* signals the Fleet daemon really writes are in module Fleet.             *)
PatchDDA ==
  /\ ops < MaxOps
  /\ ops' = ops + 1
  /\ \E c \in Contents, s \in Signals, id \in IDs :
       Patched([dda EXCEPT !.spec = c,
                           !.sig = IF s = "none" THEN @ ELSE s,
                           !.sid = IF s = "none" THEN @ ELSE id])

Reconcile ==
  Begin \/ RestoreNothing \/ Restore \/ Mark \/ Clear \/ EnsureRevision
  \/ RecreateRevision \/ GcRevision \/ Apply \/ WriteStatus

Sync == SyncDDA \/ SyncRevs
Failure == CallFails \/ Restart
Next == Reconcile \/ Sync \/ Failure \/ Tick \/ PatchDDA

(* The workqueue always requeues a DDA, informers catch up, time passes;   *)
(* nothing obliges other clients to write or calls to fail.                *)
Fairness == WF_vars(Reconcile) /\ WF_vars(SyncDDA) /\ WF_vars(SyncRevs) /\ WF_vars(Tick)

Spec == Init /\ [][Next]_vars
FairSpec == Spec /\ Fairness
-----------------------------------------------------------------------------
(* Properties. *)

(* The status a reconcile decided on is only stored over the status it was *)
(* decided from (the ResourceVersion check of Status().Update): an         *)
(* experiment starts only when none runs and only under a new ID.          *)
StartsFromRest ==
  [][ (Running(dda'.exp) /\ dda'.exp # dda.exp)
      => ~Running(dda.exp) /\ dda'.exp.id # dda.exp.id ]_vars

(* processPromoteSignal and abortExperiment: an experiment is promoted or  *)
(* aborted only while it is the one running.                               *)
EndsWhatRuns ==
  [][ (dda'.exp.phase \in {"promoted", "aborted"} /\ dda'.exp # dda.exp)
      => Running(dda.exp) /\ dda'.exp.id = dda.exp.id ]_vars

(* Status.Experiment keeps the promise of module Lifecycle: every write of *)
(* updateStatusIfNeeded is a step of the life cycle, so that a phase is    *)
(* never left out, an ended experiment never resumed or ended again, and   *)
(* none times out early.                                                   *)
Life == INSTANCE Lifecycle WITH exp <- dda.exp
LifecycleKept == Life!Spec

(* manageRevision runs before the roll-out: the agents never get a         *)
(* configuration of which there is no ControllerRevision to return to.     *)
RolledOutHasRevision == rec.pc = "apply" => revs[rec.inst.spec].n > 0

(* The Revision numbers order the history: no two revisions share one.     *)
RevisionsOrdered ==
  \A c, d \in Listed(revs) : revs[c].n = revs[d].n => c = d
=============================================================================

------------------------------- MODULE Fleet --------------------------------
(***************************************************************************)
(* The Fleet daemon beside the reconciler of module Experiment.  Fleet     *)
(* Automation sends tasks through Remote Config (RC); the daemon checks    *)
(* them against the RC installer state it keeps in memory, writes a signal *)
(* and the pending task on the DDA in one patch, and a worker fed with     *)
(* informer snapshots of the DDA reports the outcome and clears the        *)
(* pending task.  Task handling and the worker exclude each other          *)
(* (transitionMu); neither excludes the reconciler.                        *)
(***************************************************************************)
EXTENDS Experiment, Sequences

CONSTANTS
  StaleDaemon,  \* may the daemon read a cached DDA that is out of date?
  SentMethods,  \* the methods of the tasks Fleet sends
  Redeliver,    \* does RC still carry accepted tasks after a restart?
  ReuseIDs,     \* may Fleet start an experiment under an ID used before?
  MaxQueue      \* bound: snapshots waiting for the worker

ASSUME DaemonAssumption == 
  {StaleDaemon, Redeliver, ReuseIDs} \subseteq BOOLEAN /\ MaxQueue \in Nat

Methods == {"start", "stop", "promote"}
ASSUME MethodAssumption == SentMethods \subseteq Methods

TaskStates == {"none", "RUNNING", "DONE", "ERROR", "INVALID_STATE"}

Requests == [method : Methods, id : IDs \cup {NoID}, spec : Specs \cup {NoSpec},
             stable : IDs \cup {NoID}, exp : IDs \cup {NoID}]
NoReq == [method |-> "none", id |-> NoID, spec |-> NoSpec, stable |-> NoID, exp |-> NoID]

VARIABLES
  rc,      \* installer state: stable and experiment config versions, last task
  req,     \* the task RC carries under each task ID
  seen,    \* task IDs handled without an error since the last restart
  daemon,  \* what the daemon is doing under transitionMu
  queue,   \* statusUpdates, the snapshots waiting for the worker
  hist     \* history of the last start patch, for the properties only

fleet == <<rc, req, seen, daemon, queue>>
fleetVars == <<vars, fleet, hist>>

NoRCTask == [id |-> NoTask, state |-> "none"]
Resting == [pc |-> "idle", task |-> NoTask, pend |-> NoPending, sig |-> "none"]

(* newDDAStatusSnapshot *)
Snapshot(d) == [pend |-> d.pend, exp |-> d.exp]

FleetTypeOK ==
  /\ TypeOK
  /\ rc \in [stable : IDs \cup {NoID}, exp : IDs \cup {NoID},
             task : [id : Tasks \cup {NoTask}, state : TaskStates]]
  /\ req \in [Tasks -> Requests \cup {NoReq}]
  /\ seen \subseteq Tasks
  /\ daemon \in [pc : {"idle", "patch", "clear"}, task : Tasks \cup {NoTask},
                 pend : Pendings, sig : Signals]
  /\ queue \in Seq([pend : Pendings, exp : Exps])
  /\ hist \in [base : Contents, exp : Contents, id : IDs \cup {NoID}, edited : BOOLEAN]

FleetInit ==
  /\ Init
  /\ rc = [stable |-> NoID, exp |-> NoID, task |-> NoRCTask]
  /\ req = [t \in Tasks |-> NoReq]
  /\ seen = {}
  /\ daemon = Resting
  /\ queue = << >>
  /\ hist = [base |-> dda.spec, exp |-> dda.spec, id |-> NoID, edited |-> FALSE]
-----------------------------------------------------------------------------
(* Handling a task. *)

(* Fleet Automation sends a task for the installer state it was shown.     *)
IssueTask(t) ==
  /\ req[t] = NoReq
  /\ \E m \in SentMethods, id \in IDs, s \in Specs :
       /\ m # "start" \/ ReuseIDs \/ \A u \in Tasks : req[u].id # id
       /\ req' = [req EXCEPT ![t] =
                 [method |-> m, stable |-> rc.stable, exp |-> rc.exp,
                  id |-> IF m = "start" THEN id ELSE NoID,
                  spec |-> IF m = "start" THEN s ELSE NoSpec]]
  /\ UNCHANGED <<vars, rc, seen, daemon, queue, hist>>

(* setTaskState after an error: the task is not recorded as seen.          *)
Reject(t, state) ==
  /\ rc' = [rc EXCEPT !.task = [id |-> t, state |-> state]]
  /\ UNCHANGED <<seen, daemon>>

(* Nothing is left to wait for: config versions and DONE.                  *)
Settle(t, stable, exp) ==
  /\ rc' = [stable |-> stable, exp |-> exp, task |-> [id |-> t, state |-> "DONE"]]
  /\ seen' = seen \cup {t}
  /\ UNCHANGED daemon

(* Mutation of SlotFree: the pending task is not looked at.                *)
SlotFreeAlways(cur, next) == TRUE

(* guardPendingOperationSlot, then the patch that applyOperation sends.    *)
SlotFree(cur, next) ==
  cur \in {NoPending, next} \/ (cur.intent = "start" /\ next.intent = "stop")

Prepare(t, pend, sig) ==
  IF SlotFree(ddaCache.pend, pend)
    THEN /\ daemon' = [pc |-> "patch", task |-> t, pend |-> pend, sig |-> sig]
         /\ UNCHANGED <<rc, seen>>
    ELSE Reject(t, "INVALID_STATE")

(* The experiment a stop or a promote applies to: the status, else the     *)
(* annotation, else the installer state.                                   *)
TargetID(i) ==
  IF i.exp.id # NoID THEN i.exp.id ELSE IF i.sid # NoID THEN i.sid ELSE rc.exp

PlanStart(t) ==
  LET i == ddaCache
      id == req[t].id
      pend == [task |-> t, id |-> id, intent |-> "start", result |-> NoID]
  IN IF Running(i.exp) /\ i.exp.id = id THEN Settle(t, rc.stable, id)
     ELSE IF i.sid = id THEN Prepare(t, pend, "none")
     ELSE IF Running(i.exp) THEN Reject(t, "ERROR")
     ELSE Prepare(t, pend, "start")


PlanStop(t) ==
  LET i == ddaCache
      id == TargetID(i)
  IN IF \/ i.exp.phase = "nil" /\ (id = NoID \/ i.sig # "start")
        \/ i.exp.phase \in Terminal
       THEN Settle(t, rc.stable, NoID)
     ELSE IF id = NoID THEN Reject(t, "ERROR")
     ELSE Prepare(t, [task |-> t, id |-> id, intent |-> "stop", result |-> NoID], "rollback")

PlanPromote(t) ==
  LET i == ddaCache
      id == TargetID(i)
  IN IF rc.exp = NoID THEN Reject(t, "ERROR")
     ELSE IF i.exp.phase = "promoted" /\ i.exp.id = id THEN Settle(t, rc.exp, NoID)
     ELSE IF ~(Running(i.exp) /\ i.exp.id = id) THEN Reject(t, "ERROR")
     ELSE Prepare(t, [task |-> t, id |-> id, intent |-> "promote", result |-> rc.exp],
                  "promote")

(* handleUpdaterTaskUpdate, handleTask and the plan of the method.         *)
HandleTask(t) ==
  /\ daemon.pc = "idle"
  /\ StaleDaemon \/ ddaFresh
  /\ req[t] # NoReq /\ t \notin seen
  /\ \/ /\ <<req[t].stable, req[t].exp>> # <<rc.stable, rc.exp>>
        /\ Reject(t, "INVALID_STATE")
     \/ /\ <<req[t].stable, req[t].exp>> = <<rc.stable, rc.exp>>
        /\ \/ req[t].method = "start" /\ PlanStart(t)
           \/ req[t].method = "stop" /\ PlanStop(t)
           \/ req[t].method = "promote" /\ PlanPromote(t)
           \/ Reject(t, "ERROR")   \* resolveOperation or the read failed
  /\ UNCHANGED <<vars, req, queue, hist>>

(* Mutation of Signed: the intent is written as the signal.                *)
SignedIntent(d) ==
  [d EXCEPT !.pend = daemon.pend, !.sig = daemon.pend.intent, !.sid = daemon.pend.id]

(* The DDA after the merge patch of applyOperation, whatever it was before. *)
Signed(d) ==
  LET r == req[daemon.task]
  IN [d EXCEPT !.pend = daemon.pend,
               !.sig = IF daemon.sig = "none" THEN @ ELSE daemon.sig,
               !.sid = IF daemon.sig = "none" THEN @ ELSE daemon.pend.id,
               !.spec = IF daemon.sig = "start" THEN [@ EXCEPT !.spec = r.spec] ELSE @]

(* A baseline the reconciler has not snapshotted yet is an edit as well.   *)
Recorded ==
  hist' = IF daemon.sig = "start"
            THEN [base |-> dda.spec, exp |-> dda'.spec, id |-> daemon.pend.id,
                  edited |-> revs[dda.spec].n = 0]
            ELSE hist

ApplyOperation ==
  /\ daemon.pc = "patch"
  /\ Patched(Signed(dda))
  /\ Recorded
  /\ seen' = seen \cup {daemon.task}
  /\ daemon' = Resting
  /\ UNCHANGED <<ops, rc, req, queue>>

(* The patch is given up; the API server may have applied it all the same. *)
ApplyOperationFails ==
  /\ daemon.pc = "patch" /\ "patch" \in Unreliable
  /\ faults < MaxFaults
  /\ faults' = faults + 1
  /\ \/ /\ dda' = Signed(dda)
        /\ ddaFresh' = FALSE
        /\ rec' = [rec EXCEPT !.rvOK = FALSE]
        /\ Recorded
     \/ UNCHANGED <<dda, ddaFresh, rec, hist>>
  /\ rc' = [rc EXCEPT !.task = [id |-> daemon.task, state |-> "ERROR"]]
  /\ daemon' = Resting
  /\ UNCHANGED <<revs, ddaCache, revCache, ddai, now, ops, req, seen, queue>>
-----------------------------------------------------------------------------
(* The status worker. *)

(* localTerminationReason: ended by the reconciler without a Fleet task.   *)
EndedLocally(e) ==
  e.phase = "aborted" \/ (e.phase = "terminated" /\ e.reason = "timed_out")

(* reconcileLocallyTerminatedExperiment *)
LocallyEnded(e) ==
  IF EndedLocally(e) /\ rc.exp = e.id
    THEN [rc EXCEPT !.exp = NoID,
                    !.task = IF e.task = NoTask THEN @ ELSE [id |-> e.task, state |-> "ERROR"]]
    ELSE rc

(* evaluatePendingTask *)
Succeeded(s) ==
  CASE s.pend.intent = "start"   -> Running(s.exp)
    [] s.pend.intent = "stop"    -> s.exp.phase \in Terminal
    [] s.pend.intent = "promote" -> s.exp.phase = "promoted"
(* Mutation of Finished: an experiment that ended some other way does not  *)
(* fail the task.                                                          *)
FinishedSuccess(s) == s.exp.phase # "nil" /\ s.exp.id = s.pend.id /\ Succeeded(s)

Finished(s) ==
  /\ s.exp.phase # "nil" /\ s.exp.id = s.pend.id
  /\ Succeeded(s) \/ s.exp.phase \in Terminal

(* Mutation of Finish: a stop leaves the experiment version.               *)
FinishKeepsVersion(s, state) ==
  [state EXCEPT !.task = [id |-> s.pend.task, state |-> "DONE"],
                !.exp = IF s.pend.intent = "start" THEN s.pend.id ELSE @]

(* The installer state that finishPendingOperation leaves.                 *)
Finish(s, state) ==
  LET p == s.pend
      versions == IF ~Succeeded(s) THEN state
                  ELSE IF p.intent = "start" THEN [state EXCEPT !.exp = p.id]
                  ELSE IF p.intent = "stop" THEN [state EXCEPT !.exp = NoID]
                  ELSE [state EXCEPT !.stable = p.result, !.exp = NoID]
  IN [versions EXCEPT !.task = [id |-> p.task,
                                state |-> IF Succeeded(s) THEN "DONE" ELSE "ERROR"]]

(* onStatusUpdate, up to the annotations it clears at the end.             *)
OnStatusUpdate ==
  /\ daemon.pc = "idle"
  /\ queue # << >>
  /\ queue' = Tail(queue)
  /\ LET s == Head(queue)
         state == LocallyEnded(s.exp)
     IN \/ /\ s.pend = NoPending
           /\ rc' = state
           /\ UNCHANGED daemon
        \/ /\ s.pend # NoPending /\ ~Finished(s)
           /\ rc' = [state EXCEPT !.task = [id |-> s.pend.task, state |-> "RUNNING"]]
           /\ UNCHANGED daemon
        \/ /\ s.pend # NoPending /\ Finished(s)
           /\ rc' = Finish(s, state)
           /\ daemon' = [Resting EXCEPT !.pc = "clear", !.pend = s.pend]
  /\ UNCHANGED <<vars, req, seen, hist>>


(* clearPendingAnnotationsIfCurrent: a cached read, then a patch with no   *)
(* precondition.  A patch that removes nothing leaves the object as it is. *)
ClearPending ==
  /\ daemon.pc = "clear"
  /\ StaleDaemon \/ ddaCache.pend = dda.pend
  /\ daemon' = Resting
  /\ IF ddaCache.pend = daemon.pend /\ dda.pend # NoPending
       THEN Patched([dda EXCEPT !.pend = NoPending])
       ELSE UNCHANGED <<dda, revs, ddaCache, ddaFresh, revCache, ddai, now, rec, faults>>
  /\ UNCHANGED <<ops, rc, req, seen, queue, hist>>

ClearPendingFails ==
  /\ daemon.pc = "clear" /\ "pending" \in Unreliable
  /\ faults < MaxFaults
  /\ faults' = faults + 1
  /\ daemon' = Resting
  /\ UNCHANGED <<cluster, now, rec, ops, rc, req, seen, queue, hist>>
-----------------------------------------------------------------------------
(* The informer hands every version it caches to the worker as well.       *)
DeliverDDA ==
  /\ Len(queue) < MaxQueue
  /\ SyncDDA
  /\ queue' = Append(queue, Snapshot(dda))
  /\ UNCHANGED <<rc, req, seen, daemon, hist>>

(* A restart loses the installer state; rehydrateLegacyInstallerState      *)
(* restores the experiment version from the DDA, and the informer's first  *)
(* list is forwarded to the worker.                                        *)
RestartOperator ==
  /\ Restart
  /\ rc' = [stable |-> NoID, task |-> NoRCTask,
            exp |-> IF dda.exp.phase \in Terminal \cup {"nil"} THEN NoID ELSE dda.exp.id]
  /\ seen' = IF Redeliver THEN {} ELSE seen
  /\ daemon' = Resting
  /\ queue' = <<Snapshot(dda)>>
  /\ UNCHANGED <<req, hist>>

(* A user edits the spec. *)
UserEdit ==
  /\ ops < MaxOps
  /\ ops' = ops + 1
  /\ \E c \in Contents \ {dda.spec} : Patched([dda EXCEPT !.spec = c])
  /\ hist' = [hist EXCEPT !.edited = TRUE]
  /\ UNCHANGED fleet

Controller == (Reconcile \/ SyncRevs \/ Tick \/ CallFails) /\ UNCHANGED <<fleet, hist>>

FleetNext ==
  \/ Controller \/ DeliverDDA \/ RestartOperator \/ UserEdit
  \/ \E t \in Tasks : IssueTask(t) \/ HandleTask(t)
  \/ ApplyOperation \/ ApplyOperationFails
  \/ OnStatusUpdate \/ ClearPending \/ ClearPendingFails

FleetSpec == FleetInit /\ [][FleetNext]_fleetVars

(* The reconciler is requeued, the informers and the worker are goroutines *)
(* that always run again, a patch is sent or given up, time passes.  RC    *)
(* keeps delivering a task until it is accepted.                           *)
FleetFairness ==
  /\ WF_fleetVars(Reconcile /\ UNCHANGED <<fleet, hist>>)
  /\ WF_fleetVars(SyncRevs /\ UNCHANGED <<fleet, hist>>)
  /\ WF_fleetVars(Tick /\ UNCHANGED <<fleet, hist>>)
  /\ WF_fleetVars(DeliverDDA)
  /\ WF_fleetVars(ApplyOperation)
  /\ WF_fleetVars(OnStatusUpdate)
  /\ WF_fleetVars(ClearPending)

FairFleetSpec == FleetSpec /\ FleetFairness
-----------------------------------------------------------------------------
(* Properties. *)

(* A rollback by the reconciler is what changes the spec in this step.     *)
RollsBack == rec.pc = "restore" /\ rec'.pc # "restore" /\ dda'.spec # dda.spec

(* The experiment of the last start patch enters this phase in this step.  *)
Becomes(phase) ==
  dda.exp.phase # phase /\ dda'.exp.phase = phase /\ dda'.exp.id = hist.id

(* The experiment changed the spec and no user did since.                  *)
Intact == ~hist.edited /\ hist.base # hist.exp

(* restorePreviousSpec: when an intact experiment is reported as           *)
(* terminated, the DDA has the spec it had before the experiment.          *)
RollbackRestoresBaseline ==
  [][ (Becomes("terminated") /\ Intact) => dda'.spec = hist.base ]_fleetVars

(* processPromoteSignal: when an intact experiment is reported as promoted *)
(* before its timeout, the DDA has the spec that was tried.                *)
PromotedKeepsExperiment ==
  [][ (Becomes("promoted") /\ Intact /\ now - dda.exp.at < Timeout)
      => dda'.spec = hist.exp ]_fleetVars

(* abortExperiment: an experiment is aborted only if a user edited the spec. *)
AbortMeansEdit == [][ Becomes("aborted") => hist.edited ]_fleetVars

(* A rollback leads away from the spec under trial, never back to it.      *)
RollbackLeavesExperiment ==
  [][ (RollsBack /\ hist.base # hist.exp) => dda'.spec # hist.exp ]_fleetVars

(* gcOldRevisions: while an experiment runs that no user touched, there is *)
(* a ControllerRevision of the spec to return to.                          *)
BaselineKept ==
  (dda.exp.id = hist.id /\ Running(dda.exp) /\ Intact) => revs[hist.base].n > 0

(* processStartSignal: unless a stop is pending, the spec of a start patch *)
(* is never left in place, its signal gone, with no experiment that could  *)
(* time out, be stopped or have been promoted.                             *)
TrialIsWatched ==
  (/\ hist.id # NoID /\ Intact /\ dda.sig = "none" /\ dda.spec = hist.exp
   /\ dda.pend.intent # "stop")
    => dda.exp.id = hist.id /\ dda.exp.phase \in {"running", "promoted"}


(* clearExperimentAnnotations removes the signal the reconcile dealt with, *)
(* never one the daemon wrote since.                                       *)
ClearsWhatItSaw ==
  [][ (rec.pc = "clear" /\ rec'.pc # "clear" /\ dda'.sig # dda.sig)
      => dda.sig = rec.inst.sig ]_fleetVars



(* The clock bound leaves the experiment in the status time to time out.   *)
TimeLeft == dda.exp.at + Timeout <= MaxTime

(* A task that was accepted is reported to Fleet and leaves the DDA, at    *)
(* the latest when the experiment times out.                               *)
TasksSettle ==
  \A t \in Tasks : (dda.pend.task = t /\ TimeLeft) ~> (dda.pend.task # t)

(* A running experiment ends, by the timeout if by nothing else.           *)
ExperimentsEnd == (Running(dda.exp) /\ TimeLeft) ~> ~Running(dda.exp)

(* The installer state converges: once nothing is pending or in flight, RC *)
(* shows an experiment version only while that experiment runs.            *)
Quiet == daemon.pc = "idle" /\ queue = << >> /\ ddaFresh /\ dda.pend = NoPending
InstallerStateTrue ==
  Quiet => (rc.exp # NoID => Running(dda.exp) /\ dda.exp.id = rc.exp)
=============================================================================

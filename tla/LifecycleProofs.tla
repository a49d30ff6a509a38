--------------------------- MODULE LifecycleProofs --------------------------
(***************************************************************************)
(* The experiment reconciler keeps the life cycle.  Between the decision   *)
(* of a reconcile and its status write come up to nine API calls, other    *)
(* clients' patches, failures and the clock; the invariant says that the   *)
(* decision is still a step of the life cycle when it is written.          *)
(***************************************************************************)
EXTENDS ExperimentProofs

(* f is the status e, or follows it in the life cycle at time t.           *)
Leads(e, f, t) ==
  \/ f = e
  \/ /\ ~Running(e)
     /\ \E id \in IDs \ {e.id}, at \in 0 .. t, task \in Tasks \cup {NoTask} :
          f = [phase |-> "running", id |-> id, at |-> at, reason |-> "", task |-> task]
  \/ Running(e) /\ f = [e EXCEPT !.phase = "promoted"]
  \/ Running(e) /\ f = [e EXCEPT !.phase = "aborted"]
  \/ Running(e) /\ f = [e EXCEPT !.phase = "terminated", !.reason = "stopped"]
  \/ /\ Running(e) /\ t - e.at >= Timeout
     /\ f = [e EXCEPT !.phase = "terminated", !.reason = "timed_out"]
  \/ /\ e.phase \in {"nil", ""}
     /\ \E id \in IDs :
          \/ f = [NilExp EXCEPT !.phase = "", !.id = id]
          \/ f = [NilExp EXCEPT !.phase = "terminated", !.id = id, !.reason = "stopped"]

(* A rollback under way, for this reason, of the experiment in status e.   *)
Restoring(e, f, reason, t) ==
  \/ /\ Running(e) /\ f = e
     /\ reason = "stopped" \/ (reason = "timed_out" /\ t - e.at >= Timeout)
  \/ /\ e.phase \in {"nil", ""} /\ reason = "stopped"
     /\ \E id \in IDs : f = [NilExp EXCEPT !.phase = "", !.id = id]

(* What manageExperiment decides is a step of the life cycle or a rollback *)
(* that will make one.                                                     *)
LEMMA Decides ==
  ASSUME NEW i \in DDAs, NEW l \in RevSets, NEW t \in Nat
  PROVE  IF RestoreReason(i, l, t) # ""
           THEN Restoring(i.exp, NewExp(i, l, t), RestoreReason(i, l, t), t)
           ELSE Leads(i.exp, NewExp(i, l, t), t)
<1>1. i.sid \in IDs \cup {NoID} /\ i.pend.task \in Tasks \cup {NoTask}
  BY DEF DDAs, Pendings
<1>2. CASE Running(i.exp)
  <2> DEFINE e == i.exp
             f == NewExp(i, l, t)
             reason == RestoreReason(i, l, t)
  <2>1. \/ reason = "" /\ f = [e EXCEPT !.phase = "aborted"]
        \/ reason = "" /\ f = [e EXCEPT !.phase = "promoted"]
        \/ reason = "stopped" /\ f = e
        \/ reason = "timed_out" /\ t - e.at >= Timeout /\ f = e
        \/ reason = "" /\ f = e
    BY <1>2 DEF RestoreReason, NewExp, Expired, Signalled
  <2> HIDE DEF f, reason
  <2>2. IF reason # "" THEN Restoring(e, f, reason, t) ELSE Leads(e, f, t)
    BY <1>2, <2>1 DEF Restoring, Leads
  <2> QED
    BY <2>2 DEF f, reason
<1>3. CASE ~Running(i.exp) /\ StartAccepted(i)
  <2>1. ~RollbackUnstarted(i, l)
    BY <1>3 DEF StartAccepted, RollbackUnstarted, Signalled
  <2>2. RestoreReason(i, l, t) = "" /\ NewExp(i, l, t) = Started(i, t)
    BY <1>3, <2>1 DEF RestoreReason, NewExp
  <2>3. i.sid \in IDs \ {i.exp.id}
    BY <1>1, <1>3 DEF StartAccepted, Signalled
  <2>4. t \in 0 .. t
    OBVIOUS
  <2> QED
    BY <1>1, <1>3, <2>2, <2>3, <2>4 DEF Leads, Started
<1>4. CASE ~Running(i.exp) /\ ~StartAccepted(i) /\ RollbackUnstarted(i, l)
  <2>1. /\ RestoreReason(i, l, t) = "stopped"
        /\ NewExp(i, l, t) = [NilExp EXCEPT !.phase = "", !.id = i.sid]
    BY <1>4 DEF RestoreReason, NewExp
  <2>2. i.sid \in IDs /\ i.exp.phase \in {"nil", ""}
    BY <1>1, <1>4 DEF RollbackUnstarted, Signalled
  <2> QED
    BY <2>1, <2>2 DEF Restoring
<1>5. CASE ~Running(i.exp) /\ ~StartAccepted(i) /\ ~RollbackUnstarted(i, l)
  BY <1>5 DEF RestoreReason, NewExp, Leads
<1> QED
  BY <1>2, <1>3, <1>4, <1>5

(* A rollback that succeeds ends the experiment, one that fails leaves it. *)
LEMMA RestoringEnds ==
  ASSUME NEW e \in Exps, NEW f \in Exps, NEW reason, NEW t \in Nat,
         Restoring(e, f, reason, t)
  PROVE  /\ Leads(e, f, t)
         /\ Leads(e, [f EXCEPT !.phase = "terminated", !.reason = reason], t)
<1>1. CASE Running(e) /\ f = e
  <2>1. e.phase \notin {"nil", ""}
    BY <1>1 DEF Running
  <2> QED
    BY <1>1, <2>1 DEF Restoring, Leads
<1>2. CASE e.phase \in {"nil", ""}
  <2>1. reason = "stopped" /\ ~Running(e)
    BY <1>2 DEF Restoring, Running
  <2>2. PICK id \in IDs : f = [NilExp EXCEPT !.phase = "", !.id = id]
    BY <2>1 DEF Restoring
  <2>3. [f EXCEPT !.phase = "terminated", !.reason = reason]
          = [NilExp EXCEPT !.phase = "terminated", !.id = id, !.reason = "stopped"]
    BY <2>1, <2>2 DEF NilExp
  <2> QED
    BY <1>2, <2>2, <2>3 DEF Leads
<1> QED
  BY <1>1, <1>2 DEF Restoring

(* In the life cycle an experiment starts when none runs, under a new ID,  *)
(* and only the running one is promoted or aborted.                        *)
LEMMA LeadsInOrder ==
  ASSUME NEW e \in Exps, NEW f, NEW t \in Nat, Leads(e, f, t), f # e
  PROVE  /\ Running(f) => ~Running(e) /\ f.id # e.id
         /\ f.phase \in {"promoted", "aborted"} => Running(e) /\ f.id = e.id
<1>1. CASE /\ ~Running(e)
           /\ \E id \in IDs \ {e.id}, at \in 0 .. t, task \in Tasks \cup {NoTask} :
                f = [phase |-> "running", id |-> id, at |-> at, reason |-> "", task |-> task]
  <2>1. PICK id \in IDs \ {e.id}, at \in 0 .. t, task \in Tasks \cup {NoTask} :
          f = [phase |-> "running", id |-> id, at |-> at, reason |-> "", task |-> task]
    BY <1>1
  <2>2. f.phase = "running" /\ f.id = id
    BY <2>1
  <2>3. f.phase \notin {"promoted", "aborted"}
    BY <2>2
  <2>4. f.id # e.id
    BY <2>2
  <2> QED
    BY <1>1, <2>3, <2>4, Zenon
<1>2. CASE \/ Running(e) /\ f = [e EXCEPT !.phase = "promoted"]
           \/ Running(e) /\ f = [e EXCEPT !.phase = "aborted"]
  BY <1>2 DEF Running, Exps
<1>3. CASE f.phase \in {"", "terminated"}
  BY <1>3 DEF Running
<1>4. CASE \/ f = [e EXCEPT !.phase = "terminated", !.reason = "stopped"]
           \/ f = [e EXCEPT !.phase = "terminated", !.reason = "timed_out"]
  BY <1>3, <1>4 DEF Exps
<1>5. CASE \E id \in IDs :
             \/ f = [NilExp EXCEPT !.phase = "", !.id = id]
             \/ f = [NilExp EXCEPT !.phase = "terminated", !.id = id, !.reason = "stopped"]
  BY <1>3, <1>5 DEF NilExp
<1> QED
  BY <1>1, <1>2, <1>4, <1>5, Zenon DEF Leads

(* What is a step at some time still is one later.                         *)
LEMMA LeadsLater ==
  ASSUME NEW e \in Exps, NEW f, NEW reason, NEW t \in Nat
  PROVE  /\ Leads(e, f, t) => Leads(e, f, t + 1)
         /\ Restoring(e, f, reason, t) => Restoring(e, f, reason, t + 1)
<1>1. e.at \in Nat
  BY DEF Exps
<1>2. t - e.at >= Timeout => (t + 1) - e.at >= Timeout
  BY <1>1, TimeoutAssumption
<1>3. 0 .. t \subseteq 0 .. (t + 1)
  OBVIOUS
<1>4. Leads(e, f, t) => Leads(e, f, t + 1)
  BY <1>2, <1>3, Zenon DEF Leads
<1>5. Restoring(e, f, reason, t) => Restoring(e, f, reason, t + 1)
  BY <1>2, Zenon DEF Restoring
<1> QED
  BY <1>4, <1>5
-----------------------------------------------------------------------------
(* The invariant: an up-to-date cache is the stored DDA, and the status a  *)
(* reconcile is about to write follows the one it read.                    *)
Decided ==
  /\ ddaFresh => ddaCache = dda
  /\ rec.pc = "restore" => Restoring(rec.inst.exp, rec.exp, rec.reason, now)
  /\ rec.pc \notin {"idle", "restore"} => Leads(rec.inst.exp, rec.exp, now)

(* The reconcile goes on, with its decision, with the end of a rollback or *)
(* with the status it started from.                                        *)
Proceeds ==
  /\ rec.pc # "idle" /\ rec'.pc \notin {"idle", "restore"}
  /\ rec'.inst = rec.inst
  /\ \/ rec'.exp = rec.exp /\ (rec'.rvOK => rec.rvOK)
     \/ /\ rec.pc = "restore"
        /\ rec'.exp = [rec.exp EXCEPT !.phase = "terminated", !.reason = rec.reason]
     \/ "apply" \in Unreliable /\ rec'.exp = rec.inst.exp
  /\ dda'.exp = dda.exp /\ now' = now
  /\ ddaFresh' => ddaFresh /\ dda' = dda /\ ddaCache' = ddaCache

LEMMA RollbackProceeds == TypeInv /\ (RestoreNothing \/ Restore) => Proceeds
<1> SUFFICES ASSUME TypeInv, RestoreNothing \/ Restore PROVE Proceeds
  OBVIOUS
<1>1. rec.pc = "restore" /\ rec \in Recs /\ dda \in DDAs /\ ddaFresh \in BOOLEAN
  BY DEF RestoreNothing, Restore, TypeInv, TypeOK
<1>2. rec.exp \in Exps /\ rec.rvOK \in BOOLEAN
  BY <1>1 DEF Recs
<1>3. \A target : \A ok \in BOOLEAN : Terminated(target, ok) =>
        /\ rec'.pc \notin {"idle", "restore"} /\ rec'.inst = rec.inst
        /\ rec'.exp = [rec.exp EXCEPT !.phase = "terminated", !.reason = rec.reason]
  <2> SUFFICES ASSUME NEW target, NEW ok \in BOOLEAN, Terminated(target, ok)
               PROVE  /\ rec'.pc \notin {"idle", "restore"} /\ rec'.inst = rec.inst
                      /\ rec'.exp = [rec.exp EXCEPT !.phase = "terminated",
                                                    !.reason = rec.reason]
    OBVIOUS
  <2> QED
    BY <1>1, TerminatedType
<1>4. Fail(rec.exp) => /\ rec'.pc \notin {"idle", "restore"} /\ rec'.inst = rec.inst
                       /\ rec'.exp = rec.exp /\ rec'.rvOK = rec.rvOK
  BY <1>1, <1>2, FailType
<1>5. CASE RestoreNothing
  <2>1. Terminated({}, rec.rvOK)
    BY <1>5 DEF RestoreNothing
  <2> QED
    BY <1>1, <1>2, <1>3, <1>5, <2>1 DEF RestoreNothing, cluster, Proceeds
<1>6. CASE Restore
  <2>1. PICK c \in RollbackTargets(rec.list, rec.top) :
          \/ Terminated({c}, ddaFresh) /\ UNCHANGED <<dda, ddaFresh>>
          \/ /\ dda' = [dda EXCEPT !.spec = Merge(@, c)] /\ ddaFresh' = FALSE
             /\ Terminated({c}, TRUE)
          \/ Fail(rec.exp) /\ UNCHANGED <<dda, ddaFresh>>
    BY <1>6 DEF Restore
  <2>2. UNCHANGED <<ddaCache, now>>
    BY <1>6 DEF Restore
  <2>3. CASE Terminated({c}, ddaFresh) /\ UNCHANGED <<dda, ddaFresh>>
    BY <1>1, <1>3, <2>2, <2>3 DEF Proceeds
  <2>4. CASE /\ dda' = [dda EXCEPT !.spec = Merge(@, c)] /\ ddaFresh' = FALSE
             /\ Terminated({c}, TRUE)
    <3>1. dda'.exp = dda.exp
      BY <1>1, <2>4 DEF DDAs
    <3> QED
      BY <1>1, <1>3, <2>2, <2>4, <3>1 DEF Proceeds
  <2>5. CASE Fail(rec.exp) /\ UNCHANGED <<dda, ddaFresh>>
    BY <1>1, <1>4, <2>2, <2>5 DEF Proceeds
  <2> QED
    BY <2>1, <2>3, <2>4, <2>5
<1> QED
  BY <1>5, <1>6

LEMMA RevisionProceeds ==
  TypeInv /\ (EnsureRevision \/ RecreateRevision \/ GcRevision \/ Apply) => Proceeds
<1> SUFFICES ASSUME TypeInv, EnsureRevision \/ RecreateRevision \/ GcRevision \/ Apply
             PROVE  Proceeds
  OBVIOUS
<1>1. rec \in Recs /\ rec.exp \in Exps
  BY DEF TypeInv, TypeOK, Recs
<1>2. /\ rec.pc \in {"revision", "recreate", "gc", "apply"}
      /\ UNCHANGED <<dda, ddaCache, ddaFresh, now>>
  BY DEF EnsureRevision, RecreateRevision, GcRevision, Apply
<1>3. ASSUME /\ rec'.pc \notin {"idle", "restore"} /\ rec'.inst = rec.inst
             /\ rec'.exp = rec.exp /\ rec'.rvOK = rec.rvOK
      PROVE  Proceeds
  BY <1>2, <1>3 DEF Proceeds
<1>4. CASE EnsureRevision
  <2>1. rec.pc = "revision"
    BY <1>4 DEF EnsureRevision
  <2>2. ToGc(rec) \/ Fail(rec.exp) \/ rec' = [rec EXCEPT !.pc = "recreate"]
    BY <1>4 DEF EnsureRevision
  <2>3. CASE ToGc(rec)
    BY <1>3, <2>1, <2>3, ToGcType
  <2>4. CASE Fail(rec.exp)
    BY <1>1, <1>3, <2>1, <2>4, FailType
  <2>5. CASE rec' = [rec EXCEPT !.pc = "recreate"]
    BY <1>1, <1>3, <2>5 DEF Recs
  <2> QED
    BY <2>2, <2>3, <2>4, <2>5
<1>5. CASE RecreateRevision
  <2>1. rec.pc = "recreate" /\ ToGc(rec)
    BY <1>5 DEF RecreateRevision
  <2> QED
    BY <1>3, <2>1, ToGcType
<1>6. CASE GcRevision
  BY <1>1, <1>3, <1>6 DEF GcRevision, Recs
<1>7. CASE Apply
  BY <1>1, <1>3, <1>7 DEF Apply, Recs
<1> QED
  BY <1>4, <1>5, <1>6, <1>7

LEMMA SignalProceeds == TypeInv /\ (Mark \/ Clear) => Proceeds
<1> SUFFICES ASSUME TypeInv, Mark \/ Clear PROVE Proceeds
  OBVIOUS
<1>1. rec \in Recs /\ dda \in DDAs
  BY DEF TypeInv, TypeOK
<1>2. ASSUME NEW r \in Recs, rec' = Follow(r), r.inst = rec.inst, r.exp = rec.exp
      PROVE  /\ rec'.pc \notin {"idle", "restore"} /\ rec'.inst = rec.inst
             /\ rec'.exp = rec.exp /\ rec'.rvOK = r.rvOK
  BY <1>2, FollowMoves
<1>3. CASE Mark
  <2> DEFINE found == revs[rec.top].n > 0
             v == [revs[rec.top] EXCEPT !.st = rec.mark]
             r == [rec EXCEPT !.mark = "", !.list[rec.top] = IF found THEN v ELSE @]
  <2>1. /\ rec' = Follow(r) /\ rec.pc = "mark" /\ UNCHANGED <<dda, ddaCache, ddaFresh, now>>
    BY <1>3 DEF Mark
  <2>2. /\ rec.mark \in RevStates /\ rec.list \in RevSets /\ revs \in RevSets
        /\ rec.top \in Contents
    BY <2>1 DEF TypeInv, TypeOK, WellFormed, Recs
  <2>3. v \in [n : Nat, st : RevStates]
    BY <2>2 DEF RevSets
  <2> HIDE DEF v
  <2>4. r \in Recs /\ r.inst = rec.inst /\ r.exp = rec.exp /\ r.rvOK = rec.rvOK
    BY <1>1, <2>2, <2>3 DEF Recs, RevSets, RevStates
  <2> HIDE DEF r
  <2> QED
    BY <1>2, <2>1, <2>4 DEF Proceeds
<1>4. CASE Clear
  <2> DEFINE r1 == [rec EXCEPT !.clear = FALSE, !.rvOK = FALSE]
             r2 == [rec EXCEPT !.clear = FALSE]
  <2>1. rec.pc = "clear" /\ UNCHANGED <<ddaCache, now>>
    BY <1>4 DEF Clear
  <2>2. \/ /\ rec' = Follow(r1) /\ dda' = [dda EXCEPT !.sig = "none", !.sid = NoID]
           /\ ddaFresh' = FALSE
        \/ rec' = Follow(r2) /\ UNCHANGED <<dda, ddaFresh>>
    BY <1>4 DEF Clear
  <2>3. /\ r1 \in Recs /\ r1.inst = rec.inst /\ r1.exp = rec.exp /\ ~r1.rvOK
        /\ r2 \in Recs /\ r2.inst = rec.inst /\ r2.exp = rec.exp /\ r2.rvOK = rec.rvOK
    BY <1>1 DEF Recs
  <2> HIDE DEF r1, r2
  <2>4. CASE /\ rec' = Follow(r1) /\ dda' = [dda EXCEPT !.sig = "none", !.sid = NoID]
             /\ ddaFresh' = FALSE
    <3>1. dda'.exp = dda.exp
      BY <1>1, <2>4 DEF DDAs
    <3>2. /\ rec'.pc \notin {"idle", "restore"} /\ rec'.inst = rec.inst
          /\ rec'.exp = rec.exp /\ rec'.rvOK = r1.rvOK
      BY <1>2, <2>3, <2>4
    <3> QED
      BY <2>1, <2>3, <2>4, <3>1, <3>2 DEF Proceeds
  <2>5. CASE rec' = Follow(r2) /\ UNCHANGED <<dda, ddaFresh>>
    <3>1. /\ rec'.pc \notin {"idle", "restore"} /\ rec'.inst = rec.inst
          /\ rec'.exp = rec.exp /\ rec'.rvOK = r2.rvOK
      BY <1>2, <2>3, <2>5
    <3> QED
      BY <2>1, <2>3, <2>5, <3>1 DEF Proceeds
  <2> QED
    BY <2>2, <2>4, <2>5
<1> QED
  BY <1>3, <1>4

LEMMA FailureProceeds == TypeInv /\ CallFails /\ rec.pc # "status" => Proceeds
<1> SUFFICES ASSUME TypeInv, CallFails, rec.pc # "status" PROVE Proceeds
  OBVIOUS
<1>1. /\ rec \in Recs /\ rec.exp \in Exps /\ rec.pc \in Unreliable
      /\ UNCHANGED <<dda, ddaCache, ddaFresh, now>>
  BY DEF CallFails, TypeInv, TypeOK, Recs
<1>2. ASSUME /\ rec.pc # "idle" /\ rec'.pc \notin {"idle", "restore"}
             /\ rec'.inst = rec.inst /\ rec'.exp = rec.exp /\ rec'.rvOK = rec.rvOK
      PROVE  Proceeds
  BY <1>1, <1>2 DEF Proceeds
<1>3. CASE rec.pc \in {"restore", "revision", "recreate"} /\ Fail(rec.exp)
  BY <1>1, <1>2, <1>3, FailType
<1>4. CASE rec.pc = "mark" /\ rec' = Follow([rec EXCEPT !.mark = ""])
  <2> DEFINE r == [rec EXCEPT !.mark = ""]
  <2>1. r \in Recs /\ r.inst = rec.inst /\ r.exp = rec.exp /\ r.rvOK = rec.rvOK
    BY <1>1 DEF Recs, RevStates
  <2>2. rec' = Follow(r)
    BY <1>4
  <2> HIDE DEF r
  <2>3. /\ rec'.pc \in {"mark", "clear", "revision"}
        /\ rec'.inst = r.inst /\ rec'.exp = r.exp /\ rec'.rvOK = r.rvOK
    BY <2>1, <2>2, FollowMoves
  <2>4. /\ rec.pc # "idle" /\ rec'.pc \notin {"idle", "restore"}
        /\ rec'.inst = rec.inst /\ rec'.exp = rec.exp /\ rec'.rvOK = rec.rvOK
    BY <1>4, <2>1, <2>3
  <2> QED
    BY <1>2, <2>4
<1>5. CASE rec.pc = "clear" /\ rec' = Follow([rec EXCEPT !.clear = FALSE])
  <2> DEFINE r == [rec EXCEPT !.clear = FALSE]
  <2>1. r \in Recs /\ r.inst = rec.inst /\ r.exp = rec.exp /\ r.rvOK = rec.rvOK
    BY <1>1 DEF Recs
  <2>2. rec' = Follow(r)
    BY <1>5
  <2> HIDE DEF r
  <2>3. /\ rec'.pc \in {"mark", "clear", "revision"}
        /\ rec'.inst = r.inst /\ rec'.exp = r.exp /\ rec'.rvOK = r.rvOK
    BY <2>1, <2>2, FollowMoves
  <2>4. /\ rec.pc # "idle" /\ rec'.pc \notin {"idle", "restore"}
        /\ rec'.inst = rec.inst /\ rec'.exp = rec.exp /\ rec'.rvOK = rec.rvOK
    BY <1>5, <2>1, <2>3
  <2> QED
    BY <1>2, <2>4
<1>6. CASE rec.pc = "gc" /\ rec' = [rec EXCEPT !.pc = "apply", !.gc = {}]
  BY <1>1, <1>2, <1>6 DEF Recs
<1>7. CASE rec.pc = "apply" /\ Fail(rec.inst.exp)
  <2>1. rec.inst.exp \in Exps
    BY <1>7 DEF TypeInv, WellFormed, DDAs
  <2>2. rec'.pc = "status" /\ rec'.inst = rec.inst /\ rec'.exp = rec.inst.exp
    BY <1>7, <2>1, FailType
  <2> QED
    BY <1>1, <1>7, <2>2 DEF Proceeds
<1> QED
  BY <1>3, <1>4, <1>5, <1>6, <1>7 DEF CallFails

LEMMA ProceedsDecided == TypeInv /\ Decided /\ Proceeds => Decided'
<1> SUFFICES ASSUME TypeInv, Decided, Proceeds PROVE Decided'
  OBVIOUS
<1>1. /\ rec.inst.exp \in Exps /\ rec.exp \in Exps /\ now \in Nat
      /\ rec'.inst = rec.inst /\ now' = now /\ rec'.pc \notin {"idle", "restore"}
  BY DEF Proceeds, TypeInv, TypeOK, WellFormed, DDAs, Recs
<1>2. Leads(rec.inst.exp, rec'.exp, now)
  <2>1. CASE rec.pc = "restore"
    <3>1. Restoring(rec.inst.exp, rec.exp, rec.reason, now)
      BY <2>1 DEF Decided
    <3>2. /\ Leads(rec.inst.exp, rec.exp, now)
          /\ Leads(rec.inst.exp,
                   [rec.exp EXCEPT !.phase = "terminated", !.reason = rec.reason], now)
      BY <1>1, <3>1, RestoringEnds
    <3>3. Leads(rec.inst.exp, rec.inst.exp, now)
      BY DEF Leads
    <3> QED
      BY <3>2, <3>3 DEF Proceeds
  <2>2. CASE rec.pc # "restore"
    <3>1. Leads(rec.inst.exp, rec.exp, now) /\ Leads(rec.inst.exp, rec.inst.exp, now)
      BY <2>2 DEF Decided, Proceeds, Leads
    <3> QED
      BY <2>2, <3>1 DEF Proceeds
  <2> QED
    BY <2>1, <2>2
<1>3. ddaFresh' => ddaCache' = dda'
  BY DEF Proceeds, Decided
<1> QED
  BY <1>1, <1>2, <1>3 DEF Decided

(* A reconcile begins with what it read from the cache.                    *)
LEMMA BeginDecides ==
  TypeInv /\ Decided /\ Begin
    => Decided' /\ rec'.inst = ddaCache /\ rec'.rvOK = ddaFresh /\ UNCHANGED <<dda, now>>
<1> SUFFICES ASSUME TypeInv, Decided, Begin
             PROVE  /\ Decided' /\ rec'.inst = ddaCache /\ rec'.rvOK = ddaFresh
                    /\ UNCHANGED <<dda, now>>
  OBVIOUS
<1> DEFINE i == ddaCache
           l == revCache
           e == NewExp(i, l, now)
           reason == RestoreReason(i, l, now)
<1>1. PICK top \in IF Listed(revCache) = {} THEN {NoContent} ELSE Highest(revCache) :
        LET r == [pc |-> "restore", inst |-> i, list |-> l, top |-> top,
                  exp |-> e, reason |-> reason,
                  mark |-> MarkOwed(l, top, MarkState(i, l)),
                  clear |-> Clears(i, l, now), gc |-> {}, rvOK |-> ddaFresh]
        IN rec' = IF r.reason # "" THEN r ELSE Follow(r)
  BY DEF Begin
<1> DEFINE r == [pc |-> "restore", inst |-> i, list |-> l, top |-> top,
                 exp |-> e, reason |-> reason,
                 mark |-> MarkOwed(l, top, MarkState(i, l)),
                 clear |-> Clears(i, l, now), gc |-> {}, rvOK |-> ddaFresh]
<1>2. i \in DDAs /\ l \in RevSets /\ now \in Nat /\ ddaFresh \in BOOLEAN
  BY DEF TypeInv, TypeOK
<1>3. top \in Contents \cup {NoContent}
  BY <1>1 DEF Highest, Listed
<1>4. r \in Recs
  BY <1>2, <1>3, DecisionType DEF Recs, Pcs
<1>5. /\ r.inst = i /\ r.exp = e /\ r.reason = reason /\ r.rvOK = ddaFresh
      /\ r.pc = "restore"
  OBVIOUS
<1>6. IF reason # "" THEN Restoring(i.exp, e, reason, now) ELSE Leads(i.exp, e, now)
  BY <1>2, Decides
<1>7. IF reason # "" THEN rec' = r ELSE rec' = Follow(r)
  BY <1>1
<1>8. UNCHANGED <<dda, ddaCache, ddaFresh, now>>
  BY DEF Begin, cluster
<1> HIDE DEF r, e, reason
<1>9. CASE reason # ""
  BY <1>5, <1>6, <1>7, <1>8, <1>9 DEF Decided
<1>10. CASE reason = ""
  <2>1. rec' = Follow(r)
    BY <1>7, <1>10
  <2>2. /\ rec'.pc \in {"mark", "clear", "revision"}
        /\ rec'.inst = r.inst /\ rec'.exp = r.exp /\ rec'.rvOK = r.rvOK
    BY <1>4, <2>1, FollowMoves
  <2>3. /\ rec'.pc \notin {"idle", "restore"} /\ rec'.inst = i /\ rec'.exp = e
        /\ rec'.rvOK = ddaFresh
    BY <1>5, <2>2
  <2> QED
    BY <1>6, <1>8, <1>10, <2>3 DEF Decided
<1> QED
  BY <1>9, <1>10

(* The steps that end a reconcile and those of its environment.            *)
Ends == WriteStatus \/ Restart \/ (CallFails /\ rec.pc = "status")
Around == Sync \/ Tick \/ PatchDDA

LEMMA EndsDecided == TypeInv /\ Decided /\ Ends => Decided' /\ rec'.pc = "idle" /\ now' = now
<1> SUFFICES ASSUME TypeInv, Decided, Ends
             PROVE  Decided' /\ rec'.pc = "idle" /\ now' = now
  OBVIOUS
<1>1. rec' = Idle /\ now' = now
  BY DEF Ends, WriteStatus, Restart, CallFails
<1>2. rec'.pc = "idle"
  BY <1>1 DEF Idle
<1>3. ddaFresh' => ddaCache' = dda'
  BY DEF Ends, WriteStatus, Restart, CallFails, Decided
<1> QED
  BY <1>1, <1>2, <1>3 DEF Decided

LEMMA AroundDecided ==
  TypeInv /\ Decided /\ Around
    => /\ Decided'
       /\ dda'.exp = dda.exp
       /\ rec'.pc = rec.pc /\ rec'.inst = rec.inst /\ rec'.exp = rec.exp
       /\ rec'.rvOK => rec.rvOK
       /\ now' \in {now, now + 1}
<1> SUFFICES ASSUME TypeInv, Decided, Around
             PROVE  /\ Decided'
                    /\ dda'.exp = dda.exp
                    /\ rec'.pc = rec.pc /\ rec'.inst = rec.inst /\ rec'.exp = rec.exp
                    /\ rec'.rvOK => rec.rvOK
                    /\ now' \in {now, now + 1}
  OBVIOUS
<1>1. rec \in Recs /\ dda \in DDAs /\ now \in Nat
  BY DEF TypeInv, TypeOK
<1>2. CASE Sync
  BY <1>2 DEF Sync, SyncDDA, SyncRevs, Decided
<1>3. CASE Tick
  <2>1. UNCHANGED <<dda, ddaCache, ddaFresh, rec>> /\ now' = now + 1
    BY <1>3 DEF Tick, cluster
  <2>2. rec.pc # "idle" => rec.inst.exp \in Exps
    BY DEF TypeInv, WellFormed, DDAs
  <2>3. rec.pc = "restore" => Restoring(rec.inst.exp, rec.exp, rec.reason, now + 1)
    BY <1>1, <2>2, LeadsLater DEF Decided
  <2>4. rec.pc \notin {"idle", "restore"} => Leads(rec.inst.exp, rec.exp, now + 1)
    BY <1>1, <2>2, LeadsLater DEF Decided
  <2> QED
    BY <2>1, <2>3, <2>4 DEF Decided
<1>4. CASE PatchDDA
  <2>1. PICK c \in Contents, s \in Signals, id \in IDs :
          Patched([dda EXCEPT !.spec = c,
                              !.sig = IF s = "none" THEN @ ELSE s,
                              !.sid = IF s = "none" THEN @ ELSE id])
    BY <1>4 DEF PatchDDA
  <2>2. dda'.exp = dda.exp
    BY <1>1, <2>1 DEF Patched, DDAs
  <2>3. ddaFresh' = FALSE /\ now' = now /\ rec' = [rec EXCEPT !.rvOK = FALSE]
    BY <2>1 DEF Patched
  <2>4. /\ rec'.pc = rec.pc /\ rec'.inst = rec.inst /\ rec'.exp = rec.exp
        /\ rec'.reason = rec.reason /\ ~rec'.rvOK
    BY <1>1, <2>3 DEF Recs
  <2> QED
    BY <2>2, <2>3, <2>4 DEF Decided
<1> QED
  BY <1>2, <1>3, <1>4 DEF Around

LEMMA StepKinds ==
  TypeInv /\ Next => Begin \/ Proceeds \/ Ends \/ Around
  BY RollbackProceeds, RevisionProceeds, SignalProceeds, FailureProceeds
  DEF Next, Reconcile, Failure, Ends, Around

LEMMA InitDecided == Init => Decided /\ rec.pc = "idle"
<1> SUFFICES ASSUME Init PROVE Decided /\ rec.pc = "idle"
  OBVIOUS
<1>1. ddaCache = dda /\ rec = Idle
  BY DEF Init
<1>2. Idle.pc = "idle"
  BY DEF Idle
<1> QED
  BY <1>1, <1>2 DEF Decided

LEMMA NextDecided == TypeInv /\ Decided /\ [Next]_vars => Decided'
<1>1. Decided /\ UNCHANGED vars => Decided'
  BY DEF vars, Decided
<1> QED
  BY <1>1, StepKinds, BeginDecides, ProceedsDecided, EndsDecided, AroundDecided

(* The only step that changes Status.Experiment is a status write with a   *)
(* current ResourceVersion.                                                *)
LEMMA OnlyStatusWrites ==
  ASSUME TypeInv, Decided, [Next]_vars
  PROVE  \/ dda'.exp = dda.exp
         \/ rec.pc = "status" /\ rec.rvOK /\ dda'.exp = rec.exp /\ now' = now
<1>1. dda \in DDAs
  BY DEF TypeInv, TypeOK
<1>2. CASE WriteStatus
  BY <1>1, <1>2 DEF WriteStatus, DDAs
<1>3. CASE Restart \/ CallFails
  BY <1>3 DEF Restart, CallFails
<1>4. CASE Begin
  BY <1>4, BeginDecides
<1>5. CASE Proceeds
  BY <1>5 DEF Proceeds
<1>6. CASE Around
  BY <1>6, AroundDecided
<1>7. CASE UNCHANGED vars
  BY <1>7 DEF vars
<1> QED
  BY <1>2, <1>3, <1>4, <1>5, <1>6, <1>7, StepKinds DEF Ends
-----------------------------------------------------------------------------
(* With stale caches: a decision from an old status does not get past the  *)
(* ResourceVersion check, except the end of a rollback, which takes over   *)
(* the version of its own write.                                           *)
Guarded ==
  rec.pc # "idle" /\ rec.rvOK
    => rec.inst.exp = dda.exp \/ (rec.pc # "restore" /\ rec.exp.phase = "terminated")

LEMMA NextGuarded ==
  ASSUME "apply" \notin Unreliable, TypeInv, Decided, Guarded, [Next]_vars
  PROVE  Guarded'
<1>1. CASE Begin
  <2>1. rec'.inst = ddaCache /\ rec'.rvOK = ddaFresh /\ dda' = dda
    BY <1>1, BeginDecides
  <2> QED
    BY <2>1 DEF Decided, Guarded
<1>2. CASE Proceeds
  <2>1. rec.exp \in Exps
    BY DEF TypeInv, TypeOK, Recs
  <2>2. [rec.exp EXCEPT !.phase = "terminated", !.reason = rec.reason].phase = "terminated"
    BY <2>1 DEF Exps
  <2>3. \/ rec'.exp = rec.exp /\ (rec'.rvOK => rec.rvOK)
        \/ rec'.exp = [rec.exp EXCEPT !.phase = "terminated", !.reason = rec.reason]
    BY <1>2 DEF Proceeds
  <2>4. /\ rec.pc # "idle" /\ rec'.pc # "restore"
        /\ rec'.inst = rec.inst /\ dda'.exp = dda.exp
    BY <1>2 DEF Proceeds
  <2> QED
    BY <2>2, <2>3, <2>4 DEF Guarded
<1>3. CASE Ends
  BY <1>3, EndsDecided DEF Guarded
<1>4. CASE Around
  BY <1>4, AroundDecided DEF Guarded
<1>5. CASE UNCHANGED vars
  BY <1>5 DEF vars, Guarded
<1> QED
  BY <1>1, <1>2, <1>3, <1>4, <1>5, StepKinds

(* Whatever the caches hold when a reconcile reads them: an experiment     *)
(* starts only when none runs and under a new ID, and only the running     *)
(* experiment is promoted or aborted.  The assumption leaves out the error *)
(* return around the DDAIs, which writes back the status first read.       *)
THEOREM StatusGuarded ==
  ASSUME "apply" \notin Unreliable
  PROVE  Spec => StartsFromRest /\ EndsWhatRuns
<1> DEFINE Inv == TypeInv /\ Decided /\ Guarded
           Starts == (Running(dda'.exp) /\ dda'.exp # dda.exp)
                       => ~Running(dda.exp) /\ dda'.exp.id # dda.exp.id
           EndsRun == (dda'.exp.phase \in {"promoted", "aborted"} /\ dda'.exp # dda.exp)
                        => Running(dda.exp) /\ dda'.exp.id = dda.exp.id
<1>1. Init => Inv
  BY InitType, InitDecided DEF Guarded
<1>2. Inv /\ [Next]_vars => Inv'
  BY NextType, NextDecided, NextGuarded
<1>3. Inv /\ [Next]_vars => Starts /\ EndsRun
  <2> SUFFICES ASSUME Inv, [Next]_vars, dda'.exp # dda.exp PROVE Starts /\ EndsRun
    OBVIOUS
  <2>1. rec.pc = "status" /\ rec.rvOK /\ dda'.exp = rec.exp
    BY OnlyStatusWrites
  <2>2. CASE rec.exp.phase = "terminated"
    BY <2>1, <2>2 DEF Running
  <2>3. CASE rec.inst.exp = dda.exp
    <3>1. Leads(dda.exp, dda'.exp, now) /\ dda.exp \in Exps
      BY <2>1, <2>3 DEF Decided, TypeInv, TypeOK, DDAs
    <3> QED
      BY <2>1, <3>1, LeadsInOrder DEF TypeInv, TypeOK
  <2> QED
    BY <2>1, <2>2, <2>3 DEF Guarded
<1>4. Spec => []Inv
  BY <1>1, <1>2, PTL DEF Spec
<1> HIDE DEF Inv
<1>5. Spec => [][Starts /\ EndsRun]_vars
  BY <1>3, <1>4, PTL DEF Spec
<1>6. [][Starts /\ EndsRun]_vars => StartsFromRest /\ EndsWhatRuns
  BY PTL DEF StartsFromRest, EndsWhatRuns
<1> QED
  BY <1>5, <1>6, PTL
-----------------------------------------------------------------------------
(* With a DDA cache that is up to date when a reconcile reads it, the      *)
(* status a reconcile started from is the stored one until it writes.      *)
Current == rec.pc # "idle" => rec.inst.exp = dda.exp

LEMMA NextCurrent ==
  ASSUME ~StaleDDA, TypeInv, Decided, Current, [Next]_vars
  PROVE  Current'
<1>1. CASE Begin
  <2>1. rec'.inst = ddaCache /\ dda' = dda
    BY <1>1, BeginDecides
  <2>2. ddaFresh
    BY <1>1 DEF Begin
  <2> QED
    BY <2>1, <2>2 DEF Decided, Current
<1>2. CASE Proceeds
  BY <1>2 DEF Proceeds, Current
<1>3. CASE Ends
  BY <1>3, EndsDecided DEF Current
<1>4. CASE Around
  BY <1>4, AroundDecided DEF Current
<1>5. CASE UNCHANGED vars
  BY <1>5 DEF vars, Current
<1> QED
  BY <1>1, <1>2, <1>3, <1>4, <1>5, StepKinds

(* A status that follows another is a step of the abstract specification.  *)
LEMMA LeadsIsChange ==
  ASSUME Leads(dda.exp, dda'.exp, now), now' = now, dda.exp \in Exps
  PROVE  Life!Change \/ UNCHANGED <<dda.exp, now>>
<1>1. NilExp = Life!None
  BY DEF NilExp, Life!None
<1>2. Running(dda.exp) <=> dda.exp.phase = "running"
  BY DEF Running
<1> QED
  BY <1>1, <1>2, Zenon DEF Leads, Life!Change, Life!Start, Life!Promote, Life!Abort,
     Life!Stop, Life!TimeOut, Life!StopUnstarted

(* The clock and the status only move together as the life cycle says.     *)
LEMMA NowMoves == TypeInv /\ Decided /\ [Next]_vars => now' \in {now, now + 1}
<1>1. Begin \/ Proceeds \/ Ends \/ Around \/ UNCHANGED vars => now' \in {now, now + 1}
  BY DEF Begin, Proceeds, Ends, WriteStatus, Restart, CallFails, Around, Sync, SyncDDA,
     SyncRevs, Tick, PatchDDA, Patched, vars
<1> QED
  BY <1>1, StepKinds

(* Status.Experiment implements the abstract life cycle, for every number  *)
(* of experiments, edits, failures and restarts, provided a reconcile      *)
(* starts from an up-to-date copy of the DDA: no transition is skipped,    *)
(* repeated or taken from the wrong phase, and no timeout is early.        *)
THEOREM LifecycleImplemented ==
  ASSUME ~StaleDDA
  PROVE  Spec => LifecycleKept
<1> DEFINE Inv == TypeInv /\ Decided /\ Current
<1>1. Init => Inv
  BY InitType, InitDecided DEF Current
<1>2. Inv /\ [Next]_vars => Inv'
  BY NextType, NextDecided, NextCurrent
<1>3. Init => Life!Init
  <2> SUFFICES ASSUME Init PROVE dda.exp = Life!None /\ now = 0
    BY DEF Life!Init
  <2>1. PICK c \in Contents : dda = [NoDDA EXCEPT !.spec = c]
    BY DEF Init
  <2>2. dda.exp = NilExp
    BY <2>1 DEF NoDDA
  <2> QED
    BY <2>2 DEF Init, NilExp, Life!None
<1>4. Inv /\ [Next]_vars => [Life!Next]_<<dda.exp, now>>
  <2> SUFFICES ASSUME Inv, [Next]_vars PROVE [Life!Next]_<<dda.exp, now>>
    OBVIOUS
  <2>1. dda.exp \in Exps /\ now \in Nat
    BY DEF TypeInv, TypeOK, DDAs
  <2>2. CASE dda'.exp = dda.exp
    BY <2>2, NowMoves DEF Life!Next, Life!Tick
  <2>3. CASE rec.pc = "status" /\ rec.rvOK /\ dda'.exp = rec.exp /\ now' = now
    <3>1. Leads(dda.exp, dda'.exp, now)
      BY <2>3 DEF Decided, Current
    <3> QED
      BY <2>1, <2>3, <3>1, LeadsIsChange DEF Life!Next
  <2> QED
    BY <2>2, <2>3, OnlyStatusWrites
<1>5. Spec => []Inv
  BY <1>1, <1>2, PTL DEF Spec
<1> QED
  BY <1>3, <1>4, <1>5, PTL DEF Spec, LifecycleKept, Life!Spec
=============================================================================

-------------------------- MODULE ExperimentProofs --------------------------
(***************************************************************************)
(* Proofs about module Experiment, for every value of its constants.       *)
(***************************************************************************)
EXTENDS Experiment, WellFoundedInduction, TLAPS

-----------------------------------------------------------------------------
(* The revision numbers of a list have a maximum. *)

Bounded(l) == \E b \in Nat : \A c \in Contents : l[c].n <= b

(* A nonempty set of naturals has a least element.                         *)
LEMMA LeastNatural ==
  ASSUME NEW U, U \subseteq Nat, U # {}
  PROVE  \E u \in U : \A v \in U : u <= v
<1> DEFINE R == OpToRel(<, Nat)
<1>1. IsWellFoundedOn(R, Nat)
  BY NatLessThanWellFounded
<1>2. \A x, y \in Nat : x < y => <<x, y>> \in R
  BY DEF OpToRel
<1> HIDE DEF R
<1>3. PICK u \in U : \A v \in U : ~(<<v, u>> \in R)
  BY <1>1, WFMin
<1>4. \A v \in U : u \in Nat /\ v \in Nat /\ ~(v < u)
  BY <1>2, <1>3
<1> QED
  BY <1>4

(* highestRevision finds a revision in every list that is not empty, so    *)
(* that the next number is a natural number.                               *)
LEMMA HighestExists ==
  ASSUME NEW l \in RevSets, Bounded(l), Listed(l) # {}
  PROVE  Highest(l) # {}
<1> DEFINE U == {b \in Nat : \A c \in Contents : l[c].n <= b}
<1>1. PICK u \in U : \A v \in U : u <= v
  <2>1. U \subseteq Nat /\ U # {}
    BY DEF Bounded
  <2> HIDE DEF U
  <2> QED
    BY <2>1, LeastNatural
<1>2. PICK d \in Contents : l[d].n > 0
  BY DEF Listed
<1>3. \A c \in Contents : l[c].n \in Nat
  BY DEF RevSets
<1>4. u > 0
  BY <1>2, <1>3
<1>5. u - 1 \in Nat /\ u - 1 \notin U
  BY <1>1, <1>4
<1>6. PICK c \in Contents : ~(l[c].n <= u - 1)
  BY <1>5
<1>7. l[c].n = u
  BY <1>3, <1>6
<1>8. c \in Highest(l)
  BY <1>3, <1>4, <1>7 DEF Highest, Listed
<1> QED
  BY <1>8

LEMMA MaxRevisionType ==
  ASSUME NEW l \in RevSets, Bounded(l)
  PROVE  MaxRevision(l) \in Nat
<1>1. CASE Listed(l) = {}
  BY <1>1 DEF MaxRevision
<1>2. CASE Listed(l) # {}
  <2>1. (CHOOSE c \in Highest(l) : TRUE) \in Highest(l)
    BY <1>2, HighestExists
  <2>2. (CHOOSE c \in Highest(l) : TRUE) \in Contents
    BY <2>1 DEF Highest, Listed
  <2> QED
    BY <1>2, <2>2 DEF MaxRevision, RevSets
<1> QED
  BY <1>1, <1>2
-----------------------------------------------------------------------------
(* Type correctness. *)

(* What manageExperiment decides is well formed.                           *)
LEMMA DecisionType ==
  ASSUME NEW i \in DDAs, NEW l \in RevSets, NEW t \in Nat,
         NEW top \in Contents \cup {NoContent}
  PROVE  /\ NewExp(i, l, t) \in Exps
         /\ RestoreReason(i, l, t) \in Reasons
         /\ MarkState(i, l) \in RevStates
         /\ MarkOwed(l, top, MarkState(i, l)) \in RevStates
         /\ Clears(i, l, t) \in BOOLEAN
<1>1. Started(i, t) \in Exps
  BY DEF Started, DDAs, Exps, Phases, Reasons, Pendings
<1>2. \A p \in Phases : [i.exp EXCEPT !.phase = p] \in Exps
  BY DEF DDAs, Exps
<1>3. [NilExp EXCEPT !.phase = "", !.id = i.sid] \in Exps
  BY DEF NilExp, DDAs, Exps, Phases, Reasons
<1>4. NewExp(i, l, t) \in Exps
  BY <1>1, <1>2, <1>3 DEF NewExp, Phases, DDAs
<1>5. RestoreReason(i, l, t) \in Reasons
  BY DEF RestoreReason, Reasons
<1>6. MarkState(i, l) \in RevStates
  BY DEF MarkState, RevStates
<1>7. MarkOwed(l, top, MarkState(i, l)) \in RevStates
  BY <1>6 DEF MarkOwed, RevStates
<1>8. Clears(i, l, t) \in BOOLEAN
  BY DEF Clears
<1> QED
  BY <1>4, <1>5, <1>6, <1>7, <1>8

(* Follow only moves the program counter, to a step the reconcile owes.    *)
LEMMA FollowMoves ==
  ASSUME NEW r \in Recs
  PROVE  LET f == Follow(r)
         IN /\ f \in Recs
            /\ f.pc \in {"mark", "clear", "revision"}
            /\ f.pc = "mark" => f.mark # ""
            /\ f.inst = r.inst /\ f.list = r.list /\ f.top = r.top
            /\ f.exp = r.exp /\ f.mark = r.mark /\ f.rvOK = r.rvOK
  BY DEF Follow, Recs, Pcs

(* The strengthening: revision numbers are bounded, a reconcile in         *)
(* progress holds an instance, and it knows the highest revision of a      *)
(* list that has one and of one it is to mark.                             *)
WellFormed ==
  /\ Bounded(revs) /\ Bounded(revCache) /\ Bounded(rec.list)
  /\ rec.pc # "idle" => rec.inst \in DDAs
  /\ Listed(rec.list) # {} \/ rec.mark # "" => rec.top \in Contents
  /\ rec.pc = "mark" => rec.mark # ""

TypeInv == TypeOK /\ WellFormed

LEMMA IdleType ==
  /\ Idle \in Recs
  /\ NoRevs \in RevSets /\ Bounded(NoRevs) /\ Listed(NoRevs) = {}
<1>1. NoRevs \in RevSets /\ Bounded(NoRevs) /\ Listed(NoRevs) = {}
  <2>1. \A c \in Contents : NoRevs[c] = NoRev
    BY DEF NoRevs
  <2>2. NoRevs \in RevSets
    BY DEF NoRevs, NoRev, RevSets, RevStates
  <2>3. NoRev.n = 0
    BY DEF NoRev
  <2>4. \A c \in Contents : NoRevs[c].n = 0
    BY <2>1, <2>3
  <2> QED
    BY <2>2, <2>4 DEF Bounded, Listed
<1>2. NilExp \in Exps
  BY DEF NilExp, Exps, Phases, Reasons
<1>3. Idle \in Recs
  BY <1>1, <1>2 DEF Idle, Recs, Pcs, Reasons, RevStates
<1> QED
  BY <1>1, <1>3

(* A change of one entry keeps a list well formed and bounded.             *)
LEMMA EntryType ==
  ASSUME NEW l \in RevSets, Bounded(l), NEW c \in Contents,
         NEW v \in [n : Nat, st : RevStates]
  PROVE  /\ [l EXCEPT ![c] = v] \in RevSets
         /\ Bounded([l EXCEPT ![c] = v])
<1> DEFINE m == [l EXCEPT ![c] = v]
<1>1. m \in RevSets
  BY DEF RevSets
<1>2. PICK b \in Nat : \A d \in Contents : l[d].n <= b
  BY DEF Bounded
<1>3. \A d \in Contents : m[d] = IF d = c THEN v ELSE l[d]
  BY DEF RevSets
<1>4. \A d \in Contents : l[d].n \in Nat
  BY DEF RevSets
<1>5. v.n \in Nat
  OBVIOUS
<1>6. b + v.n \in Nat /\ b <= b + v.n /\ v.n <= b + v.n
  BY <1>5
<1> HIDE DEF m
<1>7. \A d \in Contents : m[d].n <= b + v.n
  BY <1>2, <1>3, <1>4, <1>5, <1>6
<1> QED
  BY <1>1, <1>6, <1>7 DEF Bounded, m

LEMMA InitType == Init => TypeInv
<1> SUFFICES ASSUME Init PROVE TypeInv
  OBVIOUS
<1>1. PICK c \in Contents :
        /\ dda = [NoDDA EXCEPT !.spec = c]
        /\ revs = [NoRevs EXCEPT ![c] = [n |-> 1, st |-> ""]]
        /\ ddaCache = dda /\ ddaFresh = TRUE /\ revCache = revs /\ ddai = c
        /\ now = 0 /\ rec = Idle /\ ops = 0 /\ faults = 0
  BY DEF Init
<1>2. dda \in DDAs
  <2>1. NilExp \in Exps
    BY DEF NilExp, Exps, Phases, Reasons
  <2>2. NoPending \in Pendings
    BY DEF NoPending, Pendings
  <2> QED
    BY <1>1, <2>1, <2>2 DEF NoDDA, DDAs, Signals
<1>3. revs \in RevSets /\ Bounded(revs)
  <2>1. [n |-> 1, st |-> ""] \in [n : Nat, st : RevStates]
    BY DEF RevStates
  <2> QED
    BY <1>1, <2>1, IdleType, EntryType
<1>4. TypeOK
  BY <1>1, <1>2, <1>3, IdleType DEF TypeOK
<1>5. rec.list = NoRevs /\ rec.mark = "" /\ rec.pc = "idle"
  BY <1>1 DEF Idle
<1> QED
  BY <1>1, <1>3, <1>4, <1>5, IdleType DEF TypeInv, WellFormed

LEMMA BeginType == TypeInv /\ Begin => TypeInv'
<1> SUFFICES ASSUME TypeInv, Begin PROVE TypeInv'
  OBVIOUS
<1> USE DEF TypeInv
<1> DEFINE i == ddaCache
           l == revCache
<1>1. PICK top \in IF Listed(revCache) = {} THEN {NoContent} ELSE Highest(revCache) :
        LET r == [pc |-> "restore", inst |-> i, list |-> l, top |-> top,
                  exp |-> NewExp(i, l, now), reason |-> RestoreReason(i, l, now),
                  mark |-> MarkOwed(l, top, MarkState(i, l)),
                  clear |-> Clears(i, l, now), gc |-> {}, rvOK |-> ddaFresh]
        IN rec' = IF r.reason # "" THEN r ELSE Follow(r)
  BY DEF Begin
<1> DEFINE r == [pc |-> "restore", inst |-> i, list |-> l, top |-> top,
                 exp |-> NewExp(i, l, now), reason |-> RestoreReason(i, l, now),
                 mark |-> MarkOwed(l, top, MarkState(i, l)),
                 clear |-> Clears(i, l, now), gc |-> {}, rvOK |-> ddaFresh]
<1>2. i \in DDAs /\ l \in RevSets /\ now \in Nat /\ ddaFresh \in BOOLEAN
  BY DEF TypeOK
<1>3. top \in Contents \cup {NoContent} /\ (Listed(l) # {} => top \in Contents)
  BY <1>1 DEF Highest, Listed
<1>4. r \in Recs
  BY <1>2, <1>3, DecisionType DEF Recs, Pcs
<1>5. r.mark # "" => top \in Contents
  BY <1>3 DEF MarkOwed, MarkState
<1>6. rec' = r \/ rec' = Follow(r)
  BY <1>1
<1>7. r.pc = "restore" /\ r.inst = i /\ r.list = l /\ r.top = top
  OBVIOUS
<1> HIDE DEF r
<1>8. /\ rec' \in Recs /\ rec'.inst = r.inst /\ rec'.list = r.list /\ rec'.top = r.top
      /\ rec'.mark = r.mark /\ (rec'.pc = "mark" => r.mark # "")
  <2>1. CASE rec' = r
    BY <1>4, <1>7, <2>1
  <2>2. CASE rec' = Follow(r)
    BY <1>4, <2>2, FollowMoves
  <2> QED
    BY <1>6, <2>1, <2>2
<1>9. TypeOK'
  BY <1>8 DEF TypeOK, Begin, cluster
<1> QED
  BY <1>2, <1>3, <1>5, <1>7, <1>8, <1>9 DEF WellFormed, Begin, cluster, Bounded

(* The invariant speaks of nothing but the lists and the reconcile.        *)
LEMMA KeepsWellFormed ==
  ASSUME TypeInv, TypeOK', Bounded(revs'), Bounded(revCache'),
         rec'.list = rec.list, rec'.top = rec.top,
         rec'.inst = rec.inst, rec.pc # "idle",
         rec'.mark # "" => rec.top \in Contents,
         rec'.pc = "mark" => rec'.mark # ""
  PROVE  TypeInv'
  BY DEF TypeInv, WellFormed, Bounded

LEMMA TerminatedType ==
  ASSUME TypeInv, rec.pc = "restore", NEW STATE target, NEW STATE ok, ok \in BOOLEAN,
         Terminated(target, ok)
  PROVE  /\ rec' \in Recs
         /\ rec'.list = rec.list /\ rec'.top = rec.top /\ rec'.inst = rec.inst
         /\ rec'.mark # "" => rec.top \in Contents
         /\ rec'.pc = "mark" => rec'.mark # ""
         /\ rec'.pc \notin {"idle", "restore"}
         /\ rec'.exp = [rec.exp EXCEPT !.phase = "terminated", !.reason = rec.reason]
         /\ rec'.rvOK = ok
<1> DEFINE e == [rec.exp EXCEPT !.phase = "terminated", !.reason = rec.reason]
           m == IF Listed(rec.list) = {} \/ target = {rec.top} THEN ""
                ELSE MarkOwed(rec.list, rec.top, "rolled-back")
           r == [rec EXCEPT !.exp = e, !.mark = m, !.rvOK = ok]
<1>1. rec \in Recs
  BY DEF TypeInv, TypeOK
<1>2. e \in Exps
  BY <1>1 DEF Recs, Exps, Phases
<1>3. m \in RevStates
  BY DEF MarkOwed, RevStates
<1>4. m # "" => rec.top \in Contents
  BY DEF TypeInv, WellFormed
<1>5. rec' = Follow([rec EXCEPT !.exp = [@ EXCEPT !.phase = "terminated", !.reason = rec.reason],
                                !.mark = m, !.rvOK = ok])
  BY DEF Terminated
<1>6. rec' = Follow(r)
  BY <1>1, <1>5 DEF Recs
<1> HIDE DEF e, m
<1>7. /\ r \in Recs
      /\ r.list = rec.list /\ r.top = rec.top /\ r.inst = rec.inst
      /\ r.exp = e /\ r.mark = m /\ r.rvOK = ok
  BY <1>1, <1>2, <1>3 DEF Recs
<1> HIDE DEF r
<1>8. rec' \in Recs /\ rec'.pc \notin {"idle", "restore"} /\ (rec'.pc = "mark" => rec'.mark # "")
  BY <1>6, <1>7, FollowMoves
<1>9. /\ rec'.list = rec.list /\ rec'.top = rec.top /\ rec'.inst = rec.inst
      /\ rec'.exp = e /\ rec'.mark = m /\ rec'.rvOK = ok
  BY <1>6, <1>7, FollowMoves
<1> QED
  BY <1>4, <1>8, <1>9 DEF e

LEMMA FailType ==
  ASSUME TypeInv, rec.pc # "idle", NEW STATE e, e \in Exps, Fail(e)
  PROVE  /\ rec' \in Recs
         /\ rec'.list = rec.list /\ rec'.top = rec.top /\ rec'.inst = rec.inst
         /\ rec'.mark # "" => rec.top \in Contents
         /\ rec'.pc = "status" /\ rec'.exp = e /\ rec'.rvOK = rec.rvOK
<1>1. rec \in Recs
  BY DEF TypeInv, TypeOK
<1>2. rec' = [rec EXCEPT !.pc = "status", !.exp = e]
  BY DEF Fail
<1>3. rec.mark # "" => rec.top \in Contents
  BY DEF TypeInv, WellFormed
<1> QED
  BY <1>1, <1>2, <1>3 DEF Recs, Pcs

LEMMA RestoreNothingType == TypeInv /\ RestoreNothing => TypeInv'
<1> SUFFICES ASSUME TypeInv, RestoreNothing PROVE TypeInv'
  OBVIOUS
<1>1. rec.pc = "restore" /\ Terminated({}, rec.rvOK) /\ rec.rvOK \in BOOLEAN
  BY DEF RestoreNothing, TypeInv, TypeOK, Recs
<1>2. rec' \in Recs
  BY <1>1, TerminatedType
<1>3. TypeOK' /\ Bounded(revs') /\ Bounded(revCache')
  BY <1>2 DEF RestoreNothing, cluster, TypeInv, TypeOK, WellFormed
<1> QED
  BY <1>1, <1>3, TerminatedType, KeepsWellFormed

LEMMA RestoreType == TypeInv /\ Restore => TypeInv'
<1> SUFFICES ASSUME TypeInv, Restore PROVE TypeInv'
  OBVIOUS
<1>1. /\ rec.pc = "restore" /\ ddaFresh \in BOOLEAN /\ rec.exp \in Exps
      /\ revs' = revs /\ revCache' = revCache
      /\ UNCHANGED <<ddaCache, ddai, now, ops, faults>>
  BY DEF Restore, TypeInv, TypeOK, Recs
<1>2. Bounded(revs') /\ Bounded(revCache')
  BY <1>1 DEF TypeInv, WellFormed
<1>3. PICK c \in RollbackTargets(rec.list, rec.top) :
        \/ Terminated({c}, ddaFresh) /\ UNCHANGED <<dda, ddaFresh>>
        \/ /\ dda' = [dda EXCEPT !.spec = Merge(@, c)] /\ ddaFresh' = FALSE
           /\ Terminated({c}, TRUE)
        \/ Fail(rec.exp) /\ UNCHANGED <<dda, ddaFresh>>
  BY DEF Restore
<1>4. CASE Terminated({c}, ddaFresh) /\ UNCHANGED <<dda, ddaFresh>>
  <2>1. TypeOK'
    BY <1>1, <1>4, TerminatedType DEF TypeInv, TypeOK
  <2> QED
    BY <1>1, <1>2, <1>4, <2>1, TerminatedType, KeepsWellFormed
<1>5. CASE /\ dda' = [dda EXCEPT !.spec = Merge(@, c)] /\ ddaFresh' = FALSE
           /\ Terminated({c}, TRUE)
  <2>1. Merge(dda.spec, c) \in Contents
    BY <1>3 DEF Merge, RollbackTargets, Listed, Contents, TypeInv, TypeOK, DDAs
  <2>2. dda' \in DDAs
    BY <1>5, <2>1 DEF TypeInv, TypeOK, DDAs
  <2>3. TypeOK'
    BY <1>1, <1>5, <2>2, TerminatedType DEF TypeInv, TypeOK
  <2> QED
    BY <1>1, <1>2, <1>5, <2>3, TerminatedType, KeepsWellFormed
<1>6. CASE Fail(rec.exp) /\ UNCHANGED <<dda, ddaFresh>>
  <2>1. TypeOK'
    BY <1>1, <1>6, FailType DEF TypeInv, TypeOK
  <2> QED
    BY <1>1, <1>2, <1>6, <2>1, FailType, KeepsWellFormed
<1> QED
  BY <1>3, <1>4, <1>5, <1>6

LEMMA MarkType == TypeInv /\ Mark => TypeInv'
<1> SUFFICES ASSUME TypeInv, Mark PROVE TypeInv'
  OBVIOUS
<1> DEFINE top == rec.top
           found == revs[top].n > 0
           v == [revs[top] EXCEPT !.st = rec.mark]
           l == IF found THEN [rec.list EXCEPT ![top] = v] ELSE rec.list
           r == [rec EXCEPT !.mark = "", !.list = l]
<1>1. /\ rec.pc = "mark" /\ top \in Contents /\ rec \in Recs /\ rec.mark \in RevStates
      /\ rec.list \in RevSets /\ revs \in RevSets /\ Bounded(revs) /\ Bounded(rec.list)
      /\ rec.inst \in DDAs
  BY DEF Mark, TypeInv, TypeOK, WellFormed, Recs
<1>2. v \in [n : Nat, st : RevStates]
  BY <1>1 DEF RevSets
<1>3. l \in RevSets /\ Bounded(l)
  BY <1>1, <1>2, EntryType
<1>4. revs' \in RevSets /\ Bounded(revs')
  <2>1. revs' = IF found THEN [revs EXCEPT ![top] = v] ELSE revs
    BY <1>1 DEF Mark, RevSets
  <2> HIDE DEF v
  <2> QED
    BY <1>1, <1>2, <2>1, EntryType
<1>5. rec' = Follow(r)
  <2>1. rec' = Follow([rec EXCEPT !.mark = "",
                         !.list[top] = IF found THEN v ELSE @])
    BY DEF Mark
  <2>2. [rec EXCEPT !.mark = "", !.list[top] = IF found THEN v ELSE @] = r
    <3>1. CASE found
      BY <1>1, <3>1 DEF Recs
    <3>2. CASE ~found
      BY <1>1, <3>2 DEF Recs, RevSets
    <3> QED
      BY <3>1, <3>2
  <2> QED
    BY <2>1, <2>2
<1> HIDE DEF l
<1>6. r \in Recs /\ r.list = l /\ r.top = top /\ r.inst = rec.inst /\ r.mark = ""
  BY <1>1, <1>3 DEF Recs, RevStates
<1> HIDE DEF r, top
<1>7. /\ rec' \in Recs /\ rec'.list = l /\ rec'.top = top /\ rec'.inst = rec.inst
      /\ rec'.mark = "" /\ rec'.pc # "mark"
  <2>1. /\ rec' \in Recs /\ rec'.mark = r.mark /\ (rec'.pc = "mark" => rec'.mark # "")
        /\ rec'.list = r.list /\ rec'.top = r.top /\ rec'.inst = r.inst
    BY <1>5, <1>6, FollowMoves
  <2> QED
    BY <1>6, <2>1
<1>8. TypeOK'
  BY <1>4, <1>7 DEF Mark, TypeInv, TypeOK
<1> QED
  BY <1>1, <1>3, <1>4, <1>7, <1>8 DEF Mark, TypeInv, WellFormed, Bounded, top

LEMMA ClearType == TypeInv /\ Clear => TypeInv'
<1> SUFFICES ASSUME TypeInv, Clear PROVE TypeInv'
  OBVIOUS
<1>1. /\ rec.pc = "clear" /\ rec \in Recs /\ dda \in DDAs /\ ddaFresh \in BOOLEAN
      /\ rec.mark # "" => rec.top \in Contents
  BY DEF Clear, TypeInv, TypeOK, WellFormed
<1>2. PICK r \in Recs : /\ rec' = Follow(r) /\ r.list = rec.list /\ r.top = rec.top
                        /\ r.inst = rec.inst /\ r.mark = rec.mark
  <2> DEFINE r1 == [rec EXCEPT !.clear = FALSE, !.rvOK = FALSE]
             r2 == [rec EXCEPT !.clear = FALSE]
  <2>1. rec' \in {Follow(r1), Follow(r2)}
    BY DEF Clear
  <2>2. /\ r1 \in Recs /\ r1.list = rec.list /\ r1.top = rec.top
        /\ r1.inst = rec.inst /\ r1.mark = rec.mark
    BY <1>1 DEF Recs
  <2>3. /\ r2 \in Recs /\ r2.list = rec.list /\ r2.top = rec.top
        /\ r2.inst = rec.inst /\ r2.mark = rec.mark
    BY <1>1 DEF Recs
  <2> HIDE DEF r1, r2
  <2> QED
    BY <2>1, <2>2, <2>3
<1>3. /\ rec' \in Recs /\ rec'.list = rec.list /\ rec'.top = rec.top
      /\ rec'.inst = rec.inst /\ rec'.mark = rec.mark
      /\ rec'.pc = "mark" => rec'.mark # ""
  BY <1>2, FollowMoves
<1>4. dda' \in DDAs /\ ddaFresh' \in BOOLEAN
  BY <1>1 DEF Clear, DDAs, Signals
<1>5. TypeOK' /\ Bounded(revs') /\ Bounded(revCache')
  BY <1>3, <1>4 DEF Clear, TypeInv, TypeOK, WellFormed
<1> QED
  BY <1>1, <1>3, <1>5, KeepsWellFormed

(* gcOldRevisions leaves the reconcile as it is but for what it will       *)
(* delete.                                                                 *)
LEMMA ToGcType ==
  ASSUME TypeInv, rec.pc \in {"revision", "recreate"}, ToGc(rec)
  PROVE  /\ rec' \in Recs
         /\ rec'.list = rec.list /\ rec'.top = rec.top /\ rec'.inst = rec.inst
         /\ rec'.exp = rec.exp /\ rec'.rvOK = rec.rvOK
         /\ rec'.mark # "" => rec.top \in Contents
         /\ rec'.pc \in {"gc", "apply"}
<1>1. rec \in Recs /\ (rec.mark # "" => rec.top \in Contents)
  BY DEF TypeInv, TypeOK, WellFormed
<1>2. PICK gone \in SUBSET Contents :
        rec' = [rec EXCEPT !.gc = gone, !.pc = IF gone = {} THEN "apply" ELSE "gc"]
  BY DEF ToGc, Listed
<1> QED
  BY <1>1, <1>2 DEF Recs, Pcs

LEMMA EnsureRevisionType == TypeInv /\ EnsureRevision => TypeInv'
<1> SUFFICES ASSUME TypeInv, EnsureRevision PROVE TypeInv'
  OBVIOUS
<1> DEFINE c == rec.inst.spec
           next == MaxRevision(rec.list) + 1
<1>1. /\ rec.pc = "revision" /\ rec \in Recs /\ c \in Contents /\ rec.exp \in Exps
      /\ rec.list \in RevSets /\ Bounded(rec.list) /\ revs \in RevSets /\ Bounded(revs)
  BY DEF EnsureRevision, TypeInv, TypeOK, WellFormed, Recs, DDAs
<1>2. next \in Nat
  BY <1>1, MaxRevisionType
<1>3. \/ ToGc(rec) \/ Fail(rec.exp)
      \/ rec' = [rec EXCEPT !.pc = "recreate"]
  BY DEF EnsureRevision
<1>4. /\ rec' \in Recs /\ rec'.list = rec.list /\ rec'.top = rec.top
      /\ rec'.inst = rec.inst /\ rec'.pc # "mark" /\ (rec'.mark # "" => rec.top \in Contents)
  <2>1. CASE ToGc(rec)
    BY <1>1, <2>1, ToGcType
  <2>2. CASE Fail(rec.exp)
    BY <1>1, <2>2, FailType
  <2>3. CASE rec' = [rec EXCEPT !.pc = "recreate"]
    BY <1>1, <2>3 DEF TypeInv, WellFormed, Recs, Pcs
  <2> QED
    BY <1>3, <2>1, <2>2, <2>3
<1>5. revs' \in RevSets /\ Bounded(revs')
  <2>1. \/ revs' = revs
        \/ revs' = [revs EXCEPT ![c] = [n |-> next, st |-> ""]]
        \/ revs' = [revs EXCEPT ![c] = NoRev]
        \/ revs' = [revs EXCEPT ![c].n = next]
    BY DEF EnsureRevision, CreateRevision
  <2>2. [n |-> next, st |-> ""] \in [n : Nat, st : RevStates]
    BY <1>2 DEF RevStates
  <2>3. NoRev \in [n : Nat, st : RevStates]
    BY DEF NoRev, RevStates
  <2>4. [revs[c] EXCEPT !.n = next] \in [n : Nat, st : RevStates]
    BY <1>1, <1>2 DEF RevSets
  <2>5. [revs EXCEPT ![c].n = next] = [revs EXCEPT ![c] = [revs[c] EXCEPT !.n = next]]
    BY <1>1 DEF RevSets
  <2>6. \A v \in [n : Nat, st : RevStates] : /\ [revs EXCEPT ![c] = v] \in RevSets
                                           /\ Bounded([revs EXCEPT ![c] = v])
    BY <1>1, EntryType
  <2> QED
    BY <1>1, <2>1, <2>2, <2>3, <2>4, <2>5, <2>6, Zenon
<1>6. TypeOK' /\ Bounded(revCache')
  BY <1>4, <1>5 DEF EnsureRevision, TypeInv, TypeOK, WellFormed
<1> QED
  BY <1>1, <1>4, <1>5, <1>6, KeepsWellFormed

LEMMA RecreateRevisionType == TypeInv /\ RecreateRevision => TypeInv'
<1> SUFFICES ASSUME TypeInv, RecreateRevision PROVE TypeInv'
  OBVIOUS
<1> DEFINE c == rec.inst.spec
           next == MaxRevision(rec.list) + 1
<1>1. /\ rec.pc = "recreate" /\ rec \in Recs /\ c \in Contents
      /\ rec.list \in RevSets /\ Bounded(rec.list) /\ revs \in RevSets /\ Bounded(revs)
  BY DEF RecreateRevision, TypeInv, TypeOK, WellFormed, Recs, DDAs
<1>2. [n |-> next, st |-> ""] \in [n : Nat, st : RevStates]
  BY <1>1, MaxRevisionType DEF RevStates
<1>3. revs' = revs \/ revs' = [revs EXCEPT ![c] = [n |-> next, st |-> ""]]
  BY DEF RecreateRevision, CreateRevision
<1>4. revs' \in RevSets /\ Bounded(revs')
  <2>1. \A v \in [n : Nat, st : RevStates] : /\ [revs EXCEPT ![c] = v] \in RevSets
                                           /\ Bounded([revs EXCEPT ![c] = v])
    BY <1>1, EntryType
  <2> QED
    BY <1>1, <1>2, <1>3, <2>1, Zenon
<1>5. ToGc(rec)
  BY DEF RecreateRevision
<1>6. TypeOK' /\ Bounded(revCache')
  BY <1>1, <1>4, <1>5, ToGcType DEF RecreateRevision, TypeInv, TypeOK, WellFormed
<1> QED
  BY <1>1, <1>4, <1>5, <1>6, ToGcType, KeepsWellFormed

LEMMA GcRevisionType == TypeInv /\ GcRevision => TypeInv'
<1> SUFFICES ASSUME TypeInv, GcRevision PROVE TypeInv'
  OBVIOUS
<1>1. /\ rec.pc = "gc" /\ rec \in Recs /\ revs \in RevSets /\ Bounded(revs)
      /\ (rec.mark # "" => rec.top \in Contents)
  BY DEF GcRevision, TypeInv, TypeOK, WellFormed
<1>2. PICK c \in rec.gc :
        /\ revs' = [revs EXCEPT ![c] = NoRev]
        /\ rec' = [rec EXCEPT !.gc = @ \ {c},
                      !.pc = IF rec.gc = {c} THEN "apply" ELSE "gc"]
  BY DEF GcRevision
<1>3. c \in Contents
  BY <1>1 DEF Recs
<1>4. NoRev \in [n : Nat, st : RevStates]
  BY DEF NoRev, RevStates
<1>5. revs' \in RevSets /\ Bounded(revs')
  BY <1>1, <1>2, <1>3, <1>4, EntryType
<1>6. /\ rec' \in Recs /\ rec'.list = rec.list /\ rec'.top = rec.top
      /\ rec'.inst = rec.inst /\ rec'.mark = rec.mark /\ rec'.pc # "mark"
  BY <1>1, <1>2 DEF Recs, Pcs
<1>7. TypeOK' /\ Bounded(revCache')
  BY <1>5, <1>6 DEF GcRevision, TypeInv, TypeOK, WellFormed
<1> QED
  BY <1>1, <1>5, <1>6, <1>7, KeepsWellFormed

LEMMA ApplyType == TypeInv /\ Apply => TypeInv'
<1> SUFFICES ASSUME TypeInv, Apply PROVE TypeInv'
  OBVIOUS
<1>1. rec.pc = "apply" /\ rec \in Recs /\ rec.inst.spec \in Contents
  BY DEF Apply, TypeInv, TypeOK, WellFormed, DDAs
<1>2. rec' = [rec EXCEPT !.pc = "status"]
  BY DEF Apply
<1>3. /\ rec' \in Recs /\ rec'.list = rec.list /\ rec'.top = rec.top
      /\ rec'.inst = rec.inst /\ rec'.mark = rec.mark /\ rec'.pc # "mark"
  BY <1>1, <1>2 DEF Recs, Pcs
<1>4. TypeOK' /\ Bounded(revs') /\ Bounded(revCache')
  BY <1>1, <1>3 DEF Apply, TypeInv, TypeOK, WellFormed
<1> QED
  BY <1>1, <1>3, <1>4, KeepsWellFormed DEF TypeInv, WellFormed

(* An idle reconciler keeps the invariant whatever it did before.          *)
LEMMA IdleWellFormed ==
  ASSUME TypeOK', Bounded(revs'), Bounded(revCache'), rec' = Idle
  PROVE  TypeInv'
<1>1. rec'.list = NoRevs /\ rec'.mark = "" /\ rec'.pc = "idle"
  BY DEF Idle
<1> QED
  BY <1>1, IdleType DEF TypeInv, WellFormed, Bounded

LEMMA WriteStatusType == TypeInv /\ WriteStatus => TypeInv'
<1> SUFFICES ASSUME TypeInv, WriteStatus PROVE TypeInv'
  OBVIOUS
<1>1. rec \in Recs /\ dda \in DDAs /\ ddaFresh \in BOOLEAN
  BY DEF TypeInv, TypeOK
<1>2. dda' \in DDAs /\ ddaFresh' \in BOOLEAN
  BY <1>1 DEF WriteStatus, Recs, DDAs
<1>3. rec' = Idle /\ TypeOK' /\ Bounded(revs') /\ Bounded(revCache')
  BY <1>2, IdleType DEF WriteStatus, TypeInv, TypeOK, WellFormed
<1> QED
  BY <1>3, IdleWellFormed

LEMMA CallFailsType == TypeInv /\ CallFails => TypeInv'
<1> SUFFICES ASSUME TypeInv, CallFails PROVE TypeInv'
  OBVIOUS
<1>0. faults \in Nat /\ faults' = faults + 1
  BY DEF CallFails, TypeInv, TypeOK
<1>1. /\ rec \in Recs /\ rec.exp \in Exps
      /\ (rec.mark # "" => rec.top \in Contents)
      /\ Bounded(revs') /\ Bounded(revCache')
  BY DEF CallFails, TypeInv, TypeOK, WellFormed, Recs
<1>2. ASSUME rec' \in Recs, ddai' \in Contents PROVE TypeOK'
  <2>1. faults' \in Nat
    BY <1>0
  <2> QED
    BY <1>2, <2>1 DEF CallFails, TypeInv, TypeOK
<1>3. ddai \in Contents /\ (rec.pc # "idle" => rec.inst.spec \in Contents /\ rec.inst.exp \in Exps)
  BY DEF TypeInv, TypeOK, WellFormed, DDAs
<1>4. CASE rec.pc \in {"restore", "revision", "recreate"} /\ Fail(rec.exp) /\ ddai' = ddai
  BY <1>1, <1>2, <1>3, <1>4, FailType, KeepsWellFormed
<1>5. CASE rec.pc = "mark" /\ rec' = Follow([rec EXCEPT !.mark = ""]) /\ ddai' = ddai
  <2> DEFINE r == [rec EXCEPT !.mark = ""]
  <2>1. /\ r \in Recs /\ r.list = rec.list /\ r.top = rec.top /\ r.inst = rec.inst
        /\ r.mark = ""
    BY <1>1 DEF Recs, RevStates
  <2> HIDE DEF r
  <2>2. /\ rec' \in Recs /\ rec'.list = rec.list /\ rec'.top = rec.top
        /\ rec'.inst = rec.inst /\ rec'.mark = "" /\ rec'.pc # "mark"
    BY <1>5, <2>1, FollowMoves DEF r
  <2> QED
    BY <1>1, <1>2, <1>3, <1>5, <2>2, KeepsWellFormed
<1>6. CASE rec.pc = "clear" /\ rec' = Follow([rec EXCEPT !.clear = FALSE]) /\ ddai' = ddai
  <2> DEFINE r == [rec EXCEPT !.clear = FALSE]
  <2>1. /\ r \in Recs /\ r.list = rec.list /\ r.top = rec.top /\ r.inst = rec.inst
        /\ r.mark = rec.mark
    BY <1>1 DEF Recs
  <2> HIDE DEF r
  <2>2. /\ rec' \in Recs /\ rec'.list = rec.list /\ rec'.top = rec.top
        /\ rec'.inst = rec.inst /\ rec'.mark = rec.mark
        /\ rec'.pc = "mark" => rec'.mark # ""
    BY <1>6, <2>1, FollowMoves DEF r
  <2> QED
    BY <1>1, <1>2, <1>3, <1>6, <2>2, KeepsWellFormed
<1>7. CASE rec.pc = "gc" /\ rec' = [rec EXCEPT !.pc = "apply", !.gc = {}] /\ ddai' = ddai
  <2>1. /\ rec' \in Recs /\ rec'.list = rec.list /\ rec'.top = rec.top
        /\ rec'.inst = rec.inst /\ rec'.mark = rec.mark /\ rec'.pc # "mark"
    BY <1>1, <1>7 DEF Recs, Pcs
  <2> QED
    BY <1>1, <1>2, <1>3, <1>7, <2>1, KeepsWellFormed
<1>8. CASE rec.pc = "apply" /\ Fail(rec.inst.exp) /\ ddai' \in {ddai, rec.inst.spec}
  BY <1>1, <1>2, <1>3, <1>8, FailType, KeepsWellFormed
<1>9. CASE rec.pc = "status" /\ rec' = Idle /\ ddai' = ddai
  BY <1>1, <1>2, <1>3, <1>9, IdleType, IdleWellFormed
<1> QED
  BY <1>4, <1>5, <1>6, <1>7, <1>8, <1>9 DEF CallFails

LEMMA RestartType == TypeInv /\ Restart => TypeInv'
<1> SUFFICES ASSUME TypeInv, Restart PROVE TypeInv'
  OBVIOUS
<1>1. faults \in Nat /\ faults' = faults + 1
  BY DEF Restart, TypeInv, TypeOK
<1>2. faults' \in Nat
  BY <1>1
<1>3. rec' = Idle /\ TypeOK' /\ Bounded(revs') /\ Bounded(revCache')
  BY <1>2, IdleType DEF Restart, TypeInv, TypeOK, WellFormed
<1> QED
  BY <1>3, IdleWellFormed

LEMMA EnvironmentType == TypeInv /\ (Sync \/ Tick \/ PatchDDA) => TypeInv'
<1> SUFFICES ASSUME TypeInv, Sync \/ Tick \/ PatchDDA PROVE TypeInv'
  OBVIOUS
<1>1. ASSUME rec' = rec, TypeOK', Bounded(revs'), Bounded(revCache') PROVE TypeInv'
  BY <1>1 DEF TypeInv, WellFormed, Bounded
<1>2. CASE SyncDDA
  BY <1>1, <1>2 DEF SyncDDA, TypeInv, TypeOK, WellFormed
<1>3. CASE SyncRevs
  BY <1>1, <1>3 DEF SyncRevs, TypeInv, TypeOK, WellFormed
<1>4. CASE Tick
  <2>1. now \in Nat /\ now' = now + 1
    BY <1>4 DEF Tick, TypeInv, TypeOK
  <2>2. now' \in Nat
    BY <2>1
  <2> QED
    BY <1>1, <1>4, <2>2 DEF Tick, cluster, TypeInv, TypeOK, WellFormed
<1>5. CASE PatchDDA
  <2>1. PICK c \in Contents, s \in Signals, id \in IDs :
          Patched([dda EXCEPT !.spec = c,
                              !.sig = IF s = "none" THEN @ ELSE s,
                              !.sid = IF s = "none" THEN @ ELSE id])
    BY <1>5 DEF PatchDDA
  <2>2. dda' \in DDAs
    BY <2>1 DEF Patched, TypeInv, TypeOK, DDAs, Signals
  <2>3. /\ rec' \in Recs /\ rec'.list = rec.list /\ rec'.top = rec.top
        /\ rec'.inst = rec.inst /\ rec'.mark = rec.mark /\ rec'.pc = rec.pc
    BY <2>1 DEF Patched, TypeInv, TypeOK, Recs
  <2>4. ops \in Nat /\ ops' = ops + 1
    BY <1>5 DEF PatchDDA, TypeInv, TypeOK
  <2>5. ops' \in Nat
    BY <2>4
  <2>6. TypeOK' /\ Bounded(revs') /\ Bounded(revCache')
    BY <2>1, <2>2, <2>3, <2>5 DEF Patched, TypeInv, TypeOK, WellFormed
  <2> QED
    BY <2>3, <2>6 DEF TypeInv, WellFormed, Bounded
<1> QED
  BY <1>2, <1>3, <1>4, <1>5 DEF Sync

LEMMA NextType == TypeInv /\ [Next]_vars => TypeInv'
<1>1. TypeInv /\ UNCHANGED vars => TypeInv'
  BY DEF vars, TypeInv, TypeOK, WellFormed, Bounded
<1> QED
  BY <1>1, BeginType, RestoreNothingType, RestoreType, MarkType, ClearType,
     EnsureRevisionType, RecreateRevisionType, GcRevisionType, ApplyType,
     WriteStatusType, CallFailsType, RestartType, EnvironmentType
  DEF Next, Reconcile, Failure

(* Every object that the reconciler, the caches and the API server hold is *)
(* well formed in every behaviour, whatever the constants: no decision of  *)
(* manageExperiment or ensureRevision leaves its type.                     *)
THEOREM TypeCorrect == Spec => []TypeOK
<1>1. TypeInv => TypeOK
  BY DEF TypeInv
<1> QED
  BY <1>1, InitType, NextType, PTL DEF Spec
=============================================================================

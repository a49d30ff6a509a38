----------------------------- MODULE Lifecycle ------------------------------
(***************************************************************************)
(* What Status.Experiment of a DatadogAgent promises to those who watch    *)
(* it, the Fleet daemon first of all: experiments run one at a time, each  *)
(* under an ID other than the last one's, and each ends once, by a         *)
(* promotion, an abort, a stop or, no sooner than Timeout after its start, *)
(* by a timeout.  Module Experiment implements it.                         *)
(***************************************************************************)
EXTENDS Integers

CONSTANTS IDs, Tasks, NoID, NoTask, Timeout

VARIABLES
  exp,  \* Status.Experiment
  now   \* the clock

None == [phase |-> "nil", id |-> NoID, at |-> 0, reason |-> "", task |-> NoTask]

Init == exp = None /\ now = 0

(* An experiment starts when none runs; `at` is when the reconciler took   *)
(* the signal, a little before it shows.                                   *)
Start ==
  /\ exp.phase # "running"
  /\ \E id \in IDs \ {exp.id}, at \in 0 .. now, task \in Tasks \cup {NoTask} :
       exp' = [phase |-> "running", id |-> id, at |-> at, reason |-> "", task |-> task]

Promote == exp.phase = "running" /\ exp' = [exp EXCEPT !.phase = "promoted"]

Abort == exp.phase = "running" /\ exp' = [exp EXCEPT !.phase = "aborted"]

Stop ==
  /\ exp.phase = "running"
  /\ exp' = [exp EXCEPT !.phase = "terminated", !.reason = "stopped"]

TimeOut ==
  /\ exp.phase = "running"
  /\ now - exp.at >= Timeout
  /\ exp' = [exp EXCEPT !.phase = "terminated", !.reason = "timed_out"]

(* A stop that finds no experiment rolls back all the same; it leaves one  *)
(* without a phase if the rollback fails, terminated if it succeeds.       *)
StopUnstarted ==
  /\ exp.phase \in {"nil", ""}
  /\ \E id \in IDs :
       \/ exp' = [None EXCEPT !.phase = "", !.id = id]
       \/ exp' = [None EXCEPT !.phase = "terminated", !.id = id, !.reason = "stopped"]

Change == (Start \/ Promote \/ Abort \/ Stop \/ TimeOut \/ StopUnstarted) /\ now' = now

Tick == now' = now + 1 /\ exp' = exp

Next == Change \/ Tick

Spec == Init /\ [][Next]_<<exp, now>>
=============================================================================

-------------------------- MODULE TektonPipeline ---------------------------
(***************************************************************************)
(* What a PipelineRun promises, seen from its tasks: a task whose when      *)
(* expressions do not hold is skipped; a regular task starts once those of  *)
(* its runAfter have succeeded or been skipped; the finally tasks start     *)
(* once every regular task is over; the run succeeds when all have.  How    *)
(* tasks are made of steps and of LLB operations does not appear.           *)
(***************************************************************************)
EXTENDS TektonResources

VARIABLES
  run,       \* the PipelineRun, which may be any
  phase,     \* <<kind, name>> -> the phase of the task
  verdict    \* "none" until the run is over

Phase == {"waiting", "running", "succeeded", "failed", "skipped", "canceled"}

TaskIds(r) == ({"task"} \X Names(r.tasks)) \cup ({"finally"} \X Names(r.finally))

Regular(id) == id[1] = "task"

\* The tasks the run has under a name; one, when the run is valid.
Declared(id) == {t \in Elements(IF Regular(id) THEN run.tasks ELSE run.finally) : t.name = id[2]}

Init ==
  /\ phase = [id \in TaskIds(run) |-> "waiting"]
  /\ verdict = "none"

Move(id, from, to) ==
  /\ verdict = "none"
  /\ phase[id] = from
  /\ phase' = [phase EXCEPT ![id] = to]
  /\ UNCHANGED <<run, verdict>>

\* Its when expressions do not hold.
Skip(id) ==
  /\ Regular(id)
  /\ \E t \in Declared(id) : ~EvaluateWhenExpressions(t.when)
  /\ Move(id, "waiting", "skipped")

Over == {"succeeded", "failed", "skipped"}

MayStart(id) ==
  IF Regular(id)
  THEN \E t \in Declared(id) :
         /\ EvaluateWhenExpressions(t.when)
         /\ \A other \in DOMAIN phase :
              (Regular(other) /\ other[2] \in t.runAfter) => phase[other] \in {"succeeded", "skipped"}
  ELSE \A other \in DOMAIN phase : Regular(other) => phase[other] \in Over

StartTask(id) == MayStart(id) /\ Move(id, "waiting", "running")

SucceedTask(id) == Move(id, "running", "succeeded")

FailTask(id) == Move(id, "running", "failed")

\* The run is refused before any task has started.
Refuse ==
  /\ verdict = "none"
  /\ \A id \in DOMAIN phase : phase[id] \in {"waiting", "skipped"}
  /\ verdict' = "failed"
  /\ UNCHANGED <<run, phase>>

\* The run stops, because a task failed, the collection of the results could
\* not be done, or the user asked for it.
Stop(why) ==
  /\ verdict = "none"
  /\ verdict' = why
  /\ phase' = [id \in DOMAIN phase |->
                 IF phase[id] \in {"waiting", "running"} THEN "canceled" ELSE phase[id]]
  /\ UNCHANGED run

AllSucceeded == \A id \in DOMAIN phase : phase[id] \in {"succeeded", "skipped"}

StopOnFailure ==
  /\ AllSucceeded \/ \E id \in DOMAIN phase : phase[id] = "failed"
  /\ Stop("failed")

Succeed ==
  /\ verdict = "none"
  /\ AllSucceeded
  /\ verdict' = "succeeded"
  /\ UNCHANGED <<run, phase>>

Next ==
  \/ \E id \in DOMAIN phase :
       Skip(id) \/ StartTask(id) \/ SucceedTask(id) \/ FailTask(id)
  \/ Refuse \/ StopOnFailure \/ Stop("interrupted") \/ Succeed

Spec == Init /\ [][Next]_<<run, phase, verdict>>

=============================================================================

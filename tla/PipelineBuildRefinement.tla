---------------------- MODULE PipelineBuildRefinement ----------------------
(***************************************************************************)
(* PipelineBuild implements TektonPipeline: the phase of a task is read off *)
(* the statuses of its steps.                                              *)
(***************************************************************************)
EXTENDS PipelineBuild

\* The steps of a task as it declares them, whether or not they are built.
Vertices(id) == {v \in VerticesOf(run) : v[1] = id[1] /\ v[2] = id[2]}

\* The phase of a task, from whether it was skipped and the statuses of its steps.
PhaseOf(skipped, seen) ==
  IF skipped THEN "skipped"
  ELSE IF seen \cap {"failed", "broken"} # {} THEN "failed"
  ELSE IF "canceled" \in seen THEN "canceled"
  ELSE IF seen \subseteq {"none", "pending"} THEN "waiting"
  ELSE IF seen = {"done"} THEN "succeeded"
  ELSE "running"

TaskPhase(id) ==
  PhaseOf(id[1] = "task" /\ id[2] \in skippedTasks, {StatusOf(v) : v \in Vertices(id)})

TaskIdsOf(r) == ({"task"} \X Names(r.tasks)) \cup ({"finally"} \X Names(r.finally))

Phases == [id \in TaskIdsOf(run) |-> TaskPhase(id)]

Verdict == IF build \in {"idle", "solving"} THEN "none" ELSE build

Abstract == INSTANCE TektonPipeline WITH phase <- Phases, verdict <- Verdict

\* REFINEMENT.  Every behaviour of the translated build, step by step, is one
\* the task-level specification allows: tasks start only when runAfter and
\* finally let them, are skipped only by their when expressions, and the build
\* is reported a success only when each of them has succeeded or was skipped.
ImplementsTektonPipeline == Abstract!Spec

=============================================================================

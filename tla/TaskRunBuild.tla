---------------------------- MODULE TaskRunBuild ----------------------------
(***************************************************************************)
(* build.Build for a TaskRun, which is a pipeline of that one task.         *)
(***************************************************************************)
EXTENDS TaskRunToLLB

CONSTANT Faults

VARIABLES status, build

Solver == INSTANCE BuildKit WITH root <- LastStep

taskRunBuildVars == <<taskRun, pc, llb, status, build>>

translated == <<taskRun, pc>>

TaskRunBuildInit == TaskRunInit /\ status = [v \in {} |-> v] /\ build = "idle"

Translate == TaskRunNext /\ UNCHANGED <<status, build>>

Submit == pc = "done" /\ Solver!Solve /\ UNCHANGED translated

ReturnError ==
  /\ pc = "error" /\ build = "idle"
  /\ build' = "failed"
  /\ UNCHANGED <<translated, llb, status>>

Run == Solver!SolveNext /\ UNCHANGED translated

TaskRunBuildNext == Translate \/ Submit \/ ReturnError \/ Run

TaskRunBuildSpec == TaskRunBuildInit /\ [][TaskRunBuildNext]_taskRunBuildVars

-----------------------------------------------------------------------------
(* The run as a pipeline of one task.                                      *)

AsPipeline(r) ==
  [name |-> r.name, spec |-> r.spec, unsupported |-> r.podTemplate, finally |-> <<>>,
   tasks |-> <<[name |-> r.name, when |-> {}, runAfter |-> {}, steps |-> r.steps]>>]

StatusOf(v) == IF v \in DOMAIN status THEN status[v] ELSE "none"

StatusesOfSteps == {StatusOf(v) : v \in Elements(StepStates("task", AsTask(taskRun)))}

PhaseOfRun ==
  IF StatusesOfSteps \cap {"failed", "broken"} # {} THEN "failed"
  ELSE IF "canceled" \in StatusesOfSteps THEN "canceled"
  ELSE IF StatusesOfSteps \subseteq {"none", "pending"} THEN "waiting"
  ELSE IF StatusesOfSteps = {"done"} THEN "succeeded"
  ELSE "running"

Abstract == INSTANCE TektonPipeline WITH
  run     <- AsPipeline(taskRun),
  phase   <- [id \in {<<"task", taskRun.name>>} |-> PhaseOfRun],
  verdict <- IF build \in {"idle", "solving"} THEN "none" ELSE build

\* REFINEMENT.  A build of a TaskRun is a build of a pipeline of this task, as the
\* task-level specification has it: it is refused before a step has started, is
\* over at the first step that fails, and a success only when all are done.
ImplementsOneTask == Abstract!Spec

\* ORDER OF STEPS.  A step starts only when all those before it are done (the
\* /previous mount), and of steps none is left out of the build, although the
\* last is all BuildKit is asked for.
TaskRunStepsInOrder ==
  \A i, j \in DOMAIN taskRun.steps :
    (i < j /\ StatusOf(<<"task", taskRun.name, j>>) \in {"running", "done", "failed", "broken"}) =>
      StatusOf(<<"task", taskRun.name, i>>) = "done"

=============================================================================

---------------------------- MODULE TaskRunToLLB ----------------------------
(***************************************************************************)
(* The translation of a TaskRun: one chain of the operations of TaskSteps, *)
(* the last of which is the root of the build.                             *)
(***************************************************************************)
EXTENDS TaskSteps

CONSTANT TaskRuns    \* the TaskRuns that may be asked for

TaskRunWorkspace == [name : STRING, kind : {"configMap", "secret", "cacheDir"}]

TaskRun == [name        : STRING,
            apiFields   : ApiFields,
            spec        : SpecSource,   \* the taskSpec, or where its taskRef leads
            podTemplate : BOOLEAN,
            unsupported : BOOLEAN,      \* sidecar, other volume, volumeDevice
            defect      : Defect \ {"notFound"},
            timeout     : BOOLEAN,      \* the run's own, which nothing looks at
            workspaces  : SUBSET TaskRunWorkspace,
            steps       : Seq(Step)]

ASSUME TaskRunsAssumption == TaskRuns \subseteq TaskRun

VARIABLES
  taskRun,           \* the TaskRun being translated, it never changes
  pc,                \* the stage the translation is in
  llb                \* vertex -> operation

taskRunVars == <<taskRun, pc, llb>>

\* The steps are translated under the name of the run, with no task timeout.
AsTask(r) == [name |-> r.name, timeout |-> FALSE, steps |-> r.steps]

\* Mutant of LastStep: the first state is solved.
LastStep_First == StepStates("task", AsTask(taskRun))[1]

\* The last state is the one that is solved.
LastStep == LastOf(StepStates("task", AsTask(taskRun)))

TaskRunInit ==
  /\ taskRun \in TaskRuns
  /\ pc = "validate"
  /\ llb = [v \in {} |-> v]

TaskSpecValid(r) == r.steps # <<>> /\ r.defect # "invalid"

\* No workspace is bound twice.
BoundOnce(r) == \A w, u \in r.workspaces : w.name = u.name => w = u

\* Tekton's checks and the program's; a Task of the context is not looked at.
ValidateTaskRun(r) ==
  /\ r.spec = "resolver" => r.apiFields = "beta"
  /\ BoundOnce(r)
  /\ ~r.podTemplate
  /\ r.spec = "embedded" => TaskSpecValid(r) /\ ~r.unsupported

Give(outcome) == pc' = outcome /\ UNCHANGED <<taskRun, llb>>

Validate ==
  /\ pc = "validate"
  /\ Give(IF ValidateTaskRun(taskRun) THEN "resolve" ELSE "error")

\* Mutant of Resolved: the substituted spec is used without its own check.
Resolved_Unchecked(r) == r.spec # "notFound"

\* The Task is in the context, and its spec valid once it is substituted.
Resolved(r) == r.spec # "notFound" /\ TaskSpecValid(r)

\* A taskRef that is left to a resolver has no name: the spec is nil, and its
\* parameters are read.
Resolve ==
  /\ pc = "resolve"
  /\ Give(IF taskRun.spec = "resolver" THEN "panic"
          ELSE IF Resolved(taskRun) THEN "steps" ELSE "error")

\* Whatever it is bound to, a workspace is a cache directory of the run.
WorkspaceCacheDirs(r) == {<<r.name, w.name>> : w \in r.workspaces}

\* Every step is made before the first of them is, and an image that does not
\* parse ends it there.
TranslateSteps ==
  /\ pc = "steps" /\ taskRun.defect # "badImage"
  /\ LET task == AsTask(taskRun)
     IN  llb' = [v \in Elements(StepStates("task", task)) |->
                   StepOp("task", task, v[3], WorkspaceCacheDirs(taskRun), {}, {})]
  /\ pc' = "done"
  /\ UNCHANGED taskRun

RejectImage ==
  /\ pc = "steps" /\ taskRun.defect = "badImage"
  /\ Give("error")

TaskRunNext == Validate \/ Resolve \/ TranslateSteps \/ RejectImage

-----------------------------------------------------------------------------
(* Properties.                                                             *)

\* TYPE INVARIANT of the translation.
TaskRunTypeOK ==
  /\ taskRun \in TaskRun
  /\ pc \in {"validate", "resolve", "steps", "done", "error", "panic"}
  /\ DOMAIN llb \subseteq Vertex
  /\ \A v \in DOMAIN llb : llb[v] \in Op /\ llb[v].inputs \subseteq DOMAIN llb

\* WHICH TASKRUNS TRANSLATE.  There is a graph exactly when the task is there, its
\* spec is valid, its images parse and no workspace is bound twice; and what would be
\* refused if it were embedded is not refused when it is found in the context.  Only a
\* resolver, where the option lets it through, ends the process.
TaskRunsTranslate ==
  LET fit == /\ ~taskRun.podTemplate /\ BoundOnce(taskRun)
             /\ TaskSpecValid(taskRun) /\ taskRun.defect = "none"
  IN  /\ pc \in {"error", "panic"} =>
           ~fit \/ taskRun.spec \in {"notFound", "resolver"}
             \/ (taskRun.spec = "embedded" /\ taskRun.unsupported)
      /\ pc = "panic" => taskRun.spec = "resolver" /\ taskRun.apiFields = "beta"
      /\ pc = "done" =>
           /\ fit /\ taskRun.spec \in {"embedded", "found"}
           /\ taskRun.spec = "embedded" => ~taskRun.unsupported

=============================================================================

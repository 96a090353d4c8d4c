-------------------------- MODULE TektonResources --------------------------
(***************************************************************************)
(* The Tekton resources tkn-local reads, reduced to what its translation   *)
(* looks at, with the checks they pass before a build.  Images, parameters *)
(* and texts are left out: what matters of an image or of a reference is   *)
(* whether it can be used at all (the field defect).                       *)
(***************************************************************************)
EXTENDS Naturals, Sequences

\* What a step says to run: a script, a command (with or without arguments),
\* arguments alone, or nothing, in which case the image's entrypoint is meant.
Form == {"script", "command", "args", "none"}

Step == [form    : Form,
         onError : {"continue", "stopAndFail"},
         timeout : BOOLEAN,          \* the step has a timeout of its own
         volumes : SUBSET STRING]    \* the emptyDir volumes it mounts

WhenExpression == [input : STRING, operator : STRING, values : SUBSET STRING]

\* What is wrong with a task's definition: a taskRef that names no Task of the
\* context, a Task whose spec is invalid once its parameters are applied, or
\* an image reference that does not parse.
Defect == {"none", "notFound", "invalid", "badImage"}

PipelineTask == [name        : STRING,
                 when        : SUBSET WhenExpression,
                 runAfter    : SUBSET STRING,
                 workspaces  : SUBSET STRING,  \* pipeline workspaces it uses
                 ref         : BOOLEAN,        \* taskRef, else embedded taskSpec
                 unsupported : BOOLEAN,        \* custom task, sidecar, other volume, volumeDevice
                 defect      : Defect,
                 timeout     : BOOLEAN,
                 steps       : Seq(Step)]

\* A workspace binding; usable is FALSE when its ConfigMap or Secret, or an
\* item asked of it, is missing from the file of the run.
Binding == [name   : STRING,
            kind   : {"configMap", "secret", "cacheDir", "other"},
            usable : BOOLEAN]

\* Where the spec of a run comes from: embedded in it, or the Pipeline of its
\* pipelineRef, which is in the context or not, or is left to a resolver.
SpecSource == {"embedded", "found", "notFound", "resolver"}

\* The option enable-api-fields of the build: refs may be left to a resolver, or not.
ApiFields == {"stable", "beta"}

PipelineRun == [name        : STRING,
                apiFields   : ApiFields,
                spec        : SpecSource,
                unsupported : BOOLEAN,    \* a podTemplate or taskRunSpecs
                tasks       : Seq(PipelineTask),
                finally     : Seq(PipelineTask),
                workspaces  : Seq(Binding)]

Elements(s) == {s[i] : i \in DOMAIN s}

Names(ts) == {t.name : t \in Elements(ts)}

AllTasks(r) == Elements(r.tasks) \cup Elements(r.finally)

-----------------------------------------------------------------------------
(* When expressions are evaluated while the run is translated.             *)

EvaluateWhenExpression(w) ==
  /\ w.operator = "in"    => w.input \in w.values
  /\ w.operator = "notin" => w.input \notin w.values

EvaluateWhenExpressions(ws) == \A w \in ws : EvaluateWhenExpression(w)

-----------------------------------------------------------------------------
(* PipelineSpec.Validate of the Tekton API.  A runAfter may name any other  *)
(* task of the pipeline, wherever it stands in the list.                   *)

UniqueNames(r) ==
  LET both == r.tasks \o r.finally
  IN  \A i, j \in DOMAIN both : both[i].name = both[j].name => i = j

RunAfterKnown(r) == \A t \in Elements(r.tasks) : t.runAfter \subseteq Names(r.tasks)

\* No cycle: every nonempty set of tasks has one that runs after none of them.
RunAfterAcyclic(r) ==
  \A S \in SUBSET Elements(r.tasks) \ {{}} :
    \E t \in S : \A u \in S : u.name \notin t.runAfter

\* An embedded taskSpec is validated with its pipeline, a Task when it is used.
EmbeddedTasksValid(r) ==
  \A t \in AllTasks(r) : ~t.ref => t.steps # <<>> /\ t.defect \notin {"notFound", "invalid"}

TektonValid(r) ==
  /\ UniqueNames(r)
  /\ RunAfterKnown(r)
  /\ RunAfterAcyclic(r)
  /\ \A t \in Elements(r.finally) : t.runAfter = {}
  /\ r.finally # <<>> => r.tasks # <<>>
  /\ EmbeddedTasksValid(r)

-----------------------------------------------------------------------------
(* The checks of this program.  Only what is embedded in the run is looked  *)
(* at: a Pipeline or a Task found in the context is never checked.         *)

ValidatePipeline(r) ==
  /\ \A t \in Elements(r.finally) : t.when = {}
  /\ \A t \in AllTasks(r) : ~t.ref => ~t.unsupported

\* What Tekton asks of the run around its pipeline: a resolver needs the beta
\* fields, and no workspace is bound twice.
RunValid(r) ==
  /\ r.spec = "resolver" => r.apiFields = "beta"
  /\ \A i, j \in DOMAIN r.workspaces : r.workspaces[i].name = r.workspaces[j].name => i = j

ValidatePipelineRun(r) ==
  /\ RunValid(r)
  /\ r.spec = "embedded" => TektonValid(r)
  /\ ~r.unsupported
  /\ r.spec = "embedded" => ValidatePipeline(r)

=============================================================================

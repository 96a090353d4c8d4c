------------------------- MODULE PipelineRunToLLB --------------------------
(***************************************************************************)
(* The translation of a PipelineRun into an LLB graph: one action per      *)
(* stage of PipelineRunToLLB, and one per round of its loops.  The graph   *)
(* llb maps each vertex to its operation; a later vertex mounts the        *)
(* results of earlier ones, which is all the ordering BuildKit will see.   *)
(***************************************************************************)
EXTENDS DeclaredGraph

CONSTANT Runs        \* the PipelineRuns that may be asked for

ASSUME RunsAssumption == Runs \subseteq PipelineRun

VARIABLES
  run,                \* the PipelineRun being translated, it never changes
  pc,                 \* the stage the translation is in
  next,               \* the index of the loop in that stage
  pipelineWorkspaces, \* workspace name -> kind of its mount
  tasks,              \* name -> the states of the steps of a regular task
  skippedTasks,       \* the tasks left out by their when expressions
  finallyTasks,       \* name -> the states of the steps of a finally task
  llb                 \* vertex -> operation

translatorVars == <<run, pc, next, pipelineWorkspaces, tasks, skippedTasks,
                    finallyTasks, llb>>

Stages == {"validate", "resolve", "workspaces", "tasks", "finally", "collect",
           "done", "error", "panic"}

EmptyMap == [x \in {} |-> x]

Put(map, key, value) ==
  [k \in DOMAIN map \cup {key} |-> IF k = key THEN value ELSE map[k]]

TranslatorInit ==
  /\ run \in Runs
  /\ pc = "validate"
  /\ next = 1
  /\ pipelineWorkspaces = EmptyMap
  /\ tasks = EmptyMap
  /\ skippedTasks = {}
  /\ finallyTasks = EmptyMap
  /\ llb = EmptyMap

-----------------------------------------------------------------------------
(* Moves between stages.  Every error returns at once; a panic is a nil     *)
(* call or an index out of range, which ends the process.                  *)

Goto(stage) == pc' = stage /\ next' = 1

NextRound == next' = next + 1 /\ UNCHANGED pc

Give(outcome) ==
  /\ pc' = outcome
  /\ UNCHANGED <<run, next, pipelineWorkspaces, tasks, skippedTasks, finallyTasks, llb>>

Validate ==
  /\ pc = "validate"
  /\ IF ValidatePipelineRun(run)
     THEN Goto("resolve") /\ UNCHANGED <<run, pipelineWorkspaces, tasks,
                                         skippedTasks, finallyTasks, llb>>
     ELSE Give("error")

\* The pipelineRef is looked up, and the substituted spec validated by Tekton.
Resolve ==
  /\ pc = "resolve"
  /\ run.spec # "resolver"
  /\ IF run.spec # "notFound" /\ TektonValid(run)
     THEN Goto("workspaces") /\ UNCHANGED <<run, pipelineWorkspaces, tasks,
                                            skippedTasks, finallyTasks, llb>>
     ELSE Give("error")

\* A pipelineRef that is left to a resolver, which the beta fields allow, has no
\* name: the spec is nil and is substituted.
PanicAtResolver ==
  /\ pc = "resolve"
  /\ run.spec = "resolver"
  /\ Give("panic")

\* A binding of another kind is passed over: its workspace stays unbound.
BindWorkspace ==
  /\ pc = "workspaces"
  /\ next \in DOMAIN run.workspaces
  /\ LET w == run.workspaces[next]
     IN  IF w.kind \in {"configMap", "secret"} /\ ~w.usable
         THEN Give("error")
         ELSE /\ pipelineWorkspaces' = IF w.kind = "other" THEN pipelineWorkspaces
                                       ELSE Put(pipelineWorkspaces, w.name, w.kind)
              /\ NextRound
              /\ UNCHANGED <<run, tasks, skippedTasks, finallyTasks, llb>>

WorkspacesBound ==
  /\ pc = "workspaces"
  /\ next \notin DOMAIN run.workspaces
  /\ Goto("tasks")
  /\ UNCHANGED <<run, pipelineWorkspaces, tasks, skippedTasks, finallyTasks, llb>>

-----------------------------------------------------------------------------
(* One task.                                                               *)

\* The taskRef is not in the context, or the spec does not validate.
Unresolvable(t) == (t.ref /\ t.defect = "notFound") \/ t.defect = "invalid" \/ t.steps = <<>>

Bound(t) == t.workspaces \cap DOMAIN pipelineWorkspaces

\* ConfigMap and Secret workspaces are read-only contents, not cache directories.
WorkspaceDirs(t) == {<<run.name, w>> : w \in {v \in Bound(t) : pipelineWorkspaces[v] = "cacheDir"}}

\* Mutant of RunAfterStates: the first state of each task is mounted.
RunAfterStates_First(t) == {tasks[a][1] : a \in t.runAfter}

\* Each task of runAfter is mounted twice: its last state, and its results.
RunAfterStates(t) == {LastOf(tasks[a]) : a \in t.runAfter}

RunAfterResults(t) == {ResultsDir("task", a) : a \in t.runAfter}

\* Mutant of AllStates: the first state of each task is mounted.
AllStates_First == {tasks[n][1] : n \in DOMAIN tasks}

\* A finally task mounts these of every regular task that was translated.
AllStates == {LastOf(tasks[n]) : n \in DOMAIN tasks}

AllResults == {ResultsDir("task", n) : n \in DOMAIN tasks}

\* llb with the chain of operations of the steps of a task.
WithSteps(kind, t, deps, reads) ==
  LET states == StepStates(kind, t)
  IN  [v \in DOMAIN llb \cup Elements(states) |->
         IF v \in Elements(states)
         THEN StepOp(kind, t, v[3], WorkspaceDirs(t), deps, reads)
         ELSE llb[v]]

Included(t) == EvaluateWhenExpressions(t.when)

CurrentTask == run.tasks[next]

AtTask == pc = "tasks" /\ next \in DOMAIN run.tasks

\* Mutant of CallsUnbound: the nil test of the finally loop, in this loop too.
CallsUnbound_PassedOver(t) == FALSE

\* fn is nil for a workspace that is not bound, and calling it panics.
CallsUnbound(t) == t.workspaces \ DOMAIN pipelineWorkspaces # {}

\* tasks[a] is empty for a task that was skipped or comes later in the list,
\* and its last element is out of range.
MountsMissing(t) == t.runAfter \ DOMAIN tasks # {}

SkipTask ==
  /\ AtTask /\ ~Included(CurrentTask)
  /\ skippedTasks' = skippedTasks \cup {CurrentTask.name}
  /\ NextRound
  /\ UNCHANGED <<run, pipelineWorkspaces, tasks, finallyTasks, llb>>

RejectTask ==
  /\ AtTask /\ Included(CurrentTask)
  /\ \/ Unresolvable(CurrentTask)
     \/ ~CallsUnbound(CurrentTask) /\ CurrentTask.defect = "badImage"
  /\ Give("error")

PanicAtTask ==
  /\ AtTask /\ Included(CurrentTask) /\ ~Unresolvable(CurrentTask)
  /\ \/ CallsUnbound(CurrentTask)
     \/ CurrentTask.defect # "badImage" /\ MountsMissing(CurrentTask)
  /\ Give("panic")

Translatable(t) == ~Unresolvable(t) /\ t.defect # "badImage"

TranslateTask ==
  /\ AtTask /\ Included(CurrentTask) /\ Translatable(CurrentTask)
  /\ ~CallsUnbound(CurrentTask)
  /\ ~MountsMissing(CurrentTask)
  /\ llb' = WithSteps("task", CurrentTask, RunAfterStates(CurrentTask),
                      RunAfterResults(CurrentTask))
  /\ tasks' = Put(tasks, CurrentTask.name, StepStates("task", CurrentTask))
  /\ NextRound
  /\ UNCHANGED <<run, pipelineWorkspaces, skippedTasks, finallyTasks>>

TasksTranslated ==
  /\ pc = "tasks"
  /\ next \notin DOMAIN run.tasks
  /\ Goto("finally")
  /\ UNCHANGED <<run, pipelineWorkspaces, tasks, skippedTasks, finallyTasks, llb>>

-----------------------------------------------------------------------------
(* The finally tasks.  Their when expressions are not looked at, and an     *)
(* unbound workspace is passed over.                                       *)

CurrentFinally == run.finally[next]

AtFinally == pc = "finally" /\ next \in DOMAIN run.finally

RejectFinally ==
  /\ AtFinally /\ ~Translatable(CurrentFinally)
  /\ Give("error")

TranslateFinally ==
  /\ AtFinally /\ Translatable(CurrentFinally)
  /\ llb' = WithSteps("finally", CurrentFinally, AllStates, AllResults)
  /\ finallyTasks' = Put(finallyTasks, CurrentFinally.name,
                         StepStates("finally", CurrentFinally))
  /\ NextRound
  /\ UNCHANGED <<run, pipelineWorkspaces, tasks, skippedTasks>>

FinallyTranslated ==
  /\ pc = "finally"
  /\ next \notin DOMAIN run.finally
  /\ Goto("collect")
  /\ UNCHANGED <<run, pipelineWorkspaces, tasks, skippedTasks, finallyTasks, llb>>

\* Mutant of CollectOp: the finally tasks are not collected.
CollectOp_RegularOnly ==
  [inputs |-> AllStates, writes |-> {}, reads |-> AllResults,
   args |-> TRUE, ignores |-> TRUE, bounded |-> FALSE]

\* The last state of every task is mounted in the final operation, with its
\* results directory.
CollectOp ==
  [inputs  |-> AllStates \cup {LastOf(finallyTasks[n]) : n \in DOMAIN finallyTasks},
   writes  |-> {},
   reads   |-> AllResults \cup {ResultsDir("finally", n) : n \in DOMAIN finallyTasks},
   args    |-> TRUE,
   ignores |-> TRUE,     \* ls ... || true
   bounded |-> FALSE]

CollectResults ==
  /\ pc = "collect"
  /\ llb' = Put(llb, Collect, CollectOp)
  /\ Goto("done")
  /\ UNCHANGED <<run, pipelineWorkspaces, tasks, skippedTasks, finallyTasks>>

TranslatorNext ==
  \/ Validate \/ Resolve \/ PanicAtResolver
  \/ BindWorkspace \/ WorkspacesBound
  \/ SkipTask \/ RejectTask \/ PanicAtTask \/ TranslateTask \/ TasksTranslated
  \/ RejectFinally \/ TranslateFinally \/ FinallyTranslated
  \/ CollectResults

\* The translation is one goroutine: it keeps going until it returns.
TranslatorSpec ==
  TranslatorInit /\ [][TranslatorNext]_translatorVars /\ WF_translatorVars(TranslatorNext)

-----------------------------------------------------------------------------
(* Safety.                                                                 *)

\* TYPE INVARIANT.
TranslatorTypeOK ==
  /\ run \in PipelineRun
  /\ pc \in Stages
  /\ next \in Nat \ {0}
  /\ DOMAIN pipelineWorkspaces \subseteq STRING
  /\ \A w \in DOMAIN pipelineWorkspaces :
       pipelineWorkspaces[w] \in {"configMap", "secret", "cacheDir"}
  /\ DOMAIN tasks \cup DOMAIN finallyTasks \subseteq STRING
  /\ \A n \in DOMAIN tasks : tasks[n] \in Seq(Vertex) /\ tasks[n] # <<>>
  /\ \A n \in DOMAIN finallyTasks : finallyTasks[n] \in Seq(Vertex) /\ finallyTasks[n] # <<>>
  /\ skippedTasks \subseteq STRING
  /\ DOMAIN llb \subseteq Vertex
  /\ \A v \in DOMAIN llb : llb[v] \in Op

\* A run the translation is meant for: what it names is there, what it uses of
\* workspaces is bound, and a task comes in the list after those of its runAfter,
\* none of which is skipped.
Supported(r) ==
  LET includedBefore(i) ==
        {r.tasks[j].name : j \in {k \in 1..(i - 1) : Included(r.tasks[k])}}
      bound == {r.workspaces[i].name : i \in {j \in DOMAIN r.workspaces :
                                                r.workspaces[j].kind # "other"}}
  IN  /\ ValidatePipelineRun(r) /\ TektonValid(r)
      /\ r.spec \in {"embedded", "found"}
      /\ \A w \in Elements(r.workspaces) : w.kind \in {"configMap", "secret"} => w.usable
      /\ \A i \in DOMAIN r.tasks : Included(r.tasks[i]) =>
           /\ Translatable(r.tasks[i])
           /\ r.tasks[i].workspaces \subseteq bound
           /\ r.tasks[i].runAfter \subseteq includedBefore(i)
      /\ \A f \in Elements(r.finally) : Translatable(f)

\* WHICH RUNS TRANSLATE.  The translation gives a graph for the supported runs
\* and for no others: a supported run is never refused, and one that is not
\* never gets to BuildKit with a task, an edge or a workspace missing.
TranslatesSupported ==
  /\ pc \in {"error", "panic"} => ~Supported(run)
  /\ pc = "done" => Supported(run)

\* THE DECLARED GRAPH.  What the rounds have built, through maps of states and of
\* mounts that grow as they go, is the graph the run declares: the same operations
\* with the same mounts, whatever the order of the list.
BuildsDeclaredGraph == pc = "done" => llb = GraphOf(run)

\* What the feature table says of runAfter and when expressions: supported, so
\* that no run ends the process.
NeverPanics == pc # "panic"

=============================================================================

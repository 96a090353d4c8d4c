----------------------- MODULE PipelineBuildInvariant ----------------------
(***************************************************************************)
(* Why the order of the tasks holds: an invariant of PipelineBuild that     *)
(* each of its steps preserves.  It says what the graph holds while it is   *)
(* made, and what a status implies once it is built.                       *)
(***************************************************************************)
EXTENDS PipelineBuild

RegularTasks == Elements(run.tasks)

FinallyTasks == Elements(run.finally)

StepOf(kind, t, k) == <<kind, t.name, k>>

LastStep(kind, t) == StepOf(kind, t, Len(t.steps))

TasksStage == {"tasks", "finally", "collect", "done"}

\* Only a run that Tekton finds valid has its tasks translated.
ValidStage == pc \in TasksStage \cup {"workspaces"} => TektonValid(run)

\* A task that is in the map tasks has all its steps in the graph.
TasksInGraph ==
  /\ DOMAIN tasks \subseteq Names(run.tasks)
  /\ pc \in TasksStage => \A t \in RegularTasks : t.name \in DOMAIN tasks =>
       /\ Included(t)
       /\ t.steps # <<>>
       /\ tasks[t.name] = StepStates("task", t)
       /\ \A k \in 1..Len(t.steps) : StepOf("task", t, k) \in DOMAIN llb

FinallyInGraph ==
  /\ DOMAIN finallyTasks \subseteq Names(run.finally)
  /\ pc \in TasksStage => \A f \in FinallyTasks : f.name \in DOMAIN finallyTasks =>
       /\ f.steps # <<>>
       /\ finallyTasks[f.name] = StepStates("finally", f)
       /\ \A k \in 1..Len(f.steps) : StepOf("finally", f, k) \in DOMAIN llb

\* The loops leave no task out.
NoneForgotten ==
  /\ pc = "tasks" => \A i \in DOMAIN run.tasks :
       i < next /\ Included(run.tasks[i]) => run.tasks[i].name \in DOMAIN tasks
  /\ pc \in {"finally", "collect", "done"} =>
       \A t \in RegularTasks : Included(t) => t.name \in DOMAIN tasks
  /\ pc = "finally" => \A i \in DOMAIN run.finally :
       i < next => run.finally[i].name \in DOMAIN finallyTasks
  /\ pc \in {"collect", "done"} => \A f \in FinallyTasks : f.name \in DOMAIN finallyTasks

\* The steps in the graph are those of the tasks translated.
OnlyTranslated ==
  pc \in TasksStage => \A t \in RegularTasks : \A k \in 1..Len(t.steps) :
    StepOf("task", t, k) \in DOMAIN llb => t.name \in DOMAIN tasks

Chained(kind, t, k) ==
  k > 1 => StepOf(kind, t, k - 1) \in llb[StepOf(kind, t, k)].inputs

\* The edges of the steps of regular tasks, of finally tasks, and of the root.
TaskEdges ==
  pc \in TasksStage => \A t \in RegularTasks : \A k \in 1..Len(t.steps) :
    StepOf("task", t, k) \in DOMAIN llb =>
      /\ Chained("task", t, k)
      /\ \A u \in RegularTasks : u.name \in t.runAfter =>
           LastStep("task", u) \in llb[StepOf("task", t, k)].inputs

FinallyEdges ==
  pc \in TasksStage => \A f \in FinallyTasks : \A k \in 1..Len(f.steps) :
    StepOf("finally", f, k) \in DOMAIN llb =>
      /\ Chained("finally", f, k)
      /\ \A t \in RegularTasks : Included(t) =>
           LastStep("task", t) \in llb[StepOf("finally", f, k)].inputs

RootEdges ==
  pc = "done" =>
    /\ Collect \in DOMAIN llb
    /\ \A t \in RegularTasks : Included(t) => LastStep("task", t) \in llb[Collect].inputs
    /\ \A f \in FinallyTasks : LastStep("finally", f) \in llb[Collect].inputs

NoDanglingEdge ==
  pc \in TasksStage => \A v \in DOMAIN llb : llb[v].inputs \subseteq DOMAIN llb

\* Nothing is in the graph before the tasks are looked at.
StartsEmpty ==
  pc \in {"validate", "resolve", "workspaces"} =>
    /\ tasks = EmptyMap /\ finallyTasks = EmptyMap /\ llb = EmptyMap

GraphInv ==
  /\ ValidStage /\ StartsEmpty
  /\ TasksInGraph /\ FinallyInGraph /\ NoneForgotten /\ OnlyTranslated
  /\ TaskEdges /\ FinallyEdges /\ RootEdges /\ NoDanglingEdge

-----------------------------------------------------------------------------
(* What the rounds have seen of the run, exactly.                          *)

BindingsSeen == {j \in DOMAIN run.workspaces : pc = "workspaces" => j < next}

TasksSeen == {i \in DOMAIN run.tasks : pc = "tasks" => i < next}

FinallySeen ==
  {i \in DOMAIN run.finally : pc \in {"collect", "done"} \/ (pc = "finally" /\ i < next)}

\* The j-th binding is a cache directory, and the last of seen that is understood
\* of its name.
CacheBinding(j, seen) ==
  /\ j \in seen
  /\ run.workspaces[j].kind = "cacheDir"
  /\ \A k \in seen : k > j /\ run.workspaces[k].name = run.workspaces[j].name =>
       run.workspaces[k].kind = "other"

NamesBound(seen) ==
  {run.workspaces[j].name : j \in {k \in seen : run.workspaces[k].kind # "other"}}

NamesCached(seen) ==
  {run.workspaces[j].name : j \in {k \in DOMAIN run.workspaces : CacheBinding(k, seen)}}

\* The bindings seen are those in force.
WorkspacesInv ==
  /\ pc \in {"validate", "resolve"} => pipelineWorkspaces = EmptyMap /\ skippedTasks = {}
  /\ pc = "workspaces" => skippedTasks = {}
  /\ pc \in TasksStage \cup {"workspaces"} =>
       /\ DOMAIN pipelineWorkspaces = NamesBound(BindingsSeen)
       /\ \A w \in DOMAIN pipelineWorkspaces :
            pipelineWorkspaces[w] = "cacheDir" <=> w \in NamesCached(BindingsSeen)
       /\ \A j \in BindingsSeen :
            run.workspaces[j].kind \in {"configMap", "secret"} => run.workspaces[j].usable

\* The i-th task could be translated when its turn came: it mounts tasks that
\* were translated before.
MountsEarlier(i) ==
  /\ Translatable(run.tasks[i])
  /\ run.tasks[i].workspaces \subseteq DOMAIN pipelineWorkspaces
  /\ run.tasks[i].runAfter \subseteq
       {run.tasks[j].name : j \in {k \in 1..(i - 1) : Included(run.tasks[k])}}

\* The tasks seen are in the maps or skipped, and could be translated.
TasksInv ==
  pc \in TasksStage =>
    /\ DOMAIN tasks = {run.tasks[i].name : i \in {j \in TasksSeen : Included(run.tasks[j])}}
    /\ skippedTasks = {run.tasks[i].name : i \in {j \in TasksSeen : ~Included(run.tasks[j])}}
    /\ \A i \in TasksSeen : Included(run.tasks[i]) => MountsEarlier(i)
    /\ DOMAIN finallyTasks = {run.finally[i].name : i \in FinallySeen}
    /\ \A i \in FinallySeen : Translatable(run.finally[i])

\* How far the run has been checked, and that it is only refused for a reason.
CheckedInv ==
  /\ pc \in TasksStage \cup {"resolve", "workspaces"} => ValidatePipelineRun(run)
  /\ pc \in TasksStage \cup {"workspaces"} => run.spec \in {"embedded", "found"}
  /\ pc \in {"error", "panic"} => ~Supported(run)

\* The operations in the graph are those the tasks declare.
OnlyDeclared ==
  pc \in TasksStage => \A v \in DOMAIN llb :
    \/ v = Collect /\ pc = "done"
    \/ \E t \in RegularTasks :
         t.name \in DOMAIN tasks /\ \E k \in 1..Len(t.steps) : v = StepOf("task", t, k)
    \/ \E f \in FinallyTasks :
         f.name \in DOMAIN finallyTasks /\ \E k \in 1..Len(f.steps) : v = StepOf("finally", f, k)

OpsAsDeclared ==
  /\ llb = [v \in DOMAIN llb |-> llb[v]]
  /\ pc \in TasksStage =>
       /\ \A t \in RegularTasks : t.name \in DOMAIN tasks =>
            \A k \in 1..Len(t.steps) :
              llb[StepOf("task", t, k)] = DeclaredStepOp(run, "task", t, k)
       /\ \A f \in FinallyTasks : f.name \in DOMAIN finallyTasks =>
            \A k \in 1..Len(f.steps) :
              llb[StepOf("finally", f, k)] = DeclaredStepOp(run, "finally", f, k)
  /\ pc = "done" => llb[Collect] = DeclaredCollectOp(run)

DeclaredInv == WorkspacesInv /\ TasksInv /\ CheckedInv /\ OnlyDeclared /\ OpsAsDeclared

-----------------------------------------------------------------------------
(* Once the graph is submitted.                                            *)

\* Only a complete graph is built, and with a vertex goes all it depends on.
OnlySubmitted ==
  /\ build = "idle" => status = EmptyMap
  /\ DOMAIN status # {} => pc = "done" /\ Collect \in DOMAIN status
  /\ build \in {"solving", "succeeded"} => DOMAIN status # {}
  /\ \A v \in DOMAIN status : llb[v].inputs \subseteq DOMAIN status

\* What a started operation depends on is done, and stays so.
InputsDone ==
  \A v \in DOMAIN status : status[v] \in {"running", "done", "failed", "broken"} =>
    \A u \in llb[v].inputs : status[u] = "done"

SuccessMeansRootDone == build = "succeeded" => status[Collect] = "done"

\* What a status tells of the operation and of the build.
StatusInv ==
  /\ build # "idle" => pc \in {"done", "error"}
  /\ build = "solving" => \A v \in DOMAIN status : status[v] # "canceled"
  /\ \A v \in DOMAIN status : llb[v].args
  /\ \A v \in DOMAIN status : status[v] = "failed" => ~llb[v].ignores
  /\ build = "failed" /\ DOMAIN status # {} =>
       \E v \in DOMAIN status : status[v] \in {"failed", "broken"}

\* INDUCTIVE INVARIANT of the build.
BuildInv ==
  /\ TypeOK
  /\ GraphInv
  /\ DeclaredInv
  /\ OnlySubmitted /\ InputsDone /\ StepsInOrder /\ SuccessMeansRootDone /\ StatusInv

=============================================================================

------------------------- MODULE TranslationProofs -------------------------
(***************************************************************************)
(* The translation keeps its types and builds the graph GraphInv describes, *)
(* the one the run declares, for the runs that are supported and no others. *)
(***************************************************************************)
EXTENDS PipelineBuildInvariant, TLAPS

\* The elements of a concatenation are those of its two parts, in order.
LEMMA ConcatElements ==
  ASSUME NEW S, NEW p \in Seq(S), NEW q \in Seq(S)
  PROVE  /\ \A i \in DOMAIN p : i \in DOMAIN (p \o q) /\ (p \o q)[i] = p[i]
         /\ \A i \in DOMAIN q :
              Len(p) + i \in DOMAIN (p \o q) /\ (p \o q)[Len(p) + i] = q[i]
BY SMT

\* Names that are unique in a concatenation are so in each of its parts.
LEMMA ConcatNames ==
  ASSUME NEW S, NEW p \in Seq(S), NEW q \in Seq(S),
         \A i, j \in DOMAIN (p \o q) : (p \o q)[i].name = (p \o q)[j].name => i = j
  PROVE  /\ \A i, j \in DOMAIN p : p[i].name = p[j].name => i = j
         /\ \A i, j \in DOMAIN q : q[i].name = q[j].name => i = j
<1>1. ASSUME NEW i \in DOMAIN p, NEW j \in DOMAIN p, p[i].name = p[j].name
      PROVE  i = j
  BY <1>1, ConcatElements
<1>2. ASSUME NEW i \in DOMAIN q, NEW j \in DOMAIN q, q[i].name = q[j].name
      PROVE  i = j
  <2>1. /\ Len(p) + i \in DOMAIN (p \o q) /\ (p \o q)[Len(p) + i] = q[i]
        /\ Len(p) + j \in DOMAIN (p \o q) /\ (p \o q)[Len(p) + j] = q[j]
    BY ConcatElements
  <2>2. Len(p) + i = Len(p) + j
    BY <1>2, <2>1
  <2> QED
    BY <2>2
<1> QED
  BY <1>1, <1>2

\* A task is known by its name among the regular tasks, and among the finally
\* tasks, of a run Tekton finds valid (UniqueNames of the Tekton API).
LEMMA NamesIdentify ==
  ASSUME NEW r \in PipelineRun, TektonValid(r)
  PROVE  /\ \A t, u \in Elements(r.tasks) : t.name = u.name => t = u
         /\ \A t, u \in Elements(r.finally) : t.name = u.name => t = u
<1>1. r.tasks \in Seq(PipelineTask) /\ r.finally \in Seq(PipelineTask)
  BY DEF PipelineRun
<1>2. \A i, j \in DOMAIN (r.tasks \o r.finally) :
        (r.tasks \o r.finally)[i].name = (r.tasks \o r.finally)[j].name => i = j
  BY DEF TektonValid, UniqueNames
<1>3. /\ \A i, j \in DOMAIN r.tasks : r.tasks[i].name = r.tasks[j].name => i = j
      /\ \A i, j \in DOMAIN r.finally : r.finally[i].name = r.finally[j].name => i = j
  BY <1>1, <1>2, ConcatNames
<1> QED
  BY <1>3 DEF Elements

\* The tasks of a run are tasks, with a sequence of steps.
LEMMA TasksAreTasks ==
  ASSUME NEW r \in PipelineRun
  PROVE  /\ \A i \in DOMAIN r.tasks : r.tasks[i] \in PipelineTask
         /\ \A i \in DOMAIN r.finally : r.finally[i] \in PipelineTask
         /\ Elements(r.tasks) \subseteq PipelineTask
         /\ Elements(r.finally) \subseteq PipelineTask
         /\ DOMAIN r.tasks \subseteq Nat \ {0}
         /\ DOMAIN r.finally \subseteq Nat \ {0}
BY DEF PipelineRun, Elements

\* The vertices of the states of a task are those of its steps.
LEMMA StepsAre ==
  ASSUME NEW kind, NEW t
  PROVE  Elements(StepStates(kind, t)) = {StepOf(kind, t, k) : k \in 1..Len(t.steps)}
BY DEF Elements, StepStates, StepOf

\* The domain of the graph once the chain of a task is added (pstepToState).
LEMMA ChainDomain ==
  ASSUME NEW kind, NEW t, NEW deps, NEW reads
  PROVE  DOMAIN WithSteps(kind, t, deps, reads) = DOMAIN llb \cup Elements(StepStates(kind, t))
BY DEF WithSteps

\* Each step of the task has its operation in the graph (pstepToState).
LEMMA ChainAdds ==
  ASSUME NEW kind, NEW t, NEW deps, NEW reads, NEW k \in 1..Len(t.steps)
  PROVE  /\ StepOf(kind, t, k) \in Elements(StepStates(kind, t))
         /\ StepOf(kind, t, k) \in DOMAIN WithSteps(kind, t, deps, reads)
         /\ WithSteps(kind, t, deps, reads)[StepOf(kind, t, k)] =
              StepOp(kind, t, k, WorkspaceDirs(t), deps, reads)
<1>1. StepOf(kind, t, k) \in Elements(StepStates(kind, t))
  BY StepsAre
<1>2. StepOf(kind, t, k)[3] = k
  BY DEF StepOf
<1> QED
  BY <1>1, <1>2 DEF WithSteps

\* The operations that were in the graph stay as they are (pstepToState).
LEMMA ChainKeeps ==
  ASSUME NEW kind, NEW t, NEW deps, NEW reads,
         NEW v \in DOMAIN llb, v \notin Elements(StepStates(kind, t))
  PROVE  WithSteps(kind, t, deps, reads)[v] = llb[v]
BY DEF WithSteps

-----------------------------------------------------------------------------
(* Types.                                                                  *)

\* Tuples of one and two elements are sequences, and so are concatenations: the
\* ids of cache directories are built of these.
LEMMA Singletons ==
  /\ \A S : \A x \in S : <<x>> \in Seq(S)
  /\ \A S : \A x, y \in S : <<x, y>> \in Seq(S)
  /\ \A S : \A p, q \in Seq(S) : p \o q \in Seq(S)
OBVIOUS

\* The cache directories of a step, and the results directory of a task, are
\* sequences of names.
LEMMA ResultsDirType ==
  ASSUME NEW kind \in {"task", "finally"}, NEW name \in STRING
  PROVE  /\ CacheName(kind, name) \in CacheDir
         /\ ResultsDir(kind, name) \in CacheDir
<1>1. CacheName(kind, name) \in CacheDir
  BY Singletons DEF CacheName, CacheDir
<1>2. <<"results">> \in CacheDir
  BY Singletons DEF CacheDir
<1> QED
  BY <1>1, <1>2, Singletons DEF ResultsDir, CacheDir

\* The cache directories a step mounts read-write (taskSpecToPSteps).
LEMMA CacheDirsType ==
  ASSUME TranslatorTypeOK, NEW kind \in {"task", "finally"}, NEW t \in PipelineTask,
         NEW k \in 1..Len(t.steps)
  PROVE  CacheDirsOf(kind, t, k, WorkspaceDirs(t)) \subseteq CacheDir
<1>1. t.name \in STRING /\ t.workspaces \subseteq STRING /\ run.name \in STRING
  BY DEF PipelineTask, TranslatorTypeOK, PipelineRun
<1>2. t.steps[k] \in Step
  BY DEF PipelineTask
<1>3. t.steps[k].volumes \subseteq STRING
  BY <1>2 DEF Step
<1>4. WorkspaceDirs(t) \subseteq CacheDir
  <2>1. \A w \in t.workspaces : <<run.name, w>> \in CacheDir
    BY <1>1, Singletons DEF CacheDir
  <2> QED
    BY <2>1 DEF WorkspaceDirs, Bound
<1>5. ASSUME NEW v \in t.steps[k].volumes
      PROVE  CacheName(kind, t.name) \o <<"volume", v>> \in CacheDir
  <2>1. <<"volume", v>> \in CacheDir
    BY <1>3, Singletons DEF CacheDir
  <2> QED
    BY <1>1, <2>1, ResultsDirType, Singletons DEF CacheDir
<1> QED
  BY <1>1, <1>4, <1>5, ResultsDirType DEF CacheDirsOf

\* The operation of a step is well formed when its additional mounts are.
LEMMA StepOpType ==
  ASSUME TranslatorTypeOK, NEW kind \in {"task", "finally"}, NEW t \in PipelineTask,
         NEW k \in 1..Len(t.steps),
         NEW deps \in SUBSET Vertex, NEW reads \in SUBSET CacheDir
  PROVE  /\ StepOf(kind, t, k) \in Vertex
         /\ StepOp(kind, t, k, WorkspaceDirs(t), deps, reads) \in Op
<1>1. t.name \in STRING /\ Len(t.steps) \in Nat /\ k \in Nat \ {0}
  BY DEF PipelineTask
<1>2. PreviousStep(kind, t, k) \subseteq Vertex
  BY <1>1 DEF PreviousStep, Vertex
<1>3. CacheDirsOf(kind, t, k, WorkspaceDirs(t)) \subseteq CacheDir
  BY CacheDirsType
<1>4. /\ IgnoresExit(t, t.steps[k]) \in BOOLEAN
      /\ Bounded(t, t.steps[k]) \in BOOLEAN
  BY DEF IgnoresExit, Bounded, Wrapped, HasTimeout
<1>5. StepOf(kind, t, k) \in Vertex
  BY <1>1 DEF StepOf, Vertex
<1> QED
  BY <1>2, <1>3, <1>4, <1>5 DEF StepOp, Op

\* The states of the steps of a task are a nonempty sequence of vertices.
LEMMA StepStatesType ==
  ASSUME NEW kind \in {"task", "finally"}, NEW t \in PipelineTask, t.steps # <<>>
  PROVE  /\ StepStates(kind, t) \in Seq(Vertex)
         /\ StepStates(kind, t) # <<>>
         /\ LastOf(StepStates(kind, t)) = LastStep(kind, t)
         /\ Len(t.steps) \in 1..Len(t.steps)
<1>1. t.steps \in Seq(Step) /\ t.name \in STRING
  BY DEF PipelineTask
<1>2. Len(t.steps) \in Nat /\ Len(t.steps) >= 1
  BY <1>1
<1>3. \A k \in 1..Len(t.steps) : <<kind, t.name, k>> \in Vertex
  BY <1>1, <1>2 DEF Vertex
<1>4. /\ StepStates(kind, t) \in Seq(Vertex)
      /\ Len(StepStates(kind, t)) = Len(t.steps)
  BY <1>2, <1>3 DEF StepStates
<1> QED
  BY <1>2, <1>4 DEF StepStates, LastOf, LastStep, StepOf

\* LastOf a nonempty sequence of vertices is a vertex.
LEMMA LastOfType ==
  ASSUME NEW s \in Seq(Vertex), s # <<>>
  PROVE  LastOf(s) \in Vertex
BY DEF LastOf

\* The operations of a task keep the graph well typed.
LEMMA WithStepsType ==
  ASSUME TranslatorTypeOK, NEW kind \in {"task", "finally"}, NEW t \in PipelineTask,
         NEW deps \in SUBSET Vertex, NEW reads \in SUBSET CacheDir
  PROVE  LET G == WithSteps(kind, t, deps, reads)
         IN  DOMAIN G \subseteq Vertex /\ \A v \in DOMAIN G : G[v] \in Op
<1> DEFINE G == WithSteps(kind, t, deps, reads)
<1>1. DOMAIN G = DOMAIN llb \cup Elements(StepStates(kind, t))
  BY ChainDomain
<1>2. ASSUME NEW v \in Elements(StepStates(kind, t))
      PROVE  v \in Vertex /\ G[v] \in Op
  <2>1. PICK k \in 1..Len(t.steps) : v = StepOf(kind, t, k)
    BY StepsAre
  <2>2. G[v] = StepOp(kind, t, k, WorkspaceDirs(t), deps, reads)
    BY <2>1, ChainAdds
  <2> QED
    BY <2>1, <2>2, StepOpType
<1>3. ASSUME NEW v \in DOMAIN llb, v \notin Elements(StepStates(kind, t))
      PROVE  G[v] = llb[v]
  BY <1>3, ChainKeeps
<1>4. DOMAIN llb \subseteq Vertex /\ \A v \in DOMAIN llb : llb[v] \in Op
  BY DEF TranslatorTypeOK
<1> HIDE DEF G
<1> QED
  BY <1>1, <1>2, <1>3, <1>4 DEF G

\* What a task mounts of others: their last states, and results directories.
LEMMA MountsType ==
  ASSUME TranslatorTypeOK
  PROVE  /\ AllStates \subseteq Vertex
         /\ AllResults \subseteq CacheDir
         /\ {ResultsDir("finally", n) : n \in DOMAIN finallyTasks} \subseteq CacheDir
         /\ {LastOf(finallyTasks[n]) : n \in DOMAIN finallyTasks} \subseteq Vertex
         /\ \A t \in PipelineTask :
              /\ RunAfterResults(t) \subseteq CacheDir
              /\ t.runAfter \subseteq DOMAIN tasks => RunAfterStates(t) \subseteq Vertex
<1>1. /\ \A n \in DOMAIN tasks : LastOf(tasks[n]) \in Vertex
      /\ \A n \in DOMAIN finallyTasks : LastOf(finallyTasks[n]) \in Vertex
  BY LastOfType DEF TranslatorTypeOK
<1>2. \A t \in PipelineTask : t.runAfter \subseteq STRING
  BY DEF PipelineTask
<1>3. \A a \in STRING : /\ ResultsDir("task", a) \in CacheDir
                        /\ ResultsDir("finally", a) \in CacheDir
  BY ResultsDirType
<1>4. DOMAIN tasks \subseteq STRING /\ DOMAIN finallyTasks \subseteq STRING
  BY DEF TranslatorTypeOK
<1> QED
  BY <1>1, <1>2, <1>3, <1>4 DEF AllStates, AllResults, RunAfterResults, RunAfterStates

\* A run is in Runs, and all else is empty, when PipelineRunToLLB is called.
LEMMA TranslatorTypeInit == TranslatorInit => TranslatorTypeOK
<1> SUFFICES ASSUME TranslatorInit PROVE TranslatorTypeOK
  OBVIOUS
<1>1. run \in PipelineRun
  BY RunsAssumption DEF TranslatorInit
<1> QED
  BY <1>1 DEF TranslatorInit, TranslatorTypeOK, Stages, EmptyMap

\* The operation that collects the results is well formed.
LEMMA CollectType ==
  ASSUME TranslatorTypeOK
  PROVE  CollectOp \in Op /\ Collect \in Vertex
<1>1. CollectOp.inputs \in SUBSET Vertex /\ CollectOp.reads \in SUBSET CacheDir
  BY MountsType DEF CollectOp
<1> QED
  BY <1>1 DEF CollectOp, Op, Vertex

\* TYPE CORRECTNESS of one step of the translation.
LEMMA TranslatorTypeNext ==
  TranslatorTypeOK /\ [TranslatorNext]_translatorVars => TranslatorTypeOK'
<1> SUFFICES ASSUME TranslatorTypeOK, [TranslatorNext]_translatorVars
             PROVE  TranslatorTypeOK'
  OBVIOUS
<1> DEFINE maps == <<pipelineWorkspaces, tasks, skippedTasks, finallyTasks, llb>>
<1>1. ASSUME UNCHANGED run, UNCHANGED maps, pc' \in Stages, next' \in Nat \ {0}
      PROVE  TranslatorTypeOK'
  BY <1>1 DEF TranslatorTypeOK
<1>2. next + 1 \in Nat \ {0} /\ 1 \in Nat \ {0} /\ next \in Nat \ {0}
  BY DEF TranslatorTypeOK
<1>3. \A outcome \in Stages : Give(outcome) => TranslatorTypeOK'
  BY <1>1, <1>2 DEF Give
<1>4. \A stage \in Stages : Goto(stage) /\ UNCHANGED run /\ UNCHANGED maps => TranslatorTypeOK'
  BY <1>1, <1>2 DEF Goto
<1>5. CASE Validate
  BY <1>3, <1>4, <1>5 DEF Validate, Stages
<1>6. CASE Resolve
  BY <1>3, <1>4, <1>6 DEF Resolve, Stages
<1>20. CASE PanicAtResolver
  BY <1>3, <1>20 DEF PanicAtResolver, Stages
<1>7. CASE BindWorkspace
  <2> DEFINE w == run.workspaces[next]
  <2>1. CASE w.kind \in {"configMap", "secret"} /\ ~w.usable
    BY <1>3, <1>7, <2>1 DEF BindWorkspace, Stages
  <2>2. CASE ~(w.kind \in {"configMap", "secret"} /\ ~w.usable)
    <3>1. w \in Binding
      BY <1>7 DEF BindWorkspace, TranslatorTypeOK, PipelineRun
    <3>2. w.name \in STRING /\ w.kind \in {"configMap", "secret", "cacheDir", "other"}
      BY <3>1 DEF Binding
    <3>3. pipelineWorkspaces' = IF w.kind = "other" THEN pipelineWorkspaces
                                ELSE Put(pipelineWorkspaces, w.name, w.kind)
      BY <1>7, <2>2 DEF BindWorkspace
    <3>4. /\ DOMAIN pipelineWorkspaces' \subseteq STRING
          /\ \A v \in DOMAIN pipelineWorkspaces' :
               pipelineWorkspaces'[v] \in {"configMap", "secret", "cacheDir"}
      <4>1. CASE w.kind = "other"
        BY <3>3, <4>1 DEF TranslatorTypeOK
      <4>2. CASE w.kind # "other"
        BY <3>2, <3>3, <4>2 DEF Put, TranslatorTypeOK
      <4> QED
        BY <4>1, <4>2
    <3>5. /\ UNCHANGED <<run, pc, tasks, skippedTasks, finallyTasks, llb>>
          /\ next' = next + 1
      BY <1>7, <2>2 DEF BindWorkspace, NextRound
    <3> QED
      BY <1>2, <3>4, <3>5 DEF TranslatorTypeOK
  <2> QED
    BY <2>1, <2>2
<1>8. CASE WorkspacesBound
  BY <1>4, <1>8 DEF WorkspacesBound, Stages
<1>9. ASSUME AtTask PROVE CurrentTask \in PipelineTask
  BY <1>9, TasksAreTasks DEF AtTask, CurrentTask, TranslatorTypeOK
<1>10. CASE SkipTask
  <2>1. CurrentTask.name \in STRING
    BY <1>9, <1>10 DEF SkipTask, PipelineTask
  <2> QED
    BY <1>2, <1>10, <2>1 DEF SkipTask, NextRound, TranslatorTypeOK
<1>11. CASE RejectTask
  BY <1>3, <1>11 DEF RejectTask, Stages
<1>12. CASE PanicAtTask
  BY <1>3, <1>12 DEF PanicAtTask, Stages
<1>13. CASE TranslateTask
  <2> DEFINE t == CurrentTask
  <2>1. t \in PipelineTask /\ t.name \in STRING /\ t.steps # <<>>
    BY <1>9, <1>13 DEF TranslateTask, Translatable, Unresolvable, PipelineTask
  <2>2. RunAfterStates(t) \subseteq Vertex /\ RunAfterResults(t) \subseteq CacheDir
    BY <1>13, <2>1, MountsType DEF TranslateTask, MountsMissing
  <2>3. DOMAIN llb' \subseteq Vertex /\ \A v \in DOMAIN llb' : llb'[v] \in Op
    BY <1>13, <2>1, <2>2, WithStepsType DEF TranslateTask
  <2>4. tasks' = Put(tasks, t.name, StepStates("task", t))
    BY <1>13 DEF TranslateTask
  <2>5. /\ DOMAIN tasks' \subseteq STRING
        /\ \A n \in DOMAIN tasks' : tasks'[n] \in Seq(Vertex) /\ tasks'[n] # <<>>
    <3>1. StepStates("task", t) \in Seq(Vertex) /\ StepStates("task", t) # <<>>
      BY <2>1, StepStatesType
    <3> QED
      BY <2>1, <2>4, <3>1 DEF Put, TranslatorTypeOK
  <2>6. /\ UNCHANGED <<run, pc, pipelineWorkspaces, skippedTasks, finallyTasks>>
        /\ next' = next + 1
    BY <1>13 DEF TranslateTask, NextRound
  <2> QED
    BY <1>2, <2>3, <2>5, <2>6 DEF TranslatorTypeOK
<1>14. CASE TasksTranslated
  BY <1>4, <1>14 DEF TasksTranslated, Stages
<1>15. CASE RejectFinally
  BY <1>3, <1>15 DEF RejectFinally, Stages
<1>16. CASE TranslateFinally
  <2> DEFINE f == CurrentFinally
  <2>1. f \in PipelineTask
    BY <1>16, TasksAreTasks DEF TranslateFinally, AtFinally, CurrentFinally, TranslatorTypeOK
  <2>2. f.name \in STRING /\ f.steps # <<>>
    BY <1>16, <2>1 DEF TranslateFinally, Translatable, Unresolvable, PipelineTask
  <2>3. DOMAIN llb' \subseteq Vertex /\ \A v \in DOMAIN llb' : llb'[v] \in Op
    BY <1>16, <2>1, MountsType, WithStepsType DEF TranslateFinally
  <2>4. finallyTasks' = Put(finallyTasks, f.name, StepStates("finally", f))
    BY <1>16 DEF TranslateFinally
  <2>5. /\ DOMAIN finallyTasks' \subseteq STRING
        /\ \A n \in DOMAIN finallyTasks' :
             finallyTasks'[n] \in Seq(Vertex) /\ finallyTasks'[n] # <<>>
    <3>1. StepStates("finally", f) \in Seq(Vertex) /\ StepStates("finally", f) # <<>>
      BY <2>1, <2>2, StepStatesType
    <3> QED
      BY <2>2, <2>4, <3>1 DEF Put, TranslatorTypeOK
  <2>6. /\ UNCHANGED <<run, pc, pipelineWorkspaces, skippedTasks, tasks>>
        /\ next' = next + 1
    BY <1>16 DEF TranslateFinally, NextRound
  <2> QED
    BY <1>2, <2>3, <2>5, <2>6 DEF TranslatorTypeOK
<1>17. CASE FinallyTranslated
  BY <1>4, <1>17 DEF FinallyTranslated, Stages
<1>18. CASE CollectResults
  <2>1. DOMAIN llb' \subseteq Vertex /\ \A v \in DOMAIN llb' : llb'[v] \in Op
    BY <1>18, CollectType DEF Put, CollectResults, TranslatorTypeOK
  <2>2. /\ UNCHANGED <<run, pipelineWorkspaces, tasks, skippedTasks, finallyTasks>>
        /\ pc' = "done" /\ next' = 1
    BY <1>18 DEF CollectResults, Goto
  <2> QED
    BY <2>1, <2>2 DEF TranslatorTypeOK, Stages
<1>19. CASE UNCHANGED translatorVars
  BY <1>19 DEF translatorVars, TranslatorTypeOK
<1> QED
  BY <1>5, <1>6, <1>7, <1>8, <1>10, <1>11, <1>12, <1>13, <1>14, <1>15, <1>16, <1>17,
     <1>18, <1>19, <1>20 DEF TranslatorNext

\* TYPE CORRECTNESS.  The variables of the translation keep their types: every
\* operation of the graph is well formed, and a translated task has a last state.
THEOREM TranslatorTypeCorrect == TranslatorSpec => []TranslatorTypeOK
<1> QED
  BY TranslatorTypeInit, TranslatorTypeNext, PTL DEF TranslatorSpec

-----------------------------------------------------------------------------
(* The graph.                                                              *)

\* Before the translation nothing is in the graph.
LEMMA GraphInit == TranslatorInit => GraphInv
BY DEF TranslatorInit, GraphInv, ValidStage, StartsEmpty, TasksInGraph, FinallyInGraph,
       NoneForgotten, OnlyTranslated, TaskEdges, FinallyEdges, RootEdges, NoDanglingEdge,
       TasksStage, EmptyMap

\* The error and panic stages ask nothing of the graph, and those before the
\* tasks leave it empty.
LEMMA GraphGiveUp ==
  ASSUME GraphInv, NEW outcome \in {"error", "panic"}, Give(outcome)
  PROVE  GraphInv'
BY DEF Give, GraphInv, ValidStage, StartsEmpty, TasksInGraph, FinallyInGraph,
       NoneForgotten, OnlyTranslated, TaskEdges, FinallyEdges, RootEdges, NoDanglingEdge,
       TasksStage

\* The stages before the tasks add nothing to the graph, and only a run that
\* Tekton finds valid gets past them.
LEMMA GraphStillEmpty ==
  ASSUME TranslatorTypeOK, GraphInv, pc \in {"validate", "resolve", "workspaces"},
         UNCHANGED <<run, tasks, finallyTasks, llb>>,
         \/ pc' \in {"validate", "resolve"}
         \/ pc' = "workspaces" /\ TektonValid(run)
         \/ pc' = "tasks" /\ next' = 1 /\ TektonValid(run)
  PROVE  GraphInv'
<1>1. tasks' = EmptyMap /\ finallyTasks' = EmptyMap /\ llb' = EmptyMap
  BY DEF GraphInv, StartsEmpty
<1>2. DOMAIN tasks' = {} /\ DOMAIN finallyTasks' = {} /\ DOMAIN llb' = {}
  BY <1>1 DEF EmptyMap
<1>3. \A i \in DOMAIN run.tasks : ~(i < 1)
  BY TasksAreTasks DEF TranslatorTypeOK
<1>4. pc' \notin {"finally", "collect", "done"}
  OBVIOUS
<1>5. ValidStage'
  BY DEF ValidStage, TasksStage
<1>6. NoneForgotten'
  BY <1>3, <1>4 DEF NoneForgotten
<1>7. TasksInGraph' /\ FinallyInGraph' /\ OnlyTranslated' /\ TaskEdges' /\ FinallyEdges'
  BY <1>2 DEF TasksInGraph, FinallyInGraph, OnlyTranslated, TaskEdges, FinallyEdges
<1>8. StartsEmpty' /\ RootEdges' /\ NoDanglingEdge'
  BY <1>1, <1>2, <1>4 DEF StartsEmpty, RootEdges, NoDanglingEdge
<1> QED
  BY <1>5, <1>6, <1>7, <1>8 DEF GraphInv

\* The steps of two tasks of a valid run are different operations, and those of
\* regular and of finally tasks always are.
LEMMA StepsDiffer ==
  ASSUME run \in PipelineRun, TektonValid(run)
  PROVE  /\ \A t, u \in RegularTasks : \A k :
              StepOf("task", u, k) \in Elements(StepStates("task", t)) => u = t
         /\ \A t, u \in FinallyTasks : \A k :
              StepOf("finally", u, k) \in Elements(StepStates("finally", t)) => u = t
         /\ \A t, u, k : StepOf("task", u, k) \notin Elements(StepStates("finally", t))
         /\ \A t, u, k : StepOf("finally", u, k) \notin Elements(StepStates("task", t))
<1>1. \A kind, other, t, u, k : StepOf(other, u, k) \in Elements(StepStates(kind, t)) =>
        other = kind /\ u.name = t.name
  BY StepsAre DEF StepOf
<1> QED
  BY <1>1, NamesIdentify DEF RegularTasks, FinallyTasks

\* The states a task mounts of the tasks it runs after are their last steps,
\* which are in the graph (the runAfter mounts of PipelineRunToLLB).
LEMMA RunAfterMounts ==
  ASSUME TranslatorTypeOK, GraphInv, pc \in TasksStage,
         NEW t \in RegularTasks, t.runAfter \subseteq DOMAIN tasks
  PROVE  /\ RunAfterStates(t) \subseteq DOMAIN llb
         /\ \A u \in RegularTasks : u.name \in t.runAfter =>
              LastStep("task", u) \in RunAfterStates(t)
<1>1. RegularTasks \subseteq PipelineTask
  BY TasksAreTasks DEF RegularTasks, TranslatorTypeOK
<1>2. ASSUME NEW u \in RegularTasks, u.name \in DOMAIN tasks
      PROVE  LastOf(tasks[u.name]) = LastStep("task", u) /\ LastStep("task", u) \in DOMAIN llb
  <2>1. /\ u.steps # <<>> /\ tasks[u.name] = StepStates("task", u)
        /\ \A k \in 1..Len(u.steps) : StepOf("task", u, k) \in DOMAIN llb
    BY <1>2 DEF GraphInv, TasksInGraph
  <2>2. u \in PipelineTask
    BY <1>1
  <2>3. LastOf(StepStates("task", u)) = LastStep("task", u) /\ Len(u.steps) \in 1..Len(u.steps)
    BY <2>1, <2>2, StepStatesType
  <2> QED
    BY <2>1, <2>3 DEF LastStep
<1>3. \A a \in t.runAfter : \E u \in RegularTasks : u.name = a
  BY DEF GraphInv, TasksInGraph, Names, RegularTasks
<1> QED
  BY <1>2, <1>3 DEF RunAfterStates

\* The same for all the regular tasks, which the finally tasks and the final
\* operation mount.
LEMMA AllMounts ==
  ASSUME TranslatorTypeOK, GraphInv, pc \in {"finally", "collect", "done"}
  PROVE  /\ AllStates \subseteq DOMAIN llb
         /\ \A u \in RegularTasks : Included(u) => LastStep("task", u) \in AllStates
<1>1. RegularTasks \subseteq PipelineTask
  BY TasksAreTasks DEF RegularTasks, TranslatorTypeOK
<1>2. ASSUME NEW u \in RegularTasks, u.name \in DOMAIN tasks
      PROVE  LastOf(tasks[u.name]) = LastStep("task", u) /\ LastStep("task", u) \in DOMAIN llb
  <2>1. /\ u.steps # <<>> /\ tasks[u.name] = StepStates("task", u)
        /\ \A k \in 1..Len(u.steps) : StepOf("task", u, k) \in DOMAIN llb
    BY <1>2 DEF GraphInv, TasksInGraph, TasksStage
  <2>2. u \in PipelineTask
    BY <1>1
  <2>3. LastOf(StepStates("task", u)) = LastStep("task", u) /\ Len(u.steps) \in 1..Len(u.steps)
    BY <2>1, <2>2, StepStatesType
  <2> QED
    BY <2>1, <2>3 DEF LastStep
<1>3. \A n \in DOMAIN tasks : \E u \in RegularTasks : u.name = n
  BY DEF GraphInv, TasksInGraph, Names, RegularTasks
<1>4. \A u \in RegularTasks : Included(u) => u.name \in DOMAIN tasks
  BY DEF GraphInv, NoneForgotten
<1> QED
  BY <1>2, <1>3, <1>4 DEF AllStates

\* The same for the finally tasks, which the final operation mounts.
LEMMA FinallyMounts ==
  ASSUME TranslatorTypeOK, GraphInv, pc = "collect"
  PROVE  LET states == {LastOf(finallyTasks[n]) : n \in DOMAIN finallyTasks}
         IN  /\ states \subseteq DOMAIN llb
             /\ \A f \in FinallyTasks : LastStep("finally", f) \in states
<1>1. FinallyTasks \subseteq PipelineTask
  BY TasksAreTasks DEF FinallyTasks, TranslatorTypeOK
<1>2. ASSUME NEW f \in FinallyTasks, f.name \in DOMAIN finallyTasks
      PROVE  /\ LastOf(finallyTasks[f.name]) = LastStep("finally", f)
             /\ LastStep("finally", f) \in DOMAIN llb
  <2>1. /\ f.steps # <<>> /\ finallyTasks[f.name] = StepStates("finally", f)
        /\ \A k \in 1..Len(f.steps) : StepOf("finally", f, k) \in DOMAIN llb
    BY <1>2 DEF GraphInv, FinallyInGraph, TasksStage
  <2>2. f \in PipelineTask
    BY <1>1
  <2>3. /\ LastOf(StepStates("finally", f)) = LastStep("finally", f)
        /\ Len(f.steps) \in 1..Len(f.steps)
    BY <2>1, <2>2, StepStatesType
  <2> QED
    BY <2>1, <2>3 DEF LastStep
<1>3. \A n \in DOMAIN finallyTasks : \E f \in FinallyTasks : f.name = n
  BY DEF GraphInv, FinallyInGraph, Names, FinallyTasks
<1>4. \A f \in FinallyTasks : f.name \in DOMAIN finallyTasks
  BY DEF GraphInv, NoneForgotten
<1> QED
  BY <1>2, <1>3, <1>4

\* TranslateTask builds its part of the graph.
LEMMA GraphTranslateTask ==
  ASSUME TranslatorTypeOK, GraphInv, TranslateTask
  PROVE  GraphInv'
<1> DEFINE t == CurrentTask
           S == Elements(StepStates("task", t))
<1>1. /\ pc = "tasks" /\ pc' = "tasks" /\ next' = next + 1 /\ next \in DOMAIN run.tasks
      /\ run' = run /\ finallyTasks' = finallyTasks
      /\ Included(t) /\ t.steps # <<>> /\ t.runAfter \subseteq DOMAIN tasks
      /\ llb' = WithSteps("task", t, RunAfterStates(t), RunAfterResults(t))
      /\ tasks' = Put(tasks, t.name, StepStates("task", t))
  BY DEF TranslateTask, AtTask, NextRound, Translatable, Unresolvable, MountsMissing
<1>2. run \in PipelineRun /\ TektonValid(run) /\ pc \in TasksStage
  BY <1>1 DEF TranslatorTypeOK, GraphInv, ValidStage, TasksStage
<1>3. t \in RegularTasks /\ t \in PipelineTask
  BY <1>1, <1>2, TasksAreTasks DEF RegularTasks, Elements, CurrentTask
<1>4. DOMAIN llb' = DOMAIN llb \cup S
  BY <1>1, ChainDomain
<1>5. ASSUME NEW k \in 1..Len(t.steps)
      PROVE  /\ StepOf("task", t, k) \in S
             /\ llb'[StepOf("task", t, k)].inputs =
                  PreviousStep("task", t, k) \cup RunAfterStates(t)
  <2>1. /\ StepOf("task", t, k) \in S
        /\ llb'[StepOf("task", t, k)] =
             StepOp("task", t, k, WorkspaceDirs(t), RunAfterStates(t), RunAfterResults(t))
    BY <1>1, ChainAdds
  <2> QED
    BY <2>1 DEF StepOp
<1>6. ASSUME NEW v \in DOMAIN llb, v \notin S
      PROVE  llb'[v] = llb[v]
  BY <1>1, <1>6, ChainKeeps
<1>7. /\ \A u \in RegularTasks : \A k : StepOf("task", u, k) \in S => u = t
      /\ \A f, k : StepOf("finally", f, k) \notin S
  BY <1>2, <1>3, StepsDiffer
<1>8. /\ RunAfterStates(t) \subseteq DOMAIN llb
      /\ \A u \in RegularTasks : u.name \in t.runAfter =>
           LastStep("task", u) \in RunAfterStates(t)
  BY <1>1, <1>2, <1>3, RunAfterMounts
<1>9. \A u \in RegularTasks : u.name = t.name => u = t
  BY <1>2, <1>3, NamesIdentify DEF RegularTasks
<1>10. DOMAIN tasks' = DOMAIN tasks \cup {t.name} /\ tasks'[t.name] = StepStates("task", t)
  BY <1>1 DEF Put
<1>11. \A n \in DOMAIN tasks : n # t.name => tasks'[n] = tasks[n]
  BY <1>1 DEF Put
<1>12. RegularTasks' = RegularTasks /\ FinallyTasks' = FinallyTasks
  BY <1>1 DEF RegularTasks, FinallyTasks
<1> HIDE DEF t, S
<1>13. TasksInGraph'
  <2>1. DOMAIN tasks' \subseteq Names(run.tasks)
    BY <1>3, <1>10 DEF GraphInv, TasksInGraph, Names, RegularTasks
  <2>2. ASSUME NEW u \in RegularTasks, u.name \in DOMAIN tasks'
        PROVE  /\ Included(u) /\ u.steps # <<>>
               /\ tasks'[u.name] = StepStates("task", u)
               /\ \A k \in 1..Len(u.steps) : StepOf("task", u, k) \in DOMAIN llb'
    <3>1. CASE u = t
      BY <1>1, <1>4, <1>5, <1>10, <3>1
    <3>2. CASE u # t
      <4>1. u.name \in DOMAIN tasks /\ u.name # t.name
        BY <1>9, <1>10, <2>2, <3>2
      <4>2. /\ Included(u) /\ u.steps # <<>> /\ tasks[u.name] = StepStates("task", u)
            /\ \A k \in 1..Len(u.steps) : StepOf("task", u, k) \in DOMAIN llb
        BY <1>2, <4>1 DEF GraphInv, TasksInGraph
      <4> QED
        BY <1>4, <1>11, <4>1, <4>2
    <3> QED
      BY <3>1, <3>2
  <2> QED
    BY <1>1, <1>12, <2>1, <2>2 DEF TasksInGraph
<1>14. FinallyInGraph'
  BY <1>1, <1>2, <1>4, <1>12 DEF GraphInv, FinallyInGraph
<1>15. NoneForgotten'
  <2>1. ASSUME NEW i \in DOMAIN run.tasks, i < next + 1, Included(run.tasks[i])
        PROVE  run.tasks[i].name \in DOMAIN tasks'
    <3>1. i < next \/ i = next
      BY <1>1, <1>2, <2>1, TasksAreTasks
    <3>2. CASE i < next
      BY <1>1, <1>10, <2>1, <3>2 DEF GraphInv, NoneForgotten
    <3>3. CASE i = next
      BY <1>10, <3>3 DEF t, CurrentTask
    <3> QED
      BY <3>1, <3>2, <3>3
  <2> QED
    BY <1>1, <2>1 DEF NoneForgotten
<1>16. OnlyTranslated'
  BY <1>1, <1>2, <1>4, <1>7, <1>10, <1>12 DEF GraphInv, OnlyTranslated
<1>17. ASSUME NEW u \in RegularTasks, NEW k \in 1..Len(u.steps),
              StepOf("task", u, k) \in DOMAIN llb'
       PROVE  /\ k > 1 => StepOf("task", u, k - 1) \in llb'[StepOf("task", u, k)].inputs
              /\ \A w \in RegularTasks : w.name \in u.runAfter =>
                   LastStep("task", w) \in llb'[StepOf("task", u, k)].inputs
  <2>1. CASE u = t
    <3>1. llb'[StepOf("task", u, k)].inputs = PreviousStep("task", u, k) \cup RunAfterStates(u)
      BY <1>5, <2>1
    <3>2. k > 1 => StepOf("task", u, k - 1) \in PreviousStep("task", u, k)
      BY DEF PreviousStep, StepOf
    <3> QED
      BY <1>8, <2>1, <3>1, <3>2
  <2>2. CASE u # t
    <3>1. StepOf("task", u, k) \in DOMAIN llb /\ StepOf("task", u, k) \notin S
      BY <1>4, <1>7, <1>17, <2>2
    <3>2. llb'[StepOf("task", u, k)] = llb[StepOf("task", u, k)]
      BY <1>6, <3>1
    <3> QED
      BY <1>2, <3>1, <3>2 DEF GraphInv, TaskEdges, Chained
  <2> QED
    BY <2>1, <2>2
<1>18. TaskEdges'
  BY <1>1, <1>12, <1>17 DEF TaskEdges, Chained
<1>19. ASSUME NEW f \in FinallyTasks, NEW k \in 1..Len(f.steps),
              StepOf("finally", f, k) \in DOMAIN llb'
       PROVE  /\ k > 1 => StepOf("finally", f, k - 1) \in llb'[StepOf("finally", f, k)].inputs
              /\ \A w \in RegularTasks : Included(w) =>
                   LastStep("task", w) \in llb'[StepOf("finally", f, k)].inputs
  <2>1. StepOf("finally", f, k) \in DOMAIN llb /\ StepOf("finally", f, k) \notin S
    BY <1>4, <1>7, <1>19
  <2>2. llb'[StepOf("finally", f, k)] = llb[StepOf("finally", f, k)]
    BY <1>6, <2>1
  <2> QED
    BY <1>2, <2>1, <2>2 DEF GraphInv, FinallyEdges, Chained
<1>20. FinallyEdges'
  BY <1>1, <1>12, <1>19 DEF FinallyEdges, Chained
<1>21. NoDanglingEdge'
  <2>1. ASSUME NEW v \in DOMAIN llb', v \in S
        PROVE  llb'[v].inputs \subseteq DOMAIN llb'
    <3>1. PICK k \in 1..Len(t.steps) : v = StepOf("task", t, k)
      BY <2>1, StepsAre DEF S
    <3>2. PreviousStep("task", t, k) \subseteq S
      <4>1. CASE k = 1
        BY <4>1 DEF PreviousStep
      <4>2. CASE k # 1
        <5>1. k - 1 \in 1..Len(t.steps)
          BY <1>3, <4>2 DEF PipelineTask
        <5>2. StepOf("task", t, k - 1) \in S
          BY <1>5, <5>1
        <5> QED
          BY <4>2, <5>2 DEF PreviousStep, StepOf
      <4> QED
        BY <4>1, <4>2
    <3> QED
      BY <1>4, <1>5, <1>8, <3>1, <3>2
  <2>2. ASSUME NEW v \in DOMAIN llb', v \notin S
        PROVE  llb'[v].inputs \subseteq DOMAIN llb'
    BY <1>2, <1>4, <1>6, <2>2 DEF GraphInv, NoDanglingEdge
  <2> QED
    BY <2>1, <2>2 DEF NoDanglingEdge
<1>22. ValidStage' /\ StartsEmpty' /\ RootEdges'
  BY <1>1, <1>2 DEF ValidStage, StartsEmpty, RootEdges
<1> QED
  BY <1>13, <1>14, <1>15, <1>16, <1>18, <1>20, <1>21, <1>22 DEF GraphInv

\* TranslateFinally builds its part of the graph.
LEMMA GraphTranslateFinally ==
  ASSUME TranslatorTypeOK, GraphInv, TranslateFinally
  PROVE  GraphInv'
<1> DEFINE f == CurrentFinally
           S == Elements(StepStates("finally", f))
<1>1. /\ pc = "finally" /\ pc' = "finally" /\ next' = next + 1 /\ next \in DOMAIN run.finally
      /\ run' = run /\ tasks' = tasks /\ f.steps # <<>>
      /\ llb' = WithSteps("finally", f, AllStates, AllResults)
      /\ finallyTasks' = Put(finallyTasks, f.name, StepStates("finally", f))
  BY DEF TranslateFinally, AtFinally, NextRound, Translatable, Unresolvable
<1>2. run \in PipelineRun /\ TektonValid(run) /\ pc \in TasksStage
  BY <1>1 DEF TranslatorTypeOK, GraphInv, ValidStage, TasksStage
<1>3. f \in FinallyTasks /\ f \in PipelineTask
  BY <1>1, <1>2, TasksAreTasks DEF FinallyTasks, Elements, CurrentFinally
<1>4. DOMAIN llb' = DOMAIN llb \cup S
  BY <1>1, ChainDomain
<1>5. ASSUME NEW k \in 1..Len(f.steps)
      PROVE  /\ StepOf("finally", f, k) \in S
             /\ llb'[StepOf("finally", f, k)].inputs =
                  PreviousStep("finally", f, k) \cup AllStates
  <2>1. /\ StepOf("finally", f, k) \in S
        /\ llb'[StepOf("finally", f, k)] =
             StepOp("finally", f, k, WorkspaceDirs(f), AllStates, AllResults)
    BY <1>1, ChainAdds
  <2> QED
    BY <2>1 DEF StepOp
<1>6. ASSUME NEW v \in DOMAIN llb, v \notin S
      PROVE  llb'[v] = llb[v]
  BY <1>1, <1>6, ChainKeeps
<1>7. /\ \A g \in FinallyTasks : \A k : StepOf("finally", g, k) \in S => g = f
      /\ \A u, k : StepOf("task", u, k) \notin S
  BY <1>2, <1>3, StepsDiffer
<1>8. /\ AllStates \subseteq DOMAIN llb
      /\ \A u \in RegularTasks : Included(u) => LastStep("task", u) \in AllStates
  BY <1>1, AllMounts
<1>9. \A g \in FinallyTasks : g.name = f.name => g = f
  BY <1>2, <1>3, NamesIdentify DEF FinallyTasks
<1>10. /\ DOMAIN finallyTasks' = DOMAIN finallyTasks \cup {f.name}
       /\ finallyTasks'[f.name] = StepStates("finally", f)
  BY <1>1 DEF Put
<1>11. \A n \in DOMAIN finallyTasks : n # f.name => finallyTasks'[n] = finallyTasks[n]
  BY <1>1 DEF Put
<1>12. RegularTasks' = RegularTasks /\ FinallyTasks' = FinallyTasks
  BY <1>1 DEF RegularTasks, FinallyTasks
<1> HIDE DEF f, S
<1>13. FinallyInGraph'
  <2>1. DOMAIN finallyTasks' \subseteq Names(run.finally)
    BY <1>3, <1>10 DEF GraphInv, FinallyInGraph, Names, FinallyTasks
  <2>2. ASSUME NEW g \in FinallyTasks, g.name \in DOMAIN finallyTasks'
        PROVE  /\ g.steps # <<>>
               /\ finallyTasks'[g.name] = StepStates("finally", g)
               /\ \A k \in 1..Len(g.steps) : StepOf("finally", g, k) \in DOMAIN llb'
    <3>1. CASE g = f
      BY <1>1, <1>4, <1>5, <1>10, <3>1
    <3>2. CASE g # f
      <4>1. g.name \in DOMAIN finallyTasks /\ g.name # f.name
        BY <1>9, <1>10, <2>2, <3>2
      <4>2. /\ g.steps # <<>> /\ finallyTasks[g.name] = StepStates("finally", g)
            /\ \A k \in 1..Len(g.steps) : StepOf("finally", g, k) \in DOMAIN llb
        BY <1>2, <4>1 DEF GraphInv, FinallyInGraph
      <4> QED
        BY <1>4, <1>11, <4>1, <4>2
    <3> QED
      BY <3>1, <3>2
  <2> QED
    BY <1>1, <1>12, <2>1, <2>2 DEF FinallyInGraph
<1>14. TasksInGraph' /\ OnlyTranslated'
  BY <1>1, <1>2, <1>4, <1>7, <1>12 DEF GraphInv, TasksInGraph, OnlyTranslated
<1>15. NoneForgotten'
  <2>1. ASSUME NEW i \in DOMAIN run.finally, i < next + 1
        PROVE  run.finally[i].name \in DOMAIN finallyTasks'
    <3>1. i < next \/ i = next
      BY <1>1, <1>2, <2>1, TasksAreTasks
    <3>2. CASE i < next
      BY <1>1, <1>10, <2>1, <3>2 DEF GraphInv, NoneForgotten
    <3>3. CASE i = next
      BY <1>10, <3>3 DEF f, CurrentFinally
    <3> QED
      BY <3>1, <3>2, <3>3
  <2>2. \A t \in RegularTasks : Included(t) => t.name \in DOMAIN tasks
    BY <1>1 DEF GraphInv, NoneForgotten
  <2> QED
    BY <1>1, <1>12, <2>1, <2>2 DEF NoneForgotten
<1>16. ASSUME NEW g \in FinallyTasks, NEW k \in 1..Len(g.steps),
              StepOf("finally", g, k) \in DOMAIN llb'
       PROVE  /\ k > 1 => StepOf("finally", g, k - 1) \in llb'[StepOf("finally", g, k)].inputs
              /\ \A w \in RegularTasks : Included(w) =>
                   LastStep("task", w) \in llb'[StepOf("finally", g, k)].inputs
  <2>1. CASE g = f
    <3>1. llb'[StepOf("finally", g, k)].inputs = PreviousStep("finally", g, k) \cup AllStates
      BY <1>5, <2>1
    <3>2. k > 1 => StepOf("finally", g, k - 1) \in PreviousStep("finally", g, k)
      BY DEF PreviousStep, StepOf
    <3> QED
      BY <1>8, <3>1, <3>2
  <2>2. CASE g # f
    <3>1. StepOf("finally", g, k) \in DOMAIN llb /\ StepOf("finally", g, k) \notin S
      BY <1>4, <1>7, <1>16, <2>2
    <3>2. llb'[StepOf("finally", g, k)] = llb[StepOf("finally", g, k)]
      BY <1>6, <3>1
    <3> QED
      BY <1>2, <3>1, <3>2 DEF GraphInv, FinallyEdges, Chained
  <2> QED
    BY <2>1, <2>2
<1>17. FinallyEdges'
  BY <1>1, <1>12, <1>16 DEF FinallyEdges, Chained
<1>18. ASSUME NEW u \in RegularTasks, NEW k \in 1..Len(u.steps),
              StepOf("task", u, k) \in DOMAIN llb'
       PROVE  /\ k > 1 => StepOf("task", u, k - 1) \in llb'[StepOf("task", u, k)].inputs
              /\ \A w \in RegularTasks : w.name \in u.runAfter =>
                   LastStep("task", w) \in llb'[StepOf("task", u, k)].inputs
  <2>1. StepOf("task", u, k) \in DOMAIN llb /\ StepOf("task", u, k) \notin S
    BY <1>4, <1>7, <1>18
  <2>2. llb'[StepOf("task", u, k)] = llb[StepOf("task", u, k)]
    BY <1>6, <2>1
  <2> QED
    BY <1>2, <2>1, <2>2 DEF GraphInv, TaskEdges, Chained
<1>19. TaskEdges'
  BY <1>1, <1>12, <1>18 DEF TaskEdges, Chained
<1>20. NoDanglingEdge'
  <2>1. ASSUME NEW v \in DOMAIN llb', v \in S
        PROVE  llb'[v].inputs \subseteq DOMAIN llb'
    <3>1. PICK k \in 1..Len(f.steps) : v = StepOf("finally", f, k)
      BY <2>1, StepsAre DEF S
    <3>2. PreviousStep("finally", f, k) \subseteq S
      <4>1. CASE k = 1
        BY <4>1 DEF PreviousStep
      <4>2. CASE k # 1
        <5>1. k - 1 \in 1..Len(f.steps)
          BY <1>3, <4>2 DEF PipelineTask
        <5>2. StepOf("finally", f, k - 1) \in S
          BY <1>5, <5>1
        <5> QED
          BY <4>2, <5>2 DEF PreviousStep, StepOf
      <4> QED
        BY <4>1, <4>2
    <3> QED
      BY <1>4, <1>5, <1>8, <3>1, <3>2
  <2>2. ASSUME NEW v \in DOMAIN llb', v \notin S
        PROVE  llb'[v].inputs \subseteq DOMAIN llb'
    BY <1>2, <1>4, <1>6, <2>2 DEF GraphInv, NoDanglingEdge
  <2> QED
    BY <2>1, <2>2 DEF NoDanglingEdge
<1>21. ValidStage' /\ StartsEmpty' /\ RootEdges'
  BY <1>1, <1>2 DEF ValidStage, StartsEmpty, RootEdges
<1> QED
  BY <1>13, <1>14, <1>15, <1>17, <1>19, <1>20, <1>21 DEF GraphInv

\* Moving on in the loops, when the graph stays as it is.
LEMMA GraphUnchanged ==
  ASSUME TranslatorTypeOK, GraphInv, pc \in {"tasks", "finally", "collect"},
         UNCHANGED <<run, tasks, finallyTasks, llb>>,
         pc' \in {"tasks", "finally", "collect"}, NoneForgotten'
  PROVE  GraphInv'
BY DEF GraphInv, ValidStage, StartsEmpty, TasksInGraph, FinallyInGraph, OnlyTranslated,
       TaskEdges, FinallyEdges, RootEdges, NoDanglingEdge, TasksStage, RegularTasks,
       FinallyTasks, Chained

\* CollectResults adds the root, which mounts the last step of every task.
LEMMA GraphCollect ==
  ASSUME TranslatorTypeOK, GraphInv, CollectResults
  PROVE  GraphInv'
<1> DEFINE states == {LastOf(finallyTasks[n]) : n \in DOMAIN finallyTasks}
<1>1. /\ pc = "collect" /\ pc' = "done"
      /\ UNCHANGED <<run, tasks, finallyTasks>>
      /\ llb' = Put(llb, Collect, CollectOp)
  BY DEF CollectResults, Goto
<1>2. /\ DOMAIN llb' = DOMAIN llb \cup {Collect}
      /\ llb'[Collect].inputs = AllStates \cup states
      /\ \A v \in DOMAIN llb : v # Collect => llb'[v] = llb[v]
  BY <1>1 DEF Put, CollectOp
<1>3. \A t, k : StepOf("task", t, k) # Collect /\ StepOf("finally", t, k) # Collect
  BY DEF StepOf, Collect
<1>4. /\ AllStates \subseteq DOMAIN llb
      /\ \A u \in RegularTasks : Included(u) => LastStep("task", u) \in AllStates
  BY <1>1, AllMounts
<1>5. /\ states \subseteq DOMAIN llb
      /\ \A f \in FinallyTasks : LastStep("finally", f) \in states
  BY <1>1, FinallyMounts
<1>6. RegularTasks' = RegularTasks /\ FinallyTasks' = FinallyTasks
  BY <1>1 DEF RegularTasks, FinallyTasks
<1> HIDE DEF states
<1>7. ValidStage' /\ StartsEmpty'
  BY <1>1 DEF GraphInv, ValidStage, StartsEmpty, TasksStage
<1>8. TasksInGraph' /\ FinallyInGraph'
  BY <1>1, <1>2, <1>6 DEF GraphInv, TasksInGraph, FinallyInGraph, TasksStage
<1>9. NoneForgotten'
  BY <1>1, <1>6 DEF GraphInv, NoneForgotten
<1>10. OnlyTranslated'
  BY <1>1, <1>2, <1>3, <1>6 DEF GraphInv, OnlyTranslated, TasksStage
<1>11. TaskEdges'
  BY <1>1, <1>2, <1>3, <1>6 DEF GraphInv, TaskEdges, Chained, TasksStage
<1>12. FinallyEdges'
  BY <1>1, <1>2, <1>3, <1>6 DEF GraphInv, FinallyEdges, Chained, TasksStage
<1>13. RootEdges'
  BY <1>1, <1>2, <1>4, <1>5, <1>6 DEF RootEdges
<1>14. NoDanglingEdge'
  BY <1>1, <1>2, <1>4, <1>5 DEF GraphInv, NoDanglingEdge, TasksStage
<1> QED
  BY <1>7, <1>8, <1>9, <1>10, <1>11, <1>12, <1>13, <1>14 DEF GraphInv

\* GRAPH INVARIANT: every step of the translation preserves it.
LEMMA GraphNext ==
  TranslatorTypeOK /\ GraphInv /\ [TranslatorNext]_translatorVars => GraphInv'
<1> SUFFICES ASSUME TranslatorTypeOK, GraphInv, [TranslatorNext]_translatorVars
             PROVE  GraphInv'
  OBVIOUS
<1>1. next \in Nat \ {0} /\ run \in PipelineRun
  BY DEF TranslatorTypeOK
<1>2. /\ \A i \in DOMAIN run.tasks : next \notin DOMAIN run.tasks => i < next
      /\ \A i \in DOMAIN run.finally : next \notin DOMAIN run.finally => i < next
      /\ DOMAIN run.tasks \subseteq Nat \ {0} /\ DOMAIN run.finally \subseteq Nat \ {0}
  <2>1. run.tasks \in Seq(PipelineTask) /\ run.finally \in Seq(PipelineTask)
    BY <1>1 DEF PipelineRun
  <2> QED
    BY <1>1, <2>1
<1>3. CASE Validate
  BY <1>3, GraphGiveUp, GraphStillEmpty DEF Validate, Goto
<1>4. CASE Resolve
  BY <1>4, GraphGiveUp, GraphStillEmpty DEF Resolve, Goto
<1>17. CASE PanicAtResolver
  BY <1>17, GraphGiveUp DEF PanicAtResolver
<1>5. CASE BindWorkspace
  <2>1. TektonValid(run)
    BY <1>5 DEF BindWorkspace, GraphInv, ValidStage
  <2> QED
    BY <1>5, <2>1, GraphGiveUp, GraphStillEmpty DEF BindWorkspace, NextRound
<1>6. CASE WorkspacesBound
  <2>1. TektonValid(run)
    BY <1>6 DEF WorkspacesBound, GraphInv, ValidStage
  <2> QED
    BY <1>6, <2>1, GraphStillEmpty DEF WorkspacesBound, Goto
<1>7. CASE SkipTask
  <2>1. NoneForgotten'
    <3>1. /\ pc = "tasks" /\ pc' = "tasks" /\ next' = next + 1 /\ ~Included(run.tasks[next])
          /\ UNCHANGED <<run, tasks>>
      BY <1>7 DEF SkipTask, AtTask, NextRound, CurrentTask
    <3>2. \A i \in DOMAIN run.tasks : i < next + 1 => i < next \/ i = next
      BY <1>1, <1>2
    <3> QED
      BY <3>1, <3>2 DEF GraphInv, NoneForgotten
  <2> QED
    BY <1>7, <2>1, GraphUnchanged DEF SkipTask, AtTask, NextRound
<1>8. CASE RejectTask
  BY <1>8, GraphGiveUp DEF RejectTask
<1>9. CASE PanicAtTask
  BY <1>9, GraphGiveUp DEF PanicAtTask
<1>10. CASE TranslateTask
  BY <1>10, GraphTranslateTask
<1>11. CASE TasksTranslated
  <2>1. /\ pc = "tasks" /\ pc' = "finally" /\ next' = 1 /\ next \notin DOMAIN run.tasks
        /\ UNCHANGED <<run, tasks, finallyTasks, llb>>
    BY <1>11 DEF TasksTranslated, Goto
  <2>2. \A t \in RegularTasks : Included(t) => t.name \in DOMAIN tasks
    BY <1>2, <2>1 DEF GraphInv, NoneForgotten, RegularTasks, Elements
  <2>3. \A i \in DOMAIN run.finally : ~(i < 1)
    BY <1>2
  <2>4. NoneForgotten'
    BY <2>1, <2>2, <2>3 DEF NoneForgotten, RegularTasks
  <2> QED
    BY <2>1, <2>4, GraphUnchanged
<1>12. CASE RejectFinally
  BY <1>12, GraphGiveUp DEF RejectFinally
<1>13. CASE TranslateFinally
  BY <1>13, GraphTranslateFinally
<1>14. CASE FinallyTranslated
  <2>1. /\ pc = "finally" /\ pc' = "collect" /\ next \notin DOMAIN run.finally
        /\ UNCHANGED <<run, tasks, finallyTasks, llb>>
    BY <1>14 DEF FinallyTranslated, Goto
  <2>2. \A f \in FinallyTasks : f.name \in DOMAIN finallyTasks
    BY <1>2, <2>1 DEF GraphInv, NoneForgotten, FinallyTasks, Elements
  <2>3. NoneForgotten'
    BY <2>1, <2>2 DEF GraphInv, NoneForgotten, RegularTasks, FinallyTasks
  <2> QED
    BY <2>1, <2>3, GraphUnchanged
<1>15. CASE CollectResults
  BY <1>15, GraphCollect
<1>16. CASE UNCHANGED translatorVars
  BY <1>16 DEF translatorVars, GraphInv, ValidStage, StartsEmpty, TasksInGraph,
     FinallyInGraph, NoneForgotten, OnlyTranslated, TaskEdges, FinallyEdges, RootEdges,
     NoDanglingEdge, TasksStage, RegularTasks, FinallyTasks, Chained
<1> QED
  BY <1>3, <1>4, <1>5, <1>6, <1>7, <1>8, <1>9, <1>10, <1>11, <1>12, <1>13, <1>14, <1>15,
     <1>16, <1>17 DEF TranslatorNext

-----------------------------------------------------------------------------
(* What the rounds have seen, and that what they build is what is declared. *)

\* Bindings and tasks are numbered from 1 on.
LEMMA Indices ==
  ASSUME TranslatorTypeOK
  PROVE  /\ DOMAIN run.workspaces \subseteq Nat \ {0}
         /\ DOMAIN run.tasks \subseteq Nat \ {0}
         /\ DOMAIN run.finally \subseteq Nat \ {0}
         /\ next \notin DOMAIN run.workspaces => \A i \in DOMAIN run.workspaces : i < next
         /\ next \notin DOMAIN run.tasks => \A i \in DOMAIN run.tasks : i < next
         /\ next \notin DOMAIN run.finally => \A i \in DOMAIN run.finally : i < next
         /\ \A i \in DOMAIN run.tasks : \A j \in 1..(i - 1) : j \in DOMAIN run.tasks
<1>1. /\ run.workspaces \in Seq(Binding) /\ run.tasks \in Seq(PipelineTask)
      /\ run.finally \in Seq(PipelineTask) /\ next \in Nat \ {0}
  BY DEF TranslatorTypeOK, PipelineRun
<1> QED
  BY <1>1

\* What one more binding changes (the loop over the workspaces of the run).
LEMMA OneMoreBinding ==
  ASSUME NEW seen \in SUBSET DOMAIN run.workspaces, NEW n \in DOMAIN run.workspaces,
         \A j \in seen : j < n /\ ~(n < j), ~(n < n)
  PROVE  LET w == run.workspaces[n]
         IN  /\ NamesBound(seen \cup {n}) =
                  IF w.kind = "other" THEN NamesBound(seen) ELSE NamesBound(seen) \cup {w.name}
             /\ w.kind = "other" => NamesCached(seen \cup {n}) = NamesCached(seen)
             /\ w.kind = "cacheDir" => NamesCached(seen \cup {n}) = NamesCached(seen) \cup {w.name}
             /\ w.kind \notin {"other", "cacheDir"} =>
                  NamesCached(seen \cup {n}) = NamesCached(seen) \ {w.name}
<1> DEFINE w == run.workspaces[n]
           now == seen \cup {n}
<1>1. \A j \in seen : CacheBinding(j, now) <=>
        CacheBinding(j, seen) /\ (w.name = run.workspaces[j].name => w.kind = "other")
  BY DEF CacheBinding
<1>2. n \notin seen
  OBVIOUS
<1>3. CacheBinding(n, now) <=> w.kind = "cacheDir"
  BY DEF CacheBinding
<1>4. \A j : CacheBinding(j, now) => j \in seen \/ j = n
  BY DEF CacheBinding
<1>5. \A j : CacheBinding(j, seen) => j \in seen
  BY DEF CacheBinding
<1>6. NamesBound(now) = IF w.kind = "other" THEN NamesBound(seen) ELSE NamesBound(seen) \cup {w.name}
  BY DEF NamesBound
<1> HIDE DEF now, w
<1>7. w.kind = "other" => NamesCached(now) = NamesCached(seen)
  BY <1>1, <1>3, <1>4, <1>5 DEF NamesCached
<1>8. w.kind = "cacheDir" => NamesCached(now) = NamesCached(seen) \cup {w.name}
  <2> SUFFICES ASSUME w.kind = "cacheDir" PROVE NamesCached(now) = NamesCached(seen) \cup {w.name}
    OBVIOUS
  <2>1. ASSUME NEW x \in NamesCached(now) PROVE x \in NamesCached(seen) \cup {w.name}
    BY <1>1, <1>3, <1>4, <1>5 DEF NamesCached, w
  <2>2. ASSUME NEW x \in NamesCached(seen), x # w.name PROVE x \in NamesCached(now)
    BY <1>1, <1>5, <2>2 DEF NamesCached
  <2>3. w.name \in NamesCached(now)
    BY <1>3 DEF NamesCached, w
  <2> QED
    BY <2>1, <2>2, <2>3
<1>9. w.kind \notin {"other", "cacheDir"} => NamesCached(now) = NamesCached(seen) \ {w.name}
  BY <1>1, <1>3, <1>4, <1>5 DEF NamesCached
<1> QED
  BY <1>6, <1>7, <1>8, <1>9 DEF now, w

\* The bindings in force are those seen, in every stage.
LEMMA WorkspacesNext ==
  ASSUME TranslatorTypeOK, WorkspacesInv, [TranslatorNext]_translatorVars
  PROVE  WorkspacesInv'
<1> DEFINE early == {"validate", "resolve"}
           late == TasksStage \cup {"workspaces"}
<1>1. ASSUME UNCHANGED <<run, pipelineWorkspaces>>, pc \in late, pc' \in TasksStage,
             BindingsSeen = DOMAIN run.workspaces
      PROVE  WorkspacesInv'
  <2>1. BindingsSeen' = BindingsSeen
    BY <1>1 DEF BindingsSeen, TasksStage
  <2> QED
    BY <1>1, <2>1 DEF WorkspacesInv, TasksStage, NamesBound, NamesCached, CacheBinding
<1>2. ASSUME pc' \in {"error", "panic"} PROVE WorkspacesInv'
  BY <1>2 DEF WorkspacesInv, TasksStage
<1>3. pc \in TasksStage => BindingsSeen = DOMAIN run.workspaces
  BY DEF BindingsSeen, TasksStage
<1>4. CASE Validate
  BY <1>2, <1>4 DEF Validate, Goto, Give, WorkspacesInv, TasksStage
<1>5. CASE Resolve
  <2>1. CASE pc' = "error"
    BY <1>2, <2>1
  <2>2. CASE pc' # "error"
    <3>1. /\ pc = "resolve" /\ pc' = "workspaces" /\ next' = 1
          /\ UNCHANGED <<run, pipelineWorkspaces, skippedTasks>>
      BY <1>5, <2>2 DEF Resolve, Goto, Give
    <3>2. BindingsSeen' = {}
      BY <3>1, Indices DEF BindingsSeen
    <3>3. DOMAIN pipelineWorkspaces = {} /\ skippedTasks = {}
      BY <3>1 DEF WorkspacesInv, EmptyMap
    <3> QED
      BY <3>1, <3>2, <3>3 DEF WorkspacesInv, NamesBound, TasksStage
  <2> QED
    BY <2>1, <2>2
<1>6. CASE PanicAtResolver
  BY <1>2, <1>6 DEF PanicAtResolver, Give
<1>7. CASE BindWorkspace
  <2>1. CASE pc' = "error"
    BY <1>2, <2>1
  <2>2. CASE pc' # "error"
    <3> DEFINE w == run.workspaces[next]
    <3>1. /\ pc = "workspaces" /\ pc' = "workspaces" /\ next \in DOMAIN run.workspaces
          /\ next' = next + 1 /\ UNCHANGED <<run, skippedTasks>>
          /\ ~(w.kind \in {"configMap", "secret"} /\ ~w.usable)
          /\ pipelineWorkspaces' = IF w.kind = "other" THEN pipelineWorkspaces
                                   ELSE Put(pipelineWorkspaces, w.name, w.kind)
      BY <1>7, <2>2 DEF BindWorkspace, NextRound, Give
    <3>2. /\ BindingsSeen' = BindingsSeen \cup {next}
          /\ BindingsSeen \subseteq DOMAIN run.workspaces
          /\ \A j \in BindingsSeen : j < next /\ ~(next < j)
          /\ ~(next < next)
      BY <3>1, Indices DEF BindingsSeen
    <3>10. w \in Binding
      BY <3>1 DEF TranslatorTypeOK, PipelineRun
    <3>3. w.kind \in {"configMap", "secret", "cacheDir", "other"}
      BY <3>10 DEF Binding
    <3>4. /\ DOMAIN pipelineWorkspaces = NamesBound(BindingsSeen)
          /\ \A n \in DOMAIN pipelineWorkspaces :
               pipelineWorkspaces[n] = "cacheDir" <=> n \in NamesCached(BindingsSeen)
          /\ \A j \in BindingsSeen :
               run.workspaces[j].kind \in {"configMap", "secret"} => run.workspaces[j].usable
          /\ skippedTasks = {}
      BY <3>1 DEF WorkspacesInv
    <3>5. /\ NamesBound(BindingsSeen \cup {next}) =
               IF w.kind = "other" THEN NamesBound(BindingsSeen)
               ELSE NamesBound(BindingsSeen) \cup {w.name}
          /\ w.kind = "other" => NamesCached(BindingsSeen \cup {next}) = NamesCached(BindingsSeen)
          /\ w.kind = "cacheDir" =>
               NamesCached(BindingsSeen \cup {next}) = NamesCached(BindingsSeen) \cup {w.name}
          /\ w.kind \notin {"other", "cacheDir"} =>
               NamesCached(BindingsSeen \cup {next}) = NamesCached(BindingsSeen) \ {w.name}
      BY <3>1, <3>2, OneMoreBinding
    <3>6. /\ NamesBound(BindingsSeen)' = NamesBound(BindingsSeen \cup {next})
          /\ NamesCached(BindingsSeen)' = NamesCached(BindingsSeen \cup {next})
      BY <3>1, <3>2 DEF NamesBound, NamesCached, CacheBinding
    <3> HIDE DEF w
    <3>7. DOMAIN pipelineWorkspaces' = NamesBound(BindingsSeen)'
      BY <3>1, <3>4, <3>5, <3>6 DEF Put
    <3>8. ASSUME NEW n \in DOMAIN pipelineWorkspaces'
          PROVE  pipelineWorkspaces'[n] = "cacheDir" <=> n \in NamesCached(BindingsSeen)'
      <4>1. CASE w.kind = "other"
        BY <3>1, <3>4, <3>5, <3>6, <3>8, <4>1
      <4>2. CASE w.kind = "cacheDir"
        BY <3>1, <3>4, <3>5, <3>6, <3>8, <4>2 DEF Put
      <4>3. CASE w.kind \in {"configMap", "secret"}
        BY <3>1, <3>4, <3>5, <3>6, <3>8, <4>3 DEF Put
      <4> QED
        BY <3>3, <4>1, <4>2, <4>3
    <3>9. \A j \in BindingsSeen' :
            run.workspaces[j].kind \in {"configMap", "secret"} => run.workspaces[j].usable
      BY <3>1, <3>2, <3>4 DEF w
    <3> QED
      BY <3>1, <3>4, <3>7, <3>8, <3>9 DEF WorkspacesInv, TasksStage
  <2> QED
    BY <2>1, <2>2
<1>8. CASE WorkspacesBound
  <2>1. /\ pc = "workspaces" /\ pc' = "tasks" /\ next \notin DOMAIN run.workspaces
        /\ UNCHANGED <<run, pipelineWorkspaces>>
    BY <1>8 DEF WorkspacesBound, Goto
  <2>2. BindingsSeen = DOMAIN run.workspaces
    BY <2>1, Indices DEF BindingsSeen
  <2> QED
    BY <1>1, <2>1, <2>2 DEF TasksStage
<1>9. CASE RejectTask \/ PanicAtTask \/ RejectFinally
  BY <1>2, <1>9 DEF RejectTask, PanicAtTask, RejectFinally, Give
<1>10. CASE SkipTask \/ TranslateTask \/ TasksTranslated \/ TranslateFinally
              \/ FinallyTranslated \/ CollectResults
  <2>1. /\ pc \in TasksStage /\ pc' \in TasksStage
        /\ UNCHANGED <<run, pipelineWorkspaces>>
    BY <1>10 DEF SkipTask, TranslateTask, TasksTranslated, TranslateFinally, FinallyTranslated,
         CollectResults, AtTask, AtFinally, NextRound, Goto, TasksStage
  <2> QED
    BY <1>1, <1>3, <2>1
<1>11. CASE UNCHANGED translatorVars
  <2>1. UNCHANGED <<run, pc, next, pipelineWorkspaces, skippedTasks>>
    BY <1>11 DEF translatorVars
  <2>2. BindingsSeen' = BindingsSeen
    BY <2>1 DEF BindingsSeen
  <2> QED
    BY <2>1, <2>2 DEF WorkspacesInv, NamesBound, NamesCached, CacheBinding
<1> QED
  BY <1>4, <1>5, <1>6, <1>7, <1>8, <1>9, <1>10, <1>11 DEF TranslatorNext

\* The tasks and the finally tasks seen are those the loops have been through.
LEMMA TasksNext ==
  ASSUME TranslatorTypeOK, GraphInv, WorkspacesInv, TasksInv, [TranslatorNext]_translatorVars
  PROVE  TasksInv'
<1>1. ASSUME UNCHANGED <<run, pipelineWorkspaces, tasks, skippedTasks, finallyTasks>>,
             pc \in TasksStage, TasksSeen' = TasksSeen, FinallySeen' = FinallySeen
      PROVE  TasksInv'
  BY <1>1 DEF TasksInv, MountsEarlier
<1>2. ASSUME pc' \notin TasksStage PROVE TasksInv'
  BY <1>2 DEF TasksInv
<1>3. CASE Validate \/ Resolve \/ PanicAtResolver \/ BindWorkspace \/ RejectTask \/ PanicAtTask
             \/ RejectFinally
  BY <1>2, <1>3 DEF Validate, Resolve, PanicAtResolver, BindWorkspace, RejectTask, PanicAtTask,
     RejectFinally, Give, Goto, NextRound, TasksStage
<1>4. CASE WorkspacesBound
  <2>1. /\ pc = "workspaces" /\ pc' = "tasks" /\ next' = 1
        /\ UNCHANGED <<run, pipelineWorkspaces, tasks, skippedTasks, finallyTasks>>
    BY <1>4 DEF WorkspacesBound, Goto
  <2>2. TasksSeen' = {} /\ FinallySeen' = {}
    BY <2>1, Indices DEF TasksSeen, FinallySeen
  <2>3. DOMAIN tasks = {} /\ DOMAIN finallyTasks = {} /\ skippedTasks = {}
    BY <2>1 DEF GraphInv, StartsEmpty, EmptyMap, WorkspacesInv
  <2> QED
    BY <2>1, <2>2, <2>3 DEF TasksInv
<1>5. ASSUME AtTask, pc' = pc, next' = next + 1, run' = run
      PROVE  /\ TasksSeen' = TasksSeen \cup {next} /\ next \notin TasksSeen
             /\ TasksSeen = 1..(next - 1)
             /\ next \in DOMAIN run.tasks /\ pc \in TasksStage
             /\ FinallySeen = {} /\ FinallySeen' = {}
             /\ BindingsSeen = DOMAIN run.workspaces
  <2>1. pc = "tasks" /\ next \in DOMAIN run.tasks
    BY <1>5 DEF AtTask
  <2>2. FinallySeen = {} /\ FinallySeen' = {} /\ BindingsSeen = DOMAIN run.workspaces
    BY <1>5, <2>1 DEF FinallySeen, BindingsSeen
  <2>3. next \in Nat /\ DOMAIN run.tasks \subseteq Nat \ {0}
    BY Indices DEF TranslatorTypeOK
  <2>4. TasksSeen = {i \in DOMAIN run.tasks : i < next}
    BY <2>1 DEF TasksSeen
  <2>5. TasksSeen' = {i \in DOMAIN run.tasks : i < next + 1}
    BY <1>5, <2>1 DEF TasksSeen
  <2>6. \A j \in 1..(next - 1) : j \in DOMAIN run.tasks
    BY <2>1, Indices
  <2>7. TasksSeen = 1..(next - 1)
    BY <2>3, <2>4, <2>6
  <2>8. TasksSeen' = TasksSeen \cup {next} /\ next \notin TasksSeen
    BY <2>1, <2>3, <2>4, <2>5
  <2> QED
    BY <2>1, <2>2, <2>7, <2>8 DEF TasksStage
<1>6. CASE SkipTask
  <2>1. /\ AtTask /\ pc' = pc /\ next' = next + 1 /\ ~Included(run.tasks[next])
        /\ skippedTasks' = skippedTasks \cup {run.tasks[next].name}
        /\ UNCHANGED <<run, pipelineWorkspaces, tasks, finallyTasks>>
    BY <1>6 DEF SkipTask, NextRound, CurrentTask
  <2>2. /\ TasksSeen' = TasksSeen \cup {next} /\ pc \in TasksStage
        /\ FinallySeen = {} /\ FinallySeen' = {}
    BY <1>5, <2>1
  <2> QED
    BY <2>1, <2>2 DEF TasksInv, MountsEarlier
<1>7. CASE TranslateTask
  <2>1. /\ AtTask /\ pc' = pc /\ next' = next + 1 /\ Included(run.tasks[next])
        /\ Translatable(run.tasks[next])
        /\ run.tasks[next].workspaces \subseteq DOMAIN pipelineWorkspaces
        /\ run.tasks[next].runAfter \subseteq DOMAIN tasks
        /\ DOMAIN tasks' = DOMAIN tasks \cup {run.tasks[next].name}
        /\ UNCHANGED <<run, pipelineWorkspaces, skippedTasks, finallyTasks>>
    BY <1>7 DEF TranslateTask, NextRound, CurrentTask, CallsUnbound, MountsMissing, Put
  <2>2. /\ TasksSeen' = TasksSeen \cup {next} /\ pc \in TasksStage /\ TasksSeen = 1..(next - 1)
        /\ FinallySeen = {} /\ FinallySeen' = {}
    BY <1>5, <2>1
  <2>3. DOMAIN tasks = {run.tasks[i].name : i \in {j \in TasksSeen : Included(run.tasks[j])}}
    BY <2>2 DEF TasksInv
  <2>4. MountsEarlier(next)
    BY <2>1, <2>2, <2>3 DEF MountsEarlier
  <2>5. DOMAIN tasks' = {run.tasks[i].name : i \in {j \in TasksSeen' : Included(run.tasks[j])}}
    BY <2>1, <2>2, <2>3
  <2>6. \A i : MountsEarlier(i)' <=> MountsEarlier(i)
    BY <2>1 DEF MountsEarlier
  <2> QED
    BY <2>1, <2>2, <2>4, <2>5, <2>6 DEF TasksInv
<1>8. CASE TasksTranslated
  <2>1. /\ pc = "tasks" /\ pc' = "finally" /\ next' = 1 /\ next \notin DOMAIN run.tasks
        /\ UNCHANGED <<run, pipelineWorkspaces, tasks, skippedTasks, finallyTasks>>
    BY <1>8 DEF TasksTranslated, Goto
  <2>2. TasksSeen' = TasksSeen /\ FinallySeen' = FinallySeen
    BY <2>1, Indices DEF TasksSeen, FinallySeen
  <2> QED
    BY <1>1, <2>1, <2>2 DEF TasksStage
<1>9. CASE TranslateFinally
  <2>1. /\ pc = "finally" /\ pc' = pc /\ next' = next + 1 /\ next \in DOMAIN run.finally
        /\ Translatable(run.finally[next])
        /\ DOMAIN finallyTasks' = DOMAIN finallyTasks \cup {run.finally[next].name}
        /\ UNCHANGED <<run, pipelineWorkspaces, tasks, skippedTasks>>
    BY <1>9 DEF TranslateFinally, AtFinally, NextRound, CurrentFinally, Put
  <2>2. next \in Nat /\ DOMAIN run.finally \subseteq Nat \ {0}
    BY Indices DEF TranslatorTypeOK
  <2>3. TasksSeen' = TasksSeen /\ FinallySeen' = FinallySeen \cup {next}
    BY <2>1, <2>2 DEF TasksSeen, FinallySeen
  <2>4. pc \in TasksStage
    BY <2>1 DEF TasksStage
  <2>5. DOMAIN finallyTasks' = {run.finally[i].name : i \in FinallySeen'}
    BY <2>1, <2>3, <2>4 DEF TasksInv
  <2> QED
    BY <2>1, <2>3, <2>4, <2>5 DEF TasksInv, MountsEarlier
<1>10. CASE FinallyTranslated
  <2>1. /\ pc = "finally" /\ pc' = "collect" /\ next \notin DOMAIN run.finally
        /\ UNCHANGED <<run, pipelineWorkspaces, tasks, skippedTasks, finallyTasks>>
    BY <1>10 DEF FinallyTranslated, Goto
  <2>2. TasksSeen' = TasksSeen /\ FinallySeen' = FinallySeen
    BY <2>1, Indices DEF TasksSeen, FinallySeen
  <2> QED
    BY <1>1, <2>1, <2>2 DEF TasksStage
<1>11. CASE CollectResults
  <2>1. /\ pc = "collect" /\ pc' = "done"
        /\ UNCHANGED <<run, pipelineWorkspaces, tasks, skippedTasks, finallyTasks>>
    BY <1>11 DEF CollectResults, Goto
  <2>2. TasksSeen' = TasksSeen /\ FinallySeen' = FinallySeen
    BY <2>1 DEF TasksSeen, FinallySeen
  <2> QED
    BY <1>1, <2>1, <2>2 DEF TasksStage
<1>12. CASE UNCHANGED translatorVars
  <2>1. UNCHANGED <<run, pc, next, pipelineWorkspaces, tasks, skippedTasks, finallyTasks>>
    BY <1>12 DEF translatorVars
  <2>2. TasksSeen' = TasksSeen /\ FinallySeen' = FinallySeen
    BY <2>1 DEF TasksSeen, FinallySeen
  <2> QED
    BY <1>1, <1>2, <2>1, <2>2
<1> QED
  BY <1>3, <1>4, <1>6, <1>7, <1>8, <1>9, <1>10, <1>11, <1>12 DEF TranslatorNext

\* What is bound, and what was translated before, are what Supported says.
LEMMA SeenIsSupported ==
  ASSUME TranslatorTypeOK, WorkspacesInv, TasksInv, pc \in TasksStage
  PROVE  /\ DOMAIN pipelineWorkspaces =
              {run.workspaces[i].name : i \in {j \in DOMAIN run.workspaces :
                                                 run.workspaces[j].kind # "other"}}
         /\ AtTask => DOMAIN tasks =
              {run.tasks[j].name : j \in {k \in 1..(next - 1) : Included(run.tasks[k])}}
<1>1. BindingsSeen = DOMAIN run.workspaces
  BY DEF BindingsSeen, TasksStage
<1>2. ASSUME AtTask PROVE TasksSeen = 1..(next - 1)
  <2>1. pc = "tasks" /\ next \in DOMAIN run.tasks
    BY <1>2 DEF AtTask
  <2>2. next \in Nat /\ DOMAIN run.tasks \subseteq Nat \ {0}
    BY Indices DEF TranslatorTypeOK
  <2>3. \A j \in 1..(next - 1) : j \in DOMAIN run.tasks
    BY <2>1, Indices
  <2> QED
    BY <2>1, <2>2, <2>3 DEF TasksSeen
<1>3. DOMAIN pipelineWorkspaces = NamesBound(DOMAIN run.workspaces)
  BY <1>1 DEF WorkspacesInv
<1>4. AtTask => DOMAIN tasks =
        {run.tasks[j].name : j \in {k \in 1..(next - 1) : Included(run.tasks[k])}}
  BY <1>2 DEF TasksInv
<1> QED
  BY <1>3, <1>4 DEF NamesBound

\* Of a supported run nothing is missing when its tasks are looked at.
LEMMA SupportedIsTranslated ==
  ASSUME TranslatorTypeOK, WorkspacesInv, TasksInv, pc \in TasksStage, Supported(run)
  PROVE  /\ AtTask /\ Included(CurrentTask) =>
              /\ Translatable(CurrentTask)
              /\ CurrentTask.workspaces \subseteq DOMAIN pipelineWorkspaces
              /\ CurrentTask.runAfter \subseteq DOMAIN tasks
         /\ AtFinally => Translatable(CurrentFinally)
<1>1. ASSUME AtTask, Included(CurrentTask)
      PROVE  /\ Translatable(CurrentTask)
             /\ CurrentTask.workspaces \subseteq DOMAIN pipelineWorkspaces
             /\ CurrentTask.runAfter \subseteq DOMAIN tasks
  <2>1. next \in DOMAIN run.tasks
    BY <1>1 DEF AtTask
  <2> QED
    BY <1>1, <2>1, SeenIsSupported DEF Supported, CurrentTask
<1>2. ASSUME AtFinally PROVE Translatable(CurrentFinally)
  BY <1>2 DEF AtFinally, Supported, CurrentFinally, Elements
<1> QED
  BY <1>1, <1>2

\* A run is refused only when it is not supported.
LEMMA CheckedNext ==
  ASSUME TranslatorTypeOK, GraphInv, WorkspacesInv, TasksInv, CheckedInv,
         [TranslatorNext]_translatorVars
  PROVE  CheckedInv'
<1>1. ASSUME run' = run, pc' \in {"error", "panic"}, ~Supported(run) PROVE CheckedInv'
  BY <1>1 DEF CheckedInv, TasksStage
<1>2. ASSUME run' = run, pc \in TasksStage \cup {"workspaces"}, pc' \in TasksStage \cup {"workspaces"}
      PROVE  CheckedInv'
  BY <1>2 DEF CheckedInv, TasksStage
<1>3. CASE Validate
  <2>1. CASE ValidatePipelineRun(run)
    BY <1>3, <2>1 DEF Validate, Goto, CheckedInv, TasksStage
  <2>2. CASE ~ValidatePipelineRun(run)
    BY <1>1, <1>3, <2>2 DEF Validate, Give, Supported
  <2> QED
    BY <2>1, <2>2
<1>4. CASE Resolve
  <2>1. CASE run.spec # "notFound" /\ TektonValid(run)
    <3>1. run.spec \in SpecSource
      BY DEF TranslatorTypeOK, PipelineRun
    <3>2. run.spec \in {"embedded", "found"}
      BY <1>4, <2>1, <3>1 DEF Resolve, SpecSource
    <3> QED
      BY <1>4, <2>1, <3>2 DEF Resolve, Goto, CheckedInv, TasksStage
  <2>2. CASE ~(run.spec # "notFound" /\ TektonValid(run))
    BY <1>1, <1>4, <2>2 DEF Resolve, Give, Supported
  <2> QED
    BY <2>1, <2>2
<1>5. CASE PanicAtResolver
  BY <1>1, <1>5 DEF PanicAtResolver, Give, Supported
<1>6. CASE BindWorkspace
  <2> DEFINE w == run.workspaces[next]
  <2>1. CASE w.kind \in {"configMap", "secret"} /\ ~w.usable
    <3>1. ~Supported(run)
      BY <1>6, <2>1 DEF BindWorkspace, Supported, Elements
    <3> QED
      BY <1>1, <1>6, <2>1, <3>1 DEF BindWorkspace, Give
  <2>2. CASE ~(w.kind \in {"configMap", "secret"} /\ ~w.usable)
    BY <1>2, <1>6, <2>2 DEF BindWorkspace, NextRound
  <2> QED
    BY <2>1, <2>2
<1>7. CASE WorkspacesBound
  BY <1>2, <1>7 DEF WorkspacesBound, Goto, TasksStage
<1>8. CASE RejectTask
  <2>1. ~Translatable(CurrentTask) /\ AtTask /\ Included(CurrentTask) /\ pc \in TasksStage
    BY <1>8 DEF RejectTask, Translatable, AtTask, TasksStage
  <2>2. ~Supported(run)
    BY <2>1, SupportedIsTranslated
  <2> QED
    BY <1>1, <1>8, <2>2 DEF RejectTask, Give
<1>9. CASE PanicAtTask
  <2>1. /\ AtTask /\ Included(CurrentTask) /\ pc \in TasksStage
        /\ \/ ~(CurrentTask.workspaces \subseteq DOMAIN pipelineWorkspaces)
           \/ ~(CurrentTask.runAfter \subseteq DOMAIN tasks)
    BY <1>9 DEF PanicAtTask, CallsUnbound, MountsMissing, AtTask, TasksStage
  <2>2. ~Supported(run)
    BY <2>1, SupportedIsTranslated
  <2> QED
    BY <1>1, <1>9, <2>2 DEF PanicAtTask, Give
<1>10. CASE RejectFinally
  <2>1. ~Supported(run)
    BY <1>10, SupportedIsTranslated DEF RejectFinally, AtFinally, TasksStage
  <2> QED
    BY <1>1, <1>10, <2>1 DEF RejectFinally, Give
<1>11. CASE SkipTask \/ TranslateTask \/ TasksTranslated \/ TranslateFinally
              \/ FinallyTranslated \/ CollectResults
  <2>1. run' = run /\ pc \in TasksStage /\ pc' \in TasksStage
    BY <1>11 DEF SkipTask, TranslateTask, TasksTranslated, TranslateFinally, FinallyTranslated,
         CollectResults, AtTask, AtFinally, NextRound, Goto, TasksStage
  <2> QED
    BY <1>2, <2>1
<1>12. CASE UNCHANGED translatorVars
  BY <1>12 DEF translatorVars, CheckedInv
<1> QED
  BY <1>3, <1>4, <1>5, <1>6, <1>7, <1>8, <1>9, <1>10, <1>11, <1>12 DEF TranslatorNext

\* A run that is translated to the end is supported.
LEMMA DoneIsSupported ==
  ASSUME TranslatorTypeOK, GraphInv, WorkspacesInv, TasksInv, CheckedInv, pc = "done"
  PROVE  Supported(run)
<1>1. pc \in TasksStage /\ BindingsSeen = DOMAIN run.workspaces /\ TasksSeen = DOMAIN run.tasks
      /\ FinallySeen = DOMAIN run.finally
  BY DEF TasksStage, BindingsSeen, TasksSeen, FinallySeen
<1>2. ValidatePipelineRun(run) /\ TektonValid(run) /\ run.spec \in {"embedded", "found"}
  BY <1>1 DEF CheckedInv, GraphInv, ValidStage
<1>3. \A w \in Elements(run.workspaces) : w.kind \in {"configMap", "secret"} => w.usable
  BY <1>1 DEF WorkspacesInv, Elements
<1>4. \A f \in Elements(run.finally) : Translatable(f)
  BY <1>1 DEF TasksInv, Elements
<1>5. \A i \in DOMAIN run.tasks : Included(run.tasks[i]) => MountsEarlier(i)
  BY <1>1 DEF TasksInv
<1>6. DOMAIN pipelineWorkspaces =
        {run.workspaces[i].name : i \in {j \in DOMAIN run.workspaces :
                                           run.workspaces[j].kind # "other"}}
  BY <1>1, SeenIsSupported
<1> QED
  BY <1>2, <1>3, <1>4, <1>5, <1>6 DEF Supported, MountsEarlier

\* The cache directories of the workspaces of a task are those its run declares.
LEMMA WorkspaceDirsDeclared ==
  ASSUME WorkspacesInv, pc \in TasksStage, NEW t
  PROVE  WorkspaceDirs(t) = DeclaredDirs(run, t)
<1>1. BindingsSeen = DOMAIN run.workspaces
  BY DEF BindingsSeen, TasksStage
<1>2. /\ DOMAIN pipelineWorkspaces = NamesBound(DOMAIN run.workspaces)
      /\ \A w \in DOMAIN pipelineWorkspaces :
           pipelineWorkspaces[w] = "cacheDir" <=> w \in NamesCached(DOMAIN run.workspaces)
  BY <1>1 DEF WorkspacesInv
<1>3. CacheBound(run) = NamesCached(DOMAIN run.workspaces)
  BY DEF CacheBound, NamesCached, CacheBinding
<1>4. NamesCached(DOMAIN run.workspaces) \subseteq NamesBound(DOMAIN run.workspaces)
  BY DEF NamesCached, NamesBound, CacheBinding
<1>5. {v \in Bound(t) : pipelineWorkspaces[v] = "cacheDir"} = t.workspaces \cap CacheBound(run)
  BY <1>2, <1>3, <1>4 DEF Bound
<1> QED
  BY <1>5 DEF WorkspaceDirs, DeclaredDirs

\* A task of runAfter that is in the map is an included one, and its states are
\* those it declares.
LEMMA InTheMap ==
  ASSUME GraphInv, pc \in TasksStage, NEW n \in DOMAIN tasks
  PROVE  \E u \in RegularTasks :
           u.name = n /\ Included(u) /\ tasks[n] = StepStates("task", u)
<1>1. PICK u \in RegularTasks : u.name = n
  BY DEF GraphInv, TasksInGraph, Names, RegularTasks
<1> QED
  BY <1>1 DEF GraphInv, TasksInGraph

\* What a regular task mounts is what it declares (the runAfter mounts).
LEMMA RunAfterDeclared ==
  ASSUME TranslatorTypeOK, GraphInv, pc \in TasksStage, NEW t, t.runAfter \subseteq DOMAIN tasks
  PROVE  /\ RunAfterStates(t) = LastStates("task", Before(run, "task", t))
         /\ RunAfterResults(t) = ResultsDirs("task", Before(run, "task", t))
<1>1. TektonValid(run) /\ run \in PipelineRun
  BY DEF GraphInv, ValidStage, TranslatorTypeOK
<1>2. \A u, w \in RegularTasks : u.name = w.name => u = w
  BY <1>1, NamesIdentify DEF RegularTasks
<1>3. ASSUME NEW a \in t.runAfter
      PROVE  \E u \in Before(run, "task", t) : u.name = a /\ tasks[a] = StepStates("task", u)
  <2>1. a \in DOMAIN tasks
    OBVIOUS
  <2>2. PICK u \in RegularTasks : u.name = a /\ Included(u) /\ tasks[a] = StepStates("task", u)
    BY <2>1, InTheMap
  <2>3. u \in Before(run, "task", t)
    BY <2>2 DEF Before, IncludedTasks, Included, RegularTasks
  <2> QED
    BY <2>2, <2>3
<1>4. ASSUME NEW u \in Before(run, "task", t)
      PROVE  u.name \in t.runAfter /\ tasks[u.name] = StepStates("task", u)
  <2>1. u.name \in t.runAfter /\ u \in RegularTasks
    BY DEF Before, IncludedTasks, RegularTasks
  <2>2. PICK w \in Before(run, "task", t) : w.name = u.name /\ tasks[u.name] = StepStates("task", w)
    BY <1>3, <2>1
  <2>3. w \in RegularTasks
    BY DEF Before, IncludedTasks, RegularTasks
  <2> QED
    BY <1>2, <2>1, <2>2, <2>3
<1>5. RunAfterStates(t) = LastStates("task", Before(run, "task", t))
  BY <1>3, <1>4 DEF RunAfterStates, LastStates
<1>6. RunAfterResults(t) = ResultsDirs("task", Before(run, "task", t))
  BY <1>3, <1>4 DEF RunAfterResults, ResultsDirs
<1> QED
  BY <1>5, <1>6

\* What a finally task mounts is what it declares: every regular task translated.
LEMMA AllDeclared ==
  ASSUME TranslatorTypeOK, GraphInv, pc \in {"finally", "collect", "done"}
  PROVE  /\ AllStates = LastStates("task", IncludedTasks(run))
         /\ AllResults = ResultsDirs("task", IncludedTasks(run))
         /\ \A t : Before(run, "finally", t) = IncludedTasks(run)
<1>1. TektonValid(run) /\ run \in PipelineRun /\ pc \in TasksStage
  BY DEF GraphInv, ValidStage, TranslatorTypeOK, TasksStage
<1>2. \A u, w \in RegularTasks : u.name = w.name => u = w
  BY <1>1, NamesIdentify DEF RegularTasks
<1>3. ASSUME NEW n \in DOMAIN tasks
      PROVE  \E u \in IncludedTasks(run) : u.name = n /\ tasks[n] = StepStates("task", u)
  BY <1>1, InTheMap DEF IncludedTasks, Included, RegularTasks
<1>4. ASSUME NEW u \in IncludedTasks(run)
      PROVE  u.name \in DOMAIN tasks /\ tasks[u.name] = StepStates("task", u)
  <2>1. u \in RegularTasks /\ Included(u)
    BY DEF IncludedTasks, Included, RegularTasks
  <2>2. u.name \in DOMAIN tasks
    BY <2>1 DEF GraphInv, NoneForgotten
  <2> QED
    BY <1>1, <2>1, <2>2 DEF GraphInv, TasksInGraph
<1>5. AllStates = LastStates("task", IncludedTasks(run))
  BY <1>3, <1>4 DEF AllStates, LastStates
<1>6. AllResults = ResultsDirs("task", IncludedTasks(run))
  BY <1>3, <1>4 DEF AllResults, ResultsDirs
<1>7. \A t : Before(run, "finally", t) = IncludedTasks(run)
  BY DEF Before
<1> QED
  BY <1>5, <1>6, <1>7

\* The final operation is the one the run declares.
LEMMA CollectDeclared ==
  ASSUME TranslatorTypeOK, GraphInv, pc = "collect"
  PROVE  CollectOp = DeclaredCollectOp(run)
<1>1. pc \in TasksStage /\ run \in PipelineRun /\ TektonValid(run)
  BY DEF TasksStage, TranslatorTypeOK, GraphInv, ValidStage
<1>2. ASSUME NEW n \in DOMAIN finallyTasks
      PROVE  \E f \in Elements(run.finally) : f.name = n /\ finallyTasks[n] = StepStates("finally", f)
  <2>1. PICK f \in FinallyTasks : f.name = n
    BY DEF GraphInv, FinallyInGraph, Names, FinallyTasks
  <2> QED
    BY <1>1, <2>1 DEF GraphInv, FinallyInGraph, FinallyTasks
<1>3. ASSUME NEW f \in Elements(run.finally)
      PROVE  f.name \in DOMAIN finallyTasks /\ finallyTasks[f.name] = StepStates("finally", f)
  BY <1>1 DEF GraphInv, NoneForgotten, FinallyInGraph, FinallyTasks
<1>4. /\ {LastOf(finallyTasks[n]) : n \in DOMAIN finallyTasks} =
           LastStates("finally", Elements(run.finally))
      /\ {ResultsDir("finally", n) : n \in DOMAIN finallyTasks} =
           ResultsDirs("finally", Elements(run.finally))
  BY <1>2, <1>3 DEF LastStates, ResultsDirs
<1> QED
  BY <1>4, AllDeclared DEF CollectOp, DeclaredCollectOp

\* Round by round the graph holds the operations that the tasks declare, and
\* nothing else.
LEMMA OpsNext ==
  ASSUME TranslatorTypeOK, GraphInv, WorkspacesInv, OnlyDeclared, OpsAsDeclared,
         [TranslatorNext]_translatorVars
  PROVE  OnlyDeclared' /\ OpsAsDeclared'
<1>1. ASSUME UNCHANGED <<run, tasks, finallyTasks, llb>>, pc \in TasksStage, pc # "done", pc' # "done"
      PROVE  OnlyDeclared' /\ OpsAsDeclared'
  BY <1>1 DEF OnlyDeclared, OpsAsDeclared, RegularTasks, FinallyTasks
<1>2. ASSUME llb' = llb, pc' \notin TasksStage PROVE OnlyDeclared' /\ OpsAsDeclared'
  BY <1>2 DEF OnlyDeclared, OpsAsDeclared, TasksStage
<1>3. CASE Validate \/ Resolve \/ PanicAtResolver \/ BindWorkspace \/ RejectTask \/ PanicAtTask
             \/ RejectFinally
  BY <1>2, <1>3 DEF Validate, Resolve, PanicAtResolver, BindWorkspace, RejectTask, PanicAtTask,
     RejectFinally, Give, Goto, NextRound, TasksStage
<1>4. CASE WorkspacesBound
  <2>1. /\ pc' = "tasks" /\ llb' = llb /\ tasks' = tasks /\ finallyTasks' = finallyTasks
        /\ DOMAIN tasks = {} /\ DOMAIN finallyTasks = {} /\ DOMAIN llb = {}
    BY <1>4 DEF WorkspacesBound, Goto, GraphInv, StartsEmpty, EmptyMap
  <2> QED
    BY <2>1 DEF OnlyDeclared, OpsAsDeclared
<1>5. CASE SkipTask \/ TasksTranslated \/ FinallyTranslated
  BY <1>1, <1>5 DEF SkipTask, TasksTranslated, FinallyTranslated, AtTask, NextRound, Goto, TasksStage
<1>6. CASE TranslateTask
  <2> DEFINE t == CurrentTask
             S == Elements(StepStates("task", t))
  <2>1. /\ pc = "tasks" /\ pc' = "tasks" /\ next \in DOMAIN run.tasks
        /\ run' = run /\ finallyTasks' = finallyTasks /\ t.runAfter \subseteq DOMAIN tasks
        /\ llb' = WithSteps("task", t, RunAfterStates(t), RunAfterResults(t))
        /\ tasks' = Put(tasks, t.name, StepStates("task", t))
    BY <1>6 DEF TranslateTask, AtTask, NextRound, MountsMissing
  <2>2. run \in PipelineRun /\ TektonValid(run) /\ pc \in TasksStage /\ t \in RegularTasks
    BY <2>1 DEF TranslatorTypeOK, GraphInv, ValidStage, TasksStage, RegularTasks, Elements, CurrentTask
  <2>3. /\ DOMAIN llb' = DOMAIN llb \cup S
        /\ llb' = [v \in DOMAIN llb' |-> llb'[v]]
    BY <2>1, ChainDomain DEF WithSteps
  <2>4. ASSUME NEW k \in 1..Len(t.steps)
        PROVE  llb'[StepOf("task", t, k)] = DeclaredStepOp(run, "task", t, k)
    <3>1. llb'[StepOf("task", t, k)] =
             StepOp("task", t, k, WorkspaceDirs(t), RunAfterStates(t), RunAfterResults(t))
      BY <2>1, ChainAdds
    <3>2. WorkspaceDirs(t) = DeclaredDirs(run, t)
      BY <2>2, WorkspaceDirsDeclared
    <3>3. /\ RunAfterStates(t) = LastStates("task", Before(run, "task", t))
          /\ RunAfterResults(t) = ResultsDirs("task", Before(run, "task", t))
      BY <2>1, <2>2, RunAfterDeclared
    <3> QED
      BY <3>1, <3>2, <3>3 DEF DeclaredStepOp
  <2>5. \A v \in DOMAIN llb : v \notin S => llb'[v] = llb[v]
    BY <2>1, ChainKeeps
  <2>6. /\ \A u \in RegularTasks : \A k : StepOf("task", u, k) \in S => u = t
        /\ \A f, k : StepOf("finally", f, k) \notin S
    BY <2>2, StepsDiffer
  <2>7. \A v \in S : \E k \in 1..Len(t.steps) : v = StepOf("task", t, k)
    BY StepsAre
  <2>8. DOMAIN tasks' = DOMAIN tasks \cup {t.name}
    BY <2>1 DEF Put
  <2>9. RegularTasks' = RegularTasks /\ FinallyTasks' = FinallyTasks
    BY <2>1 DEF RegularTasks, FinallyTasks
  <2>10. \A u \in RegularTasks : u.name = t.name => u = t
    BY <2>2, NamesIdentify DEF RegularTasks
  <2> HIDE DEF t, S
  <2>11. OnlyDeclared'
    <3>1. ASSUME NEW v \in DOMAIN llb'
          PROVE  \/ \E u \in RegularTasks :
                      u.name \in DOMAIN tasks' /\ \E k \in 1..Len(u.steps) : v = StepOf("task", u, k)
                 \/ \E f \in FinallyTasks :
                      /\ f.name \in DOMAIN finallyTasks'
                      /\ \E k \in 1..Len(f.steps) : v = StepOf("finally", f, k)
      <4>1. CASE v \in S
        BY <2>2, <2>7, <2>8, <4>1
      <4>2. CASE v \notin S
        BY <2>1, <2>2, <2>3, <2>8, <4>2 DEF OnlyDeclared
      <4> QED
        BY <4>1, <4>2
    <3> QED
      BY <2>9, <3>1 DEF OnlyDeclared
  <2>12. ASSUME NEW u \in RegularTasks, u.name \in DOMAIN tasks', NEW k \in 1..Len(u.steps)
         PROVE  llb'[StepOf("task", u, k)] = DeclaredStepOp(run, "task", u, k)
    <3>1. CASE u = t
      BY <2>4, <3>1
    <3>2. CASE u # t
      <4>1. u.name \in DOMAIN tasks
        BY <2>8, <2>10, <2>12, <3>2
      <4>2. StepOf("task", u, k) \in DOMAIN llb
        BY <2>2, <4>1 DEF GraphInv, TasksInGraph
      <4>3. StepOf("task", u, k) \notin S
        BY <2>6, <3>2
      <4>4. llb[StepOf("task", u, k)] = DeclaredStepOp(run, "task", u, k)
        BY <2>2, <4>1 DEF OpsAsDeclared
      <4> QED
        BY <2>5, <4>2, <4>3, <4>4
    <3> QED
      BY <3>1, <3>2
  <2>13. ASSUME NEW f \in FinallyTasks, f.name \in DOMAIN finallyTasks, NEW k \in 1..Len(f.steps)
         PROVE  llb'[StepOf("finally", f, k)] = DeclaredStepOp(run, "finally", f, k)
    <3>1. StepOf("finally", f, k) \in DOMAIN llb
      BY <2>2, <2>13 DEF GraphInv, FinallyInGraph
    <3>2. llb[StepOf("finally", f, k)] = DeclaredStepOp(run, "finally", f, k)
      BY <2>2, <2>13 DEF OpsAsDeclared
    <3> QED
      BY <2>5, <2>6, <3>1, <3>2
  <2>14. OpsAsDeclared'
    BY <2>1, <2>3, <2>9, <2>12, <2>13 DEF OpsAsDeclared
  <2> QED
    BY <2>11, <2>14
<1>7. CASE TranslateFinally
  <2> DEFINE f == CurrentFinally
             S == Elements(StepStates("finally", f))
  <2>1. /\ pc = "finally" /\ pc' = "finally" /\ next \in DOMAIN run.finally
        /\ run' = run /\ tasks' = tasks
        /\ llb' = WithSteps("finally", f, AllStates, AllResults)
        /\ finallyTasks' = Put(finallyTasks, f.name, StepStates("finally", f))
    BY <1>7 DEF TranslateFinally, AtFinally, NextRound
  <2>2. run \in PipelineRun /\ TektonValid(run) /\ pc \in TasksStage /\ f \in FinallyTasks
    BY <2>1 DEF TranslatorTypeOK, GraphInv, ValidStage, TasksStage, FinallyTasks, Elements, CurrentFinally
  <2>3. /\ DOMAIN llb' = DOMAIN llb \cup S
        /\ llb' = [v \in DOMAIN llb' |-> llb'[v]]
    BY <2>1, ChainDomain DEF WithSteps
  <2>4. ASSUME NEW k \in 1..Len(f.steps)
        PROVE  llb'[StepOf("finally", f, k)] = DeclaredStepOp(run, "finally", f, k)
    <3>1. llb'[StepOf("finally", f, k)] =
             StepOp("finally", f, k, WorkspaceDirs(f), AllStates, AllResults)
      BY <2>1, ChainAdds
    <3>2. WorkspaceDirs(f) = DeclaredDirs(run, f)
      BY <2>2, WorkspaceDirsDeclared
    <3>3. /\ AllStates = LastStates("task", Before(run, "finally", f))
          /\ AllResults = ResultsDirs("task", Before(run, "finally", f))
      BY <2>1, AllDeclared
    <3> QED
      BY <3>1, <3>2, <3>3 DEF DeclaredStepOp
  <2>5. \A v \in DOMAIN llb : v \notin S => llb'[v] = llb[v]
    BY <2>1, ChainKeeps
  <2>6. /\ \A g \in FinallyTasks : \A k : StepOf("finally", g, k) \in S => g = f
        /\ \A t, k : StepOf("task", t, k) \notin S
    BY <2>2, StepsDiffer
  <2>7. \A v \in S : \E k \in 1..Len(f.steps) : v = StepOf("finally", f, k)
    BY StepsAre
  <2>8. DOMAIN finallyTasks' = DOMAIN finallyTasks \cup {f.name}
    BY <2>1 DEF Put
  <2>9. RegularTasks' = RegularTasks /\ FinallyTasks' = FinallyTasks
    BY <2>1 DEF RegularTasks, FinallyTasks
  <2>10. \A g \in FinallyTasks : g.name = f.name => g = f
    BY <2>2, NamesIdentify DEF FinallyTasks
  <2> HIDE DEF f, S
  <2>11. OnlyDeclared'
    <3>1. ASSUME NEW v \in DOMAIN llb'
          PROVE  \/ \E t \in RegularTasks :
                      t.name \in DOMAIN tasks /\ \E k \in 1..Len(t.steps) : v = StepOf("task", t, k)
                 \/ \E g \in FinallyTasks :
                      /\ g.name \in DOMAIN finallyTasks'
                      /\ \E k \in 1..Len(g.steps) : v = StepOf("finally", g, k)
      <4>1. CASE v \in S
        BY <2>2, <2>7, <2>8, <4>1
      <4>2. CASE v \notin S
        BY <2>1, <2>2, <2>3, <2>8, <4>2 DEF OnlyDeclared
      <4> QED
        BY <4>1, <4>2
    <3> QED
      BY <2>1, <2>9, <3>1 DEF OnlyDeclared
  <2>12. ASSUME NEW g \in FinallyTasks, g.name \in DOMAIN finallyTasks', NEW k \in 1..Len(g.steps)
         PROVE  llb'[StepOf("finally", g, k)] = DeclaredStepOp(run, "finally", g, k)
    <3>1. CASE g = f
      BY <2>4, <3>1
    <3>2. CASE g # f
      <4>1. g.name \in DOMAIN finallyTasks
        BY <2>8, <2>10, <2>12, <3>2
      <4>2. StepOf("finally", g, k) \in DOMAIN llb
        BY <2>2, <4>1 DEF GraphInv, FinallyInGraph
      <4>3. StepOf("finally", g, k) \notin S
        BY <2>6, <3>2
      <4>4. llb[StepOf("finally", g, k)] = DeclaredStepOp(run, "finally", g, k)
        BY <2>2, <4>1 DEF OpsAsDeclared
      <4> QED
        BY <2>5, <4>2, <4>3, <4>4
    <3> QED
      BY <3>1, <3>2
  <2>13. ASSUME NEW t \in RegularTasks, t.name \in DOMAIN tasks, NEW k \in 1..Len(t.steps)
         PROVE  llb'[StepOf("task", t, k)] = DeclaredStepOp(run, "task", t, k)
    <3>1. StepOf("task", t, k) \in DOMAIN llb
      BY <2>2, <2>13 DEF GraphInv, TasksInGraph
    <3>2. llb[StepOf("task", t, k)] = DeclaredStepOp(run, "task", t, k)
      BY <2>2, <2>13 DEF OpsAsDeclared
    <3> QED
      BY <2>5, <2>6, <3>1, <3>2
  <2>14. OpsAsDeclared'
    BY <2>1, <2>3, <2>9, <2>12, <2>13 DEF OpsAsDeclared
  <2> QED
    BY <2>11, <2>14
<1>8. CASE CollectResults
  <2>1. /\ pc = "collect" /\ pc' = "done" /\ UNCHANGED <<run, tasks, finallyTasks>>
        /\ llb' = Put(llb, Collect, CollectOp)
    BY <1>8 DEF CollectResults, Goto
  <2>2. /\ DOMAIN llb' = DOMAIN llb \cup {Collect} /\ llb' = [v \in DOMAIN llb' |-> llb'[v]]
        /\ llb'[Collect] = DeclaredCollectOp(run)
        /\ \A v \in DOMAIN llb : v # Collect => llb'[v] = llb[v]
    BY <2>1, CollectDeclared DEF Put
  <2>3. pc \in TasksStage
    BY <2>1 DEF TasksStage
  <2>4. \A t, k : StepOf("task", t, k) # Collect /\ StepOf("finally", t, k) # Collect
    BY DEF StepOf, Collect
  <2>5. RegularTasks' = RegularTasks /\ FinallyTasks' = FinallyTasks
    BY <2>1 DEF RegularTasks, FinallyTasks
  <2>6. OnlyDeclared'
    BY <2>1, <2>2, <2>3, <2>5 DEF OnlyDeclared
  <2>7. /\ \A t \in RegularTasks : t.name \in DOMAIN tasks =>
             \A k \in 1..Len(t.steps) : StepOf("task", t, k) \in DOMAIN llb
        /\ \A f \in FinallyTasks : f.name \in DOMAIN finallyTasks =>
             \A k \in 1..Len(f.steps) : StepOf("finally", f, k) \in DOMAIN llb
    BY <2>3 DEF GraphInv, TasksInGraph, FinallyInGraph
  <2>8. OpsAsDeclared'
    BY <2>1, <2>2, <2>3, <2>4, <2>5, <2>7 DEF OpsAsDeclared
  <2> QED
    BY <2>6, <2>8
<1>9. CASE UNCHANGED translatorVars
  BY <1>9 DEF translatorVars, OnlyDeclared, OpsAsDeclared, RegularTasks, FinallyTasks
<1> QED
  BY <1>3, <1>4, <1>5, <1>6, <1>7, <1>8, <1>9 DEF TranslatorNext

\* Nothing is seen and nothing declared before the translation.
LEMMA DeclaredInit == TranslatorInit => DeclaredInv
BY DEF TranslatorInit, DeclaredInv, WorkspacesInv, TasksInv, CheckedInv, OnlyDeclared,
       OpsAsDeclared, TasksStage, EmptyMap

\* Each round keeps what was seen and what is declared in step.
LEMMA DeclaredNext ==
  TranslatorTypeOK /\ GraphInv /\ DeclaredInv /\ [TranslatorNext]_translatorVars => DeclaredInv'
BY WorkspacesNext, TasksNext, CheckedNext, OpsNext DEF DeclaredInv

\* The task a step of the declared graph belongs to is the one of that name.
LEMMA DeclaredTaskIs ==
  ASSUME run \in PipelineRun, TektonValid(run)
  PROVE  /\ \A t \in RegularTasks : \A k : DeclaredTask(run, StepOf("task", t, k)) = t
         /\ \A f \in FinallyTasks : \A k : DeclaredTask(run, StepOf("finally", f, k)) = f
<1>1. ASSUME NEW t \in RegularTasks, NEW k PROVE DeclaredTask(run, StepOf("task", t, k)) = t
  <2>1. \A u \in Elements(run.tasks) : u.name = t.name => u = t
    BY NamesIdentify DEF RegularTasks
  <2> QED
    BY <2>1 DEF DeclaredTask, StepOf, RegularTasks
<1>2. ASSUME NEW f \in FinallyTasks, NEW k PROVE DeclaredTask(run, StepOf("finally", f, k)) = f
  <2>1. \A g \in Elements(run.finally) : g.name = f.name => g = f
    BY NamesIdentify DEF FinallyTasks
  <2> QED
    BY <2>1 DEF DeclaredTask, StepOf, FinallyTasks
<1> QED
  BY <1>1, <1>2

\* At the end the graph is the declared one, operation by operation.
LEMMA DoneIsDeclared ==
  TranslatorTypeOK /\ GraphInv /\ DeclaredInv => BuildsDeclaredGraph
<1> SUFFICES ASSUME TranslatorTypeOK, GraphInv, DeclaredInv, pc = "done"
             PROVE  llb = GraphOf(run)
  BY DEF BuildsDeclaredGraph
<1>1. pc \in TasksStage /\ run \in PipelineRun /\ TektonValid(run)
  BY DEF TasksStage, TranslatorTypeOK, GraphInv, ValidStage
<1> DEFINE D == DeclaredSteps(run, "task") \cup DeclaredSteps(run, "finally") \cup {Collect}
<1>2. \A t \in RegularTasks : t.name \in DOMAIN tasks <=> Included(t)
  BY <1>1 DEF GraphInv, NoneForgotten, TasksInGraph
<1>3. \A f \in FinallyTasks : f.name \in DOMAIN finallyTasks
  BY DEF GraphInv, NoneForgotten
<1>4. /\ \A t \in RegularTasks : Included(t) => \A k \in 1..Len(t.steps) :
           /\ StepOf("task", t, k) \in DOMAIN llb
           /\ llb[StepOf("task", t, k)] = DeclaredStepOp(run, "task", t, k)
      /\ \A f \in FinallyTasks : \A k \in 1..Len(f.steps) :
           /\ StepOf("finally", f, k) \in DOMAIN llb
           /\ llb[StepOf("finally", f, k)] = DeclaredStepOp(run, "finally", f, k)
      /\ Collect \in DOMAIN llb /\ llb[Collect] = DeclaredCollectOp(run)
  BY <1>1, <1>2, <1>3 DEF GraphInv, TasksInGraph, FinallyInGraph, RootEdges, DeclaredInv, OpsAsDeclared
<1>5. DeclaredSteps(run, "task") =
        UNION {{StepOf("task", t, k) : k \in 1..Len(t.steps)} : t \in {u \in RegularTasks : Included(u)}}
  BY StepsAre DEF DeclaredSteps, IncludedTasks, Included, RegularTasks
<1>6. DeclaredSteps(run, "finally") =
        UNION {{StepOf("finally", f, k) : k \in 1..Len(f.steps)} : f \in FinallyTasks}
  BY StepsAre DEF DeclaredSteps, FinallyTasks
<1>7. ASSUME NEW v \in DOMAIN llb PROVE v \in D
  <2>1. \/ v = Collect
        \/ \E t \in RegularTasks : Included(t) /\ \E k \in 1..Len(t.steps) : v = StepOf("task", t, k)
        \/ \E f \in FinallyTasks : \E k \in 1..Len(f.steps) : v = StepOf("finally", f, k)
    BY <1>1, <1>2 DEF DeclaredInv, OnlyDeclared
  <2> QED
    BY <2>1, <1>5, <1>6
<1>8. ASSUME NEW v \in D
      PROVE  v \in DOMAIN llb /\ llb[v] = GraphOf(run)[v]
  <2>1. GraphOf(run)[v] = IF v = Collect THEN DeclaredCollectOp(run)
                          ELSE DeclaredStepOp(run, v[1], DeclaredTask(run, v), v[3])
    BY DEF GraphOf
  <2>2. CASE v = Collect
    BY <1>4, <2>1, <2>2
  <2>3. CASE v \in DeclaredSteps(run, "task")
    <3>1. PICK t \in RegularTasks :
                Included(t) /\ \E k \in 1..Len(t.steps) : v = StepOf("task", t, k)
      BY <1>5, <2>3
    <3>0. PICK k \in 1..Len(t.steps) : v = StepOf("task", t, k)
      BY <3>1
    <3>2. v # Collect /\ v[1] = "task" /\ v[3] = k
      BY <3>0 DEF StepOf, Collect
    <3>3. DeclaredTask(run, v) = t
      BY <1>1, <3>0, DeclaredTaskIs
    <3> QED
      BY <1>4, <2>1, <3>0, <3>1, <3>2, <3>3
  <2>4. CASE v \in DeclaredSteps(run, "finally")
    <3>1. PICK f \in FinallyTasks : \E k \in 1..Len(f.steps) : v = StepOf("finally", f, k)
      BY <1>6, <2>4
    <3>0. PICK k \in 1..Len(f.steps) : v = StepOf("finally", f, k)
      BY <3>1
    <3>2. v # Collect /\ v[1] = "finally" /\ v[3] = k
      BY <3>0 DEF StepOf, Collect
    <3>3. DeclaredTask(run, v) = f
      BY <1>1, <3>0, DeclaredTaskIs
    <3> QED
      BY <1>4, <2>1, <3>0, <3>1, <3>2, <3>3
  <2> QED
    BY <2>2, <2>3, <2>4
<1>9. DOMAIN GraphOf(run) = D /\ GraphOf(run) = [v \in D |-> GraphOf(run)[v]]
  BY DEF GraphOf
<1>10. llb = [v \in DOMAIN llb |-> llb[v]]
  BY DEF DeclaredInv, OpsAsDeclared
<1> HIDE DEF D
<1>11. DOMAIN llb = D
  BY <1>7, <1>8
<1> QED
  BY <1>8, <1>9, <1>10, <1>11

-----------------------------------------------------------------------------
(* Theorems on the translation.                                            *)

\* The invariant of the translation holds of every translation.
THEOREM TranslatorInvariant ==
  TranslatorSpec => [](TranslatorTypeOK /\ GraphInv /\ DeclaredInv)
<1>1. TranslatorInit => TranslatorTypeOK /\ GraphInv /\ DeclaredInv
  BY TranslatorTypeInit, GraphInit, DeclaredInit
<1>2. TranslatorTypeOK /\ GraphInv /\ DeclaredInv /\ [TranslatorNext]_translatorVars =>
        (TranslatorTypeOK /\ GraphInv /\ DeclaredInv)'
  BY TranslatorTypeNext, GraphNext, DeclaredNext
<1> QED
  BY <1>1, <1>2, PTL DEF TranslatorSpec

\* WHICH RUNS TRANSLATE.  PipelineRunToLLB gives a graph for the supported runs and
\* for no others, whatever the lists and the maps they are kept in.
THEOREM SupportedAreTranslated == TranslatorSpec => []TranslatesSupported
<1>1. TranslatorTypeOK /\ GraphInv /\ DeclaredInv => TranslatesSupported
  BY DoneIsSupported DEF TranslatesSupported, DeclaredInv, CheckedInv
<1> QED
  BY <1>1, TranslatorInvariant, PTL

\* THE DECLARED GRAPH.  What PipelineRunToLLB has built when it returns is the graph
\* the run declares.
THEOREM DeclaredGraphIsBuilt == TranslatorSpec => []BuildsDeclaredGraph
BY DoneIsDeclared, TranslatorInvariant, PTL

=============================================================================

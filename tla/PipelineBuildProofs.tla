------------------------ MODULE PipelineBuildProofs -------------------------
(***************************************************************************)
(* The build, proved for every set of runs: BuildInv is an invariant of     *)
(* PipelineBuild.  From it follow the order of tasks, of finally tasks and  *)
(* of steps, that success leaves nothing out, what    *)
(* fails it, what the results that are read hold, and that the build is a   *)
(* TektonPipeline.                                                         *)
(***************************************************************************)
EXTENDS TranslationProofs, PipelineBuildRefinement, WellFoundedInduction

\* Before the build: nothing is submitted, and the graph is empty.
LEMMA BuildInit == Init => BuildInv
<1> SUFFICES ASSUME Init PROVE BuildInv
  OBVIOUS
<1>1. TranslatorTypeOK /\ GraphInv /\ DeclaredInv
  BY TranslatorTypeInit, GraphInit, DeclaredInit DEF Init
<1>2. DOMAIN status = {} /\ build = "idle" /\ status = EmptyMap
  BY DEF Init, EmptyMap
<1>3. TypeOK
  BY <1>1, <1>2 DEF TypeOK
<1>4. OnlySubmitted /\ InputsDone /\ StepsInOrder /\ SuccessMeansRootDone /\ StatusInv
  BY <1>2 DEF OnlySubmitted, InputsDone, StepsInOrder, SuccessMeansRootDone, Started, StatusOf,
       StatusInv
<1> QED
  BY <1>1, <1>3, <1>4 DEF BuildInv

\* The translation does not touch the build, which has not begun.
LEMMA BuildTranslate == ASSUME BuildInv, Translate PROVE BuildInv'
<1>1. /\ TranslatorTypeOK /\ GraphInv /\ DeclaredInv /\ TranslatorNext
      /\ UNCHANGED <<status, build>> /\ build' = build /\ status' = status
  BY DEF BuildInv, TypeOK, Translate
<1>2. TranslatorTypeOK' /\ GraphInv' /\ DeclaredInv'
  BY <1>1, TranslatorTypeNext, GraphNext, DeclaredNext
<1>3. pc \notin {"done", "error"}
  BY <1>1 DEF TranslatorNext, Validate, Resolve, PanicAtResolver, BindWorkspace,
       WorkspacesBound, SkipTask, RejectTask, PanicAtTask, TranslateTask,
       TasksTranslated, RejectFinally, TranslateFinally, FinallyTranslated, CollectResults, AtTask, AtFinally
<1>4. DOMAIN status = {}
  BY <1>3 DEF BuildInv, OnlySubmitted
<1>5. TypeOK'
  BY <1>1, <1>2, <1>4 DEF TypeOK, BuildInv
<1>6. OnlySubmitted'
  BY <1>1, <1>4 DEF OnlySubmitted, BuildInv
<1>7. InputsDone' /\ StepsInOrder'
  BY <1>1, <1>4 DEF InputsDone, StepsInOrder, Started, StatusOf
<1>8. build \notin {"solving", "succeeded"}
  BY <1>4 DEF BuildInv, OnlySubmitted
<1>9. SuccessMeansRootDone'
  BY <1>1, <1>8 DEF SuccessMeansRootDone
<1>10. StatusInv'
  BY <1>1, <1>3, <1>4 DEF StatusInv, BuildInv
<1> QED
  BY <1>2, <1>5, <1>6, <1>7, <1>9, <1>10 DEF BuildInv

\* What holds of the translation says nothing of the build.
LEMMA GraphStays ==
  ASSUME BuildInv, UNCHANGED <<translation, llb>>
  PROVE  TranslatorTypeOK' /\ GraphInv' /\ DeclaredInv'
<1>1. UNCHANGED translatorVars
  BY DEF translation, translatorVars
<1> QED
  BY <1>1, TranslatorTypeNext, GraphNext, DeclaredNext DEF BuildInv, TypeOK

\* Marshalling keeps with an operation all those it mounts.
LEMMA ReachableIsClosed ==
  ASSUME BuildInv, pc = "done"
  PROVE  /\ Solver!Reachable \subseteq DOMAIN llb
         /\ Collect \in Solver!Reachable
         /\ \A v \in Solver!Reachable : llb[v].inputs \subseteq Solver!Reachable
<1>1. /\ Collect \in DOMAIN llb
      /\ \A v \in DOMAIN llb : llb[v].inputs \subseteq DOMAIN llb
  BY DEF BuildInv, GraphInv, RootEdges, NoDanglingEdge, TasksStage
<1>2. Collect \in Solver!Reachable
  BY <1>1 DEF Solver!Reachable, Solver!Closed
<1>3. ASSUME NEW v \in Solver!Reachable, NEW u \in llb[v].inputs
      PROVE  u \in Solver!Reachable
  <2>1. u \in DOMAIN llb /\ v \in DOMAIN llb
    BY <1>1, <1>3 DEF Solver!Reachable
  <2>2. ASSUME NEW S \in SUBSET DOMAIN llb, Solver!Closed(S) PROVE u \in S
    BY <1>3, <2>2 DEF Solver!Reachable, Solver!Closed
  <2> QED
    BY <2>1, <2>2 DEF Solver!Reachable
<1> QED
  BY <1>2, <1>3 DEF Solver!Reachable

\* Submitting the graph: every operation that will be built is pending.
LEMMA BuildSubmit == ASSUME BuildInv, Submit PROVE BuildInv'
<1>1. /\ pc = "done" /\ build = "idle" /\ llb' = llb /\ pc' = pc /\ run' = run
      /\ UNCHANGED translation
      /\ \/ build' = "solving" /\ status' = [v \in Solver!Reachable |-> "pending"]
            /\ \A v \in Solver!Reachable : llb[v].args
         \/ build' = "failed" /\ status' = status
  BY DEF Submit, Solver!Solve, Solver!Marshals, translation
<1>2. TranslatorTypeOK' /\ GraphInv' /\ DeclaredInv'
  BY <1>1, GraphStays
<1>3. CASE build' = "solving" /\ status' = [v \in Solver!Reachable |-> "pending"]
             /\ \A v \in Solver!Reachable : llb[v].args
  <2>1. /\ DOMAIN status' = Solver!Reachable
        /\ \A v \in DOMAIN status' : status'[v] = "pending"
    BY <1>3
  <2>2. /\ DOMAIN status' \subseteq DOMAIN llb
        /\ Collect \in DOMAIN status'
        /\ \A v \in DOMAIN status' : llb[v].inputs \subseteq DOMAIN status'
    BY <1>1, <2>1, ReachableIsClosed
  <2>3. TypeOK'
    BY <1>1, <1>2, <1>3, <2>1, <2>2 DEF TypeOK, Solver!VertexStatus
  <2>4. OnlySubmitted'
    BY <1>1, <1>3, <2>2 DEF OnlySubmitted
  <2>5. InputsDone' /\ StepsInOrder' /\ SuccessMeansRootDone'
    BY <1>3, <2>1 DEF InputsDone, StepsInOrder, SuccessMeansRootDone, Started, StatusOf
  <2>6. StatusInv'
    BY <1>1, <1>3, <2>1 DEF StatusInv
  <2> QED
    BY <1>2, <2>3, <2>4, <2>5, <2>6 DEF BuildInv
<1>4. CASE build' = "failed" /\ status' = status
  <2>1. DOMAIN status = {} /\ DOMAIN status' = {}
    BY <1>1, <1>4 DEF BuildInv, OnlySubmitted, EmptyMap
  <2>2. TypeOK'
    BY <1>2, <1>4, <2>1 DEF TypeOK
  <2>3. OnlySubmitted' /\ InputsDone' /\ StepsInOrder' /\ SuccessMeansRootDone' /\ StatusInv'
    BY <1>1, <1>4, <2>1 DEF OnlySubmitted, InputsDone, StepsInOrder, SuccessMeansRootDone,
         Started, StatusOf, StatusInv
  <2> QED
    BY <1>2, <2>2, <2>3 DEF BuildInv
<1> QED
  BY <1>1, <1>3, <1>4

\* A translation that failed is never submitted.
LEMMA BuildReturnError == ASSUME BuildInv, ReturnError PROVE BuildInv'
<1>1. /\ pc = "error" /\ build = "idle" /\ build' = "failed" /\ llb' = llb /\ status' = status
      /\ pc' = pc /\ run' = run /\ UNCHANGED translation
  BY DEF ReturnError, translation
<1>2. TranslatorTypeOK' /\ GraphInv' /\ DeclaredInv'
  BY <1>1, GraphStays
<1>3. DOMAIN status = {} /\ DOMAIN status' = {}
  BY <1>1 DEF BuildInv, OnlySubmitted, EmptyMap
<1>4. TypeOK'
  BY <1>1, <1>2, <1>3 DEF TypeOK
<1>5. OnlySubmitted' /\ InputsDone' /\ StepsInOrder' /\ SuccessMeansRootDone' /\ StatusInv'
  BY <1>1, <1>3 DEF OnlySubmitted, InputsDone, StepsInOrder, SuccessMeansRootDone,
       Started, StatusOf, StatusInv
<1> QED
  BY <1>2, <1>4, <1>5 DEF BuildInv

-----------------------------------------------------------------------------
(* The steps of the build itself.                                          *)

\* One status is set: to "running" for a ready operation, and from then on.
LEMMA SetsOneStatus ==
  ASSUME NEW v \in DOMAIN status,
         Solver!Start(v) \/ Solver!Exit(v) \/ Solver!TimeoutExpires(v) \/ Solver!Breaks(v)
  PROVE  /\ build = "solving" /\ build' = build /\ llb' = llb
         /\ \/ Solver!Ready(v) /\ status' = [status EXCEPT ![v] = "running"]
            \/ status[v] = "running" /\ status' = [status EXCEPT ![v] = "done"]
            \/ \E s \in {"failed", "broken"} :
                 /\ status[v] = "running" /\ status' = [status EXCEPT ![v] = s]
                 /\ s = "failed" => ~llb[v].ignores
BY DEF Solver!Start, Solver!Exit, Solver!TimeoutExpires, Solver!Breaks, Solver!ExitsWith,
     Solver!SetStatus

\* A step of the build only starts what is ready, and leaves done what is done.
LEMMA RunStep ==
  ASSUME BuildInv, Solver!SolveNext
  PROVE  /\ build = "solving" /\ llb' = llb
         /\ DOMAIN status' = DOMAIN status
         /\ \A v \in DOMAIN status : status'[v] \in Solver!VertexStatus
         /\ \A v \in DOMAIN status : status[v] = "done" => status'[v] = "done"
         /\ \A v \in DOMAIN status : status'[v] \in {"running", "done", "failed", "broken"} =>
              \/ status[v] \in {"running", "done", "failed", "broken"}
              \/ Solver!Ready(v)
         /\ build' \in {"solving", "succeeded", "failed", "interrupted"}
         /\ build' = "succeeded" => status[Collect] = "done"
         /\ \A v \in DOMAIN status : status'[v] = "failed" => status[v] = "failed" \/ ~llb[v].ignores
         /\ build' = "solving" => \A v \in DOMAIN status :
              status'[v] = "canceled" => status[v] = "canceled"
         /\ build' = "failed" => \E v \in DOMAIN status : status'[v] \in {"failed", "broken"}
<1>1. \A v \in DOMAIN status : status[v] \in Solver!VertexStatus
  BY DEF BuildInv, TypeOK
<1>2. CASE \E v \in DOMAIN status : Solver!Start(v) \/ Solver!Exit(v)
                                      \/ Solver!TimeoutExpires(v) \/ Solver!Breaks(v)
  <2>1. PICK v \in DOMAIN status : Solver!Start(v) \/ Solver!Exit(v)
                                     \/ Solver!TimeoutExpires(v) \/ Solver!Breaks(v)
    BY <1>2
  <2>2. /\ build = "solving" /\ build' = build /\ llb' = llb
        /\ \/ Solver!Ready(v) /\ status' = [status EXCEPT ![v] = "running"]
           \/ status[v] = "running" /\ status' = [status EXCEPT ![v] = "done"]
           \/ \E s \in {"failed", "broken"} :
                /\ status[v] = "running" /\ status' = [status EXCEPT ![v] = s]
                /\ s = "failed" => ~llb[v].ignores
    BY <2>1, SetsOneStatus
  <2>3. Solver!Ready(v) => status[v] = "pending"
    BY DEF Solver!Ready
  <2> QED
    BY <1>1, <2>2, <2>3 DEF Solver!VertexStatus
<1>3. CASE Solver!Abort
  BY <1>1, <1>3 DEF Solver!Abort, Solver!GiveUp, Solver!VertexStatus
<1>4. CASE Solver!Interrupt
  BY <1>1, <1>4 DEF Solver!Interrupt, Solver!GiveUp, Solver!VertexStatus
<1>5. CASE Solver!Finish
  BY <1>1, <1>5 DEF Solver!Finish
<1> QED
  BY <1>2, <1>3, <1>4, <1>5 DEF Solver!SolveNext

\* The step before the i-th of a task, when there is one, is mounted in it.
LEMMA PreviousIsMounted ==
  ASSUME BuildInv, pc = "done", NEW kind \in {"task", "finally"},
         NEW t \in Elements(IF kind = "task" THEN run.tasks ELSE run.finally),
         NEW i \in DOMAIN t.steps, i > 1, StepOf(kind, t, i) \in DOMAIN llb
  PROVE  StepOf(kind, t, i - 1) \in llb[StepOf(kind, t, i)].inputs
<1>1. run \in PipelineRun
  BY DEF BuildInv, TypeOK, TranslatorTypeOK
<1>2. t \in PipelineTask
  BY <1>1, TasksAreTasks
<1>3. i \in 1..Len(t.steps)
  BY <1>2 DEF PipelineTask
<1>4. TaskEdges /\ FinallyEdges /\ pc \in TasksStage
  BY DEF BuildInv, GraphInv, TasksStage
<1>5. CASE kind = "task"
  BY <1>3, <1>4, <1>5 DEF TaskEdges, Chained, RegularTasks
<1>6. CASE kind = "finally"
  BY <1>3, <1>4, <1>6 DEF FinallyEdges, Chained, FinallyTasks
<1> QED
  BY <1>5, <1>6

\* The steps of the build keep the order of the steps of a task.
LEMMA RunKeepsStepsInOrder ==
  ASSUME BuildInv, Run PROVE StepsInOrder'
<1>1. /\ Solver!SolveNext /\ run' = run /\ pc' = pc
  BY DEF Run, translation
<1> DEFINE list(kind) == IF kind = "task" THEN run.tasks ELSE run.finally
<1>2. SUFFICES ASSUME NEW kind \in {"task", "finally"}, NEW t \in Elements(list(kind)),
                      NEW i \in DOMAIN t.steps, Started(<<kind, t.name, i>>)',
                      NEW j \in 1..(i - 1)
               PROVE  StatusOf(<<kind, t.name, j>>)' = "done"
  BY <1>1 DEF StepsInOrder
<1> DEFINE v == <<kind, t.name, i>>
           u == <<kind, t.name, j>>
<1>3. v \in DOMAIN status /\ status'[v] \in {"running", "done", "failed", "broken"}
  BY <1>1, <1>2, RunStep DEF Started, StatusOf
<1>4. CASE status[v] \in {"running", "done", "failed", "broken"}
  <2>1. StatusOf(u) = "done"
    BY <1>2, <1>3, <1>4 DEF BuildInv, StepsInOrder, Started, StatusOf
  <2> QED
    BY <1>1, <2>1, RunStep DEF StatusOf
<1>5. CASE Solver!Ready(v)
  <2>1. /\ pc = "done" /\ v \in DOMAIN llb
        /\ run \in PipelineRun
    BY <1>3 DEF BuildInv, OnlySubmitted, TypeOK, TranslatorTypeOK
  <2>2. t.steps \in Seq(Step)
    BY <2>1, TasksAreTasks DEF PipelineTask
  <2>3. i \in Nat /\ i > 1 /\ j \in Nat /\ i - 1 \in DOMAIN t.steps
    BY <2>2
  <2> DEFINE p == <<kind, t.name, i - 1>>
  <2>4. p \in llb[v].inputs
    BY <1>2, <2>1, <2>3, PreviousIsMounted DEF StepOf
  <2>5. p \in DOMAIN status /\ status[p] = "done"
    BY <1>3, <1>5, <2>4 DEF Solver!Ready, BuildInv, OnlySubmitted
  <2>6. StatusOf(u) = "done"
    <3>1. CASE j = i - 1
      BY <2>5, <3>1 DEF StatusOf
    <3>2. CASE j # i - 1
      <4>1. j \in 1..((i - 1) - 1)
        BY <2>3, <3>2
      <4>2. Started(p)
        BY <2>5 DEF Started, StatusOf
      <4> QED
        BY <1>2, <2>3, <4>1, <4>2 DEF BuildInv, StepsInOrder
    <3> QED
      BY <3>1, <3>2
  <2> QED
    BY <1>1, <2>6, RunStep DEF StatusOf
<1> QED
  BY <1>1, <1>3, <1>4, <1>5, RunStep

\* The steps of the build keep the invariant.
LEMMA BuildRun == ASSUME BuildInv, Run PROVE BuildInv'
<1>1. /\ Solver!SolveNext /\ UNCHANGED translation /\ run' = run /\ pc' = pc
  BY DEF Run, translation
<1>2. /\ build = "solving" /\ llb' = llb
      /\ DOMAIN status' = DOMAIN status
      /\ \A v \in DOMAIN status : status'[v] \in Solver!VertexStatus
      /\ \A v \in DOMAIN status : status[v] = "done" => status'[v] = "done"
      /\ \A v \in DOMAIN status : status'[v] \in {"running", "done", "failed", "broken"} =>
           \/ status[v] \in {"running", "done", "failed", "broken"}
           \/ Solver!Ready(v)
      /\ build' \in {"solving", "succeeded", "failed", "interrupted"}
      /\ build' = "succeeded" => status[Collect] = "done"
      /\ \A v \in DOMAIN status : status'[v] = "failed" => status[v] = "failed" \/ ~llb[v].ignores
      /\ build' = "solving" => \A v \in DOMAIN status :
           status'[v] = "canceled" => status[v] = "canceled"
      /\ build' = "failed" => \E v \in DOMAIN status : status'[v] \in {"failed", "broken"}
  BY <1>1, RunStep
<1>3. TranslatorTypeOK' /\ GraphInv' /\ DeclaredInv'
  BY <1>1, <1>2, GraphStays
<1>4. TypeOK'
  BY <1>2, <1>3 DEF TypeOK, BuildInv
<1>5. /\ DOMAIN status # {} /\ pc = "done" /\ Collect \in DOMAIN status
      /\ \A v \in DOMAIN status : llb[v].inputs \subseteq DOMAIN status
  BY <1>2 DEF OnlySubmitted, BuildInv
<1>6. OnlySubmitted'
  BY <1>1, <1>2, <1>5 DEF OnlySubmitted
<1>7. InputsDone'
  <2> SUFFICES ASSUME NEW v \in DOMAIN status, status'[v] \in {"running", "done", "failed", "broken"},
                      NEW u \in llb[v].inputs
               PROVE  status'[u] = "done"
    BY <1>2 DEF InputsDone
  <2>1. u \in DOMAIN status
    BY <1>5
  <2>2. status[u] = "done"
    BY <1>2 DEF Solver!Ready, InputsDone, BuildInv
  <2> QED
    BY <1>2, <2>1, <2>2
<1>8. SuccessMeansRootDone'
  BY <1>2, <1>5 DEF SuccessMeansRootDone
<1>9. StatusInv'
  BY <1>1, <1>2, <1>5 DEF StatusInv, BuildInv
<1> QED
  BY <1>3, <1>4, <1>6, <1>7, <1>8, <1>9, RunKeepsStepsInOrder DEF BuildInv

\* Each step of a build keeps the invariant.
LEMMA BuildNext == BuildInv /\ [Next]_vars => BuildInv'
<1> SUFFICES ASSUME BuildInv, [Next]_vars PROVE BuildInv'
  OBVIOUS
<1>1. CASE Translate
  BY <1>1, BuildTranslate
<1>2. CASE Submit
  BY <1>2, BuildSubmit
<1>3. CASE ReturnError
  BY <1>3, BuildReturnError
<1>4. CASE Run
  BY <1>4, BuildRun
<1>5. CASE UNCHANGED vars
  <2>1. UNCHANGED <<translation, llb>> /\ UNCHANGED <<status, build, llb, pc, run>>
    BY <1>5 DEF vars, translation
  <2>2. TranslatorTypeOK' /\ GraphInv' /\ DeclaredInv'
    BY <2>1, GraphStays
  <2> QED
    BY <2>1, <2>2 DEF BuildInv, TypeOK, OnlySubmitted, InputsDone, StepsInOrder,
         SuccessMeansRootDone, StatusInv, Started, StatusOf
<1> QED
  BY <1>1, <1>2, <1>3, <1>4, <1>5 DEF Next

-----------------------------------------------------------------------------
(* What the invariant implies.                                             *)

\* A task whose last step is done is done.
LEMMA LastStepEndsTask ==
  ASSUME BuildInv, NEW kind \in {"task", "finally"},
         NEW t \in Elements(IF kind = "task" THEN run.tasks ELSE run.finally),
         t.steps # <<>>, StatusOf(LastStep(kind, t)) = "done"
  PROVE  TaskDone(kind, t)
<1>1. run \in PipelineRun
  BY DEF BuildInv, TypeOK, TranslatorTypeOK
<1>2. t \in PipelineTask
  BY <1>1, TasksAreTasks
<1>3. t.steps \in Seq(Step) /\ Len(t.steps) \in DOMAIN t.steps
  BY <1>2, StepStatesType DEF PipelineTask
<1>4. \A j \in 1..(Len(t.steps) - 1) : StatusOf(<<kind, t.name, j>>) = "done"
  BY <1>3 DEF BuildInv, StepsInOrder, Started, LastStep, StepOf
<1>5. \A j \in 1..Len(t.steps) : StatusOf(StepOf(kind, t, j)) = "done"
  BY <1>3, <1>4 DEF LastStep, StepOf
<1> QED
  BY <1>5, StepsAre DEF TaskDone

\* A task some step of which has started has that step in the graph.
LEMMA StartedStep ==
  ASSUME BuildInv, NEW kind, NEW t, TaskStarted(kind, t)
  PROVE  \E k \in 1..Len(t.steps) :
           /\ StepOf(kind, t, k) \in DOMAIN llb /\ StepOf(kind, t, k) \in DOMAIN status
           /\ pc = "done"
           /\ \A u \in llb[StepOf(kind, t, k)].inputs : StatusOf(u) = "done"
<1>1. PICK k \in 1..Len(t.steps) : Started(StepOf(kind, t, k))
  BY StepsAre DEF TaskStarted
<1>2. /\ StepOf(kind, t, k) \in DOMAIN status
      /\ status[StepOf(kind, t, k)] \in {"running", "done", "failed", "broken"}
  BY <1>1 DEF Started, StatusOf
<1>3. StepOf(kind, t, k) \in DOMAIN llb /\ pc = "done"
  BY <1>2 DEF BuildInv, TypeOK, OnlySubmitted
<1>4. \A u \in llb[StepOf(kind, t, k)].inputs : StatusOf(u) = "done"
  BY <1>2 DEF BuildInv, OnlySubmitted, InputsDone, StatusOf
<1> QED
  BY <1>2, <1>3, <1>4

\* The steps of a task mount the last step of each task of its runAfter, so that
\* those tasks are done when one of its steps has started.
LEMMA RunAfterFollows == BuildInv => RunAfterOrder
<1> SUFFICES ASSUME BuildInv, NEW t \in Elements(run.tasks), TaskStarted("task", t),
                    NEW u \in Elements(run.tasks), u.name \in t.runAfter
             PROVE  TaskDone("task", u)
  BY DEF RunAfterOrder
<1>1. PICK k \in 1..Len(t.steps) :
        /\ StepOf("task", t, k) \in DOMAIN llb /\ pc = "done"
        /\ \A w \in llb[StepOf("task", t, k)].inputs : StatusOf(w) = "done"
  BY StartedStep
<1>2. StatusOf(LastStep("task", u)) = "done"
  BY <1>1 DEF BuildInv, GraphInv, TaskEdges, TasksStage, RegularTasks
<1>3. CASE u.steps = <<>>
  BY <1>3, StepsAre DEF TaskDone
<1>4. CASE u.steps # <<>>
  BY <1>2, <1>4, LastStepEndsTask
<1> QED
  BY <1>3, <1>4

\* The same for the regular tasks, which every finally task mounts.
LEMMA FinallyFollows == BuildInv => FinallyLast
<1> SUFFICES ASSUME BuildInv, NEW f \in Elements(run.finally), TaskStarted("finally", f),
                    NEW t \in Elements(run.tasks), Included(t)
             PROVE  TaskDone("task", t)
  BY DEF FinallyLast
<1>1. PICK k \in 1..Len(f.steps) :
        /\ StepOf("finally", f, k) \in DOMAIN llb /\ pc = "done"
        /\ \A w \in llb[StepOf("finally", f, k)].inputs : StatusOf(w) = "done"
  BY StartedStep
<1>2. StatusOf(LastStep("task", t)) = "done"
  BY <1>1 DEF BuildInv, GraphInv, FinallyEdges, TasksStage, RegularTasks, FinallyTasks
<1>3. CASE t.steps = <<>>
  BY <1>3, StepsAre DEF TaskDone
<1>4. CASE t.steps # <<>>
  BY <1>2, <1>4, LastStepEndsTask
<1> QED
  BY <1>3, <1>4

\* The final operation mounts every task, so that its end is the end of all.
LEMMA SuccessFollows == BuildInv => SuccessIsComplete
<1> SUFFICES ASSUME BuildInv, build = "succeeded" PROVE SuccessIsComplete
  BY DEF SuccessIsComplete
<1>1. /\ pc = "done" /\ Collect \in DOMAIN status /\ status[Collect] = "done"
      /\ \A u \in llb[Collect].inputs : StatusOf(u) = "done"
  BY DEF BuildInv, OnlySubmitted, SuccessMeansRootDone, InputsDone, StatusOf
<1>2. ASSUME NEW t \in Elements(run.tasks), Included(t) PROVE TaskDone("task", t)
  <2>1. StatusOf(LastStep("task", t)) = "done"
    BY <1>1, <1>2 DEF BuildInv, GraphInv, RootEdges, RegularTasks
  <2>2. t.steps # <<>>
    BY <1>1, <1>2 DEF BuildInv, GraphInv, NoneForgotten, TasksInGraph, TasksStage, RegularTasks
  <2> QED
    BY <2>1, <2>2, LastStepEndsTask
<1>3. ASSUME NEW t \in Elements(run.tasks), ~Included(t) PROVE ~TaskStarted("task", t)
  <2> SUFFICES ASSUME TaskStarted("task", t) PROVE FALSE
    OBVIOUS
  <2>1. PICK k \in 1..Len(t.steps) : StepOf("task", t, k) \in DOMAIN llb
    BY StartedStep
  <2>2. t.name \in DOMAIN tasks
    BY <1>1, <2>1 DEF BuildInv, GraphInv, OnlyTranslated, TasksStage, RegularTasks
  <2> QED
    BY <1>1, <1>3, <2>2 DEF BuildInv, GraphInv, TasksInGraph, TasksStage, RegularTasks
<1>4. ASSUME NEW f \in Elements(run.finally) PROVE TaskDone("finally", f)
  <2>1. StatusOf(LastStep("finally", f)) = "done"
    BY <1>1 DEF BuildInv, GraphInv, RootEdges, FinallyTasks
  <2>2. f.steps # <<>>
    BY <1>1 DEF BuildInv, GraphInv, NoneForgotten, FinallyInGraph, TasksStage, FinallyTasks
  <2> QED
    BY <2>1, <2>2, LastStepEndsTask
<1> QED
  BY <1>2, <1>3, <1>4 DEF SuccessIsComplete

-----------------------------------------------------------------------------
(* What fails a build, and what its results hold: the least task, or the    *)
(* least step, that makes an exception.                                    *)

\* The order of the naturals is well founded.
Less == {p \in Nat \X Nat : p[1] < p[2]}

\* There is no end to going down in it.
LEMMA LessIsWellFounded == IsWellFoundedOn(Less, Nat)
<1>1. Less = OpToRel(<, Nat)
  BY Zenon DEF OpToRel, Less
<1> QED
  BY <1>1, NatLessThanWellFounded, Zenon

\* LEAST NUMBER PRINCIPLE.  What holds of some natural holds of a least one: the
\* first task, or the first step, that makes an exception.
LEMMA LeastNatural ==
  ASSUME NEW S \in SUBSET Nat, S # {}
  PROVE  \E m \in S : \A n \in S : m <= n
<1>1. PICK m \in S : \A n \in S : <<n, m>> \notin Less
  BY LessIsWellFounded, WFMin, Zenon
<1>2. ASSUME NEW n \in S, n < m PROVE FALSE
  <2>1. <<n, m>> \in Nat \X Nat /\ <<n, m>>[1] < <<n, m>>[2]
    BY <1>2
  <2>2. <<n, m>> \in Less
    BY <2>1, Zenon DEF Less
  <2> QED
    BY <2>2, <1>1
<1> QED
  BY <1>1, <1>2, SMT

-----------------------------------------------------------------------------
(* The operations of a build, and what the statuses of a task may be.      *)

ListOf(kind) == IF kind = "task" THEN run.tasks ELSE run.finally

\* A vertex is step k of the i-th task of its kind.
IsStep(v, kind, i, k) ==
  /\ kind \in {"task", "finally"}
  /\ i \in DOMAIN ListOf(kind)
  /\ k \in 1..Len(ListOf(kind)[i].steps)
  /\ v = StepOf(kind, ListOf(kind)[i], k)

\* What is built is the final operation and steps of tasks that were translated,
\* each with the operation its task declares.
LEMMA BuiltOperation ==
  ASSUME BuildInv, pc = "done", NEW v \in DOMAIN llb
  PROVE  \/ v = Collect /\ llb[v] = DeclaredCollectOp(run)
         \/ \E kind, i, k :
              /\ IsStep(v, kind, i, k)
              /\ llb[v] = DeclaredStepOp(run, kind, ListOf(kind)[i], k)
              /\ kind = "task" => Included(run.tasks[i])
<1>1. pc \in TasksStage /\ OnlyDeclared /\ OpsAsDeclared /\ TasksInGraph
  BY DEF TasksStage, BuildInv, DeclaredInv, GraphInv
<1>2. CASE v = Collect
  BY <1>1, <1>2 DEF OpsAsDeclared
<1>3. ASSUME NEW t \in RegularTasks, t.name \in DOMAIN tasks,
             NEW k \in 1..Len(t.steps), v = StepOf("task", t, k)
      PROVE  \E i : /\ IsStep(v, "task", i, k)
                    /\ llb[v] = DeclaredStepOp(run, "task", ListOf("task")[i], k)
                    /\ Included(run.tasks[i])
  <2>1. PICK i \in DOMAIN run.tasks : t = run.tasks[i]
    BY DEF RegularTasks, Elements
  <2>2. Included(t) /\ llb[v] = DeclaredStepOp(run, "task", t, k)
    BY <1>1, <1>3 DEF TasksInGraph, OpsAsDeclared
  <2>3. ListOf("task") = run.tasks
    BY DEF ListOf
  <2>4. IsStep(v, "task", i, k)
    BY <1>3, <2>1, <2>3 DEF IsStep
  <2> QED
    BY <2>1, <2>2, <2>3, <2>4
<1>4. ASSUME NEW f \in FinallyTasks, f.name \in DOMAIN finallyTasks,
             NEW k \in 1..Len(f.steps), v = StepOf("finally", f, k)
      PROVE  \E i : /\ IsStep(v, "finally", i, k)
                    /\ llb[v] = DeclaredStepOp(run, "finally", ListOf("finally")[i], k)
  <2>1. PICK i \in DOMAIN run.finally : f = run.finally[i]
    BY DEF FinallyTasks, Elements
  <2>2. llb[v] = DeclaredStepOp(run, "finally", f, k)
    BY <1>1, <1>4 DEF OpsAsDeclared
  <2>3. ListOf("finally") = run.finally
    BY DEF ListOf
  <2>4. IsStep(v, "finally", i, k)
    BY <1>4, <2>1, <2>3 DEF IsStep
  <2> QED
    BY <2>1, <2>2, <2>3, <2>4
<1> QED
  BY <1>1, <1>2, <1>3, <1>4 DEF OnlyDeclared

\* A task of the run is a task, its list numbered from 1 and its steps too.
LEMMA ListsAre ==
  ASSUME BuildInv, NEW kind \in {"task", "finally"}, NEW i \in DOMAIN ListOf(kind)
  PROVE  /\ i \in Nat \ {0}
         /\ ListOf(kind)[i] \in PipelineTask
         /\ ListOf(kind)[i] \in Elements(ListOf(kind))
         /\ ListOf(kind)[i].steps \in Seq(Step)
<1>1. run \in PipelineRun
  BY DEF BuildInv, TypeOK, TranslatorTypeOK
<1>2. ListOf(kind) \in Seq(PipelineTask)
  BY <1>1 DEF PipelineRun, ListOf
<1>3. i \in Nat \ {0} /\ ListOf(kind)[i] \in PipelineTask
  BY <1>2
<1> QED
  BY <1>3 DEF Elements, PipelineTask

\* ONERROR, from the operations declared: only the exit code of a step that masks
\* it is ignored, and the final operation masks its own.
LEMMA OnlyStopFails == BuildInv => OnlyStopAndFailFails
<1> SUFFICES ASSUME BuildInv, build = "failed", DOMAIN status # {},
                    \A v \in DOMAIN status : status[v] # "broken"
             PROVE  \E kind \in {"task", "finally"} :
                      \E t \in Elements(ListOf(kind)) :
                        \E i \in DOMAIN t.steps :
                          /\ \/ t.steps[i].onError = "stopAndFail"
                             \/ t.steps[i].form = "args"
                          /\ StatusOf(<<kind, t.name, i>>) = "failed"
  BY DEF OnlyStopAndFailFails, ListOf
<1>1. PICK v \in DOMAIN status : status[v] = "failed"
  BY DEF BuildInv, StatusInv
<1>2. pc = "done" /\ v \in DOMAIN llb /\ llb[v].args /\ ~llb[v].ignores
  BY <1>1 DEF BuildInv, StatusInv, OnlySubmitted, TypeOK
<1>3. v # Collect
  BY <1>2, BuiltOperation DEF DeclaredCollectOp, IsStep, StepOf, Collect
<1>4. PICK kind, i, k : /\ IsStep(v, kind, i, k)
                        /\ llb[v] = DeclaredStepOp(run, kind, ListOf(kind)[i], k)
  BY <1>2, <1>3, BuiltOperation
<1> DEFINE t == ListOf(kind)[i]
<1>5. /\ kind \in {"task", "finally"} /\ t \in Elements(ListOf(kind))
      /\ k \in DOMAIN t.steps /\ t.steps[k] \in Step
      /\ v = <<kind, t.name, k>>
  BY <1>4, ListsAre DEF IsStep, StepOf
<1>6. t.steps[k].form # "none" /\ ~IgnoresExit(t, t.steps[k])
  <2>1. /\ DeclaredStepOp(run, kind, t, k).args = (t.steps[k].form # "none")
        /\ DeclaredStepOp(run, kind, t, k).ignores = IgnoresExit(t, t.steps[k])
    BY DEF DeclaredStepOp, StepOp
  <2> QED
    BY <1>2, <1>4, <2>1
<1>7. t.steps[k].onError = "stopAndFail" \/ t.steps[k].form = "args"
  BY <1>5, <1>6 DEF Step, Form, IgnoresExit, Wrapped
<1>8. StatusOf(<<kind, t.name, k>>) = "failed"
  BY <1>1, <1>5 DEF StatusOf
<1> HIDE DEF t
<1> QED
  BY <1>5, <1>7, <1>8

\* A run is not named like one of its tasks, or binds no workspace "results" to a
\* cache directory: <run>/<workspace> is then no task's <task>/results.
NamesApart(r) ==
  \A t \in Elements(r.tasks) : t.name = r.name => "results" \notin CacheBound(r)

\* The length of the id of a cache directory, and the names in those of two.
LEMMA DirShapes ==
  ASSUME NEW n \in STRING, NEW w \in STRING
  PROVE  /\ Len(ResultsDir("task", n)) = 2
         /\ ResultsDir("task", n)[1] = n /\ ResultsDir("task", n)[2] = "results"
         /\ Len(ResultsDir("finally", n)) = 3
         /\ Len(CacheName("task", n) \o <<"volume", w>>) = 3
         /\ Len(CacheName("finally", n) \o <<"volume", w>>) = 4
         /\ Len(<<n, w>>) = 2
<1> DEFINE S == STRING \cup {"finally", "results", "volume"}
<1>0. /\ \A T : \A x \in T : <<x>> \in Seq(T)
      /\ \A T : \A x, y \in T : <<x, y>> \in Seq(T)
      /\ \A x : Len(<<x>>) = 1 /\ <<x>>[1] = x
      /\ \A x, y : Len(<<x, y>>) = 2 /\ <<x, y>>[1] = x /\ <<x, y>>[2] = y
  OBVIOUS
<1>2. /\ CacheName("task", n) = <<n>>
      /\ CacheName("finally", n) = <<"finally", n>>
  BY DEF CacheName
<1>3. n \in S /\ w \in S /\ "results" \in S /\ "volume" \in S /\ "finally" \in S
  OBVIOUS
<1> HIDE DEF S
<1>4. \A p, q \in Seq(S) :
        /\ Len(p \o q) = Len(p) + Len(q)
        /\ \A i \in 1..Len(p) : (p \o q)[i] = p[i]
        /\ \A i \in 1..Len(q) : (p \o q)[Len(p) + i] = q[i]
  OBVIOUS
<1>5. /\ Len(<<n>> \o <<"results">>) = 2
      /\ (<<n>> \o <<"results">>)[1] = n /\ (<<n>> \o <<"results">>)[2] = "results"
  BY <1>0, <1>3, <1>4
<1>6. /\ Len(<<"finally", n>> \o <<"results">>) = 3
      /\ Len(<<n>> \o <<"volume", w>>) = 3
      /\ Len(<<"finally", n>> \o <<"volume", w>>) = 4
  BY <1>0, <1>3, <1>4
<1> QED
  BY <1>0, <1>2, <1>5, <1>6 DEF ResultsDir

\* The task whose results a step that runs has mounted is done.
LEMMA MountedTaskIsDone ==
  ASSUME BuildInv, NEW v \in DOMAIN status, status[v] = "running",
         NEW kind, NEW i, NEW k, IsStep(v, kind, i, k),
         NEW b \in Before(run, kind, ListOf(kind)[i])
  PROVE  b \in Elements(run.tasks) /\ TaskDone("task", b)
<1> DEFINE t == ListOf(kind)[i]
<1>1. /\ b \in Elements(run.tasks) /\ Included(b)
      /\ kind = "finally" \/ b.name \in t.runAfter
  BY DEF Before, IncludedTasks, Included
<1>2. Started(v)
  BY DEF Started, StatusOf
<1>3. TaskStarted(kind, t)
  BY <1>2, StepsAre DEF TaskStarted, IsStep
<1>4. t \in Elements(ListOf(kind)) /\ kind \in {"task", "finally"}
  BY ListsAre DEF IsStep
<1>5. CASE kind = "task"
  BY <1>1, <1>3, <1>4, <1>5, RunAfterFollows DEF RunAfterOrder, ListOf
<1>6. CASE kind = "finally"
  BY <1>1, <1>3, <1>4, <1>6, FinallyFollows DEF FinallyLast, ListOf
<1> QED
  BY <1>1, <1>4, <1>5, <1>6

\* Once the final operation may run, every task is done.
LEMMA AllDoneAtCollect ==
  ASSUME BuildInv, pc = "done", NEW u, NEW kind, NEW i, NEW k, IsStep(u, kind, i, k),
         kind = "task" => Included(run.tasks[i]),
         \A w \in llb[Collect].inputs : StatusOf(w) = "done"
  PROVE  TaskDone(kind, ListOf(kind)[i])
<1> DEFINE t == ListOf(kind)[i]
<1>1. /\ kind \in {"task", "finally"} /\ t \in Elements(ListOf(kind))
      /\ t.steps \in Seq(Step) /\ k \in 1..Len(t.steps)
  BY ListsAre DEF IsStep
<1>2. t.steps # <<>>
  BY <1>1
<1>3. LastStep(kind, t) \in llb[Collect].inputs
  BY <1>1 DEF BuildInv, GraphInv, RootEdges, RegularTasks, FinallyTasks, ListOf
<1> QED
  BY <1>1, <1>2, <1>3, LastStepEndsTask DEF ListOf

\* The directory of results a step reads is written by the steps of a task that
\* is done, and of no other.
LEMMA ResultsFollow == BuildInv /\ NamesApart(run) => ResultsComplete
<1> SUFFICES ASSUME BuildInv, NamesApart(run),
                    NEW v \in DOMAIN status, status[v] = "running",
                    NEW u \in DOMAIN status,
                    NEW d \in llb[u].writes, d \in llb[v].reads
             PROVE  status[u] = "done"
  BY DEF ResultsComplete
<1>1. /\ pc = "done" /\ u \in DOMAIN llb /\ v \in DOMAIN llb
      /\ run \in PipelineRun /\ TektonValid(run)
  BY DEF BuildInv, OnlySubmitted, TypeOK, TranslatorTypeOK, GraphInv, ValidStage, TasksStage
<1>2. ~(u = Collect /\ llb[u] = DeclaredCollectOp(run))
  BY DEF DeclaredCollectOp
<1>3. PICK ku, iu, mu : /\ IsStep(u, ku, iu, mu)
                        /\ llb[u] = DeclaredStepOp(run, ku, ListOf(ku)[iu], mu)
                        /\ ku = "task" => Included(run.tasks[iu])
  BY <1>1, <1>2, BuiltOperation
<1> DEFINE t == ListOf(ku)[iu]
<1>4. /\ ku \in {"task", "finally"} /\ t \in Elements(ListOf(ku)) /\ t \in PipelineTask
      /\ mu \in 1..Len(t.steps) /\ u = StepOf(ku, t, mu) /\ t.steps \in Seq(Step)
  BY <1>3, ListsAre DEF IsStep
<1>5. TaskDone(ku, t) => status[u] = "done"
  BY <1>4, StepsAre DEF TaskDone, StatusOf
<1>6. CASE v = Collect
  <2>1. \A w \in llb[Collect].inputs : StatusOf(w) = "done"
    BY <1>6 DEF BuildInv, InputsDone, OnlySubmitted, StatusOf
  <2> QED
    BY <1>1, <1>3, <1>5, <2>1, AllDoneAtCollect
<1>7. CASE v # Collect
  <2>1. PICK kv, iv, mv : /\ IsStep(v, kv, iv, mv)
                          /\ llb[v] = DeclaredStepOp(run, kv, ListOf(kv)[iv], mv)
    BY <1>1, <1>7, BuiltOperation
  <2>2. PICK b \in Before(run, kv, ListOf(kv)[iv]) : d = ResultsDir("task", b.name)
    BY <2>1 DEF DeclaredStepOp, StepOp, ResultsDirs
  <2>3. b \in Elements(run.tasks) /\ TaskDone("task", b)
    BY <2>1, <2>2, MountedTaskIsDone
  <2>4. b.name \in STRING /\ t.name \in STRING /\ run.name \in STRING
    <3>1. b \in PipelineTask /\ run.name \in STRING
      BY <1>1, <2>3, TasksAreTasks DEF PipelineRun
    <3> HIDE DEF t
    <3> QED
      BY <1>4, <3>1 DEF PipelineTask
  <2>5. Len(d) = 2 /\ d[1] = b.name /\ d[2] = "results"
    BY <2>2, <2>4, DirShapes
  <2>6. \/ d = ResultsDir(ku, t.name)
        \/ \E w \in t.workspaces \cap CacheBound(run) : d = <<run.name, w>>
        \/ \E w \in t.steps[mu].volumes : d = CacheName(ku, t.name) \o <<"volume", w>>
    <3>1. llb[u].writes = CacheDirsOf(ku, t, mu, DeclaredDirs(run, t))
      BY <1>3 DEF DeclaredStepOp, StepOp
    <3>2. d \in CacheDirsOf(ku, t, mu, DeclaredDirs(run, t))
      BY <3>1
    <3> QED
      BY <3>2 DEF CacheDirsOf, DeclaredDirs
  <2>7. CASE d = ResultsDir(ku, t.name)
    <3>1. ku = "task" /\ t.name = b.name
      <4>1. /\ Len(ResultsDir("finally", t.name)) = 3
            /\ ResultsDir("task", t.name)[1] = t.name
        BY <2>4, DirShapes
      <4> QED
        BY <1>4, <2>5, <2>7, <4>1
    <3>2. t \in Elements(run.tasks)
      BY <1>4, <3>1 DEF ListOf
    <3>3. t = b
      BY <1>1, <2>3, <3>1, <3>2, NamesIdentify
    <3> QED
      BY <1>5, <2>3, <3>1, <3>3
  <2>8. ASSUME NEW w \in t.workspaces \cap CacheBound(run), d = <<run.name, w>> PROVE FALSE
    <3>1. d[1] = run.name /\ d[2] = w
      BY <2>8
    <3> QED
      BY <2>3, <2>5, <3>1 DEF NamesApart
  <2>9. ASSUME NEW w \in t.steps[mu].volumes, d = CacheName(ku, t.name) \o <<"volume", w>>
        PROVE  FALSE
    <3>1. t.steps[mu] \in Step
      BY <1>4
    <3>2. w \in STRING
      BY <3>1 DEF Step
    <3> QED
      <4>1. /\ Len(CacheName("task", t.name) \o <<"volume", w>>) = 3
            /\ Len(CacheName("finally", t.name) \o <<"volume", w>>) = 4
        BY <2>4, <3>2, DirShapes
      <4> QED
        BY <1>4, <2>5, <2>9, <4>1
  <2> QED
    BY <2>6, <2>7, <2>8, <2>9
<1> QED
  BY <1>6, <1>7

-----------------------------------------------------------------------------
(* The refinement of TektonPipeline: the phase of a task, from its steps.   *)

\* The statuses f of n steps, seen in all, when those before the k-th are done and
\* those after it still to come.
Around(n, k, f, seen) ==
  /\ n \in Nat /\ k \in 1..n
  /\ \A j \in 1..n : (j < k => f[j] = "done") /\ (j > k => f[j] = "pending")
  /\ \A s : s \in seen <=> \E j \in 1..n : s = f[j]

\* The phase of a task with such steps.
LEMMA PhaseAround ==
  ASSUME NEW n, NEW k, NEW f, NEW seen, Around(n, k, f, seen)
  PROVE  /\ f[k] = "pending" => PhaseOf(FALSE, seen) \in {"waiting", "running"}
         /\ f[k] = "running" => PhaseOf(FALSE, seen) = "running"
         /\ f[k] = "done" => PhaseOf(FALSE, seen) \in {"succeeded", "running"}
         /\ f[k] \in {"failed", "broken"} => PhaseOf(FALSE, seen) = "failed"
<1> DEFINE phase == PhaseOf(FALSE, seen)
<1> USE DEF Around
<1>1. /\ f[k] \in seen /\ seen \subseteq {"done", "pending", f[k]}
      /\ k > 1 => "done" \in seen
      /\ k < n => "pending" \in seen
      /\ k = 1 => seen \subseteq {"pending", f[k]}
      /\ k = n => seen \subseteq {"done", f[k]}
  <2>1. \A j \in 1..n : f[j] \in {"done", "pending", f[k]}
    <3> SUFFICES ASSUME NEW j \in 1..n PROVE f[j] \in {"done", "pending", f[k]}
      OBVIOUS
    <3>1. j < k \/ j > k \/ j = k
      OBVIOUS
    <3> QED
      BY <3>1
  <2>2. k > 1 => 1 \in 1..n /\ f[1] = "done"
    OBVIOUS
  <2>3. k < n => n \in 1..n /\ f[n] = "pending"
    OBVIOUS
  <2>4. k = 1 => \A j \in 1..n : f[j] = "pending" \/ j = k
    OBVIOUS
  <2>5. k = n => \A j \in 1..n : f[j] = "done" \/ j = k
    OBVIOUS
  <2> QED
    BY <2>1, <2>2, <2>3, <2>4, <2>5
<1>2. f[k] = "pending" => phase \in {"waiting", "running"}
  BY <1>1 DEF PhaseOf
<1>3. f[k] = "running" => phase = "running"
  BY <1>1 DEF PhaseOf
<1>4. f[k] = "done" => phase \in {"succeeded", "running"}
  BY <1>1 DEF PhaseOf
<1>5. f[k] \in {"failed", "broken"} => phase = "failed"
  BY <1>1 DEF PhaseOf
<1> QED
  BY <1>2, <1>3, <1>4, <1>5

\* Giving up cancels the steps that wait or run.
GivenUp(seen, now) ==
  /\ seen # {} /\ seen \subseteq {"pending", "running", "done", "failed", "broken"}
  /\ \A s : s \in now <=> \E u \in seen : s = IF u \in {"pending", "running"} THEN "canceled" ELSE u

\* It cancels the tasks that wait or run, and leaves the others.
LEMMA PhaseGivenUp ==
  ASSUME NEW seen, NEW now, GivenUp(seen, now)
  PROVE  /\ PhaseOf(FALSE, seen) \in {"waiting", "running"} => PhaseOf(FALSE, now) = "canceled"
         /\ PhaseOf(FALSE, seen) \notin {"waiting", "running"} =>
              PhaseOf(FALSE, now) = PhaseOf(FALSE, seen)
<1>1. /\ "failed" \in now <=> "failed" \in seen
      /\ "broken" \in now <=> "broken" \in seen
      /\ "canceled" \in now <=> "pending" \in seen \/ "running" \in seen
      /\ "done" \in now <=> "done" \in seen
      /\ "canceled" \notin seen /\ now # {}
      /\ now \subseteq {"canceled", "done", "failed", "broken"}
      /\ seen # {} /\ seen \subseteq {"pending", "running", "done", "failed", "broken"}
  BY DEF GivenUp
<1>2. CASE seen \cap {"failed", "broken"} # {}
  BY <1>1, <1>2 DEF PhaseOf
<1>3. CASE /\ seen \cap {"failed", "broken"} = {}
           /\ "pending" \in seen \/ "running" \in seen
  BY <1>1, <1>3 DEF PhaseOf
<1>4. CASE seen = {"done"}
  <2>1. now = {"done"}
    BY <1>1, <1>4
  <2> QED
    BY <1>4, <2>1 DEF PhaseOf
<1> QED
  BY <1>1, <1>2, <1>3, <1>4

\* The vertices under the name of a task are its steps: names identify tasks.
LEMMA VerticesAre ==
  ASSUME run \in PipelineRun, TektonValid(run),
         NEW kind \in {"task", "finally"}, NEW i \in DOMAIN ListOf(kind)
  PROVE  LET t == ListOf(kind)[i]
         IN  Vertices(<<kind, t.name>>) = {StepOf(kind, t, k) : k \in 1..Len(t.steps)}
<1> DEFINE t == ListOf(kind)[i]
<1>0. \A v : v \in VerticesOf(run) <=>
        \/ v = Collect
        \/ \E u \in Elements(run.tasks) : v \in Elements(StepStates("task", u))
        \/ \E u \in Elements(run.finally) : v \in Elements(StepStates("finally", u))
  BY DEF VerticesOf
<1>1. t \in Elements(ListOf(kind))
  BY DEF Elements
<1>2. {StepOf(kind, t, k) : k \in 1..Len(t.steps)} \subseteq Vertices(<<kind, t.name>>)
  <2> SUFFICES ASSUME NEW k \in 1..Len(t.steps)
               PROVE  StepOf(kind, t, k) \in Vertices(<<kind, t.name>>)
    OBVIOUS
  <2>1. StepOf(kind, t, k) \in Elements(StepStates(kind, t))
    BY StepsAre
  <2>2. StepOf(kind, t, k) \in VerticesOf(run)
    <3>1. CASE kind = "task"
      BY <1>0, <1>1, <2>1, <3>1 DEF ListOf
    <3>2. CASE kind = "finally"
      BY <1>0, <1>1, <2>1, <3>2 DEF ListOf
    <3> QED
      BY <3>1, <3>2
  <2> QED
    BY <2>2 DEF Vertices, StepOf
<1>3. ASSUME NEW v \in Vertices(<<kind, t.name>>)
      PROVE  v \in {StepOf(kind, t, k) : k \in 1..Len(t.steps)}
  <2>1. v \in VerticesOf(run) /\ v[1] = kind /\ v[2] = t.name
    BY <1>3 DEF Vertices
  <2>2. v # Collect
    BY <2>1 DEF Collect
  <2>3. PICK other \in {"task", "finally"}, u \in Elements(run.tasks) \cup Elements(run.finally) :
          /\ u \in Elements(IF other = "task" THEN run.tasks ELSE run.finally)
          /\ v \in Elements(StepStates(other, u))
    <3>1. CASE \E u \in Elements(run.tasks) : v \in Elements(StepStates("task", u))
      BY <3>1
    <3>2. CASE \E u \in Elements(run.finally) : v \in Elements(StepStates("finally", u))
      BY <3>2
    <3> QED
      BY <1>0, <2>1, <2>2, <3>1, <3>2
  <2>4. PICK k \in 1..Len(u.steps) : v = StepOf(other, u, k)
    BY <2>3, StepsAre
  <2>5. other = kind /\ u.name = t.name
    BY <2>1, <2>4 DEF StepOf
  <2>6. u = t
    BY <1>1, <2>3, <2>5, NamesIdentify DEF ListOf
  <2> QED
    BY <2>4, <2>5, <2>6
<1> QED
  BY <1>2, <1>3

\* A build has all the steps of each task that is not skipped: the final operation
\* mounts the last of them, and each mounts the one before.
LEMMA AllStepsBuilt ==
  ASSUME BuildInv, DOMAIN status # {},
         NEW kind \in {"task", "finally"}, NEW i \in DOMAIN ListOf(kind),
         kind = "task" => Included(run.tasks[i])
  PROVE  LET t == ListOf(kind)[i]
         IN  /\ t.steps \in Seq(Step) /\ Len(t.steps) \in 1..Len(t.steps)
             /\ \A k \in 1..Len(t.steps) : StepOf(kind, t, k) \in DOMAIN status
<1> DEFINE t == ListOf(kind)[i]
<1>1. /\ t.steps \in Seq(Step) /\ t \in PipelineTask /\ t \in Elements(ListOf(kind))
      /\ pc = "done" /\ pc \in TasksStage /\ Collect \in DOMAIN status
      /\ \A v \in DOMAIN status : llb[v].inputs \subseteq DOMAIN status /\ v \in DOMAIN llb
  BY ListsAre DEF BuildInv, OnlySubmitted, TasksStage, TypeOK
<1>2. t.steps # <<>>
  BY <1>1 DEF BuildInv, GraphInv, NoneForgotten, TasksInGraph, FinallyInGraph, RegularTasks,
     FinallyTasks, ListOf
<1>3. Len(t.steps) \in 1..Len(t.steps)
  BY <1>1, <1>2
<1>4. LastStep(kind, t) \in llb[Collect].inputs
  BY <1>1 DEF BuildInv, GraphInv, RootEdges, RegularTasks, FinallyTasks, ListOf
<1>5. ASSUME NEW k \in 1..Len(t.steps), StepOf(kind, t, k) \notin DOMAIN status PROVE FALSE
  <2> DEFINE D == {d \in Nat : /\ d < Len(t.steps)
                               /\ StepOf(kind, t, Len(t.steps) - d) \notin DOMAIN status}
  <2>0. Len(t.steps) \in Nat /\ k \in Nat /\ k <= Len(t.steps) /\ k >= 1
    BY <1>1
  <2>1. Len(t.steps) - k \in Nat /\ Len(t.steps) - (Len(t.steps) - k) = k
        /\ Len(t.steps) - k < Len(t.steps)
    BY <2>0
  <2>2. Len(t.steps) - k \in D
    BY <1>5, <2>1
  <2>3. PICK d \in D : \A e \in D : d <= e
    BY <2>2, LeastNatural
  <2>4. d # 0
    <3>1. StepOf(kind, t, Len(t.steps)) \in DOMAIN status
      BY <1>1, <1>4 DEF LastStep
    <3> QED
      BY <2>0, <3>1
  <2>5. d - 1 \notin D /\ d - 1 \in Nat /\ d - 1 < Len(t.steps)
    BY <2>0, <2>3, <2>4
  <2> DEFINE m == Len(t.steps) - (d - 1)
  <2>6. StepOf(kind, t, m) \in DOMAIN status
    BY <2>5
  <2>7. m \in DOMAIN t.steps /\ m > 1 /\ m - 1 = Len(t.steps) - d
    BY <1>1, <2>0, <2>3, <2>4
  <2>8. StepOf(kind, t, m - 1) \in llb[StepOf(kind, t, m)].inputs
    <3> HIDE DEF m
    <3> QED
      BY <1>1, <2>6, <2>7, PreviousIsMounted DEF ListOf
  <2>9. StepOf(kind, t, m - 1) \in DOMAIN status
    BY <1>1, <2>6, <2>8
  <2> QED
    BY <2>3, <2>7, <2>9
<1> QED
  BY <1>1, <1>3, <1>5

\* A task that is built is not skipped, and one that is not built is.
LEMMA SkippedAre ==
  ASSUME BuildInv, pc = "done", NEW i \in DOMAIN run.tasks
  PROVE  run.tasks[i].name \in skippedTasks <=> ~Included(run.tasks[i])
<1>1. skippedTasks = {run.tasks[j].name : j \in {k \in DOMAIN run.tasks : ~Included(run.tasks[k])}}
  BY DEF BuildInv, DeclaredInv, TasksInv, TasksSeen, TasksStage
<1>2. run \in PipelineRun /\ TektonValid(run)
  BY DEF BuildInv, TypeOK, TranslatorTypeOK, GraphInv, ValidStage, TasksStage
<1>3. \A j \in DOMAIN run.tasks : run.tasks[j].name = run.tasks[i].name => run.tasks[j] = run.tasks[i]
  BY <1>2, NamesIdentify DEF Elements
<1> QED
  BY <1>1, <1>3

\* The statuses of the steps of a task that is built.
Seen(kind, t) == {status[StepOf(kind, t, k)] : k \in 1..Len(t.steps)}

\* The phase of a task that is built is that of the statuses of its steps.
LEMMA PhaseIs ==
  ASSUME BuildInv, DOMAIN status # {},
         NEW kind \in {"task", "finally"}, NEW i \in DOMAIN ListOf(kind),
         kind = "task" => Included(run.tasks[i]),
         NEW t, t = ListOf(kind)[i]
  PROVE  TaskPhase(<<kind, t.name>>) = PhaseOf(FALSE, Seen(kind, t))
<1> DEFINE id == <<kind, t.name>>
<1>1. pc = "done" /\ run \in PipelineRun /\ TektonValid(run)
  BY DEF BuildInv, OnlySubmitted, TypeOK, TranslatorTypeOK, GraphInv, ValidStage, TasksStage
<1>2. ~(id[1] = "task" /\ id[2] \in skippedTasks)
  BY <1>1, SkippedAre DEF ListOf
<1>3. Vertices(id) = {StepOf(kind, t, k) : k \in 1..Len(t.steps)}
  BY <1>1, VerticesAre
<1>4. \A k \in 1..Len(t.steps) : StatusOf(StepOf(kind, t, k)) = status[StepOf(kind, t, k)]
  BY AllStepsBuilt DEF StatusOf
<1>5. {StatusOf(v) : v \in Vertices(id)} = Seen(kind, t)
  BY <1>3, <1>4 DEF Seen
<1>6. (id[1] = "task" /\ id[2] \in skippedTasks) = FALSE
  BY <1>2
<1> QED
  BY <1>5, <1>6 DEF TaskPhase

\* A task that was skipped.
LEMMA PhaseSkipped ==
  ASSUME BuildInv, pc = "done", NEW i \in DOMAIN run.tasks, ~Included(run.tasks[i])
  PROVE  TaskPhase(<<"task", run.tasks[i].name>>) = "skipped"
BY SkippedAre DEF TaskPhase, PhaseOf

\* A task whose steps are all done has succeeded.
LEMMA PhaseDone ==
  ASSUME BuildInv, DOMAIN status # {},
         NEW kind \in {"task", "finally"}, NEW i \in DOMAIN ListOf(kind),
         kind = "task" => Included(run.tasks[i]), TaskDone(kind, ListOf(kind)[i])
  PROVE  TaskPhase(<<kind, ListOf(kind)[i].name>>) = "succeeded"
<1>0. PICK t : t = ListOf(kind)[i]
  OBVIOUS
<1>1. \A k \in 1..Len(t.steps) : status[StepOf(kind, t, k)] = "done"
  BY <1>0, AllStepsBuilt, StepsAre DEF TaskDone, StatusOf
<1>2. Len(t.steps) \in 1..Len(t.steps)
  BY <1>0, AllStepsBuilt
<1>3. Seen(kind, t) = {"done"}
  BY <1>1, <1>2 DEF Seen
<1>4. TaskPhase(<<kind, t.name>>) = PhaseOf(FALSE, Seen(kind, t))
  BY <1>0, PhaseIs
<1> QED
  BY <1>0, <1>3, <1>4 DEF PhaseOf

\* Before a step that is ready or runs all is done, and after it all is to come.
LEMMA AroundStep ==
  ASSUME BuildInv, build = "solving", NEW v \in DOMAIN status,
         NEW kind, NEW i, NEW k, IsStep(v, kind, i, k),
         kind = "task" => Included(run.tasks[i]),
         Solver!Ready(v) \/ status[v] = "running"
  PROVE  \A j \in 1..Len(ListOf(kind)[i].steps) :
           LET u == StepOf(kind, ListOf(kind)[i], j)
           IN  (j < k => status[u] = "done") /\ (j > k => status[u] = "pending")
<1> DEFINE t == ListOf(kind)[i]
<1>1. /\ kind \in {"task", "finally"} /\ i \in DOMAIN ListOf(kind) /\ t \in Elements(ListOf(kind))
      /\ k \in DOMAIN t.steps /\ v = StepOf(kind, t, k) /\ t.steps \in Seq(Step)
      /\ DOMAIN status # {} /\ pc = "done" /\ v \in DOMAIN llb
  BY ListsAre DEF IsStep, BuildInv, OnlySubmitted, TypeOK
<1>2. \A j \in 1..Len(t.steps) : StepOf(kind, t, j) \in DOMAIN status
  BY <1>1, AllStepsBuilt
<1>3. \A l \in DOMAIN t.steps : \A j \in 1..(l - 1) :
        Started(StepOf(kind, t, l)) => StatusOf(StepOf(kind, t, j)) = "done"
  BY <1>1 DEF BuildInv, StepsInOrder, ListOf, StepOf
<1>4. ASSUME NEW j \in 1..Len(t.steps), j < k PROVE status[StepOf(kind, t, j)] = "done"
  <2>1. CASE status[v] = "running"
    <3>1. Started(StepOf(kind, t, k)) /\ j \in 1..(k - 1)
      BY <1>1, <1>4, <2>1 DEF Started, StatusOf
    <3> QED
      BY <1>1, <1>2, <1>3, <3>1 DEF StatusOf
  <2>2. CASE Solver!Ready(v)
    <3>1. k > 1 /\ k - 1 \in DOMAIN t.steps
      BY <1>1, <1>4
    <3>2. StepOf(kind, t, k - 1) \in llb[v].inputs
      BY <1>1, <3>1, PreviousIsMounted DEF ListOf
    <3>3. status[StepOf(kind, t, k - 1)] = "done"
      BY <2>2, <3>2 DEF Solver!Ready
    <3>4. j = k - 1 \/ j \in 1..((k - 1) - 1)
      BY <1>1, <1>4
    <3>5. Started(StepOf(kind, t, k - 1))
      BY <1>1, <1>2, <3>1, <3>3 DEF Started, StatusOf
    <3> QED
      BY <1>1, <1>2, <1>3, <3>1, <3>3, <3>4, <3>5 DEF StatusOf
  <2> QED
    BY <2>1, <2>2
<1>5. ASSUME NEW j \in 1..Len(t.steps), j > k PROVE status[StepOf(kind, t, j)] = "pending"
  <2>1. j \in DOMAIN t.steps /\ k \in 1..(j - 1)
    BY <1>1, <1>5
  <2>2. status[v] # "done" /\ v \in DOMAIN status
    BY DEF Solver!Ready
  <2>3. ~Started(StepOf(kind, t, j))
    BY <1>1, <1>3, <2>1, <2>2 DEF StatusOf
  <2>4. /\ status[StepOf(kind, t, j)] \in Solver!VertexStatus
        /\ status[StepOf(kind, t, j)] # "canceled"
    BY <1>2, <2>1 DEF BuildInv, TypeOK, StatusInv
  <2> QED
    BY <1>2, <2>3, <2>4 DEF Started, StatusOf, Solver!VertexStatus
<1> QED
  BY <1>4, <1>5

-----------------------------------------------------------------------------
(* What a step of the build is to the tasks.                               *)

\* The tasks of another name see nothing of a step that moves.
LEMMA OthersStay ==
  ASSUME NEW v \in DOMAIN status, NEW s, status' = [status EXCEPT ![v] = s],
         run' = run, skippedTasks' = skippedTasks,
         NEW id, v[1] # id[1] \/ v[2] # id[2]
  PROVE  TaskPhase(id)' = TaskPhase(id)
<1>1. Vertices(id)' = Vertices(id) /\ v \notin Vertices(id)
  BY DEF Vertices
<1>2. \A u \in Vertices(id) : StatusOf(u)' = StatusOf(u)
  BY <1>1 DEF StatusOf
<1>3. {StatusOf(u) : u \in Vertices(id)}' = {StatusOf(u) : u \in Vertices(id)}
  BY <1>1, <1>2
<1> QED
  BY <1>3 DEF TaskPhase

\* The phase of a task after a step of the build.
LEMMA PhaseWillBe ==
  ASSUME BuildInv, DOMAIN status # {}, DOMAIN status' = DOMAIN status,
         run' = run, skippedTasks' = skippedTasks,
         NEW kind \in {"task", "finally"}, NEW i \in DOMAIN ListOf(kind),
         kind = "task" => Included(run.tasks[i]),
         NEW t, t = ListOf(kind)[i]
  PROVE  TaskPhase(<<kind, t.name>>)' = PhaseOf(FALSE, Seen(kind, t)')
<1> DEFINE id == <<kind, t.name>>
<1>1. pc = "done" /\ run \in PipelineRun /\ TektonValid(run)
  BY DEF BuildInv, OnlySubmitted, TypeOK, TranslatorTypeOK, GraphInv, ValidStage, TasksStage
<1>2. ~(id[1] = "task" /\ id[2] \in skippedTasks)
  BY <1>1, SkippedAre DEF ListOf
<1>3. Vertices(id) = {StepOf(kind, t, k) : k \in 1..Len(t.steps)}
  BY <1>1, VerticesAre
<1>4. \A k \in 1..Len(t.steps) : StatusOf(StepOf(kind, t, k))' = status'[StepOf(kind, t, k)]
  BY AllStepsBuilt DEF StatusOf
<1>5. ASSUME NEW a, NEW b
      PROVE  TaskPhase(<<a, b>>)' =
               PhaseOf(a = "task" /\ b \in skippedTasks, {StatusOf(v)' : v \in Vertices(<<a, b>>)})
  <2>1. Vertices(<<a, b>>)' = Vertices(<<a, b>>)
    BY DEF Vertices
  <2> QED
    BY <2>1 DEF TaskPhase
<1>6. {StatusOf(v)' : v \in Vertices(id)} = Seen(kind, t)'
  BY <1>3, <1>4 DEF Seen
<1>7. (kind = "task" /\ t.name \in skippedTasks) = FALSE
  BY <1>2
<1>8. TaskPhase(<<kind, t.name>>)' = PhaseOf(FALSE, {StatusOf(v)' : v \in Vertices(id)})
  BY <1>5, <1>7
<1> QED
  BY <1>6, <1>8

\* A skipped task stays so.
LEMMA SkippedStay ==
  ASSUME BuildInv, pc = "done", run' = run, skippedTasks' = skippedTasks,
         NEW i \in DOMAIN run.tasks, ~Included(run.tasks[i]),
         NEW name, name = run.tasks[i].name
  PROVE  TaskPhase(<<"task", name>>)' = "skipped"
BY SkippedAre DEF TaskPhase, PhaseOf

\* An operation starts, or ends.
Moves(v, s) ==
  /\ status' = [status EXCEPT ![v] = s] /\ run' = run /\ skippedTasks' = skippedTasks
  /\ \/ Solver!Ready(v) /\ s = "running"
     \/ status[v] = "running" /\ s \in {"done", "failed", "broken"}

\* The vertex is a step of the task t, which is built.
IsStepOfTask(v, kind, i, k, t, id) ==
  /\ IsStep(v, kind, i, k) /\ t = ListOf(kind)[i] /\ id = <<kind, t.name>>
  /\ kind = "task" => Included(run.tasks[i])

\* A task runs from the start of its first step to the end of its last, or to the
\* failure of one of them; the steps between are no move of the task.
LEMMA StepMovesTask ==
  ASSUME BuildInv, build = "solving", NEW v \in DOMAIN status, NEW s, Moves(v, s),
         NEW kind, NEW i, NEW k, NEW t, NEW id, IsStepOfTask(v, kind, i, k, t, id)
  PROVE  \/ TaskPhase(id)' = TaskPhase(id)
         \/ Solver!Ready(v) /\ TaskPhase(id) = "waiting" /\ TaskPhase(id)' = "running"
         \/ TaskPhase(id) = "running" /\ TaskPhase(id)' \in {"succeeded", "failed"}
<1> USE DEF Moves, IsStepOfTask
<1> DEFINE n == Len(t.steps)
           old == [j \in 1..n |-> status[StepOf(kind, t, j)]]
           new == [j \in 1..n |-> status'[StepOf(kind, t, j)]]
<1>1. /\ kind \in {"task", "finally"} /\ i \in DOMAIN ListOf(kind) /\ n \in Nat
      /\ k \in 1..n /\ v = StepOf(kind, t, k) /\ DOMAIN status # {}
      /\ DOMAIN status' = DOMAIN status
  BY ListsAre DEF IsStep
<1>2. \A j \in 1..n : (j < k => old[j] = "done") /\ (j > k => old[j] = "pending")
  BY AroundStep
<1>3. old[k] = status[v] /\ new[k] = s /\ \A j \in 1..n : j # k => new[j] = old[j]
  BY <1>1 DEF StepOf
<1>4. \A j \in 1..n : (j < k => new[j] = "done") /\ (j > k => new[j] = "pending")
  <2> HIDE DEF old, new, n
  <2> QED
    BY <1>1, <1>2, <1>3
<1>5. /\ TaskPhase(id) = PhaseOf(FALSE, Seen(kind, t))
      /\ TaskPhase(id)' = PhaseOf(FALSE, Seen(kind, t)')
  BY <1>1, PhaseIs, PhaseWillBe
<1>6. /\ \A x : x \in Seen(kind, t) <=> \E j \in 1..n : x = old[j]
      /\ \A x : x \in Seen(kind, t)' <=> \E j \in 1..n : x = new[j]
  BY DEF Seen
<1> HIDE DEF old, new, n
<1>7. Around(n, k, old, Seen(kind, t)) /\ Around(n, k, new, Seen(kind, t)')
  BY <1>1, <1>2, <1>4, <1>6 DEF Around
<1>8. /\ old[k] = "pending" => TaskPhase(id) \in {"waiting", "running"}
      /\ old[k] = "running" => TaskPhase(id) = "running"
      /\ new[k] = "running" => TaskPhase(id)' = "running"
      /\ new[k] = "done" => TaskPhase(id)' \in {"succeeded", "running"}
      /\ new[k] \in {"failed", "broken"} => TaskPhase(id)' = "failed"
  BY <1>5, <1>7, PhaseAround
<1>9. \/ TaskPhase(id)' = TaskPhase(id)
      \/ Solver!Ready(v) /\ TaskPhase(id) = "waiting" /\ TaskPhase(id)' = "running"
      \/ TaskPhase(id) = "running" /\ TaskPhase(id)' \in {"succeeded", "failed"}
  <2>1. CASE Solver!Ready(v) /\ s = "running"
    <3>1. old[k] = "pending" /\ new[k] = "running"
      BY <1>3, <2>1 DEF Solver!Ready
    <3> QED
      BY <1>8, <2>1, <3>1
  <2>2. CASE status[v] = "running" /\ s \in {"done", "failed", "broken"}
    <3>1. old[k] = "running" /\ new[k] \in {"done", "failed", "broken"}
      BY <1>3, <2>2
    <3> QED
      BY <1>8, <3>1
  <2> QED
    BY <2>1, <2>2
<1> QED
  BY <1>9

\* The tasks of a run are those of its two lists.
LEMMA IdIs ==
  ASSUME NEW id \in TaskIdsOf(run)
  PROVE  \E kind \in {"task", "finally"} : \E i \in DOMAIN ListOf(kind) :
           id = <<kind, ListOf(kind)[i].name>>
<1>1. CASE id \in {"task"} \X Names(run.tasks)
  BY <1>1 DEF Names, Elements, ListOf
<1>2. CASE id \in {"finally"} \X Names(run.finally)
  BY <1>2 DEF Names, Elements, ListOf
<1> QED
  BY <1>1, <1>2 DEF TaskIdsOf

\* Each task of the two lists is a task of the run.
LEMMA IsId ==
  ASSUME NEW kind \in {"task", "finally"}, NEW i \in DOMAIN ListOf(kind)
  PROVE  <<kind, ListOf(kind)[i].name>> \in TaskIdsOf(run)
BY DEF TaskIdsOf, Names, Elements, ListOf

\* One task moves, and the others stay.
LEMMA PhasesMove ==
  ASSUME run' = run, NEW id \in TaskIdsOf(run), NEW p, TaskPhase(id)' = p,
         \A o \in TaskIdsOf(run) \ {id} : TaskPhase(o)' = TaskPhase(o)
  PROVE  Phases' = [Phases EXCEPT ![id] = p]
<1>1. Phases' = [o \in TaskIdsOf(run) |-> TaskPhase(o)']
  BY DEF Phases
<1>2. \A o \in TaskIdsOf(run) : TaskPhase(o)' = IF o = id THEN p ELSE TaskPhase(o)
  OBVIOUS
<1> QED
  BY <1>1, <1>2 DEF Phases

\* Giving up, for each task.
LEMMA PhasesGivenUp ==
  ASSUME BuildInv, build = "solving", Solver!GiveUp, run' = run, skippedTasks' = skippedTasks,
         NEW id \in TaskIdsOf(run)
  PROVE  TaskPhase(id)' = IF TaskPhase(id) \in {"waiting", "running"} THEN "canceled"
                          ELSE TaskPhase(id)
<1>1. PICK kind, i, t :
        /\ kind \in {"task", "finally"} /\ i \in DOMAIN ListOf(kind)
        /\ t = ListOf(kind)[i] /\ id = <<kind, t.name>>
  BY IdIs
<1>2. /\ pc = "done" /\ DOMAIN status # {}
      /\ status' = [v \in DOMAIN status |->
                      IF status[v] \in {"pending", "running"} THEN "canceled" ELSE status[v]]
      /\ DOMAIN status' = DOMAIN status
      /\ \A v \in DOMAIN status : status[v] \in {"pending", "running", "done", "failed", "broken"}
  BY DEF BuildInv, OnlySubmitted, TypeOK, StatusInv, Solver!VertexStatus, Solver!GiveUp
<1>3. CASE kind = "task" /\ ~Included(run.tasks[i])
  <2>1. i \in DOMAIN run.tasks /\ t = run.tasks[i] /\ id = <<"task", t.name>>
    BY <1>1, <1>3 DEF ListOf
  <2>2. TaskPhase(id) = "skipped"
    BY <1>2, <1>3, <2>1, PhaseSkipped
  <2>3. TaskPhase(id)' = "skipped"
    BY <1>2, <1>3, <2>1, SkippedStay
  <2> QED
    BY <2>2, <2>3
<1>4. CASE kind = "task" => Included(run.tasks[i])
  <2>1. /\ TaskPhase(id) = PhaseOf(FALSE, Seen(kind, t))
        /\ TaskPhase(id)' = PhaseOf(FALSE, Seen(kind, t)')
    BY <1>1, <1>2, <1>4, PhaseIs, PhaseWillBe
  <2>2. /\ Len(t.steps) \in 1..Len(t.steps)
        /\ \A k \in 1..Len(t.steps) : StepOf(kind, t, k) \in DOMAIN status
    BY <1>1, <1>2, <1>4, AllStepsBuilt
  <2>3. /\ Seen(kind, t) # {}
        /\ Seen(kind, t) \subseteq {"pending", "running", "done", "failed", "broken"}
    BY <1>2, <2>2 DEF Seen
  <2>4. /\ \A k \in 1..Len(t.steps) :
             status'[StepOf(kind, t, k)] =
               IF status[StepOf(kind, t, k)] \in {"pending", "running"} THEN "canceled"
               ELSE status[StepOf(kind, t, k)]
    BY <1>2, <2>2
  <2>5. GivenUp(Seen(kind, t), Seen(kind, t)')
    BY <2>3, <2>4 DEF GivenUp, Seen
  <2> QED
    BY <2>1, <2>5, PhaseGivenUp
<1> QED
  BY <1>1, <1>3, <1>4

\* Once all that the final operation mounts is done, every task is over.
LEMMA AllOver ==
  ASSUME BuildInv, DOMAIN status # {},
         \A w \in llb[Collect].inputs : StatusOf(w) = "done",
         NEW id \in TaskIdsOf(run)
  PROVE  TaskPhase(id) \in {"succeeded", "skipped"}
<1>1. PICK kind, i :
        /\ kind \in {"task", "finally"} /\ i \in DOMAIN ListOf(kind)
        /\ id = <<kind, ListOf(kind)[i].name>>
  BY IdIs
<1>2. pc = "done"
  BY DEF BuildInv, OnlySubmitted
<1>3. CASE kind = "task" /\ ~Included(run.tasks[i])
  BY <1>1, <1>2, <1>3, PhaseSkipped DEF ListOf
<1>4. CASE kind = "task" => Included(run.tasks[i])
  <2> DEFINE t == ListOf(kind)[i]
             u == StepOf(kind, t, Len(t.steps))
  <2>1. IsStep(u, kind, i, Len(t.steps))
    BY <1>1, <1>2, <1>4, AllStepsBuilt DEF IsStep
  <2>2. TaskDone(kind, t)
    BY <1>2, <1>4, <2>1, AllDoneAtCollect
  <2> QED
    BY <1>1, <1>4, <2>2, PhaseDone
<1> QED
  BY <1>3, <1>4

\* A task whose step is ready to run may start: the tasks it comes after are over.
LEMMA ReadyMayStart ==
  ASSUME BuildInv, build = "solving", NEW v \in DOMAIN status, Solver!Ready(v),
         NEW kind, NEW i, NEW k, IsStep(v, kind, i, k),
         NEW t, t = ListOf(kind)[i], kind = "task" => Included(t)
  PROVE  Abstract!MayStart(<<kind, t.name>>)
<1> DEFINE id == <<kind, t.name>>
<1>1. /\ kind \in {"task", "finally"} /\ i \in DOMAIN ListOf(kind) /\ t \in Elements(ListOf(kind))
      /\ k \in 1..Len(t.steps) /\ v = StepOf(kind, t, k)
      /\ pc = "done" /\ pc \in TasksStage /\ v \in DOMAIN llb /\ DOMAIN status # {}
  BY ListsAre DEF IsStep, BuildInv, OnlySubmitted, TypeOK, TasksStage
<1>2. \A u \in llb[v].inputs : StatusOf(u) = "done"
  BY <1>1 DEF Solver!Ready, StatusOf, BuildInv, OnlySubmitted
<1>3. ASSUME NEW j \in DOMAIN run.tasks, Included(run.tasks[j]),
             LastStep("task", run.tasks[j]) \in llb[v].inputs
      PROVE  TaskPhase(<<"task", run.tasks[j].name>>) = "succeeded"
  <2>1. ListOf("task") = run.tasks /\ run.tasks[j] \in Elements(run.tasks)
    BY DEF ListOf, Elements
  <2>2. run.tasks[j].steps # <<>>
    BY <1>1, <1>3, <2>1 DEF BuildInv, GraphInv, NoneForgotten, TasksInGraph, RegularTasks
  <2>3. TaskDone("task", run.tasks[j])
    BY <1>2, <1>3, <2>1, <2>2, LastStepEndsTask
  <2> QED
    BY <1>1, <1>3, <2>1, <2>3, PhaseDone
<1>4. CASE kind = "task"
  <2>1. t \in Elements(run.tasks) /\ i \in DOMAIN run.tasks /\ t = run.tasks[i]
    BY <1>1, <1>4 DEF ListOf
  <2>2. MountsEarlier(i)
    BY <1>1, <1>4, <2>1 DEF BuildInv, DeclaredInv, TasksInv, TasksSeen
  <2>3. ASSUME NEW a \in t.runAfter
        PROVE  /\ <<"task", a>> \in TaskIdsOf(run)
               /\ TaskPhase(<<"task", a>>) = "succeeded"
    <3>1. PICK j \in 1..(i - 1) : Included(run.tasks[j]) /\ a = run.tasks[j].name
      BY <2>1, <2>2 DEF MountsEarlier
    <3>2. j \in DOMAIN run.tasks
      <4>1. run \in PipelineRun
        BY DEF BuildInv, TypeOK, TranslatorTypeOK
      <4> QED
        BY <2>1, <3>1, <4>1 DEF PipelineRun
    <3>3. LastStep("task", run.tasks[j]) \in llb[v].inputs
      <4>1. run.tasks[j] \in Elements(run.tasks)
        BY <3>2 DEF Elements
      <4> QED
        BY <1>1, <1>4, <2>1, <3>1, <4>1 DEF BuildInv, GraphInv, TaskEdges, RegularTasks
    <3> QED
      BY <1>3, <3>1, <3>2, <3>3, IsId DEF ListOf
  <2>4. ASSUME NEW other \in DOMAIN Phases, Abstract!Regular(other), other[2] \in t.runAfter
        PROVE  Phases[other] \in {"succeeded", "skipped"}
    <3>1. PICK section \in {"task", "finally"} : \E j : other = <<section, j>>
      BY <2>4, IdIs DEF Phases
    <3>2. other = <<"task", other[2]>>
      BY <2>4, <3>1 DEF Abstract!Regular
    <3> QED
      BY <2>3, <2>4, <3>2 DEF Phases
  <2>5. Abstract!Regular(id)
    BY <1>4 DEF Abstract!Regular
  <2>8. Abstract!Declared(id) = {u \in Elements(run.tasks) : u.name = t.name}
    BY <1>4 DEF Abstract!Regular, Abstract!Declared, Abstract!Elements, Elements
  <2>9. t \in Abstract!Declared(id)
    BY <2>1, <2>8
  <2>6. Abstract!EvaluateWhenExpressions(t.when)
    BY <1>4 DEF Included, EvaluateWhenExpressions, EvaluateWhenExpression,
       Abstract!EvaluateWhenExpressions, Abstract!EvaluateWhenExpression
  <2> HIDE DEF id
  <2>7. Abstract!MayStart(id)
    BY <2>4, <2>5, <2>6, <2>9 DEF Abstract!MayStart
  <2> QED
    BY <2>7 DEF id
<1>5. CASE kind = "finally"
  <2>1. t \in Elements(run.finally)
    BY <1>1, <1>5 DEF ListOf
  <2>2. ASSUME NEW other \in DOMAIN Phases, other[1] = "task"
        PROVE  Phases[other] \in {"succeeded", "failed", "skipped"}
    <3>1. other \in TaskIdsOf(run) /\ Phases[other] = TaskPhase(other)
      BY DEF Phases
    <3>2. PICK j : j \in DOMAIN run.tasks /\ other = <<"task", run.tasks[j].name>>
      BY <2>2, <3>1, IdIs DEF ListOf
    <3>3. CASE Included(run.tasks[j])
      <4>1. LastStep("task", run.tasks[j]) \in llb[v].inputs
        <5>1. run.tasks[j] \in Elements(run.tasks)
          BY <3>2 DEF Elements
        <5> QED
          BY <1>1, <1>5, <2>1, <3>3, <5>1 DEF BuildInv, GraphInv, FinallyEdges, RegularTasks,
             FinallyTasks
      <4> QED
        BY <1>3, <3>1, <3>2, <3>3, <4>1
    <3>4. CASE ~Included(run.tasks[j])
      BY <1>1, <3>1, <3>2, <3>4, PhaseSkipped
    <3> QED
      BY <3>3, <3>4
  <2> QED
    BY <1>5, <2>2 DEF Abstract!MayStart, Abstract!Regular, Abstract!Over
<1> QED
  BY <1>1, <1>4, <1>5

-----------------------------------------------------------------------------
(* Each step of the build, as a step of the tasks.                         *)

\* Until an operation starts, a task waits unless it was skipped.
Resting(id, skipped) == IF id[1] = "task" /\ id[2] \in skipped THEN "skipped" ELSE "waiting"

\* The phases before and after a step, while no operation has started.
LEMMA PhasesRest ==
  ASSUME NEW id
  PROVE  /\ (\A v \in DOMAIN status : status[v] = "pending") =>
              TaskPhase(id) = Resting(id, skippedTasks)
         /\ (\A v \in DOMAIN status : status[v] = "pending")' =>
              TaskPhase(id)' = Resting(id, skippedTasks')
<1> DEFINE skipped == id[1] = "task" /\ id[2] \in skippedTasks
<1>1. ASSUME \A v \in DOMAIN status : status[v] = "pending"
      PROVE  TaskPhase(id) = Resting(id, skippedTasks)
  <2>1. {StatusOf(v) : v \in Vertices(id)} \subseteq {"none", "pending"}
    BY <1>1 DEF StatusOf
  <2> QED
    BY <2>1 DEF TaskPhase, PhaseOf, Resting
<1>2. ASSUME (\A v \in DOMAIN status : status[v] = "pending")'
      PROVE  TaskPhase(id)' = Resting(id, skippedTasks')
  <2>1. {StatusOf(v) : v \in Vertices(id)}' \subseteq {"none", "pending"}
    BY <1>2 DEF StatusOf
  <2> QED
    BY <2>1 DEF TaskPhase, PhaseOf, Resting
<1> QED
  BY <1>1, <1>2

\* The initial states: every task waits.
LEMMA AbstractInit == Init => Abstract!Init
<1> SUFFICES ASSUME Init PROVE Abstract!Init
  OBVIOUS
<1>1. /\ skippedTasks = {} /\ build = "idle"
      /\ \A v \in DOMAIN status : status[v] = "pending"
  BY DEF Init, TranslatorInit, EmptyMap
<1>2. \A id : TaskPhase(id) = "waiting"
  BY <1>1, PhasesRest DEF Resting
<1>3. Abstract!TaskIds(run) = TaskIdsOf(run)
  BY DEF Abstract!TaskIds, TaskIdsOf, Abstract!Names, Names, Abstract!Elements, Elements
<1>4. Phases = [id \in Abstract!TaskIds(run) |-> "waiting"]
  BY <1>2, <1>3 DEF Phases
<1>5. Verdict = "none"
  BY <1>1 DEF Verdict
<1> QED
  BY <1>1, <1>4, <1>5 DEF Abstract!Init

\* The order of the list of tasks: no two of the same name.
LEMMA NamesDiffer ==
  ASSUME BuildInv, pc \in TasksStage
  PROVE  \A i, j \in DOMAIN run.tasks : run.tasks[i].name = run.tasks[j].name => i = j
<1>1. /\ run.tasks \in Seq(PipelineTask) /\ run.finally \in Seq(PipelineTask)
      /\ UniqueNames(run)
  BY DEF BuildInv, TypeOK, TranslatorTypeOK, PipelineRun, GraphInv, ValidStage, TektonValid
<1> QED
  BY <1>1, ConcatNames DEF UniqueNames

\* A round that skips a task skips it for the run, and no other step of the
\* translation is seen.
LEMMA AbstractTranslate ==
  ASSUME BuildInv, Translate
  PROVE  [Abstract!Next]_<<run, Phases, Verdict>>
<1>1. /\ TranslatorNext /\ status' = status /\ build' = build /\ run' = run
      /\ pc \notin {"done", "error"}
      /\ SkipTask \/ skippedTasks' = skippedTasks
  BY DEF Translate, TranslatorNext, Validate, Resolve, PanicAtResolver, BindWorkspace,
     WorkspacesBound, SkipTask, RejectTask, PanicAtTask, TranslateTask, TasksTranslated,
     RejectFinally, TranslateFinally, FinallyTranslated, CollectResults, Give, AtTask, AtFinally
<1>2. /\ DOMAIN status = {} /\ build = "idle"
      /\ Verdict = "none" /\ Verdict' = Verdict
  BY <1>1 DEF BuildInv, StatusInv, OnlySubmitted, Verdict
<1>3. \A id : /\ TaskPhase(id) = Resting(id, skippedTasks)
              /\ TaskPhase(id)' = Resting(id, skippedTasks')
  BY <1>1, <1>2, PhasesRest
<1>4. CASE skippedTasks' = skippedTasks
  <2>1. Phases' = Phases
    BY <1>1, <1>3, <1>4 DEF Phases, TaskIdsOf
  <2> QED
    BY <1>1, <1>2, <2>1
<1>5. CASE SkipTask
  <2>1. PICK name : name = CurrentTask.name
    OBVIOUS
  <2> DEFINE id == <<"task", name>>
  <2>2. /\ pc = "tasks" /\ pc \in TasksStage /\ next \in DOMAIN run.tasks
        /\ ~Included(run.tasks[next]) /\ name = run.tasks[next].name
        /\ skippedTasks' = skippedTasks \cup {name}
    BY <1>5, <2>1 DEF SkipTask, AtTask, CurrentTask, TasksStage
  <2>3. id \in TaskIdsOf(run)
    <3>1. ListOf("task") = run.tasks
      BY DEF ListOf
    <3> QED
      BY <2>2, <3>1, IsId
  <2>4. name \notin skippedTasks
    <3>1. skippedTasks = {run.tasks[i].name : i \in {j \in TasksSeen : ~Included(run.tasks[j])}}
      BY <2>2 DEF BuildInv, DeclaredInv, TasksInv
    <3>2. next \notin TasksSeen /\ TasksSeen \subseteq DOMAIN run.tasks
      BY <2>2 DEF TasksSeen, BuildInv, TypeOK, TranslatorTypeOK
    <3> QED
      BY <2>2, <3>1, <3>2, NamesDiffer
  <2>5. /\ Phases[id] = "waiting" /\ TaskPhase(id)' = "skipped"
        /\ \A o \in TaskIdsOf(run) \ {id} : TaskPhase(o)' = TaskPhase(o)
    <3>1. TaskPhase(id) = "waiting" /\ TaskPhase(id)' = "skipped"
      BY <1>3, <2>2, <2>4 DEF Resting
    <3>2. ASSUME NEW o \in TaskIdsOf(run) \ {id} PROVE TaskPhase(o)' = TaskPhase(o)
      <4>1. o[1] = "task" => o[2] # name
        BY <3>2 DEF TaskIdsOf
      <4> QED
        BY <1>3, <2>2, <4>1 DEF Resting
    <3> QED
      BY <2>3, <3>1, <3>2 DEF Phases
  <2>6. Phases' = [Phases EXCEPT ![id] = "skipped"]
    <3> HIDE DEF id
    <3> QED
      BY <1>1, <2>3, <2>5, PhasesMove
  <2>7. Abstract!Move(id, "waiting", "skipped")
    BY <1>1, <1>2, <2>5, <2>6 DEF Abstract!Move
  <2>8. \E t \in Abstract!Declared(id) : ~Abstract!EvaluateWhenExpressions(t.when)
    <3>1. run.tasks[next] \in Abstract!Declared(id)
      BY <2>2 DEF Abstract!Declared, Abstract!Regular, Abstract!Elements
    <3>2. ~Abstract!EvaluateWhenExpressions(run.tasks[next].when)
      BY <2>2 DEF Included, EvaluateWhenExpressions, EvaluateWhenExpression,
         Abstract!EvaluateWhenExpressions, Abstract!EvaluateWhenExpression
    <3> QED
      BY <3>1, <3>2
  <2>9. Abstract!Skip(id)
    BY <2>7, <2>8 DEF Abstract!Skip, Abstract!Regular
  <2>10. id \in DOMAIN Phases
    BY <2>3 DEF Phases
  <2> QED
    BY <2>9, <2>10 DEF Abstract!Next
<1> QED
  BY <1>1, <1>4, <1>5

\* A run that is refused has started no task; one that is submitted, not yet.
LEMMA AbstractSubmit ==
  ASSUME BuildInv, Submit \/ ReturnError
  PROVE  [Abstract!Next]_<<run, Phases, Verdict>>
<1>1. /\ build = "idle" /\ run' = run /\ skippedTasks' = skippedTasks
      /\ \/ build' = "solving" /\ \A v \in DOMAIN status' : status'[v] = "pending"
         \/ build' = "failed" /\ status' = status
  BY DEF Submit, ReturnError, Solver!Solve, translation
<1>2. DOMAIN status = {}
  BY <1>1 DEF BuildInv, OnlySubmitted, EmptyMap
<1>3. \A id : /\ TaskPhase(id) = Resting(id, skippedTasks)
              /\ TaskPhase(id)' = Resting(id, skippedTasks)
  BY <1>1, <1>2, PhasesRest
<1>4. Phases' = Phases
  BY <1>1, <1>3 DEF Phases, TaskIdsOf
<1>5. CASE build' = "solving"
  BY <1>1, <1>4, <1>5 DEF Verdict
<1>6. CASE build' = "failed"
  <2>1. \A id \in DOMAIN Phases : Phases[id] \in {"waiting", "skipped"}
    BY <1>3 DEF Phases, Resting
  <2>2. Verdict = "none" /\ Verdict' = "failed"
    BY <1>1, <1>6 DEF Verdict
  <2>3. Abstract!Refuse
    BY <1>1, <1>4, <2>1, <2>2 DEF Abstract!Refuse
  <2> QED
    BY <2>3 DEF Abstract!Next
<1> QED
  BY <1>1, <1>5, <1>6

\* What a task does when one of its steps starts or ends.
LEMMA AbstractStep ==
  ASSUME BuildInv, build = "solving", NEW v \in DOMAIN status, NEW s,
         Moves(v, s), build' = build
  PROVE  [Abstract!Next]_<<run, Phases, Verdict>>
<1>1. /\ pc = "done" /\ v \in DOMAIN llb /\ Verdict = "none" /\ Verdict' = Verdict
  BY DEF BuildInv, OnlySubmitted, TypeOK, Verdict
<1>2. CASE v = Collect
  <2>1. \A id \in TaskIdsOf(run) : v[1] # id[1]
    BY <1>2 DEF Collect, TaskIdsOf
  <2>2. \A id \in TaskIdsOf(run) : TaskPhase(id)' = TaskPhase(id)
    BY <2>1, OthersStay DEF Moves
  <2>3. Phases' = Phases
    BY <2>2 DEF Phases, TaskIdsOf, Moves
  <2> QED
    BY <1>1, <2>3 DEF Moves
<1>3. CASE v # Collect
  <2>1. PICK kind, i, k : /\ IsStep(v, kind, i, k)
                          /\ kind = "task" => Included(run.tasks[i])
    BY <1>1, <1>3, BuiltOperation
  <2>2. PICK t : t = ListOf(kind)[i]
    OBVIOUS
  <2>3. PICK id : id = <<kind, t.name>>
    OBVIOUS
  <2>4. id \in TaskIdsOf(run) /\ v[1] = id[1] /\ v[2] = id[2]
    BY <2>1, <2>2, <2>3, IsId DEF IsStep, StepOf
  <2>5. \A o \in TaskIdsOf(run) \ {id} : TaskPhase(o)' = TaskPhase(o)
    <3> SUFFICES ASSUME NEW o \in TaskIdsOf(run) \ {id} PROVE TaskPhase(o)' = TaskPhase(o)
      OBVIOUS
    <3>1. v[1] # o[1] \/ v[2] # o[2]
      BY <2>4 DEF TaskIdsOf
    <3> QED
      BY <3>1, OthersStay DEF Moves
  <2>6. \/ TaskPhase(id)' = TaskPhase(id)
        \/ Solver!Ready(v) /\ TaskPhase(id) = "waiting" /\ TaskPhase(id)' = "running"
        \/ TaskPhase(id) = "running" /\ TaskPhase(id)' \in {"succeeded", "failed"}
    <3>1. IsStepOfTask(v, kind, i, k, t, id)
      BY <2>1, <2>2, <2>3 DEF IsStepOfTask
    <3> QED
      BY <3>1, StepMovesTask
  <2>7. CASE TaskPhase(id)' = TaskPhase(id)
    <3>1. Phases' = Phases
      BY <2>5, <2>7 DEF Phases, TaskIdsOf, Moves
    <3> QED
      BY <1>1, <3>1 DEF Moves
  <2>8. id \in DOMAIN Phases /\ Phases[id] = TaskPhase(id)
    BY <2>4 DEF Phases
  <2>9. CASE Solver!Ready(v) /\ TaskPhase(id) = "waiting" /\ TaskPhase(id)' = "running"
    <3>1. Abstract!MayStart(id)
      <4>1. kind = "task" => Included(t)
        BY <2>1, <2>2 DEF ListOf
      <4>2. Abstract!MayStart(<<kind, t.name>>)
        BY <2>1, <2>2, <2>9, <4>1, ReadyMayStart
      <4> QED
        BY <2>3, <4>2
    <3>2. Phases' = [Phases EXCEPT ![id] = "running"]
      BY <2>4, <2>5, <2>9, PhasesMove DEF Moves
    <3>3. Abstract!Move(id, "waiting", "running")
      BY <1>1, <2>8, <2>9, <3>2 DEF Abstract!Move, Moves
    <3>4. Abstract!StartTask(id)
      BY <3>1, <3>3 DEF Abstract!StartTask
    <3> QED
      BY <2>8, <3>4 DEF Abstract!Next
  <2>10. ASSUME NEW p \in {"succeeded", "failed"}, TaskPhase(id) = "running", TaskPhase(id)' = p
         PROVE  [Abstract!Next]_<<run, Phases, Verdict>>
    <3>1. Phases' = [Phases EXCEPT ![id] = p]
      BY <2>4, <2>5, <2>10, PhasesMove DEF Moves
    <3>2. Abstract!Move(id, "running", p)
      BY <1>1, <2>8, <2>10, <3>1 DEF Abstract!Move, Moves
    <3>3. Abstract!SucceedTask(id) \/ Abstract!FailTask(id)
      BY <3>2 DEF Abstract!SucceedTask, Abstract!FailTask
    <3> QED
      BY <2>8, <3>3 DEF Abstract!Next
  <2> QED
    BY <2>6, <2>7, <2>9, <2>10
<1> QED
  BY <1>2, <1>3

\* A step that failed has failed its task.
LEMMA FailedStepFails ==
  ASSUME BuildInv, NEW v \in DOMAIN status, status[v] \in {"failed", "broken"}, v # Collect
  PROVE  \E id \in TaskIdsOf(run) : TaskPhase(id) = "failed"
<1>1. pc = "done" /\ v \in DOMAIN llb /\ DOMAIN status # {}
  BY DEF BuildInv, OnlySubmitted, TypeOK
<1>2. PICK kind, i, k : /\ IsStep(v, kind, i, k)
                        /\ kind = "task" => Included(run.tasks[i])
  BY <1>1, BuiltOperation
<1>3. PICK t : t = ListOf(kind)[i]
  OBVIOUS
<1>4. /\ kind \in {"task", "finally"} /\ i \in DOMAIN ListOf(kind)
      /\ k \in 1..Len(t.steps) /\ v = StepOf(kind, t, k)
  BY <1>2, <1>3 DEF IsStep
<1>5. status[v] \in Seen(kind, t)
  BY <1>4 DEF Seen
<1>6. TaskPhase(<<kind, t.name>>) = PhaseOf(FALSE, Seen(kind, t))
  BY <1>1, <1>2, <1>3, <1>4, PhaseIs
<1>7. TaskPhase(<<kind, t.name>>) = "failed"
  BY <1>5, <1>6 DEF PhaseOf
<1> QED
  BY <1>3, <1>4, <1>7, IsId

\* How a build ends, for its tasks: given up, or all over.
LEMMA AbstractEnd ==
  ASSUME BuildInv, Solver!Abort \/ Solver!Interrupt \/ Solver!Finish,
         run' = run, skippedTasks' = skippedTasks
  PROVE  [Abstract!Next]_<<run, Phases, Verdict>>
<1>1. /\ build = "solving" /\ pc = "done" /\ DOMAIN status # {} /\ Collect \in DOMAIN status
      /\ Verdict = "none"
      /\ \A u \in llb[Collect].inputs : u \in DOMAIN status
  BY DEF BuildInv, OnlySubmitted, Solver!Abort, Solver!Interrupt, Solver!Finish, Verdict
<1>2. status[Collect] \in {"running", "done", "failed", "broken"} => Abstract!AllSucceeded
  <2> SUFFICES ASSUME status[Collect] \in {"running", "done", "failed", "broken"}
               PROVE  \A id \in DOMAIN Phases : Phases[id] \in {"succeeded", "skipped"}
    BY DEF Abstract!AllSucceeded
  <2>1. \A w \in llb[Collect].inputs : StatusOf(w) = "done"
    BY <1>1 DEF BuildInv, InputsDone, StatusOf
  <2> QED
    BY <1>1, <2>1, AllOver DEF Phases
<1>3. ASSUME Solver!GiveUp, NEW why, Verdict' = why
      PROVE  Abstract!Stop(why)
  <2>1. \A id \in TaskIdsOf(run) :
          TaskPhase(id)' = IF TaskPhase(id) \in {"waiting", "running"} THEN "canceled"
                           ELSE TaskPhase(id)
    BY <1>1, <1>3, PhasesGivenUp
  <2>2. Phases' = [id \in TaskIdsOf(run) |-> TaskPhase(id)']
    BY DEF Phases
  <2>3. Phases' = [id \in DOMAIN Phases |-> IF Phases[id] \in {"waiting", "running"}
                                            THEN "canceled" ELSE Phases[id]]
    BY <2>1, <2>2 DEF Phases
  <2> QED
    BY <1>1, <1>3, <2>3 DEF Abstract!Stop
<1>4. CASE Solver!Abort
  <2>1. /\ Solver!GiveUp /\ Verdict' = "failed"
        /\ \E v \in DOMAIN status : status[v] \in {"failed", "broken"}
    BY <1>4 DEF Solver!Abort, Verdict
  <2>2. Abstract!AllSucceeded \/ \E id \in DOMAIN Phases : Phases[id] = "failed"
    BY <1>2, <2>1, FailedStepFails DEF Phases
  <2>3. Abstract!StopOnFailure
    BY <1>3, <2>1, <2>2 DEF Abstract!StopOnFailure
  <2> QED
    BY <2>3 DEF Abstract!Next
<1>5. CASE Solver!Interrupt
  <2>1. Solver!GiveUp /\ Verdict' = "interrupted"
    BY <1>5 DEF Solver!Interrupt, Verdict
  <2> QED
    BY <1>3, <2>1 DEF Abstract!Next
<1>6. CASE Solver!Finish
  <2>1. /\ status[Collect] = "done" /\ Verdict' = "succeeded" /\ status' = status
    BY <1>6 DEF Solver!Finish, Verdict
  <2>2. \A id : TaskPhase(id)' = TaskPhase(id)
    BY <2>1 DEF TaskPhase, StatusOf, Vertices
  <2>3. Phases' = Phases
    BY <2>2 DEF Phases, TaskIdsOf
  <2>4. Abstract!Succeed
    BY <1>1, <1>2, <2>1, <2>3 DEF Abstract!Succeed
  <2> QED
    BY <2>4 DEF Abstract!Next
<1> QED
  BY <1>4, <1>5, <1>6

\* Every step of the build is a step of the tasks, or none that they see.
LEMMA AbstractNext ==
  ASSUME BuildInv, [Next]_vars
  PROVE  [Abstract!Next]_<<run, Phases, Verdict>>
<1>1. CASE Translate
  BY <1>1, AbstractTranslate
<1>2. CASE Submit \/ ReturnError
  BY <1>2, AbstractSubmit
<1>3. CASE Run
  <2>1. run' = run /\ skippedTasks' = skippedTasks
    BY <1>3 DEF Run, translation
  <2>2. CASE \E v \in DOMAIN status : Solver!Start(v) \/ Solver!Exit(v)
                                        \/ Solver!TimeoutExpires(v) \/ Solver!Breaks(v)
    <3>1. PICK v \in DOMAIN status : Solver!Start(v) \/ Solver!Exit(v)
                                       \/ Solver!TimeoutExpires(v) \/ Solver!Breaks(v)
      BY <2>2
    <3>2. build = "solving" /\ build' = build
      BY <3>1, SetsOneStatus
    <3>3. PICK s : Moves(v, s)
      BY <2>1, <3>1, SetsOneStatus DEF Moves
    <3> QED
      BY <2>1, <3>2, <3>3, AbstractStep
  <2>3. CASE Solver!Abort \/ Solver!Interrupt \/ Solver!Finish
    BY <2>1, <2>3, AbstractEnd
  <2> QED
    BY <1>3, <2>2, <2>3 DEF Run, Solver!SolveNext
<1>4. CASE UNCHANGED vars
  <2>1. /\ run' = run /\ skippedTasks' = skippedTasks /\ status' = status /\ build' = build
    BY <1>4 DEF vars
  <2>2. \A id : TaskPhase(id)' = TaskPhase(id)
    BY <2>1 DEF TaskPhase, StatusOf, Vertices
  <2>3. Phases' = Phases /\ Verdict' = Verdict
    BY <2>1, <2>2 DEF Phases, TaskIdsOf, Verdict
  <2> QED
    BY <2>1, <2>3
<1> QED
  BY <1>1, <1>2, <1>3, <1>4 DEF Next

-----------------------------------------------------------------------------
(* Theorems.                                                               *)

\* The invariant of the translation and of the build holds of every build.
THEOREM BuildInvariant == Spec => []BuildInv
<1> QED
  BY BuildInit, BuildNext, PTL DEF Spec

\* TYPE CORRECTNESS of the translation and of the build.
THEOREM TypeCorrect == Spec => []TypeOK
<1>1. BuildInv => TypeOK
  BY DEF BuildInv
<1> QED
  BY <1>1, BuildInvariant, PTL

\* ORDER OF TASKS.  A task starts only once the tasks of its runAfter are done,
\* although the graph has only edges to their last steps.
THEOREM RunAfterIsKept == Spec => []RunAfterOrder
BY RunAfterFollows, BuildInvariant, PTL

\* FINALLY COMES LAST.  A finally task starts only once every regular task that
\* was not skipped is done.
THEOREM FinallyIsLast == Spec => []FinallyLast
BY FinallyFollows, BuildInvariant, PTL

\* ORDER OF STEPS.  A step starts only once all those before it are done,
\* although each mounts only the one before.
THEOREM StepsAreInOrder == Spec => []StepsInOrder
<1>1. BuildInv => StepsInOrder
  BY DEF BuildInv
<1> QED
  BY <1>1, BuildInvariant, PTL

\* NOTHING IS LEFT OUT.  A build that succeeds ran every step of every included
\* task and of every finally task, and no step of a skipped one.
THEOREM SuccessLeavesNothingOut == Spec => []SuccessIsComplete
BY SuccessFollows, BuildInvariant, PTL

\* REFINEMENT.  Seen from its tasks, every build is a behaviour of TektonPipeline:
\* the order of tasks, the skips and the verdict are those promised.
THEOREM TektonPipelineIsImplemented == Spec => ImplementsTektonPipeline
BY AbstractInit, AbstractNext, BuildInvariant, PTL DEF Spec, ImplementsTektonPipeline, Abstract!Spec

\* ONERROR.  When nothing broke, a submitted build fails only by a step whose exit
\* code is not masked.
THEOREM OnlySuchStepsFailIt == Spec => []OnlyStopAndFailFails
BY OnlyStopFails, BuildInvariant, PTL

\* RESULTS ARE COMPLETE WHEN READ, in a run whose caches and results do not share
\* a name.
THEOREM ResultsAreComplete == Spec => [](NamesApart(run) => ResultsComplete)
<1>1. BuildInv => (NamesApart(run) => ResultsComplete)
  BY ResultsFollow
<1> QED
  BY <1>1, BuildInvariant, PTL

=============================================================================

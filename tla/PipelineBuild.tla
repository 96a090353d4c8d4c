--------------------------- MODULE PipelineBuild ----------------------------
(***************************************************************************)
(* build.Build for a PipelineRun: the run is translated, and the graph is   *)
(* handed to BuildKit, which runs its steps concurrently.  Whatever order   *)
(* the tasks of the pipeline keep, they owe to the edges of the graph.      *)
(***************************************************************************)
EXTENDS PipelineRunToLLB

CONSTANT Faults      \* whether operations may fail outside their command

ASSUME FaultsAssumption == Faults \in BOOLEAN

VARIABLES
  status,            \* vertex -> its status in the build, once submitted
  build              \* "idle", "solving", or how Build returned

Solver == INSTANCE BuildKit WITH root <- Collect

vars == <<run, pc, next, pipelineWorkspaces, tasks, skippedTasks, finallyTasks,
          llb, status, build>>

Init == TranslatorInit /\ status = EmptyMap /\ build = "idle"

Translate == TranslatorNext /\ UNCHANGED <<status, build>>

translation == <<run, pc, next, pipelineWorkspaces, tasks, skippedTasks, finallyTasks>>

\* The translated graph is marshalled and solved.
Submit == pc = "done" /\ Solver!Solve /\ UNCHANGED translation

\* Build returns the error of the translation.
ReturnError ==
  /\ pc = "error" /\ build = "idle"
  /\ build' = "failed"
  /\ UNCHANGED <<translation, llb, status>>

Run == Solver!SolveNext /\ UNCHANGED translation

Next == Translate \/ Submit \/ ReturnError \/ Run

-----------------------------------------------------------------------------
(* Fairness.  tkn-local keeps going, and so does BuildKit.  A user's step   *)
(* may run for ever, unless it runs under timeout(1).                      *)

Settles(v) ==
  \/ Solver!TimeoutExpires(v)
  \/ v = Collect /\ Solver!Exit(v)

\* The vertices of a run, as its tasks declare them.
VerticesOf(r) ==
  {Collect} \cup
  (UNION {Elements(StepStates("task", t)) : t \in Elements(r.tasks)}) \cup
  (UNION {Elements(StepStates("finally", t)) : t \in Elements(r.finally)})

Fairness ==
  /\ WF_vars(Translate \/ Submit \/ ReturnError)
  /\ \A v \in UNION {VerticesOf(r) : r \in Runs} :
       /\ WF_vars(v \in DOMAIN status /\ Solver!Start(v) /\ UNCHANGED translation)
       /\ WF_vars(v \in DOMAIN status /\ Settles(v) /\ UNCHANGED translation)
  /\ WF_vars((Solver!Abort \/ Solver!Finish) /\ UNCHANGED translation)

Spec == Init /\ [][Next]_vars

FairSpec == Spec /\ Fairness

-----------------------------------------------------------------------------
(* Safety.                                                                 *)

StatusOf(v) == IF v \in DOMAIN status THEN status[v] ELSE "none"

Started(v) == StatusOf(v) \in {"running", "done", "failed", "broken"}

\* Some step of the task has started; all of its steps are done.
TaskStarted(kind, t) == \E v \in Elements(StepStates(kind, t)) : Started(v)

TaskDone(kind, t) == \A v \in Elements(StepStates(kind, t)) : StatusOf(v) = "done"

\* TYPE INVARIANT of the translation and of the build.
TypeOK ==
  /\ TranslatorTypeOK
  /\ DOMAIN status \subseteq DOMAIN llb
  /\ \A v \in DOMAIN status : status[v] \in Solver!VertexStatus
  /\ build \in {"idle", "solving", "succeeded", "failed", "interrupted"}

\* ORDER OF TASKS.  No step of a task starts before every step of every task
\* of its runAfter is done.  The code only mounts the last state of each of
\* them in the steps of the task (pipelinerun.go, runAfter mounts).
RunAfterOrder ==
  \A t \in Elements(run.tasks) : TaskStarted("task", t) =>
    \A u \in Elements(run.tasks) : u.name \in t.runAfter => TaskDone("task", u)

\* FINALLY COMES LAST.  No step of a finally task starts before every regular
\* task is done or was skipped (pipelinerun.go, finallyMounts).
FinallyLast ==
  \A f \in Elements(run.finally) : TaskStarted("finally", f) =>
    \A t \in Elements(run.tasks) : Included(t) => TaskDone("task", t)

\* ORDER OF STEPS.  A step starts only when all those before it in its task are
\* done: one that failed stops its task for good (taskrun.go, /previous mount).
StepsInOrder ==
  \A kind \in {"task", "finally"} :
    \A t \in Elements(IF kind = "task" THEN run.tasks ELSE run.finally) :
      \A i \in DOMAIN t.steps : Started(<<kind, t.name, i>>) =>
        \A j \in 1..(i - 1) : StatusOf(<<kind, t.name, j>>) = "done"

\* RESULTS ARE COMPLETE WHEN READ.  While an operation that mounts a results
\* directory read-only runs, no operation that writes to it is still to run or
\* running: /tekton/from-task shows all that the task has written.
ResultsComplete ==
  \A v \in DOMAIN status : status[v] = "running" =>
    \A u \in DOMAIN status :
      llb[u].writes \cap llb[v].reads # {} => status[u] = "done"

\* NOTHING IS LEFT OUT.  LLB is lazy: an operation nobody mounts is never run.
\* A build that succeeds has run every step of every included task and of every
\* finally task, and no step of a skipped one.
SuccessIsComplete ==
  build = "succeeded" =>
    /\ \A t \in Elements(run.tasks) :
         IF Included(t) THEN TaskDone("task", t) ELSE ~TaskStarted("task", t)
    /\ \A f \in Elements(run.finally) : TaskDone("finally", f)

\* ONERROR.  When nothing broke, a submitted build fails only when a step failed
\* that is declared stopAndFail (README: OnError), or that has arguments alone:
\* the exit code of such a step is never masked (taskrun.go, llb.Args as they are).
OnlyStopAndFailFails ==
  (build = "failed" /\ DOMAIN status # {} /\ \A v \in DOMAIN status : status[v] # "broken") =>
    \E kind \in {"task", "finally"} :
      \E t \in Elements(IF kind = "task" THEN run.tasks ELSE run.finally) :
        \E i \in DOMAIN t.steps : /\ \/ t.steps[i].onError = "stopAndFail"
                                     \/ t.steps[i].form = "args"
                                  /\ StatusOf(<<kind, t.name, i>>) = "failed"

\* What an example of the repository says of finally tasks: they run whether the
\* regular tasks succeeded or failed.
FinallyRegardless ==
  (build = "failed" /\ DOMAIN status # {}) =>
    \A f \in Elements(run.finally) :
      \A v \in Elements(StepStates("finally", f)) : StatusOf(v) # "canceled"

-----------------------------------------------------------------------------
(* Liveness.                                                               *)

Ended == build \in {"succeeded", "failed", "interrupted"} \/ pc = "panic"

\* TIMEOUTS END THE BUILD.  When each step has a timeout, its own or its task's,
\* and a script or a command that it applies to, the build ends whatever these do
\* (README: Task Timeout applies to all steps in a task).
TimeoutsEndTheBuild ==
  (\A t \in AllTasks(run) : \A s \in Elements(t.steps) :
     HasTimeout(t, s) /\ s.form \in {"script", "command"}) => <>Ended

=============================================================================

----------------------------- MODULE TaskSteps -----------------------------
(***************************************************************************)
(* taskSpecToPSteps and pstepToState: how one task becomes a chain of LLB  *)
(* operations, one per step.  An operation is the record of what BuildKit  *)
(* will see of it.  Vertices number steps from 1, the code from 0.         *)
(***************************************************************************)
EXTENDS TektonResources

\* A cache directory is the sequence of the components of its id, names and
\* three fixed words: "a/results" is <<"a", "results">>.  Names hold no slash.
CacheDir == Seq(STRING \cup {"finally", "results", "volume"})

\* A step of a task, and the final operation, which lists the results.
Collect == <<"collect", "results", 1>>

Vertex == ({"task", "finally"} \X STRING \X (Nat \ {0})) \cup {Collect}

Op == [inputs   : SUBSET Vertex,    \* the operations whose result it mounts
       writes   : SUBSET CacheDir,  \* cache directories mounted read-write
       reads    : SUBSET CacheDir,  \* cache directories mounted read-only
       args     : BOOLEAN,          \* it has a command line
       ignores  : BOOLEAN,          \* its command's exit code is masked
       bounded  : BOOLEAN]          \* its command runs under timeout(1)

\* Mutant of CacheName: finally tasks are not told from regular ones.
CacheName_Flat(kind, name) == <<name>>

\* The prefix of a task's cache directories: the name taskSpecToPSteps is given.
CacheName(kind, name) == IF kind = "finally" THEN <<"finally", name>> ELSE <<name>>

ResultsDir(kind, name) == CacheName(kind, name) \o <<"results">>

\* The step's own timeout, or else its task's.
HasTimeout(task, step) == step.timeout \/ task.timeout

\* Mutant of Wrapped: only a timeout asks for the wrapper script.
Wrapped_ForTimeouts(task, step) ==
  step.form \in {"script", "command"} /\ HasTimeout(task, step)

\* Scripts and commands are put in a wrapper script when they need one; a step
\* that only has arguments is not.
Wrapped(task, step) ==
  /\ step.form \in {"script", "command"}
  /\ step.onError = "continue" \/ HasTimeout(task, step)

IgnoresExit(task, step) == Wrapped(task, step) /\ step.onError = "continue"

\* Mutant of Bounded: the timeout of the task is forgotten.
Bounded_OwnTimeout(task, step) == Wrapped(task, step) /\ step.timeout

Bounded(task, step) == Wrapped(task, step) /\ HasTimeout(task, step)

\* Mutants of PreviousStep: the check that there is a step before is dropped; only
\* the first is mounted in all the others.
PreviousStep_Unchecked(kind, task, i) == {<<kind, task.name, i - 1>>}
PreviousStep_First(kind, task, i) == IF i = 1 THEN {} ELSE {<<kind, task.name, 1>>}

\* The step before is mounted at /previous/<i>, which makes it a dependency.
PreviousStep(kind, task, i) == IF i = 1 THEN {} ELSE {<<kind, task.name, i - 1>>}

\* The results directory, the bound workspaces and the mounted volumes.
CacheDirsOf(kind, task, i, workspaceDirs) ==
  {ResultsDir(kind, task.name)} \cup workspaceDirs
    \cup {CacheName(kind, task.name) \o <<"volume", v>> : v \in task.steps[i].volumes}

\* The operation of the i-th step; deps and reads are the additional mounts.
StepOp(kind, task, i, workspaceDirs, deps, reads) ==
  [inputs  |-> PreviousStep(kind, task, i) \cup deps,
   writes  |-> CacheDirsOf(kind, task, i, workspaceDirs),
   reads   |-> reads,
   args    |-> task.steps[i].form # "none",
   ignores |-> IgnoresExit(task, task.steps[i]),
   bounded |-> Bounded(task, task.steps[i])]

\* The vertices pstepToState returns, in step order, and the last of them.
StepStates(kind, task) == [i \in 1..Len(task.steps) |-> <<kind, task.name, i>>]

LastOf(states) == states[Len(states)]

=============================================================================

# buildkit-tekton, in TLA+

buildkit-tekton runs Tekton TaskRuns and PipelineRuns on BuildKit: it translates
them into one LLB graph and asks BuildKit to build its last operation.  There is
no controller that watches tasks and starts the next: **whatever order a pipeline
keeps, it owes to the edges of that graph**.  Around that core there are programs of
their own: several processes that look after one BuildKit container, goroutines
that carry the progress of a build to the terminal, the reading of files, and the
wrapper script that stands in for what Tekton's entrypoint does.  This directory
models each of these, checks on small instances what users rely on, and proves
every safety property that a passing run checks, for any size: the graph, the order of tasks
and steps and the refinement for any pipelines, the process of any step, any files,
builds, clients and messages.

`tlc -config <cfg> <module>` runs a check of the table below, `tlapm <module>.tla`
the proofs.

## The system

| component (code) | state | operations | what is hard | what makes it correct |
|---|---|---|---|---|
| PipelineRun translation (`pkg/tekton/pipelinerun.go`) | maps of workspaces, of the states of translated tasks, of skipped tasks; the LLB graph | validate, resolve, bind workspaces, a round per task, a round per finally task, collect results | list order against runAfter order; names that are bound or not; errors and panics half-way | it gives a graph exactly for the runs it is meant for, and that graph is the one the run declares |
| TaskRun translation (`taskrun.go`, `TaskRunToLLB`) | the slice of states | validate, resolve, translate | checked when embedded and not when found; a nil spec | a build of it is a build of a pipeline of that one task |
| Task steps (`taskrun.go`) | the states of the steps, their run options | `taskSpecToPSteps`, `pstepToState` | the chain of `/previous` mounts; options that replace each other; maps ranged over in any order | steps in order; the last source of a variable counts |
| Scripts (`pkg/tekton/files/script.go`) | none | `Script`, `CommandWrapper`, `wrapScript`, `formatDuration` | interpreter lines, exit codes masked and let through, whole seconds | the process does what its operation promises |
| Resource checks (same files; Tekton's `Validate`) | none | `validatePipelineRun`, `validatePipeline`, `validateTaskSpec` | what is embedded is checked, what is found in the context is not | a refused run never reaches BuildKit |
| Build (`pkg/build/build.go`) | how far the call has got | read the resources, translate, `Marshal`, `Solve` | errors at each stage; interruption | success means every task ran |
| BuildKit (external) | status of each vertex | start, exit, fail, cancel, finish | lazy, concurrent, stops at the first failure | an operation starts after its inputs |
| Cache directories (BuildKit, named by `taskrun.go` and `pipelinerun.go`) | contents that outlive builds | mounted read-write or read-only | runs, tasks, finally tasks, volumes and workspaces share one space of names | runs that share no names share no data |
| Loading (`pkg/tekton/load.go`, `tekton.go`) | lists and maps of documents | read, strip, cut, decode, select, populate | text is changed before it is parsed; several files define a name | what is read is what was written, or an error |
| BuildKit container (`pkg/buildkit`) | a docker or podman container, shared by all users | inspect, rm, pull, run, start, wait | several processes between each other's commands; stale answers; crashes | a daemon of the wanted version answers; whatever is left behind can be repaired |
| `tkn-local run` (`cmd/tkn-local/run.go`) | the errgroup, five unbuffered channels | build, forward, print, wait, close | which goroutine ends which; who closes what | the command ends, with the build's error, and all is shown |
| `tkn-local prune` (`prune.go`) | a channel, what is printed | receive, send, print, return | nothing waits for the printer | all but perhaps the last record are listed |
| options (`pkg/config`), OCI bundles (`oci.go`, never called), entry points | – | – | – | – |

`tkn-local run` calls `NewClient`, then `Build`, which asks BuildKit for the files,
reads the resources, translates them, and submits the graph.  Translation and
build share only the graph; the tasks of one build share cache directories, and
so do builds.

## Modules

| module | models |
|---|---|
| `TektonResources` | the resources, reduced to what translation looks at; when expressions; the checks of this program and of Tekton |
| `TaskSteps` | the operation of one step: what it mounts, whether its exit code is masked, whether it runs under `timeout` |
| `DeclaredGraph` | the graph a PipelineRun declares, in closed form: what `PipelineRunToLLB` must arrive at |
| `PipelineRunToLLB` | the translation: one action per stage of the function and per round of its loops |
| `TaskRunToLLB`, `TaskRunBuild` | the other entry point, and its build |
| `BuildKit` | what `Solve` does with a graph (external) |
| `PipelineBuild` | `build.Build`: composes translation and BuildKit, with the fairness, and the properties of a whole build |
| `TektonPipeline` | abstract specification: tasks, their phases, and the verdict of a run |
| `PipelineBuildRefinement` | the phases of tasks read off the statuses of vertices, and the refinement; `TaskRunBuild` holds the one for TaskRuns |
| `PipelineBuildInvariant` | the inductive invariant `BuildInv` |
| `StepProcess` | one step from its description to the exit of its process: environment, script file or wrapper, the shell and `timeout(1)` (those external) |
| `CacheDirs` | the directories of one daemon under several builds, over `DeclaredGraph` |
| `ReadResources` | from the bytes of files, as kinds of lines, to the run and the maps |
| `BuildkitContainer` | processes in `NewClient` around one container per engine, with faults |
| `TknLocalRun`, `TknLocalPrune` | the goroutines and channels of the two commands |
| `TranslationProofs`, `PipelineBuildProofs`, `TaskRunProofs`, `StepProcessProofs`, `CacheDirsProofs`, `ReadResourcesProofs`, `BuildkitContainerProofs`, `TknLocalProofs` | the proofs |
| `MC...` | the small instances TLC is given |

**Translation.**  `pc` is the stage of `PipelineRunToLLB` and `next` the index of
its loop.  `tasks`, `skippedTasks`, `finallyTasks` and `pipelineWorkspaces` are the
function's variables of those names.  `llb` maps a vertex `<<"task", name, i>>`,
`<<"finally", name, i>>` (step `i`, from 1) or `Collect` to the operation the code
makes: `inputs` are the states it mounts, `writes` and `reads` the cache
directories, `args` whether it has a command line, `ignores` and `bounded` whether
a wrapper script masks its exit code and puts it under `timeout`.  An action is a
stage or a round with every effect it has, or the early return or panic of that
point, in the order the code tests for them: an unbound workspace is called before
an image is parsed, an image is parsed before the states of `runAfter` are indexed.
An error leaves no graph.  `pc = "panic"` is a nil call, a nil dereference or an
index out of range.

**Processes.**  `TaskSteps` reduces a step to two promises, `IgnoresExit` and
`Bounded`; `StepProcess` models what is behind them, the run options that build the
environment one at a time, the file that is made, the shell that runs it line by
line and the clock in half seconds, and `OutcomeIsDeclared` says that the promises
are kept.  The rest of the project rests on that.  `Sources` are the ConfigMaps and
Secrets of envFrom, each a set of pairs of a name and a value that are taken in any
order, and `Givers` everything that gives a value, in its order.  A name is the pair
of a prefix and a key: equal texts made of other pairs (`A_`, `B` and `A`, `_B`) count as two.
`LastSourceCounts` says that the order of a map does not matter, and leaves out which
of env and envFrom is to count; that is `EnvTakesPrecedence`, which fails.

**Cache directories.**  A directory is named by the sequence of the components of
its id.  A write takes the place of what the same step of another build wrote, and
what a directory holds is the set of who wrote it.  Two builds that ask for equal
operations at the same time would be given one execution, and are not started
together.

**Files.**  A line is one of a few kinds: the header of an object, text, text with
`---` in it (`dashes` before the end of the line, `rule` at its end), the header of an
object that is part of a text (`embedded`) and its other lines (`inner`), an
interpreter line, a line with two `#`, a comment, a `#` alone (whose
match takes the line after it), a separator, blank.  A line keeps its place: what is
stripped is blank, a document is the places between two cuts, known by the cut it
begins at, and the body of an object is a function of places.  What comes after a
`rule` is a document too: an object of the text, if one follows and the text goes on to
the end of the document.  So that no line is
lost or moved is an equality of functions.  `Meant` is the reference that what is
read is compared with.  Secrets are read as ConfigMaps are, and are not kept apart.

**Containers.**  A stage of a client is the next command it gives to the container
engine; `info` is what its inspection told it, which the code keeps while the
container changes under it.  The container has a state, a version, and the client
that created it, since `run` starts the container it created and not just any of
the name.  The commands are external: rm removes or complains, `run` fails when the
name is taken, a command may fail and its client be interrupted at any point, and a
container may be stopped by others.

**Progress.**  A message is its sender and number.  Channels are unbuffered, so a
send is one action of sender and receiver together: `held` is the message a
forwarding goroutine has in its hand.  A send on a closed channel is `panicked`.
The goroutines of the progress writers and of the errgroup are vendored code,
modelled from its source here.

**Abstractions.**  Parameters, contexts, results in expressions, working directory,
user, image metadata, mount paths and step templates are left out; a defect of a
task (`notFound`, `invalid`, `badImage`) says which test of the code it fails.
Operations that only make a file for a mount are part of the step that mounts
them.  A read-only volume counts as written.  An item of a ConfigMap that is
missing makes its binding unusable.  `RunAfterAcyclic` looks at runAfter only:
Tekton's own check also follows references to results, which translation does not
order by.  The option `enable-api-fields` is the field `apiFields` of a run: it decides
whether a ref to a resolver is refused or goes on, to the panic it ends in.  A task of
a pipeline whose taskRef is left to a resolver counts as not found, an error either
way.

**BuildKit.**  The daemon is assumed to build what the root can reach, and
nothing else; to start an operation when its inputs are done, any number at once;
to stop at the first that fails, canceling those not done; to run each operation
once (steps are marked `IgnoreCache`).  A command exits either way at any time
("failed"), and with `Faults` an operation may also fail outside its command: no
image, no shell ("broken"), and so may the look-up of an image's config when the
graph is marshalled.

## Checks

| run | instance | shows |
|---|---|---|
| `build` | for the translation: three tasks with every runAfter relation, skipped or not, names that collide; one task in every combination of reference, defect, workspace binding, when, no steps, embedded or from the context, as regular and as finally task.  For the build: every acyclic graph of three tasks in list order, without and with two finally tasks; each pair of steps with every onError, timeout and form; tasks that share workspaces and volumes under names that come close; faults and interruption at any time | a graph comes out exactly for the runs `Supported` describes (`TranslatesSupported`), and it is the declared one (`BuildsDeclaredGraph`); `BuildInv`, `RunAfterOrder`, `FinallyLast`, `StepsInOrder`, `ResultsComplete`, `SuccessIsComplete`, `OnlyStopAndFailFails`, `TimeoutsEndTheBuild` under fairness, and that `PipelineBuild` implements `TektonPipeline` |
| `task_run` | every source, defect, option and unsupported field, workspaces bound once and twice; three steps of every form | `TaskRunsTranslate`, `TaskRunStepsInOrder`, and that a build of a TaskRun implements `TektonPipeline` for a pipeline of that task |
| `process` | every script of up to three lines in each setting of onError, timeout and interpreter; environments with repeated names | `LastSourceCounts`, `OutcomeIsDeclared`, `OwnRules`, `BoundedEnds` |
| `cache_dirs` | three builds, one of them of a run built again, whose task, workspace and volume names take those of others and the fixed words | `NoForeignData` |
| `reading` | a run and another object framed by comments, separators and texts like them, texts that hold a manifest, and contexts of two files | `ReadAsWritten`, `PlainFilesAreRead` |
| `container` | three clients of one version or two, of every kind of host, from every state of the container, two faults | `RunsInTheEnd`, `AloneIsServed`, `WantedVersionAnswers` |
| `run` | three statuses, two handlers that log twice | `AllShown`, `DisplayIsLast`, `RunEnds` |
| `prune` | twelve records, plain and verbose | `AllButTheLast`, `PruneReturns` |
| `dependencies`, `finally_on_failure`, `read_interpreter`, `env_precedence` | the smallest inputs that show each | violations, see Findings |

Each passing run also checks the type invariant of its module.  Deadlock is not
checked: builds, commands and processes really end.

**Bounds, and why they are enough.**  Every set of inputs is finite, and builds and
translations take finitely many steps, so that they need no bound.  Three tasks give
chains, joins, forks and unrelated tasks; three steps a first, a middle and a last
one, which is all `pstepToState` tells apart.  `MaxClock` = 5 half seconds is past
the longest timeout of the instance, 3, and past the least one, two; three lines of
a script are one before, one that matters, one after.  `MaxAttempts` = 2 tells an
attempt that is followed by another from the last (the code has a hundred).
`MaxFaults` = 2 lets one client fail, and another while it repairs.  Three clients
give two that race and one that comes later.  `MaxStatus` = 3 fills every forwarder
at once and leaves one to wait; `MaxRecords` = 12 and three statuses are also
checked for any number, by proof.

**Fairness.**  `FairSpec` of the build: the translation is one goroutine that never
blocks, and `Build` goes on to `Solve`; BuildKit starts what is ready and returns
when it can: weak fairness of each.  Nothing says that a user's command ends, so
`Exit` of a step has none.  `TimeoutExpires` has weak fairness for an operation that
runs under `timeout(1)`, on the assumption that its command dies of SIGTERM, and so
has the exit of the operation that collects results, which is an `ls`.  `ReadSpec`,
`ProcessSpec`, `RunSpec` and `PruneSpec` have weak fairness of their next-state
relation as a whole: while any goroutine, or the clock, can move, one does.  In
`RunSpec` that includes that a build ends or is interrupted: without it `run` may
wait for ever, and should.  Bounds on statuses and records stand for a daemon that
does not stream for ever.  `ContainerSpec` has none, since no property needs it.

**Mutants.**  A definition named `X_Something` next to `X` is a plausible wrong version
of the code (the first state mounted instead of the last, a buffered channel, a
container that is not started): with it in the place of `X` the property it is
listed for in `PROJECT.json` fails.  It is used nowhere else.

## Proofs

Every invariant that a passing run checks, and both refinements, are theorems, proved from the assumptions on constants that the modules name and
from nothing else.  The instances of the runs are small; the theorems are about every
value of the constants, every set of inputs, and lists of any length in them.

| theorem | states |
|---|---|
| `TranslatorTypeCorrect`, `TypeCorrect`, `TaskRunTypeCorrect`, `ProcessTypeCorrect`, `CacheTypeCorrect`, `ReadTypeCorrect`, `ContainerTypeCorrect`, `RunTypeCorrect`, `PruneTypeCorrect` | the type invariants |
| `TranslatorInvariant`, `BuildInvariant` | the inductive invariants that the next rows rest on |
| `SupportedAreTranslated`, `DeclaredGraphIsBuilt` | which runs are translated, and to which graph |
| `RunAfterIsKept`, `FinallyIsLast`, `StepsAreInOrder` | the order of tasks and steps |
| `SuccessLeavesNothingOut`, `OnlySuchStepsFailIt` | the verdict of a build |
| `ResultsAreComplete` | `ResultsComplete` of every run with `NamesApart` |
| `TektonPipelineIsImplemented`, `OneTaskIsImplemented` | `PipelineBuild` and `TaskRunBuild` implement `TektonPipeline` |
| `FitTaskRunsTranslate`, `TaskRunStepsAreInOrder` | the same questions of TaskRuns |
| `LastSourceWins`, `OutcomeAsDeclared`, `InterpreterKeepsItsRules` | the process of a step |
| `OtherNamesOtherData` | `NoForeignData`, for any number of builds of any runs |
| `ReadsAsWritten` | `ReadAsWritten`, for any files: those with more than comments taken, or with an object after a `---` in a text, are its exceptions |
| `WantedVersion`, `AloneClientIsServed`, `ContainerRunsInTheEnd` | the container, for any clients, hosts, versions and faults; `AloneIsServed` is about hosts that give a name a container can have |
| `AllIsShown`, `DisplayEndsLast`, `AllButTheLastAreListed` | the two commands, for any handlers and numbers of statuses and records |

**Induction.**  The provers cannot use an induction theorem that takes an operator for
a parameter.  Where an argument goes by induction over a list it is turned round: the
sets of exceptions are sets of naturals, a set of naturals has a least member
(`LeastNatural`, from `WFMin` of the library, which takes sets), and the step before
the least exception is none.  Definitions are stated in closed form to the same end:
the declared graph, the sources of a variable, the lines of a document.

**Translation.**  `GraphInv` is about the graph while it is made: a task in the map
`tasks` has all its steps in the graph (`TasksInGraph`), the loops forget no task
(`NoneForgotten`), a step mounts the one before and the *last* step of every task
of its runAfter (`TaskEdges`, `FinallyEdges`), the root mounts the last step of all
(`RootEdges`), and no edge dangles (`NoDanglingEdge`).  It rests on names being
unique (`TektonValid`), or two tasks would share vertices; `StepsDiffer` is where
that is used.  `DeclaredInv` says what has been done exactly.  `WorkspacesInv`: the
bindings in force are those seen, the last of a name.  `TasksInv`: each task seen is in
the maps or skipped, and mounted only tasks before it.  `CheckedInv`: a run is only
refused for a reason.  `OnlyDeclared` and `OpsAsDeclared`: each operation in the graph
is, mounts, caches and wrapper included, the one in `DeclaredGraph`.  At `done` the
rounds have seen all, which is `BuildsDeclaredGraph`; `TranslatesSupported` compares what
each round has found with `Supported`.

**Build.**  None of the order properties is inductive: they speak of statuses, and
hold because of edges that were made before the first status existed.  `BuildInv`
says both.  What is submitted is closed under inputs (`OnlySubmitted`), inputs of what
has started are done (`InputsDone`), a status agrees with the build and with what
the operation's wrapper lets through (`StatusInv`), and `StepsInOrder` turns "the last
step is done" into "the task is done" (`LastStepEndsTask`).  `RunStep` collects what
any step of BuildKit does to the statuses; with it each conjunct is short.

`ResultsComplete` asks who can write the directory that a running operation reads:
the ids of cache directories are compared component by component, and only the
steps of the task whose results they are remain.  They do not when a run has the
name of one of its tasks and binds a workspace called `results` to a cache directory,
`<run>/<workspace>` (`pipelinerun.go:93`) and `<task>/results` being the same id: the
hypothesis `NamesApart` excludes that and nothing else, and without it the property
is false.

**Refinement.**  The phase of a task is read off the statuses of its steps.  In the
invariant these are always a row of done ones, one that moves, and ones that wait
(`Around`), or are canceled when the build has given up (`GivenUp`).  So each step of
BuildKit changes the phase of at most one task, but for giving up, which cancels all
that wait or run, and the proof has one lemma per step of the build: what it does
to the phases, and which action of `TektonPipeline` that is, or a stutter.
`TektonPipeline` knows nothing of lists and translation: its run may be any, and a
task may start when those of its runAfter that are there are done.  `TaskRunInv` is the same for TaskRuns: the graph is the chain of
their steps, and the build has `Reached` one of them.

**Processes.**  `EnvInv` says what the environment is half-way: what the sources opened
so far amount to, of the one that is open only the pairs taken (`GivenSoFar`).  When
the last is through `LastSourceCounts` follows, in whatever order the pairs of each
were taken.  `ScriptInv` says where a script is: the clock within the limit, the file
that was made for it, and under `sh -e` no failed line behind it.

**Cache directories.**  `WrittenByMounts`: what a directory holds was written by a step
that mounts it.  `OwnedBy`: the id of a mount begins with the name of the run or of one
of its regular tasks, or with the word for finally tasks and the name of one.  When
the names of two runs are apart, so are their mounts.

**Files.**  `ReadIsMeant`: in a file that decodes, the document after a cut in a line
has no kind, and the one after a cut at the end of a line of text has none unless an
object follows there; where neither is (`NoObjectCutOff`) the cuts are the separators,
and where the pattern takes only comments each object of the file is, place by place,
the one it means.  The rest follows the stages (`ReadInv`): `OneFileMore` says that putting the
definitions of the next file over the others leaves the last of each name.

**Container.**  Three invariants over `BasicInv` (types, `KnownEngine`, and
`CreatorsOwn`: a container a client made is of its version and name).  `VersionSeen`:
who starts or waits has seen its version there, or made it, and only a user of the
engine that has begun can change the version.  `AloneInv` says at each stage what a
client that is alone still knows of the container, although its information is
old.  `SomeoneRepairs` is the argument for `RunsInTheEnd`: as long as the container is
absent, only created, or of a version nobody wants, one of its users is at a stage
from which it must do something about it; `StartsSeen` keeps an old container from
being started in a version nobody asked for.

**Display.**  `RunInv`: a forwarder is there while the channel it reads is open, and
the channel it writes to is open while it is there; hence the printer's channel
outlives them all, and only the logger, which is no forwarder, can find its channel
closed.  `OnTheWay` keeps account of the messages: each that a sender has got rid of
is shown, or in the hand of c.Build or of a forwarder (`Accounted`), those shown come
before those under way (`ShownFirst`), and what is under way is in the order of the
pipe (`HeldInOrder`).  When run returns the display has ended, so nobody is there to
hold one, and all of them are shown.

**Prune.**  `PruneInv` counts the records printed: those received, less the one being
sent, less the one in the printer's hand.  With at most one in each place and none
being sent when prune returns, at most the last is missing.

**Only model-checked.**  `TimeoutsEndTheBuild`, `BoundedEnds`, `PlainFilesAreRead`,
`RunEnds` and `PruneReturns`: liveness under fairness, which is out of the prover's
reach.  `PruneReturns` is also about the error: prune returns for good with that of the
stream, which it holds while it closes the channel and its client.  The four
violations are about one instance each.

## Findings

1. `finally_on_failure`: finally tasks mount the states of all regular tasks, so they
   do not run when one fails; the example in `examples/1-pipelinerun-finally` says they do.
2. `dependencies`: `tasks[a][len(tasks[a])-1]` panics for a runAfter of a skipped task,
   and of one that comes later in the list.
3. `read_interpreter`: the pattern that removes comments removes the interpreter line of
   a script in the document too, and the script is run by `sh`.
4. `env_precedence`: `envFrom` is added after `env` and takes its place
   (`taskrun.go:211`); Tekton says where it declares the field that `env` takes
   precedence.

**Where the code and its documents, or Tekton, differ.**  These were met on the way
and are part of the models; where a property would not hold because of one, the
property names the exception.

- A step that has `args` and no `command` gets neither its timeout nor its
  `onError: continue` (`taskrun.go:178`); `OnlyStopAndFailFails` allows it and
  `TimeoutsEndTheBuild` is about the other forms.
- When expressions of finally tasks are refused in an embedded pipeline and ignored
  in one of the context (`pipelinerun.go:335`).
- Workspace directories (`<run>/<workspace>`) and results directories
  (`<task>/results`) can be the same directory, when a run has the name of a task and
  a workspace is called `results`; `ResultsComplete` is checked on runs in which they
  come close and do not meet, and proved of all runs in which they do not, and
  `NoForeignData` is about runs whose names are apart.
- Results and emptyDir volumes persist from one build to the next, and are shared by
  all runs with a task of that name (`taskrun.go:241`, `256`); all runs of one
  `generateName` share their workspaces (`pipelinerun.go:315`).
- A workspace of a TaskRun is a cache directory whatever it is bound to
  (`taskrun.go:78`).
- A line with a `#` alone takes the line after it out of the file too (`load.go:39`: the
  pattern wants one more character, and an end of line is one).  That may be a field,
  which is then missing, or a separator, and two documents become one, in which the
  second counts; nothing reports either.  `ReadAsWritten` is about files in which the
  pattern takes only comments.
- ConfigMaps and Secrets are those of the run's own file (`load.go:64`), Tasks and
  Pipelines those of the context.
- A manifest in a text, a ConfigMap's say, is cut from it at its `---`
  (`load.go:128`): it is read as an object of the file, or of the context, and the
  ConfigMap silently ends there.  `ReadAsWritten` is about files without one
  (`NoObjectCutOff`); where no object follows, the cut is an error.
- An interpreter line after blank lines keeps the `set -e` preamble away, but is not
  in the first line of the file (`script.go:21`); with `onError: continue` a script
  without an interpreter still stops at its first error (`script.go:24`).
- `rm` removes whatever has the name by then, another client's container included
  (`docker.go:25`); clients of two versions replace each other's daemon
  (`docker.go:35`); a host with `?context=` gives a name no container can have
  (`buildkit.go:97`).
- A handler that logs after the build has returned sends on a closed channel
  (`run.go:148`); `DisplayIsLast` says that this is the only such send.

## Not modelled

- Options other than `enable-api-fields`, OCI bundles (every call is commented out),
  entry points, output formatting, the vendored Tekton and BuildKit code beyond the
  parts named above.
- References to results in when expressions and parameters: data the model
  abstracts.  So the order in which such a reference is compared is a hazard with no
  property.
- What builds of one name see of each other in the caches they share, and other
  things the code does on every such input (a late logger, a host whose name no
  container can have, a file with an empty document): they are listed as hazards
  without a property, and the properties next to them say where they end.
- The text of scripts: quoting, and a script that holds the wrapper's end marker.
- The timeout of a TaskRun, which nothing reads; `DOCKER_HOST`, which a comment lists (`buildkit.go:61`)
  and `getFromEnv` does not read; the temporary file of `-f -`; the forwarders' way out
  when the display has ended (`ResetTime`, `WithPrefix`), which `DisplayIsLast` shows is
  never taken.
- Which files a ConfigMap or Secret is turned into: only whether those asked for are
  there.

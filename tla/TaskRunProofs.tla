--------------------------- MODULE TaskRunProofs ---------------------------
(***************************************************************************)
(* The build of a TaskRun, proved for every set of TaskRuns: which of them  *)
(* translate, the order of the steps, and that the build is one of a        *)
(* pipeline of one task.  The graph is a chain, so a build is always at one *)
(* step, with those before it done and those after it to come.             *)
(***************************************************************************)
EXTENDS TaskRunBuild, TLAPS, WellFoundedInduction

\* The vertex of the k-th step.
StepAt(k) == <<"task", taskRun.name, k>>

Count == Len(taskRun.steps)

\* What each stage of the translation has found of the run.
StageInv ==
  /\ pc \in {"resolve", "steps", "done"} => ValidateTaskRun(taskRun)
  /\ pc \in {"steps", "done"} => Resolved(taskRun) /\ taskRun.spec # "resolver"
  /\ pc = "done" => taskRun.defect # "badImage"

\* The graph is empty until it is the chain of all the steps.
ChainInv ==
  IF pc = "done"
  THEN /\ DOMAIN llb = {StepAt(k) : k \in 1..Count}
       /\ \A k \in 1..Count :
            llb[StepAt(k)] =
              StepOp("task", AsTask(taskRun), k, WorkspaceCacheDirs(taskRun), {}, {})
  ELSE DOMAIN llb = {}

\* The build has got to the k-th step.
Reached(k) ==
  /\ \A j \in 1..Count : j < k => status[StepAt(j)] = "done"
  /\ \A j \in 1..Count : j > k =>
       status[StepAt(j)] \in (IF build = "solving" THEN {"pending"} ELSE {"pending", "canceled"})
  /\ status[StepAt(k)] \in {"pending", "running", "done", "failed", "broken"}
                             \cup (IF build = "solving" THEN {} ELSE {"canceled"})

\* A build that is submitted is one of all the steps, and is at one of them.
ProgressInv ==
  /\ build \in {"idle", "solving", "succeeded", "failed", "interrupted"}
  /\ build # "idle" => pc \in {"done", "error"}
  /\ build = "idle" => DOMAIN status = {}
  /\ build \in {"solving", "succeeded", "interrupted"} => DOMAIN status # {}
  /\ DOMAIN status # {} =>
       /\ pc = "done"
       /\ DOMAIN status = {StepAt(k) : k \in 1..Count}
       /\ \E k \in 1..Count : Reached(k)

\* INDUCTIVE INVARIANT of the build of a TaskRun.
TaskRunInv ==
  /\ taskRun \in TaskRun
  /\ pc \in {"validate", "resolve", "steps", "done", "error", "panic"}
  /\ TaskRunsTranslate /\ StageInv /\ ChainInv /\ ProgressInv

-----------------------------------------------------------------------------
(* The chain.                                                              *)

\* What is known of a run by its type.
LEMMA RunIs ==
  ASSUME taskRun \in TaskRun
  PROVE  /\ taskRun.name \in STRING /\ taskRun.steps \in Seq(Step)
         /\ Count \in Nat /\ DOMAIN taskRun.steps = 1..Count
         /\ taskRun.steps # <<>> => Count \in 1..Count
         /\ \A k \in 1..Count : taskRun.steps[k] \in Step
         /\ taskRun.defect \in Defect /\ taskRun.defect # "notFound"
         /\ taskRun.spec \in SpecSource
         /\ taskRun.workspaces \subseteq TaskRunWorkspace
<1>1. taskRun.steps \in Seq(Step) /\ taskRun.name \in STRING
  BY DEF TaskRun
<1>2. \A S : \A s \in Seq(S) :
        /\ Len(s) \in Nat /\ DOMAIN s = 1..Len(s) /\ \A i \in 1..Len(s) : s[i] \in S
        /\ s # <<>> => Len(s) \in 1..Len(s)
  OBVIOUS
<1>3. /\ Count \in Nat /\ DOMAIN taskRun.steps = 1..Count
      /\ taskRun.steps # <<>> => Count \in 1..Count
      /\ \A k \in 1..Count : taskRun.steps[k] \in Step
  BY <1>1, <1>2 DEF Count
<1>4. /\ taskRun.defect \in Defect /\ taskRun.defect # "notFound"
      /\ taskRun.spec \in SpecSource
      /\ taskRun.workspaces \subseteq TaskRunWorkspace
  BY DEF TaskRun
<1> QED
  BY <1>1, <1>3, <1>4

\* The states of the steps, and the last of them.
LEMMA ChainIs ==
  ASSUME taskRun \in TaskRun
  PROVE  /\ Elements(StepStates("task", AsTask(taskRun))) = {StepAt(k) : k \in 1..Count}
         /\ taskRun.steps # <<>> => LastStep = StepAt(Count)
         /\ \A j, k \in 1..Count : StepAt(j) = StepAt(k) => j = k
<1>1. /\ Count \in Nat
      /\ taskRun.steps # <<>> => Count \in 1..Count
  BY RunIs
<1> DEFINE states == StepStates("task", AsTask(taskRun))
<1>2. states = [k \in 1..Count |-> StepAt(k)]
  BY DEF StepStates, AsTask, StepAt, Count
<1>3. Len(states) = Count
  BY <1>1, <1>2
<1>4. Elements(states) = {StepAt(k) : k \in 1..Count}
  BY <1>2 DEF Elements
<1>5. taskRun.steps # <<>> => LastStep = StepAt(Count)
  <2> HIDE DEF states
  <2> QED
    BY <1>1, <1>2, <1>3 DEF LastStep, LastOf, states
<1>6. \A j, k \in 1..Count : StepAt(j) = StepAt(k) => j = k
  BY DEF StepAt
<1> QED
  BY <1>4, <1>5, <1>6

\* The inputs of each step: the one before.
LEMMA InputsAre ==
  ASSUME taskRun \in TaskRun, ChainInv, pc = "done", NEW k \in 1..Count
  PROVE  llb[StepAt(k)].inputs = IF k = 1 THEN {} ELSE {StepAt(k - 1)}
<1>1. llb[StepAt(k)] = StepOp("task", AsTask(taskRun), k, WorkspaceCacheDirs(taskRun), {}, {})
  BY DEF ChainInv
<1>2. llb[StepAt(k)].inputs = PreviousStep("task", AsTask(taskRun), k) \cup {}
  BY <1>1 DEF StepOp
<1>3. PreviousStep("task", AsTask(taskRun), k) = IF k = 1 THEN {} ELSE {StepAt(k - 1)}
  BY DEF PreviousStep, AsTask, StepAt
<1> QED
  BY <1>2, <1>3

-----------------------------------------------------------------------------
(* The translation.                                                         *)

\* Before anything is looked at.
LEMMA TaskRunInvInit == TaskRunBuildInit => TaskRunInv
<1> SUFFICES ASSUME TaskRunBuildInit PROVE TaskRunInv
  OBVIOUS
<1>1. taskRun \in TaskRun /\ pc = "validate" /\ DOMAIN llb = {}
  BY TaskRunsAssumption DEF TaskRunBuildInit, TaskRunInit
<1>2. build = "idle" /\ DOMAIN status = {}
  BY DEF TaskRunBuildInit
<1> QED
  BY <1>1, <1>2 DEF TaskRunInv, TaskRunsTranslate, StageInv, ChainInv, ProgressInv

\* Each stage of the translation.
LEMMA TranslateNext == ASSUME TaskRunInv, Translate PROVE TaskRunInv'
<1>1. /\ taskRun \in TaskRun /\ taskRun' = taskRun /\ status' = status /\ build' = build
      /\ TaskRunNext
  BY DEF TaskRunInv, Translate, TaskRunNext, Validate, Resolve, TranslateSteps, RejectImage, Give
<1>2. pc \in {"validate", "resolve", "steps"}
  BY <1>1 DEF TaskRunNext, Validate, Resolve, TranslateSteps, RejectImage
<1>3. /\ build = "idle" /\ DOMAIN status = {} /\ DOMAIN llb = {}
      /\ StageInv
  BY <1>2 DEF TaskRunInv, ProgressInv, ChainInv
<1>4. ProgressInv'
  BY <1>1, <1>3 DEF ProgressInv
<1>5. /\ taskRun.defect \in Defect /\ taskRun.defect # "notFound"
      /\ taskRun.spec \in SpecSource
  BY <1>1, RunIs
<1>6. CASE Validate
  <2>1. /\ pc' \in {"resolve", "error"} /\ llb' = llb
        /\ pc' = "resolve" => ValidateTaskRun(taskRun)
        /\ pc' = "error" => ~ValidateTaskRun(taskRun)
    BY <1>6 DEF Validate, Give
  <2>2. StageInv' /\ ChainInv'
    BY <1>1, <1>3, <2>1 DEF StageInv, ChainInv
  <2>3. TaskRunsTranslate'
    BY <1>1, <2>1 DEF TaskRunsTranslate, ValidateTaskRun
  <2> QED
    BY <1>1, <1>4, <2>1, <2>2, <2>3 DEF TaskRunInv
<1>7. CASE Resolve
  <2>1. /\ pc = "resolve" /\ pc' \in {"steps", "error", "panic"} /\ llb' = llb
        /\ pc' = "steps" => Resolved(taskRun) /\ taskRun.spec # "resolver"
        /\ pc' = "error" => ~Resolved(taskRun)
        /\ pc' = "panic" => taskRun.spec = "resolver"
    BY <1>7 DEF Resolve, Give
  <2>2. StageInv' /\ ChainInv'
    BY <1>1, <1>3, <2>1 DEF StageInv, ChainInv
  <2>3. TaskRunsTranslate'
    BY <1>1, <1>3, <2>1 DEF TaskRunsTranslate, StageInv, ValidateTaskRun, Resolved
  <2> QED
    BY <1>1, <1>4, <2>1, <2>2, <2>3 DEF TaskRunInv
<1>8. CASE TranslateSteps
  <2>1. /\ pc = "steps" /\ pc' = "done" /\ taskRun.defect # "badImage"
        /\ llb' = [v \in Elements(StepStates("task", AsTask(taskRun))) |->
                     StepOp("task", AsTask(taskRun), v[3], WorkspaceCacheDirs(taskRun), {}, {})]
    BY <1>8 DEF TranslateSteps
  <2>2. StageInv' /\ ValidateTaskRun(taskRun) /\ Resolved(taskRun) /\ taskRun.spec # "resolver"
    BY <1>1, <1>3, <2>1 DEF StageInv
  <2>3. DOMAIN llb' = {StepAt(k) : k \in 1..Count}
    BY <1>1, <2>1, ChainIs
  <2>4. ASSUME NEW k \in 1..Count
        PROVE  llb'[StepAt(k)] =
                 StepOp("task", AsTask(taskRun), k, WorkspaceCacheDirs(taskRun), {}, {})
    <3>1. StepAt(k)[3] = k
      BY DEF StepAt
    <3>2. StepAt(k) \in Elements(StepStates("task", AsTask(taskRun)))
      BY <1>1, ChainIs
    <3> QED
      BY <2>1, <3>1, <3>2
  <2>5. ChainInv'
    BY <1>1, <2>1, <2>3, <2>4 DEF ChainInv, StepAt, Count
  <2>6. TaskRunsTranslate'
    BY <1>1, <1>5, <2>1, <2>2 DEF TaskRunsTranslate, ValidateTaskRun, Resolved, TaskSpecValid,
       Defect, SpecSource
  <2> QED
    BY <1>1, <1>4, <2>1, <2>2, <2>5, <2>6 DEF TaskRunInv
<1>9. CASE RejectImage
  <2>1. pc = "steps" /\ pc' = "error" /\ llb' = llb /\ taskRun.defect = "badImage"
    BY <1>9 DEF RejectImage, Give
  <2>2. StageInv' /\ ChainInv'
    BY <1>1, <1>3, <2>1 DEF StageInv, ChainInv
  <2>3. TaskRunsTranslate'
    BY <1>1, <2>1 DEF TaskRunsTranslate
  <2> QED
    BY <1>1, <1>4, <2>1, <2>2, <2>3 DEF TaskRunInv
<1> QED
  BY <1>1, <1>6, <1>7, <1>8, <1>9 DEF TaskRunNext

-----------------------------------------------------------------------------
(* The build.                                                              *)

\* The order of the naturals is well founded.
Less == {p \in Nat \X Nat : p[1] < p[2]}

\* There is no end to going down in it.
LEMMA LessIsWellFounded == IsWellFoundedOn(Less, Nat)
<1>1. Less = OpToRel(<, Nat)
  BY Zenon DEF OpToRel, Less
<1> QED
  BY <1>1, NatLessThanWellFounded, Zenon

\* What holds of some natural holds of a least one.
LEMMA LeastNatural ==
  ASSUME NEW S \in SUBSET Nat, S # {}
  PROVE  \E m \in S : \A n \in S : m <= n
<1>1. PICK m \in S : \A n \in S : <<n, m>> \notin Less
  BY LessIsWellFounded, WFMin, Zenon
<1>2. ASSUME NEW n \in S, n < m PROVE FALSE
  <2>1. <<n, m>> \in Nat \X Nat /\ <<n, m>>[1] < <<n, m>>[2]
    BY <1>2
  <2>2. <<n, m>> \in Less
    BY <2>1, Zenon DEF Less
  <2> QED
    BY <2>2, <1>1
<1> QED
  BY <1>1, <1>2, SMT

\* A set that holds the last step, and with a step the one it mounts, holds all.
LEMMA AllAreReached ==
  ASSUME taskRun \in TaskRun, NEW S, Count \in 1..Count, StepAt(Count) \in S,
         \A k \in 1..Count : StepAt(k) \in S /\ k > 1 => StepAt(k - 1) \in S
  PROVE  \A k \in 1..Count : StepAt(k) \in S
<1> SUFFICES ASSUME NEW k \in 1..Count, StepAt(k) \notin S PROVE FALSE
  OBVIOUS
<1>1. Count \in Nat
  BY RunIs
<1> DEFINE D == {d \in Nat : d < Count /\ StepAt(Count - d) \notin S}
<1>2. Count - k \in D
  <2>1. Count - k \in Nat /\ Count - k < Count /\ Count - (Count - k) = k
    BY <1>1
  <2> QED
    BY <2>1
<1>3. PICK d \in D : \A e \in D : d <= e
  BY <1>2, LeastNatural
<1>4. d \in Nat /\ d < Count /\ StepAt(Count - d) \notin S
  BY <1>3
<1>5. d # 0
  BY <1>1, <1>4
<1>6. d - 1 \notin D /\ d - 1 \in Nat /\ d - 1 < Count
  BY <1>1, <1>3, <1>4, <1>5
<1>7. StepAt(Count - (d - 1)) \in S
  BY <1>6
<1>8. Count - (d - 1) \in 1..Count /\ Count - (d - 1) > 1 /\ (Count - (d - 1)) - 1 = Count - d
  BY <1>1, <1>4, <1>5
<1> QED
  BY <1>4, <1>7, <1>8

\* Marshalling the last state keeps every step.
LEMMA AllAreBuilt ==
  ASSUME TaskRunInv, pc = "done"
  PROVE  Solver!Reachable = {StepAt(k) : k \in 1..Count} /\ Count \in 1..Count
<1>1. /\ taskRun \in TaskRun /\ ChainInv /\ taskRun.steps # <<>>
      /\ DOMAIN llb = {StepAt(k) : k \in 1..Count}
  BY DEF TaskRunInv, ChainInv, StageInv, Resolved, TaskSpecValid
<1>2. LastStep = StepAt(Count) /\ Count \in 1..Count
  BY <1>1, ChainIs, RunIs
<1>3. ASSUME NEW S \in SUBSET DOMAIN llb, Solver!Closed(S)
      PROVE  \A k \in 1..Count : StepAt(k) \in S
  <2>1. StepAt(Count) \in S /\ \A v \in S : llb[v].inputs \subseteq S
    BY <1>2, <1>3 DEF Solver!Closed
  <2>2. ASSUME NEW k \in 1..Count, StepAt(k) \in S, k > 1 PROVE StepAt(k - 1) \in S
    <3>1. llb[StepAt(k)].inputs = IF k = 1 THEN {} ELSE {StepAt(k - 1)}
      BY <1>1, InputsAre
    <3> QED
      BY <2>1, <2>2, <3>1
  <2> QED
    BY <1>1, <1>2, <2>1, <2>2, AllAreReached
<1> QED
  BY <1>1, <1>2, <1>3 DEF Solver!Reachable

\* What does not change the translation leaves what is known of it.
LEMMA TranslationStays ==
  ASSUME TaskRunInv, taskRun' = taskRun, pc' = pc, llb' = llb, ProgressInv'
  PROVE  TaskRunInv'
BY DEF TaskRunInv, TaskRunsTranslate, StageInv, ChainInv, StepAt, Count

\* Every step is pending once the chain is submitted.
LEMMA SubmitNext == ASSUME TaskRunInv, Submit PROVE TaskRunInv'
<1>1. /\ pc = "done" /\ build = "idle" /\ llb' = llb /\ pc' = pc /\ taskRun' = taskRun
      /\ \/ build' = "solving" /\ status' = [v \in Solver!Reachable |-> "pending"]
         \/ build' = "failed" /\ status' = status
  BY DEF Submit, Solver!Solve, translated
<1>2. CASE build' = "solving" /\ status' = [v \in Solver!Reachable |-> "pending"]
  <2>1. Solver!Reachable = {StepAt(k) : k \in 1..Count} /\ Count \in 1..Count
    BY <1>1, AllAreBuilt
  <2>2. /\ DOMAIN status' = {StepAt(k) : k \in 1..Count}
        /\ \A k \in 1..Count : status'[StepAt(k)] = "pending"
    BY <1>2, <2>1
  <2>3. StepAt(Count) \in DOMAIN status' /\ 1 \in 1..Count /\ \A j \in 1..Count : ~(j < 1)
    BY <2>1, <2>2, RunIs DEF TaskRunInv
  <2>4. Reached(1)'
    BY <1>1, <1>2, <2>2, <2>3 DEF Reached, StepAt, Count
  <2>5. ProgressInv'
    BY <1>1, <1>2, <2>2, <2>3, <2>4 DEF ProgressInv, StepAt, Count
  <2> QED
    BY <1>1, <2>5, TranslationStays
<1>3. CASE build' = "failed" /\ status' = status
  <2>1. ProgressInv'
    BY <1>1, <1>3 DEF TaskRunInv, ProgressInv
  <2> QED
    BY <1>1, <2>1, TranslationStays
<1> QED
  BY <1>1, <1>2, <1>3

\* An error of the translation is returned, and nothing is submitted.
LEMMA ReturnErrorNext == ASSUME TaskRunInv, ReturnError PROVE TaskRunInv'
<1>1. /\ pc = "error" /\ build = "idle" /\ build' = "failed"
      /\ pc' = pc /\ taskRun' = taskRun /\ llb' = llb /\ status' = status
  BY DEF ReturnError, translated
<1>2. ProgressInv'
  BY <1>1 DEF TaskRunInv, ProgressInv
<1> QED
  BY <1>1, <1>2, TranslationStays

\* A step of the build sets one status, of a step that is ready or runs.
Moves(j, s) ==
  /\ Solver!Ready(StepAt(j)) \/ status[StepAt(j)] = "running"
  /\ status' = [status EXCEPT ![StepAt(j)] = s]
  /\ \/ Solver!Ready(StepAt(j)) /\ s = "running"
     \/ status[StepAt(j)] = "running" /\ s \in {"done", "failed", "broken"}

\* What the solver does to one operation is such a step.
LEMMA SetsOneStatus ==
  ASSUME ProgressInv, NEW v \in DOMAIN status,
         Solver!Start(v) \/ Solver!Exit(v) \/ Solver!TimeoutExpires(v) \/ Solver!Breaks(v)
  PROVE  /\ build = "solving" /\ build' = build /\ llb' = llb
         /\ \E j \in 1..Count : \E s : Moves(j, s)
<1>1. PICK j \in 1..Count : v = StepAt(j)
  BY DEF ProgressInv
<1>2. build = "solving" /\ build' = build /\ llb' = llb
  BY DEF Solver!Start, Solver!Exit, Solver!TimeoutExpires, Solver!Breaks, Solver!ExitsWith,
     Solver!SetStatus
<1>3. \/ Solver!Ready(v) /\ status' = [status EXCEPT ![v] = "running"]
      \/ status[v] = "running" /\ status' = [status EXCEPT ![v] = "done"]
      \/ status[v] = "running" /\ status' = [status EXCEPT ![v] = "failed"]
      \/ status[v] = "running" /\ status' = [status EXCEPT ![v] = "broken"]
  BY DEF Solver!Start, Solver!Exit, Solver!TimeoutExpires, Solver!Breaks, Solver!ExitsWith,
     Solver!SetStatus
<1> QED
  BY <1>1, <1>2, <1>3 DEF Moves

\* A build that goes on is at the step that is ready or runs.
LEMMA ReadyIsReached ==
  ASSUME TaskRunInv, build = "solving", NEW j \in 1..Count,
         Solver!Ready(StepAt(j)) \/ status[StepAt(j)] = "running"
  PROVE  Reached(j)
<1>1. /\ taskRun \in TaskRun /\ ChainInv /\ pc = "done"
      /\ DOMAIN status = {StepAt(k) : k \in 1..Count}
      /\ \E k \in 1..Count : Reached(k)
  BY DEF TaskRunInv, ProgressInv
<1>2. PICK k \in 1..Count : Reached(k)
  BY <1>1
<1>3. /\ \A i \in 1..Count : i < k => status[StepAt(i)] = "done"
      /\ \A i \in 1..Count : i > k => status[StepAt(i)] = "pending"
  BY <1>2 DEF Reached
<1>4. Count \in Nat
  BY <1>1, RunIs
<1>5. CASE j = k
  BY <1>2, <1>5
<1>6. CASE j < k
  BY <1>3, <1>6 DEF Solver!Ready
<1>7. CASE j > k
  <2>1. Solver!Ready(StepAt(j))
    BY <1>3, <1>7
  <2>2. StepAt(j - 1) \in llb[StepAt(j)].inputs
    <3>1. j # 1
      BY <1>4, <1>7
    <3> QED
      BY <1>1, <3>1, InputsAre
  <2>3. status[StepAt(j - 1)] = "done"
    BY <2>1, <2>2 DEF Solver!Ready
  <2>4. j - 1 \in 1..Count /\ j - 1 >= k
    BY <1>4, <1>7
  <2>5. j - 1 = k
    <3>1. ~(j - 1 > k)
      BY <1>3, <2>3, <2>4
    <3> QED
      BY <1>4, <2>4, <3>1
  <2>6. \A i \in 1..Count : i < j => status[StepAt(i)] = "done"
    <3> SUFFICES ASSUME NEW i \in 1..Count, i < j PROVE status[StepAt(i)] = "done"
      OBVIOUS
    <3>1. i < k \/ i = j - 1
      BY <1>4, <2>5
    <3> QED
      BY <1>3, <2>3, <3>1
  <2>7. \A i \in 1..Count : i > j => status[StepAt(i)] = "pending"
    BY <1>3, <1>4, <1>7
  <2>8. status[StepAt(j)] = "pending"
    BY <2>1 DEF Solver!Ready
  <2> QED
    BY <2>6, <2>7, <2>8 DEF Reached
<1> QED
  BY <1>4, <1>5, <1>6, <1>7

\* The step a build has got to goes on.
LEMMA ReachedMoves ==
  ASSUME TaskRunInv, build = "solving", build' = build, taskRun' = taskRun,
         NEW j \in 1..Count, NEW s, Moves(j, s)
  PROVE  /\ Reached(j) /\ Reached(j)'
         /\ DOMAIN status' = DOMAIN status
         /\ status'[StepAt(j)] = s
         /\ \A i \in 1..Count : i # j => status'[StepAt(i)] = status[StepAt(i)]
<1>1. /\ taskRun \in TaskRun /\ DOMAIN status = {StepAt(k) : k \in 1..Count}
  BY DEF TaskRunInv, ProgressInv
<1>2. Reached(j)
  BY ReadyIsReached DEF Moves
<1>3. \A i \in 1..Count : i # j => StepAt(i) # StepAt(j)
  BY <1>1, ChainIs
<1>4. /\ DOMAIN status' = DOMAIN status
      /\ status'[StepAt(j)] = s
      /\ \A i \in 1..Count : i # j => status'[StepAt(i)] = status[StepAt(i)]
  BY <1>1, <1>3 DEF Moves
<1>5. s \in {"running", "done", "failed", "broken"}
  BY DEF Moves
<1>6. \A i \in 1..Count : (i < j => i # j) /\ (i > j => i # j)
  BY <1>1, RunIs
<1>7. \A i : StepAt(i)' = StepAt(i)
  BY DEF StepAt
<1>8. Count' = Count
  BY DEF Count
<1>9. Reached(j)'
  BY <1>2, <1>4, <1>5, <1>6, <1>7, <1>8 DEF Reached
<1> QED
  BY <1>2, <1>4, <1>9

\* Giving up leaves the build where it is.
LEMMA ReachedGivenUp ==
  ASSUME TaskRunInv, build = "solving", taskRun' = taskRun, build' # "solving",
         Solver!GiveUp, NEW k \in 1..Count, Reached(k)
  PROVE  Reached(k)' /\ DOMAIN status' = DOMAIN status
<1>1. DOMAIN status = {StepAt(j) : j \in 1..Count}
  BY DEF TaskRunInv, ProgressInv
<1>2. /\ DOMAIN status' = DOMAIN status
      /\ \A j \in 1..Count : status'[StepAt(j)] = IF status[StepAt(j)] \in {"pending", "running"}
                                                  THEN "canceled" ELSE status[StepAt(j)]
  BY <1>1 DEF Solver!GiveUp
<1>3. (\A j : StepAt(j)' = StepAt(j)) /\ Count' = Count
  BY DEF StepAt, Count
<1>4. Reached(k)'
  BY <1>2, <1>3 DEF Reached
<1> QED
  BY <1>2, <1>4

\* The steps of the build.
LEMMA RunNext == ASSUME TaskRunInv, Run PROVE TaskRunInv'
<1>1. /\ Solver!SolveNext /\ taskRun' = taskRun /\ pc' = pc /\ ProgressInv
      /\ \A j : StepAt(j)' = StepAt(j)
      /\ Count' = Count
  BY DEF Run, translated, TaskRunInv, StepAt, Count
<1>2. CASE \E v \in DOMAIN status : Solver!Start(v) \/ Solver!Exit(v)
                                      \/ Solver!TimeoutExpires(v) \/ Solver!Breaks(v)
  <2>1. /\ build = "solving" /\ build' = build /\ llb' = llb
        /\ \E j \in 1..Count : \E s : Moves(j, s)
    BY <1>1, <1>2, SetsOneStatus
  <2>2. PICK j \in 1..Count : \E s : Moves(j, s)
    BY <2>1
  <2>3. PICK s : Moves(j, s)
    BY <2>2
  <2>4. Reached(j)' /\ DOMAIN status' = DOMAIN status
    BY <1>1, <2>1, <2>3, ReachedMoves
  <2>5. ProgressInv'
    BY <1>1, <2>1, <2>4 DEF ProgressInv
  <2> QED
    BY <1>1, <2>1, <2>5, TranslationStays
<1>3. CASE Solver!Abort \/ Solver!Interrupt
  <2>1. /\ build = "solving" /\ build' \in {"failed", "interrupted"} /\ llb' = llb
        /\ Solver!GiveUp
    BY <1>3 DEF Solver!Abort, Solver!Interrupt
  <2>2. PICK k \in 1..Count : Reached(k)
    BY <1>1, <2>1 DEF ProgressInv
  <2>3. Reached(k)' /\ DOMAIN status' = DOMAIN status
    BY <1>1, <2>1, <2>2, ReachedGivenUp
  <2>4. ProgressInv'
    BY <1>1, <2>1, <2>3 DEF ProgressInv
  <2> QED
    BY <1>1, <2>1, <2>4, TranslationStays
<1>4. CASE Solver!Finish
  <2>1. build = "solving" /\ build' = "succeeded" /\ llb' = llb /\ status' = status
    BY <1>4 DEF Solver!Finish
  <2>2. PICK k \in 1..Count : Reached(k)
    BY <1>1, <2>1 DEF ProgressInv
  <2>3. Reached(k)'
    BY <1>1, <2>1, <2>2 DEF Reached
  <2>4. ProgressInv'
    BY <1>1, <2>1, <2>3 DEF ProgressInv
  <2> QED
    BY <1>1, <2>1, <2>4, TranslationStays
<1> QED
  BY <1>1, <1>2, <1>3, <1>4 DEF Solver!SolveNext

\* Every step keeps the invariant.
LEMMA TaskRunInvNext ==
  TaskRunInv /\ [TaskRunBuildNext]_taskRunBuildVars => TaskRunInv'
<1> SUFFICES ASSUME TaskRunInv, [TaskRunBuildNext]_taskRunBuildVars PROVE TaskRunInv'
  OBVIOUS
<1>1. CASE UNCHANGED taskRunBuildVars
  <2>1. /\ taskRun' = taskRun /\ pc' = pc /\ llb' = llb /\ status' = status /\ build' = build
    BY <1>1 DEF taskRunBuildVars
  <2>2. (\A j : StepAt(j)' = StepAt(j)) /\ Count' = Count /\ ProgressInv
    BY <2>1 DEF StepAt, Count, TaskRunInv
  <2>3. ASSUME NEW k \in 1..Count, Reached(k) PROVE Reached(k)'
    BY <2>1, <2>2, <2>3 DEF Reached
  <2>4. ProgressInv'
    BY <2>1, <2>2, <2>3 DEF ProgressInv
  <2> QED
    BY <2>1, <2>4, TranslationStays
<1> QED
  BY <1>1, TranslateNext, SubmitNext, ReturnErrorNext, RunNext DEF TaskRunBuildNext

-----------------------------------------------------------------------------
(* What follows from the invariant.                                        *)

\* The directories of a step are sequences of names.
LEMMA DirsAre ==
  ASSUME taskRun \in TaskRun, NEW k \in 1..Count
  PROVE  CacheDirsOf("task", AsTask(taskRun), k, WorkspaceCacheDirs(taskRun)) \subseteq CacheDir
<1> DEFINE parts == STRING \cup {"finally", "results", "volume"}
<1>1. /\ taskRun.name \in STRING /\ taskRun.steps[k] \in Step
      /\ taskRun.workspaces \subseteq TaskRunWorkspace
  BY RunIs
<1>2. /\ \A S : \A x \in S : <<x>> \in Seq(S)
      /\ \A S : \A x, y \in S : <<x, y>> \in Seq(S)
      /\ \A S : \A p, q \in Seq(S) : p \o q \in Seq(S)
  OBVIOUS
<1>3. "results" \in parts /\ "volume" \in parts /\ STRING \subseteq parts
  OBVIOUS
<1> HIDE DEF parts
<1>4. CacheName("task", taskRun.name) \in Seq(parts)
  BY <1>1, <1>2, <1>3 DEF CacheName
<1>5. ResultsDir("task", taskRun.name) \in Seq(parts)
  BY <1>2, <1>3, <1>4 DEF ResultsDir
<1>6. ASSUME NEW w \in taskRun.workspaces PROVE <<taskRun.name, w.name>> \in Seq(parts)
  <2>1. w.name \in STRING
    BY <1>1 DEF TaskRunWorkspace
  <2> QED
    BY <1>1, <1>2, <1>3, <2>1
<1>7. ASSUME NEW v \in taskRun.steps[k].volumes
      PROVE  CacheName("task", taskRun.name) \o <<"volume", v>> \in Seq(parts)
  <2>1. v \in STRING
    BY <1>1 DEF Step
  <2> QED
    BY <1>2, <1>3, <1>4, <2>1
<1>8. CacheDirsOf("task", AsTask(taskRun), k, WorkspaceCacheDirs(taskRun)) \subseteq Seq(parts)
  BY <1>5, <1>6, <1>7 DEF CacheDirsOf, AsTask, WorkspaceCacheDirs
<1> QED
  BY <1>8 DEF CacheDir, parts

\* The operations of the chain are well formed, and mount what is in it.
LEMMA TypesFollow == TaskRunInv => TaskRunTypeOK
<1> SUFFICES ASSUME TaskRunInv PROVE TaskRunTypeOK
  OBVIOUS
<1>1. taskRun \in TaskRun /\ ChainInv
  BY DEF TaskRunInv
<1>2. CASE pc # "done"
  BY <1>1, <1>2 DEF TaskRunInv, ChainInv, TaskRunTypeOK
<1>3. CASE pc = "done"
  <2>1. DOMAIN llb = {StepAt(k) : k \in 1..Count}
    BY <1>1, <1>3 DEF ChainInv
  <2>2. taskRun.name \in STRING /\ Count \in Nat
    BY <1>1, RunIs
  <2>3. \A k \in 1..Count : StepAt(k) \in Vertex
    BY <2>2 DEF StepAt, Vertex
  <2>4. ASSUME NEW k \in 1..Count
        PROVE  llb[StepAt(k)] \in Op /\ llb[StepAt(k)].inputs \subseteq DOMAIN llb
    <3>1. llb[StepAt(k)] = StepOp("task", AsTask(taskRun), k, WorkspaceCacheDirs(taskRun), {}, {})
      BY <1>1, <1>3 DEF ChainInv
    <3>2. llb[StepAt(k)].inputs = IF k = 1 THEN {} ELSE {StepAt(k - 1)}
      BY <1>1, <1>3, InputsAre
    <3>3. k # 1 => k - 1 \in 1..Count
      BY <2>2
    <3>4. llb[StepAt(k)].inputs \subseteq DOMAIN llb /\ llb[StepAt(k)].inputs \subseteq Vertex
      BY <2>1, <2>3, <3>2, <3>3
    <3>5. /\ IgnoresExit(AsTask(taskRun), AsTask(taskRun).steps[k]) \in BOOLEAN
          /\ Bounded(AsTask(taskRun), AsTask(taskRun).steps[k]) \in BOOLEAN
      BY DEF IgnoresExit, Bounded, Wrapped, HasTimeout
    <3>6. llb[StepAt(k)] \in Op
      BY <1>1, <3>1, <3>4, <3>5, DirsAre DEF StepOp, Op
    <3> QED
      BY <3>4, <3>6
  <2> QED
    BY <1>1, <1>3, <2>1, <2>3, <2>4 DEF TaskRunTypeOK
<1> QED
  BY <1>2, <1>3

\* A step that has started is the one the build has got to, or one before it.
LEMMA OrderFollows == TaskRunInv => TaskRunStepsInOrder
<1> SUFFICES ASSUME TaskRunInv,
                    NEW i \in DOMAIN taskRun.steps, NEW j \in DOMAIN taskRun.steps, i < j,
                    StatusOf(<<"task", taskRun.name, j>>) \in {"running", "done", "failed", "broken"}
             PROVE  StatusOf(<<"task", taskRun.name, i>>) = "done"
  BY DEF TaskRunStepsInOrder
<1>1. taskRun \in TaskRun /\ ProgressInv
  BY DEF TaskRunInv
<1>2. i \in 1..Count /\ j \in 1..Count /\ Count \in Nat
  BY <1>1, RunIs
<1>3. StepAt(j) \in DOMAIN status /\ status[StepAt(j)] \in {"running", "done", "failed", "broken"}
  BY DEF StatusOf, StepAt
<1>4. DOMAIN status = {StepAt(k) : k \in 1..Count} /\ \E k \in 1..Count : Reached(k)
  BY <1>1, <1>3 DEF ProgressInv
<1>5. PICK k \in 1..Count : Reached(k)
  BY <1>4
<1>6. ~(j > k)
  BY <1>2, <1>3, <1>5 DEF Reached
<1>7. i < k
  BY <1>2, <1>6
<1>8. status[StepAt(i)] = "done"
  BY <1>2, <1>5, <1>7 DEF Reached
<1> QED
  BY <1>2, <1>4, <1>8 DEF StatusOf, StepAt

-----------------------------------------------------------------------------
(* The refinement: the phase of the run, from the step it has got to.       *)

\* Before the build the run waits.
LEMMA PhaseBefore ==
  ASSUME DOMAIN status = {} PROVE PhaseOfRun = "waiting"
<1>1. StatusesOfSteps \subseteq {"none"}
  BY DEF StatusesOfSteps, StatusOf
<1> QED
  BY <1>1 DEF PhaseOfRun

\* The statuses of the steps of a build.
StatusesSeen ==
  TaskRunInv /\ DOMAIN status # {} =>
    \A s : s \in StatusesOfSteps <=> \E k \in 1..Count : s = status[StepAt(k)]

\* A build has all the steps, and no other.
LEMMA StatusesAre == StatusesSeen
<1> SUFFICES ASSUME TaskRunInv, DOMAIN status # {}
             PROVE  \A s : s \in StatusesOfSteps <=> \E k \in 1..Count : s = status[StepAt(k)]
  BY DEF StatusesSeen
<1>1. taskRun \in TaskRun /\ DOMAIN status = {StepAt(k) : k \in 1..Count}
  BY DEF TaskRunInv, ProgressInv
<1>2. \A k \in 1..Count : StatusOf(StepAt(k)) = status[StepAt(k)]
  BY <1>1 DEF StatusOf
<1>3. StatusesOfSteps = {StatusOf(v) : v \in {StepAt(k) : k \in 1..Count}}
  BY <1>1, ChainIs DEF StatusesOfSteps
<1> QED
  BY <1>2, <1>3

\* While the build goes on, the step it has got to tells the phase: whether it is
\* the first or the last, and its status.
PhaseIsOf(k) ==
  PhaseOfRun =
    IF status[StepAt(k)] \in {"failed", "broken"} THEN "failed"
    ELSE IF status[StepAt(k)] = "pending" /\ k = 1 THEN "waiting"
    ELSE IF status[StepAt(k)] = "done" /\ k = Count THEN "succeeded"
    ELSE "running"

PhaseSeen == TaskRunInv /\ build = "solving" => \A k \in 1..Count : Reached(k) => PhaseIsOf(k)

\* The steps before it are done, and those after it still pending.
LEMMA PhaseIs == PhaseSeen
<1> SUFFICES ASSUME TaskRunInv, build = "solving", NEW k \in 1..Count, Reached(k)
             PROVE  PhaseIsOf(k)
  BY DEF PhaseSeen
<1> DEFINE seen == StatusesOfSteps
           now == status[StepAt(k)]
<1>1. Count \in Nat
  BY RunIs DEF TaskRunInv
<1>2. /\ \A j \in 1..Count : j < k => status[StepAt(j)] = "done"
      /\ \A j \in 1..Count : j > k => status[StepAt(j)] = "pending"
      /\ now \in {"pending", "running", "done", "failed", "broken"}
  BY DEF Reached
<1>3. \A s : s \in seen <=> \E j \in 1..Count : s = status[StepAt(j)]
  <2>1. DOMAIN status # {}
    BY DEF TaskRunInv, ProgressInv
  <2> QED
    BY <2>1, StatusesAre DEF StatusesSeen
<1>4. /\ now \in seen /\ seen \subseteq {"done", "pending", now}
      /\ k > 1 => "done" \in seen
      /\ k < Count => "pending" \in seen
      /\ k = 1 => seen \subseteq {"pending", now}
      /\ k = Count => seen \subseteq {"done", now}
  <2>1. \A j \in 1..Count : j < k \/ j > k \/ j = k
    BY <1>1
  <2>2. k > 1 => 1 \in 1..Count /\ status[StepAt(1)] = "done"
    BY <1>1, <1>2
  <2>3. k < Count => Count \in 1..Count /\ status[StepAt(Count)] = "pending"
    BY <1>1, <1>2
  <2>4. k = 1 => \A j \in 1..Count : j > k \/ j = k
    BY <1>1
  <2>5. k = Count => \A j \in 1..Count : j < k \/ j = k
    BY <1>1
  <2> HIDE DEF seen, now
  <2>6. now \in seen /\ seen \subseteq {"done", "pending", now}
    BY <1>2, <1>3, <2>1 DEF now
  <2>7. k = 1 => seen \subseteq {"pending", now}
    BY <1>2, <1>3, <2>4 DEF now
  <2>8. k = Count => seen \subseteq {"done", now}
    BY <1>2, <1>3, <2>5 DEF now
  <2> QED
    BY <1>3, <2>2, <2>3, <2>6, <2>7, <2>8
<1>5. k # 1 => k > 1
  BY <1>1
<1>6. k # Count => k < Count
  BY <1>1
<1> HIDE DEF seen, now
<1>7. CASE now \in {"failed", "broken"}
  BY <1>4, <1>7 DEF PhaseIsOf, PhaseOfRun, seen, now
<1>8. CASE now = "pending"
  BY <1>4, <1>5, <1>8 DEF PhaseIsOf, PhaseOfRun, seen, now
<1>9. CASE now = "running"
  BY <1>4, <1>9 DEF PhaseIsOf, PhaseOfRun, seen, now
<1>10. CASE now = "done"
  BY <1>4, <1>6, <1>10 DEF PhaseIsOf, PhaseOfRun, seen, now
<1> QED
  BY <1>2, <1>7, <1>8, <1>9, <1>10

\* Both are as true of the next state.
LEMMA SeenNext == StatusesSeen' /\ PhaseSeen'
BY StatusesAre, PhaseIs, PTL

\* Giving up cancels the run, unless it has failed or all is done.
LEMMA PhaseGivenUp ==
  ASSUME TaskRunInv, TaskRunInv', build = "solving", taskRun' = taskRun, Solver!GiveUp
  PROVE  PhaseOfRun' = IF PhaseOfRun \in {"waiting", "running"} THEN "canceled" ELSE PhaseOfRun
<1> DEFINE seen == StatusesOfSteps
           now == StatusesOfSteps'
<1>1. /\ DOMAIN status = {StepAt(k) : k \in 1..Count} /\ DOMAIN status # {}
      /\ \A k \in 1..Count : status[StepAt(k)] \in {"pending", "running", "done", "failed", "broken"}
      /\ Count \in Nat
  <2>1. /\ DOMAIN status = {StepAt(k) : k \in 1..Count} /\ DOMAIN status # {}
        /\ \E k \in 1..Count : Reached(k)
    BY DEF TaskRunInv, ProgressInv
  <2>2. PICK k \in 1..Count : Reached(k)
    BY <2>1
  <2>3. Count \in Nat
    BY RunIs DEF TaskRunInv
  <2>4. \A j \in 1..Count : j < k \/ j = k \/ j > k
    BY <2>3
  <2> QED
    BY <2>1, <2>2, <2>3, <2>4 DEF Reached
<1>2. /\ DOMAIN status' = DOMAIN status
      /\ \A k \in 1..Count : status'[StepAt(k)] = IF status[StepAt(k)] \in {"pending", "running"}
                                                  THEN "canceled" ELSE status[StepAt(k)]
  BY <1>1 DEF Solver!GiveUp
<1>3. (\A k : StepAt(k)' = StepAt(k)) /\ Count' = Count
  BY DEF StepAt, Count
<1>4. \A s : s \in seen <=> \E k \in 1..Count : s = status[StepAt(k)]
  BY <1>1, StatusesAre DEF StatusesSeen
<1>5. \A s : s \in now <=> \E k \in 1..Count : s = status'[StepAt(k)]
  BY <1>1, <1>2, <1>3, SeenNext DEF StatusesSeen
<1> HIDE DEF seen, now
<1>6. /\ "failed" \in now <=> "failed" \in seen
      /\ "broken" \in now <=> "broken" \in seen
      /\ "canceled" \in now <=> "pending" \in seen \/ "running" \in seen
      /\ "done" \in now <=> "done" \in seen
      /\ now \subseteq {"canceled", "done", "failed", "broken"}
      /\ seen \subseteq {"pending", "running", "done", "failed", "broken"}
      /\ seen # {} /\ now # {}
  BY <1>1, <1>2, <1>4, <1>5
<1>7. CASE seen \cap {"failed", "broken"} # {}
  BY <1>6, <1>7 DEF PhaseOfRun, seen, now
<1>8. CASE /\ seen \cap {"failed", "broken"} = {}
           /\ "pending" \in seen \/ "running" \in seen
  BY <1>6, <1>8 DEF PhaseOfRun, seen, now
<1>9. CASE seen = {"done"}
  <2>1. now = {"done"}
    BY <1>6, <1>9
  <2> QED
    BY <1>9, <2>1 DEF PhaseOfRun, seen, now
<1> QED
  BY <1>6, <1>7, <1>8, <1>9

-----------------------------------------------------------------------------

Phases == [id \in {<<"task", taskRun.name>>} |-> PhaseOfRun]

Verdict == IF build \in {"idle", "solving"} THEN "none" ELSE build

\* The run waits, and has no verdict.
LEMMA AbstractInit == TaskRunBuildInit => Abstract!Init
<1> SUFFICES ASSUME TaskRunBuildInit PROVE Abstract!Init
  OBVIOUS
<1>1. taskRun \in TaskRuns /\ DOMAIN status = {} /\ build = "idle"
  BY DEF TaskRunBuildInit, TaskRunInit
<1>2. PhaseOfRun = "waiting"
  BY <1>1, PhaseBefore
<1>3. Abstract!TaskIds(AsPipeline(taskRun)) = {<<"task", taskRun.name>>}
  BY DEF Abstract!TaskIds, Abstract!Names, Abstract!Elements, AsPipeline
<1> QED
  BY <1>1, <1>2, <1>3 DEF Abstract!Init

\* The task may start at once: it has no when expressions and runs after none.
LEMMA MayStart == Abstract!MayStart(<<"task", taskRun.name>>)
<1> DEFINE t == [name |-> taskRun.name, when |-> {}, runAfter |-> {}, steps |-> taskRun.steps]
<1>1. Abstract!Regular(<<"task", taskRun.name>>)
  BY DEF Abstract!Regular
<1>2. t \in Abstract!Declared(<<"task", taskRun.name>>)
  BY <1>1 DEF Abstract!Declared, Abstract!Elements, AsPipeline
<1>3. Abstract!EvaluateWhenExpressions(t.when) /\ t.runAfter = {}
  BY DEF Abstract!EvaluateWhenExpressions
<1> QED
  BY <1>1, <1>2, <1>3 DEF Abstract!MayStart

\* A move of its phase is a move of the only task there is.
LEMMA OneTaskMoves ==
  ASSUME taskRun' = taskRun, build' = build, build = "solving",
         NEW from, NEW to, PhaseOfRun = from, PhaseOfRun' = to
  PROVE  Abstract!Move(<<"task", taskRun.name>>, from, to)
<1>1. Verdict = "none" /\ Verdict' = "none" /\ AsPipeline(taskRun)' = AsPipeline(taskRun)
  BY DEF Verdict
<1>2. Phases' = [Phases EXCEPT ![<<"task", taskRun.name>>] = to] /\ Phases[<<"task", taskRun.name>>] = from
  BY DEF Phases
<1> QED
  BY <1>1, <1>2 DEF Abstract!Move, Phases, Verdict

\* Before the build is submitted, and when it is refused.
LEMMA AbstractBefore ==
  ASSUME TaskRunInv, Translate \/ Submit \/ ReturnError
  PROVE  \/ UNCHANGED <<AsPipeline(taskRun), Phases, Verdict>>
         \/ Abstract!Refuse
<1>1. /\ taskRun' = taskRun /\ build \in {"idle", build'}
      /\ \/ status' = status
         \/ build' = "solving" /\ status' = [v \in Solver!Reachable |-> "pending"]
      /\ build' \in {build, "solving", "failed"}
  BY DEF Translate, TaskRunNext, Validate, Resolve, TranslateSteps, RejectImage, Give, Submit,
     Solver!Solve, ReturnError, translated
<1>2. build = "idle" /\ DOMAIN status = {}
  <2>1. CASE Translate
    <3>1. pc \notin {"done", "error"}
      BY <2>1 DEF Translate, TaskRunNext, Validate, Resolve, TranslateSteps, RejectImage
    <3> QED
      BY <3>1 DEF TaskRunInv, ProgressInv
  <2>2. CASE Submit \/ ReturnError
    BY <2>2 DEF Submit, Solver!Solve, ReturnError, TaskRunInv, ProgressInv
  <2> QED
    BY <2>1, <2>2
<1>3. PhaseOfRun = "waiting"
  BY <1>2, PhaseBefore
<1>4. PhaseOfRun' = "waiting"
  <2>1. \A v : StatusOf(v)' \in {"none", "pending"}
    BY <1>1, <1>2 DEF StatusOf
  <2>2. StatusesOfSteps' \subseteq {"none", "pending"}
    BY <2>1 DEF StatusesOfSteps
  <2> QED
    BY <2>2 DEF PhaseOfRun
<1>5. Phases' = Phases /\ AsPipeline(taskRun)' = AsPipeline(taskRun) /\ Verdict = "none"
  BY <1>1, <1>2, <1>3, <1>4 DEF Phases, Verdict
<1>6. CASE build' \in {"idle", "solving"}
  BY <1>5, <1>6 DEF Verdict
<1>7. CASE build' = "failed"
  <2>1. Verdict' = "failed" /\ \A id \in DOMAIN Phases : Phases[id] = "waiting"
    BY <1>3, <1>7 DEF Verdict, Phases
  <2> QED
    BY <1>5, <2>1 DEF Abstract!Refuse, Phases, Verdict
<1> QED
  BY <1>1, <1>2, <1>6, <1>7

\* A step that starts or ends moves the run, or is one of several.
LEMMA AbstractStep ==
  ASSUME TaskRunInv, TaskRunInv', build = "solving", build' = build, taskRun' = taskRun,
         NEW j \in 1..Count, NEW s, Moves(j, s)
  PROVE  \/ UNCHANGED <<AsPipeline(taskRun), Phases, Verdict>>
         \/ \E id \in DOMAIN Phases :
              Abstract!StartTask(id) \/ Abstract!SucceedTask(id) \/ Abstract!FailTask(id)
<1>1. /\ Reached(j) /\ Reached(j)' /\ status'[StepAt(j)] = s
      /\ StepAt(j)' = StepAt(j) /\ Count' = Count
  BY ReachedMoves DEF StepAt, Count
<1>2. PhaseIsOf(j) /\ PhaseIsOf(j)'
  <2>1. PhaseIsOf(j)
    BY <1>1, PhaseIs DEF PhaseSeen
  <2>2. \A k \in 1..Count : Reached(k)' => PhaseIsOf(k)'
    BY <1>1, SeenNext DEF PhaseSeen
  <2> QED
    BY <1>1, <2>1, <2>2
<1>3. \/ status[StepAt(j)] = "pending" /\ s = "running"
      \/ status[StepAt(j)] = "running" /\ s \in {"done", "failed", "broken"}
  BY DEF Moves, Solver!Ready
<1> DEFINE id == <<"task", taskRun.name>>
<1>4. \/ PhaseOfRun' = PhaseOfRun
      \/ PhaseOfRun = "waiting" /\ PhaseOfRun' = "running"
      \/ PhaseOfRun = "running" /\ PhaseOfRun' \in {"succeeded", "failed"}
  BY <1>1, <1>2, <1>3 DEF PhaseIsOf
<1>5. id \in DOMAIN Phases
  BY DEF Phases
<1>6. CASE PhaseOfRun' = PhaseOfRun
  BY <1>6 DEF Phases, Verdict
<1>7. CASE PhaseOfRun = "waiting" /\ PhaseOfRun' = "running"
  <2>1. Abstract!StartTask(id)
    BY <1>7, MayStart, OneTaskMoves DEF Abstract!StartTask
  <2> QED
    BY <1>5, <2>1
<1>8. CASE PhaseOfRun = "running" /\ PhaseOfRun' = "succeeded"
  <2>1. Abstract!SucceedTask(id)
    BY <1>8, OneTaskMoves DEF Abstract!SucceedTask
  <2> QED
    BY <1>5, <2>1
<1>9. CASE PhaseOfRun = "running" /\ PhaseOfRun' = "failed"
  <2>1. Abstract!FailTask(id)
    BY <1>9, OneTaskMoves DEF Abstract!FailTask
  <2> QED
    BY <1>5, <2>1
<1> QED
  BY <1>4, <1>6, <1>7, <1>8, <1>9

\* The end of a build is the end of its run.
LEMMA AbstractEnd ==
  ASSUME TaskRunInv, TaskRunInv', taskRun' = taskRun,
         Solver!Abort \/ Solver!Interrupt \/ Solver!Finish
  PROVE  Abstract!StopOnFailure \/ Abstract!Stop("interrupted") \/ Abstract!Succeed
<1>1. /\ build = "solving" /\ Verdict = "none" /\ AsPipeline(taskRun)' = AsPipeline(taskRun)
      /\ DOMAIN status = {StepAt(k) : k \in 1..Count} /\ DOMAIN status # {}
      /\ pc = "done" /\ \E k \in 1..Count : Reached(k)
  BY DEF Solver!Abort, Solver!Interrupt, Solver!Finish, Verdict, TaskRunInv, ProgressInv
<1>2. ASSUME Solver!GiveUp, NEW why, Verdict' = why PROVE Abstract!Stop(why)
  <2>1. Phases' = [id \in DOMAIN Phases |-> IF Phases[id] \in {"waiting", "running"}
                                            THEN "canceled" ELSE Phases[id]]
    BY <1>1, <1>2, PhaseGivenUp DEF Phases
  <2> QED
    BY <1>1, <1>2, <2>1 DEF Abstract!Stop, Phases, Verdict
<1>3. CASE Solver!Abort
  <2>1. /\ Solver!GiveUp /\ Verdict' = "failed"
        /\ \E v \in DOMAIN status : status[v] \in {"failed", "broken"}
    BY <1>3 DEF Solver!Abort, Verdict
  <2>2. "failed" \in StatusesOfSteps \/ "broken" \in StatusesOfSteps
    BY <1>1, <2>1, StatusesAre DEF StatusesSeen
  <2>3. PhaseOfRun = "failed"
    BY <2>2 DEF PhaseOfRun
  <2>4. \E id \in DOMAIN Phases : Phases[id] = "failed"
    BY <2>3 DEF Phases
  <2>5. Abstract!Stop("failed")
    BY <1>2, <2>1
  <2> QED
    BY <2>4, <2>5 DEF Abstract!StopOnFailure, Phases
<1>4. CASE Solver!Interrupt
  <2>1. Solver!GiveUp /\ Verdict' = "interrupted"
    BY <1>4 DEF Solver!Interrupt, Verdict
  <2> QED
    BY <1>2, <2>1
<1>5. CASE Solver!Finish
  <2>1. status[LastStep] = "done" /\ Verdict' = "succeeded" /\ status' = status
    BY <1>5 DEF Solver!Finish, Verdict
  <2>2. LastStep = StepAt(Count) /\ Count \in 1..Count
    <3>1. taskRun \in TaskRun /\ taskRun.steps # <<>>
      BY <1>1 DEF TaskRunInv, StageInv, Resolved, TaskSpecValid
    <3> QED
      BY <3>1, ChainIs, RunIs
  <2>3. PICK k \in 1..Count : Reached(k)
    BY <1>1
  <2>4. Count \in Nat
    BY RunIs DEF TaskRunInv
  <2>5. k = Count
    <3>1. ~(Count > k)
      BY <1>1, <2>1, <2>2, <2>3 DEF Reached
    <3> QED
      BY <2>4, <3>1
  <2>6. PhaseIsOf(Count)
    BY <1>1, <2>3, <2>5, PhaseIs DEF PhaseSeen
  <2>7. PhaseOfRun = "succeeded"
    BY <2>1, <2>2, <2>6 DEF PhaseIsOf
  <2>8. PhaseOfRun' = PhaseOfRun
    BY <2>1 DEF PhaseOfRun, StatusesOfSteps, StatusOf
  <2>9. Phases' = Phases /\ Abstract!AllSucceeded
    BY <2>7, <2>8 DEF Phases, Abstract!AllSucceeded
  <2> QED
    BY <1>1, <2>1, <2>9 DEF Abstract!Succeed, Phases, Verdict
<1> QED
  BY <1>3, <1>4, <1>5

\* Every step of the build is one of the pipeline of one task, or none it sees.
LEMMA AbstractNext ==
  ASSUME TaskRunInv, TaskRunInv', [TaskRunBuildNext]_taskRunBuildVars
  PROVE  [Abstract!Next]_<<AsPipeline(taskRun), Phases, Verdict>>
<1>1. CASE Translate \/ Submit \/ ReturnError
  <2>1. \/ UNCHANGED <<AsPipeline(taskRun), Phases, Verdict>>
        \/ Abstract!Refuse
    BY <1>1, AbstractBefore
  <2> QED
    BY <2>1 DEF Abstract!Next
<1>2. CASE Run
  <2>1. taskRun' = taskRun /\ ProgressInv
    BY <1>2 DEF Run, translated, TaskRunInv
  <2>2. CASE \E v \in DOMAIN status : Solver!Start(v) \/ Solver!Exit(v)
                                        \/ Solver!TimeoutExpires(v) \/ Solver!Breaks(v)
    <3>1. /\ build = "solving" /\ build' = build
          /\ \E j \in 1..Count : \E s : Moves(j, s)
      BY <2>1, <2>2, SetsOneStatus
    <3>2. PICK j \in 1..Count : \E s : Moves(j, s)
      BY <3>1
    <3>3. PICK s : Moves(j, s)
      BY <3>2
    <3>4. \/ UNCHANGED <<AsPipeline(taskRun), Phases, Verdict>>
          \/ \E id \in DOMAIN Phases :
               Abstract!StartTask(id) \/ Abstract!SucceedTask(id) \/ Abstract!FailTask(id)
      BY <2>1, <3>1, <3>3, AbstractStep
    <3> QED
      BY <3>4 DEF Abstract!Next, Phases
  <2>3. CASE Solver!Abort \/ Solver!Interrupt \/ Solver!Finish
    <3>1. Abstract!StopOnFailure \/ Abstract!Stop("interrupted") \/ Abstract!Succeed
      BY <2>1, <2>3, AbstractEnd
    <3> QED
      BY <3>1 DEF Abstract!Next
  <2> QED
    BY <1>2, <2>2, <2>3 DEF Run, Solver!SolveNext
<1>3. CASE UNCHANGED taskRunBuildVars
  BY <1>3 DEF taskRunBuildVars, Phases, Verdict, PhaseOfRun, StatusesOfSteps, StatusOf
<1> QED
  BY <1>1, <1>2, <1>3 DEF TaskRunBuildNext

-----------------------------------------------------------------------------
(* Theorems.                                                               *)

\* THE INVARIANT HOLDS of every build of a TaskRun.
LEMMA TaskRunInvariant == TaskRunBuildSpec => []TaskRunInv
BY TaskRunInvInit, TaskRunInvNext, PTL DEF TaskRunBuildSpec

\* TYPE CORRECTNESS of the translation of a TaskRun, and of the graph it makes.
THEOREM TaskRunTypeCorrect == TaskRunBuildSpec => []TaskRunTypeOK
BY TypesFollow, TaskRunInvariant, PTL

\* WHICH TASKRUNS TRANSLATE: just those whose task is there, valid once it is
\* substituted, and has images that parse.
THEOREM FitTaskRunsTranslate == TaskRunBuildSpec => []TaskRunsTranslate
<1>1. TaskRunInv => TaskRunsTranslate
  BY DEF TaskRunInv
<1> QED
  BY <1>1, TaskRunInvariant, PTL

\* ORDER OF STEPS.  A step starts only once all those before it are done, although
\* each mounts only the one before, and only the last is asked for.
THEOREM TaskRunStepsAreInOrder == TaskRunBuildSpec => []TaskRunStepsInOrder
BY OrderFollows, TaskRunInvariant, PTL

\* REFINEMENT.  The build of a TaskRun is a behaviour of a pipeline of one task.
THEOREM OneTaskIsImplemented == TaskRunBuildSpec => ImplementsOneTask
BY AbstractInit, AbstractNext, TaskRunInvariant, PTL
   DEF TaskRunBuildSpec, ImplementsOneTask, Abstract!Spec, Phases, Verdict
=============================================================================

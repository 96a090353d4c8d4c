-------------------------- MODULE CacheDirsProofs --------------------------
(***************************************************************************)
(* No build of a run finds the data of a run of other names, proved for any *)
(* number of builds of any runs: the id of a cache directory begins with a  *)
(* name its run chose, or with the word for finally tasks and then such a   *)
(* name.  The invariant says that what a directory holds was left there by  *)
(* a step that mounts it.                                                  *)
(***************************************************************************)
EXTENDS CacheDirs, TLAPS

\* What the id of a directory tells of the run that mounts it.
OwnedBy(d, r) ==
  \/ d[1] \in {r.name} \cup Names(r.tasks)
  \/ d[1] = "finally" /\ d[2] \in Names(r.finally)

\* What is put behind the name of a task keeps it in front.
LEMMA NameInFront ==
  ASSUME NEW n, NEW S, NEW rest \in Seq(S)
  PROVE  /\ (CacheName("task", n) \o rest)[1] = n
         /\ (CacheName("finally", n) \o rest)[1] = "finally"
         /\ (CacheName("finally", n) \o rest)[2] = n
<1> DEFINE T == S \cup {n, "finally"}
<1>1. rest \in Seq(T) /\ <<n>> \in Seq(T) /\ <<"finally", n>> \in Seq(T)
  <2>1. n \in T /\ "finally" \in T /\ S \subseteq T
    OBVIOUS
  <2> HIDE DEF T
  <2>2. <<n>> \in Seq(T) /\ <<"finally", n>> \in Seq(T)
    BY <2>1
  <2>3. rest \in Seq(T)
    BY <2>1
  <2> QED
    BY <2>2, <2>3
<1> HIDE DEF T
<1>2. \A p, q \in Seq(T) : \A i \in 1..Len(p) : (p \o q)[i] = p[i]
  OBVIOUS
<1>3. /\ Len(<<n>>) = 1 /\ <<n>>[1] = n
      /\ Len(<<"finally", n>>) = 2 /\ <<"finally", n>>[1] = "finally" /\ <<"finally", n>>[2] = n
  OBVIOUS
<1>4. (<<n>> \o rest)[1] = n
  BY <1>1, <1>2, <1>3
<1>5. (<<"finally", n>> \o rest)[1] = "finally" /\ (<<"finally", n>> \o rest)[2] = n
  BY <1>1, <1>2, <1>3
<1> QED
  BY <1>4, <1>5 DEF CacheName

\* The results directory of a task and its volumes are its own.
LEMMA TaskDirs ==
  ASSUME NEW r, NEW kind \in {"task", "finally"}, NEW n,
         n \in IF kind = "task" THEN Names(r.tasks) ELSE Names(r.finally)
  PROVE  /\ OwnedBy(ResultsDir(kind, n), r)
         /\ \A w : OwnedBy(CacheName(kind, n) \o <<"volume", w>>, r)
<1>1. <<"results">> \in Seq({"results"})
  OBVIOUS
<1>2. \A w : <<"volume", w>> \in Seq({"volume", w})
  OBVIOUS
<1>3. ASSUME NEW S, NEW rest \in Seq(S) PROVE OwnedBy(CacheName(kind, n) \o rest, r)
  <2>1. /\ (CacheName("task", n) \o rest)[1] = n
        /\ (CacheName("finally", n) \o rest)[1] = "finally"
        /\ (CacheName("finally", n) \o rest)[2] = n
    BY <1>3, NameInFront
  <2>2. CASE kind = "task"
    BY <2>1, <2>2 DEF OwnedBy
  <2>3. CASE kind = "finally"
    BY <2>1, <2>3 DEF OwnedBy
  <2> QED
    BY <2>2, <2>3
<1>4. OwnedBy(ResultsDir(kind, n), r)
  BY <1>1, <1>3 DEF ResultsDir
<1> QED
  BY <1>2, <1>3, <1>4

\* Every directory that an operation of a run mounts tells of the run.
LEMMA MountsAreOwned ==
  ASSUME NEW r, NEW v \in DOMAIN GraphOf(r),
         NEW d \in GraphOf(r)[v].writes \cup GraphOf(r)[v].reads
  PROVE  OwnedBy(d, r)
<1>1. \A t \in Elements(r.tasks) : t.name \in Names(r.tasks)
  BY DEF Names
<1>2. \A t \in Elements(r.finally) : t.name \in Names(r.finally)
  BY DEF Names
<1>3. ASSUME NEW ts, ts \subseteq Elements(r.tasks), d \in ResultsDirs("task", ts)
      PROVE  OwnedBy(d, r)
  <2>1. PICK t \in ts : d = ResultsDir("task", t.name)
    BY <1>3 DEF ResultsDirs
  <2> QED
    BY <1>1, <1>3, <2>1, TaskDirs
<1>4. IncludedTasks(r) \subseteq Elements(r.tasks)
  BY DEF IncludedTasks
<1>5. CASE v = Collect
  <2>1. GraphOf(r)[v] = DeclaredCollectOp(r)
    BY <1>5 DEF GraphOf
  <2>2. \/ d \in ResultsDirs("task", IncludedTasks(r))
        \/ d \in ResultsDirs("finally", Elements(r.finally))
    BY <2>1 DEF DeclaredCollectOp
  <2>3. CASE d \in ResultsDirs("finally", Elements(r.finally))
    <3>1. PICK t \in Elements(r.finally) : d = ResultsDir("finally", t.name)
      BY <2>3 DEF ResultsDirs
    <3> QED
      BY <1>2, <3>1, TaskDirs
  <2> QED
    BY <1>3, <1>4, <2>2, <2>3
<1>6. CASE v # Collect
  <2>1. PICK kind \in {"task", "finally"} : v \in DeclaredSteps(r, kind)
    BY <1>6 DEF GraphOf
  <2>2. PICK u \in IF kind = "task" THEN IncludedTasks(r) ELSE Elements(r.finally) :
          v \in Elements(StepStates(kind, u))
    BY <2>1 DEF DeclaredSteps
  <2>3. v[1] = kind /\ v[2] = u.name
    <3>1. PICK states : states = StepStates(kind, u)
      OBVIOUS
    <3>2. PICK i \in DOMAIN states : v = states[i]
      BY <2>2, <3>1 DEF Elements
    <3>3. v = <<kind, u.name, i>>
      BY <3>1, <3>2 DEF StepStates
    <3> QED
      BY <3>3
  <2>4. u \in Elements(IF kind = "task" THEN r.tasks ELSE r.finally)
    BY <1>4, <2>2
  <2>5. PICK t : t = DeclaredTask(r, v)
    OBVIOUS
  <2>6. t \in Elements(IF kind = "task" THEN r.tasks ELSE r.finally)
    BY <2>3, <2>4, <2>5 DEF DeclaredTask
  <2>7. t.name \in IF kind = "task" THEN Names(r.tasks) ELSE Names(r.finally)
    BY <1>1, <1>2, <2>6
  <2>8. GraphOf(r)[v] = DeclaredStepOp(r, kind, t, v[3])
    BY <1>6, <2>3, <2>5 DEF GraphOf
  <2>9. /\ GraphOf(r)[v].writes = CacheDirsOf(kind, t, v[3], DeclaredDirs(r, t))
        /\ GraphOf(r)[v].reads = ResultsDirs("task", Before(r, kind, t))
    BY <2>8 DEF DeclaredStepOp, StepOp
  <2>10. CASE d \in ResultsDirs("task", Before(r, kind, t))
    <3>1. Before(r, kind, t) \subseteq Elements(r.tasks)
      BY <1>4 DEF Before
    <3> QED
      BY <1>3, <2>10, <3>1
  <2>11. CASE d \in CacheDirsOf(kind, t, v[3], DeclaredDirs(r, t))
    <3>1. \/ d = ResultsDir(kind, t.name)
          \/ \E w : d = <<r.name, w>>
          \/ \E w : d = CacheName(kind, t.name) \o <<"volume", w>>
      BY <2>11 DEF CacheDirsOf, DeclaredDirs
    <3>2. CASE \E w : d = <<r.name, w>>
      BY <3>2 DEF OwnedBy
    <3> QED
      BY <2>7, <3>1, <3>2, TaskDirs
  <2> QED
    BY <2>9, <2>10, <2>11
<1> QED
  BY <1>5, <1>6

\* Runs of other names have no directory in common.
LEMMA ApartShareNothing ==
  ASSUME NEW r, NEW s, Apart(r, s), NEW d, OwnedBy(d, r), OwnedBy(d, s)
  PROVE  FALSE
BY DEF Apart, OwnedBy

-----------------------------------------------------------------------------
(* The invariant.                                                          *)

\* A directory holds what steps that mount it have written.
WrittenByMounts ==
  /\ DOMAIN running = Builds /\ DOMAIN done = Builds /\ DOMAIN wrote = Builds
  /\ \A b \in Builds : wrote[b] \subseteq DOMAIN Graph(b)
  /\ \A d \in Dirs : \A m \in cache[d] : d \in Graph(m.build)[m.step].writes

CacheInv == CacheTypeOK /\ WrittenByMounts

\* At first the directories are empty.
LEMMA CacheInvInit == CacheInit => CacheInv
BY DEF CacheInit, CacheInv, CacheTypeOK, WrittenByMounts

\* Each step of a build keeps the invariant.
LEMMA CacheInvNext == CacheInv /\ [CacheNext]_cacheVars => CacheInv'
<1> SUFFICES ASSUME CacheInv, [CacheNext]_cacheVars PROVE CacheInv'
  OBVIOUS
<1> USE DEF CacheInv, CacheTypeOK, WrittenByMounts
<1>1. ASSUME NEW b \in Builds, Begin(b) PROVE CacheInv'
  BY <1>1 DEF Begin
<1>2. ASSUME NEW b \in Builds, Over(b) PROVE CacheInv'
  BY <1>2 DEF Over
<1>3. ASSUME NEW b \in Builds, NEW v \in DOMAIN Graph(b), Start(b, v) PROVE CacheInv'
  BY <1>3 DEF Start
<1>4. ASSUME NEW b \in Builds, NEW v \in DOMAIN Graph(b), End(b, v) PROVE CacheInv'
  BY <1>4 DEF End
<1>5. ASSUME NEW b \in Builds, NEW v \in DOMAIN Graph(b), Write(b, v) PROVE CacheInv'
  <2>1. /\ v \in running[b] /\ wrote' = [wrote EXCEPT ![b] = wrote[b] \cup {v}]
        /\ phase' = phase /\ running' = running /\ done' = done
        /\ DOMAIN cache' = Dirs
    BY <1>5 DEF Write
  <2>2. \A d \in Dirs : \A m \in cache'[d] :
          m \in cache[d] \/ (m.build = b /\ m.step = v /\ d \in Graph(b)[v].writes)
    BY <1>5 DEF Write
  <2>3. CacheTypeOK'
    BY <2>1, <2>2
  <2>4. WrittenByMounts'
    BY <2>1, <2>2
  <2> QED
    BY <2>3, <2>4
<1>6. CASE UNCHANGED cacheVars
  BY <1>6 DEF cacheVars
<1> QED
  BY <1>1, <1>2, <1>3, <1>4, <1>5, <1>6 DEF CacheNext

\* What a running step finds in a directory was left by a step that mounts it, so
\* that the names of both their runs are in its id.
LEMMA ForeignDataFollows == CacheInv => NoForeignData
<1> SUFFICES ASSUME CacheInv, NEW b \in Builds, NEW v \in running[b], NEW d \in Mounted(b, v),
                    NEW m \in cache[d], Apart(RunFor(b), RunFor(m.build))
             PROVE  FALSE
  BY DEF NoForeignData
<1>1. v \in DOMAIN Graph(b) /\ d \in Dirs
  BY DEF CacheInv, CacheTypeOK, Dirs
<1>2. m.build \in Builds /\ m.step \in DOMAIN Graph(m.build) /\ d \in Graph(m.build)[m.step].writes
  BY <1>1 DEF CacheInv, CacheTypeOK, WrittenByMounts
<1>3. OwnedBy(d, RunFor(b)) /\ OwnedBy(d, RunFor(m.build))
  BY <1>1, <1>2, MountsAreOwned DEF Mounted, Graph
<1> QED
  BY <1>3, ApartShareNothing

-----------------------------------------------------------------------------
(* Theorems.                                                               *)

\* The invariant holds of any number of builds.
THEOREM CacheInvariant == CacheSpec => []CacheInv
BY CacheInvInit, CacheInvNext, PTL DEF CacheSpec

\* TYPE CORRECTNESS: what a directory holds was written by a step of a build.
THEOREM CacheTypeCorrect == CacheSpec => []CacheTypeOK
<1>1. CacheInv => CacheTypeOK
  BY DEF CacheInv
<1> QED
  BY <1>1, CacheInvariant, PTL

\* NO FOREIGN DATA.  No running step finds what a build of a run with other names
\* has left or is writing, for any number of builds of any runs.
THEOREM OtherNamesOtherData == CacheSpec => []NoForeignData
BY ForeignDataFollows, CacheInvariant, PTL

=============================================================================

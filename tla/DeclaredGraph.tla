--------------------------- MODULE DeclaredGraph ----------------------------
(***************************************************************************)
(* The graph a PipelineRun declares, in closed form: what the translation   *)
(* builds round by round.  A regular task mounts the tasks of its runAfter, *)
(* a finally task every regular task, the final operation all of them.     *)
(***************************************************************************)
EXTENDS TaskSteps

IncludedTasks(r) == {t \in Elements(r.tasks) : EvaluateWhenExpressions(t.when)}

\* The workspaces bound to a cache directory; the last binding of a name that is
\* understood counts.
CacheBound(r) ==
  {r.workspaces[i].name : i \in
     {j \in DOMAIN r.workspaces :
        /\ r.workspaces[j].kind = "cacheDir"
        /\ \A k \in DOMAIN r.workspaces :
             k > j /\ r.workspaces[k].name = r.workspaces[j].name => r.workspaces[k].kind = "other"}}

DeclaredDirs(r, t) == {<<r.name, w>> : w \in t.workspaces \cap CacheBound(r)}

\* The regular tasks a task mounts.
Before(r, kind, t) ==
  {u \in IncludedTasks(r) : kind = "finally" \/ u.name \in t.runAfter}

LastStates(kind, ts) == {LastOf(StepStates(kind, t)) : t \in ts}

ResultsDirs(kind, ts) == {ResultsDir(kind, t.name) : t \in ts}

DeclaredStepOp(r, kind, t, i) ==
  StepOp(kind, t, i, DeclaredDirs(r, t), LastStates("task", Before(r, kind, t)),
         ResultsDirs("task", Before(r, kind, t)))

DeclaredCollectOp(r) ==
  LET fs == Elements(r.finally)
  IN  [inputs |-> LastStates("task", IncludedTasks(r)) \cup LastStates("finally", fs),
       writes |-> {},
       reads  |-> ResultsDirs("task", IncludedTasks(r)) \cup ResultsDirs("finally", fs),
       args |-> TRUE, ignores |-> TRUE, bounded |-> FALSE]

DeclaredSteps(r, kind) ==
  UNION {Elements(StepStates(kind, t)) :
           t \in IF kind = "task" THEN IncludedTasks(r) ELSE Elements(r.finally)}

DeclaredTask(r, v) ==
  CHOOSE t \in Elements(IF v[1] = "task" THEN r.tasks ELSE r.finally) : t.name = v[2]

GraphOf(r) ==
  [v \in DeclaredSteps(r, "task") \cup DeclaredSteps(r, "finally") \cup {Collect} |->
     IF v = Collect THEN DeclaredCollectOp(r)
     ELSE DeclaredStepOp(r, v[1], DeclaredTask(r, v), v[3])]

=============================================================================

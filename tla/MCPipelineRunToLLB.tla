------------------------ MODULE MCPipelineRunToLLB -------------------------
(***************************************************************************)
(* Small PipelineRuns for the translation alone: lists of two tasks that go *)
(* right or wrong in every way the code tells apart.                       *)
(***************************************************************************)
EXTENDS PipelineRunToLLB

Script == [form |-> "script", onError |-> "stopAndFail", timeout |-> FALSE, volumes |-> {}]

Never == {[input |-> "x", operator |-> "in", values |-> {"y"}]}
Holds == {[input |-> "x", operator |-> "notin", values |-> {"y"}]}

Task(name) ==
  [name |-> name, when |-> {}, runAfter |-> {}, workspaces |-> {}, ref |-> FALSE,
   unsupported |-> FALSE, defect |-> "none", timeout |-> FALSE, steps |-> <<Script>>]

PipelineOf(ts, fs) ==
  [name |-> "run", spec |-> "embedded", apiFields |-> "stable", unsupported |-> FALSE,
   tasks |-> ts, finally |-> fs, workspaces |-> <<>>]

\* Order, when and runAfter: three tasks in any list order, and bad graphs.
OrderRuns ==
  {PipelineOf(<<[Task("a") EXCEPT !.runAfter = ra, !.when = wa],
                [Task("b") EXCEPT !.runAfter = rb, !.when = wb],
                [Task(c) EXCEPT !.runAfter = rc]>>, <<>>) :
     ra \in SUBSET {"b", "c"}, rb \in SUBSET {"a", "c"}, rc \in SUBSET {"a", "b"},
     wa \in {{}, Never}, wb \in {Holds, Never}, c \in {"c", "a"}}

\* Definitions and workspaces of a task, in a regular or a finally position.
Variants(name) ==
  {[Task(name) EXCEPT !.ref = r, !.defect = d, !.unsupported = u, !.workspaces = w,
                      !.when = e, !.steps = s] :
     r \in BOOLEAN, d \in Defect, u \in BOOLEAN, w \in {{}, {"w"}}, e \in {{}, Never},
     s \in {<<Script>>, <<>>}}

Bindings == [name : {"w"}, kind : {"configMap", "secret", "cacheDir", "other"}, usable : BOOLEAN]

VariantRuns ==
  {[PipelineOf(ts, fs) EXCEPT !.spec = i, !.workspaces = ws] :
     i \in {"embedded", "found"}, ws \in {<<>>} \cup {<<b>> : b \in Bindings},
     ts \in {<<t>> : t \in Variants("a")}, fs \in {<<>>, <<Task("f")>>}}
  \cup
  {[PipelineOf(<<Task("a")>>, <<f>>) EXCEPT !.spec = i, !.workspaces = ws] :
     i \in {"embedded", "found"}, ws \in {<<>>} \cup {<<b>> : b \in Bindings}, f \in Variants("f")}

\* What is asked of the run itself: the source of its spec, the option the build is
\* given, and workspaces that are bound once each.
OwnRuns ==
  {[PipelineOf(ts, <<Task("f")>>) EXCEPT !.spec = p, !.apiFields = o, !.unsupported = u] :
     ts \in {<<>>, <<Task("a")>>}, p \in SpecSource, o \in ApiFields, u \in BOOLEAN}
  \cup {[PipelineOf(<<Task("a")>>, <<>>) EXCEPT !.workspaces = <<b, c>>] :
          b \in Bindings, c \in [name : {"w", "results"}, kind : {"other"}, usable : {TRUE}]}
  \cup {PipelineOf(<<Task("a")>>, <<[Task("f") EXCEPT !.runAfter = {"a"}]>>)}

TranslationRuns == OrderRuns \cup VariantRuns \cup OwnRuns

\* One task that runs after a skipped one, and a valid pipeline whose tasks are
\* not listed in the order they run in.
DependencyRuns ==
  {PipelineOf(<<[Task("a") EXCEPT !.when = Never], [Task("b") EXCEPT !.runAfter = {"a"}]>>, <<>>),
   PipelineOf(<<[Task("a") EXCEPT !.runAfter = {"b"}], Task("b")>>, <<>>)}

=============================================================================

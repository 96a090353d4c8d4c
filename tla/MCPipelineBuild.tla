-------------------------- MODULE MCPipelineBuild --------------------------
(***************************************************************************)
(* Small PipelineRuns for the whole build, every interleaving of their      *)
(* steps, and each outcome of each step.                                   *)
(***************************************************************************)
EXTENDS PipelineBuildRefinement, PipelineBuildInvariant, MCPipelineRunToLLB

Command == [Script EXCEPT !.form = "command"]
Arguments == [Script EXCEPT !.form = "args"]
Nothing == [Script EXCEPT !.form = "none"]

TaskOf(name, after, steps) == [Task(name) EXCEPT !.runAfter = after, !.steps = steps]

\* Every graph of three tasks in list order, the last of them skipped or not;
\* with finally tasks, one of them of two steps.
GraphRuns ==
  {PipelineOf(<<TaskOf("a", {}, <<Script, Command>>), TaskOf("b", rb, <<Script>>),
                [TaskOf("c", rc, <<Script>>) EXCEPT !.when = w]>>, fs) :
     rb \in SUBSET {"a"}, rc \in SUBSET {"a", "b"}, w \in {{}, Never},
     fs \in {<<>>, <<TaskOf("f", {}, <<Script, Script>>), TaskOf("g", {}, <<Script>>)>>}}

\* Tasks that share a workspace and have volumes, of the names that come
\* closest to each other's; three steps; a refused run, and some BuildKit is not
\* given.
Shared(t) == [t EXCEPT !.workspaces = {"results"}]

OtherRuns ==
  {[PipelineOf(<<Shared(TaskOf("a", {}, <<[Script EXCEPT !.volumes = {"results"}], Script>>)),
                 Shared(TaskOf("finally", {"a"}, <<[Script EXCEPT !.volumes = {"a"}]>>))>>,
               <<Shared(TaskOf("f", {}, <<Script>>))>>)
      EXCEPT !.workspaces = <<[name |-> "results", kind |-> k, usable |-> TRUE]>>] :
     k \in {"cacheDir", "configMap", "other"}}
  \cup {[PipelineOf(<<TaskOf("a", {}, <<Script>>)>>, <<>>) EXCEPT !.unsupported = TRUE],
        PipelineOf(<<TaskOf("a", {}, <<Script, Nothing>>)>>, <<>>),
        PipelineOf(<<TaskOf("a", {}, <<Script, Command, Script>>)>>, <<>>),
        PipelineOf(<<TaskOf("a", {"b"}, <<Script>>), TaskOf("b", {}, <<Script>>)>>, <<>>)}

\* Each combination of onError and of a step's or a task's timeout: two steps
\* that are scripts or commands, and one that is given by its arguments alone.
Steps(forms) == [form : forms, onError : {"continue", "stopAndFail"}, timeout : BOOLEAN,
                 volumes : {{}}]

StepRuns(forms) ==
  {PipelineOf(<<[TaskOf("a", {}, <<s1, s2>>) EXCEPT !.timeout = t],
                [TaskOf("b", {"a"}, <<s1>>) EXCEPT !.timeout = t]>>,
              <<[TaskOf("f", {}, <<s2>>) EXCEPT !.timeout = t]>>) :
     s1 \in Steps(forms), s2 \in Steps(forms), t \in BOOLEAN}

ArgumentsRuns ==
  {PipelineOf(<<[TaskOf("a", {}, <<s>>) EXCEPT !.timeout = t]>>, <<>>) :
     s \in Steps({"args"}), t \in BOOLEAN}

BuildRuns ==
  TranslationRuns \cup GraphRuns \cup OtherRuns \cup StepRuns({"script", "command"})
    \cup ArgumentsRuns

\* One regular task, one finally task.
FinallyRuns == {PipelineOf(<<TaskOf("a", {}, <<Script>>)>>, <<TaskOf("f", {}, <<Script>>)>>)}

=============================================================================

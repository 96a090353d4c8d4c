--------------------------- MODULE MCTaskRunBuild ---------------------------
(* TaskRuns of up to three steps, in every way the code tells them apart.    *)
EXTENDS TaskRunBuild

Script == [form |-> "script", onError |-> "stopAndFail", timeout |-> FALSE, volumes |-> {}]

Plain == [name |-> "tr", apiFields |-> "stable", spec |-> "embedded", podTemplate |-> FALSE,
          unsupported |-> FALSE, defect |-> "none", timeout |-> FALSE, workspaces |-> {}, steps |-> <<Script>>]

Kinds == {"configMap", "secret", "cacheDir"}

\* Every defect of every source under each option, with and without steps.
DefectRuns ==
  {[Plain EXCEPT !.spec = s, !.apiFields = o, !.podTemplate = p, !.unsupported = u, !.defect = d,
                 !.steps = steps] :
     s \in SpecSource, o \in ApiFields, p \in BOOLEAN, u \in BOOLEAN,
     d \in Defect \ {"notFound"}, steps \in {<<>>, <<Script>>}}

\* Three steps of each form, that may ignore errors or time out.
StepRuns ==
  {[Plain EXCEPT !.workspaces = {[name |-> "w", kind |-> k]},
                 !.steps = <<[Script EXCEPT !.form = f, !.onError = e],
                             [Script EXCEPT !.timeout = t, !.volumes = {"v"}], Script>>] :
     k \in Kinds, f \in Form, e \in {"continue", "stopAndFail"}, t \in BOOLEAN}

\* Two bindings of workspaces, that may be of one name.
WorkspaceRuns ==
  {[Plain EXCEPT !.spec = s, !.workspaces = {[name |-> "w", kind |-> "secret"], w}] :
     s \in SpecSource, w \in [name : {"v", "w"}, kind : Kinds]}

AllTaskRuns == WorkspaceRuns \cup DefectRuns \cup StepRuns

=============================================================================

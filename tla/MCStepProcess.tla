---------------------------- MODULE MCStepProcess ----------------------------
(* Every short script, with and without a limit, in a few environments.     *)
EXTENDS StepProcess, TLC

TaskOf(form, onError, own, tasks) ==
  [name |-> "t", when |-> {}, runAfter |-> {}, workspaces |-> {}, ref |-> FALSE,
   unsupported |-> FALSE, defect |-> "none", timeout |-> tasks,
   steps |-> <<[form |-> form, onError |-> onError, timeout |-> own, volumes |-> {}]>>]

MCConfigs == "c" :> ("k" :> "1" @@ "l" :> "2")

MCSecrets == "s" :> ("k" :> "3")

Var(n, v) == [name |-> n, value |-> v]

Source(p, c, s) == [prefix |-> p, configMap |-> c, secret |-> s]

Envs == {<<>>, <<Var("k", "0"), Var("k", "4"), Var("m", "5")>>}

EnvFroms ==
  {<<>>, <<Source("", "c", ""), Source("", "", "s")>>, <<Source("p", "c", "gone")>>,
   <<Source("", "", "s"), Source("", "c", "")>>, <<Source("", "c", "s")>>}

Scripts == UNION {[1..n -> LineEffect] : n \in 0..3}

OfTask(form, onError, own, tasks, limit, shebang, lines, envs, from) ==
  [task |-> TaskOf(form, onError, own, tasks), limit |-> limit, shebang |-> shebang,
   lines |-> lines, env |-> envs, envFrom |-> from]

ScriptProcesses ==
  {OfTask("script", onError, t[1], t[2], limit, shebang, lines, <<>>, <<>>) :
     onError \in {"continue", "stopAndFail"},
     t \in {<<TRUE, FALSE>>, <<FALSE, TRUE>>, <<FALSE, FALSE>>}, limit \in 0..3,
     shebang \in {"none", "first", "afterBlank"}, lines \in Scripts}

CommandProcesses ==
  {OfTask(form, onError, own, FALSE, 2, "none", <<effect>>, <<>>, <<>>) :
     form \in {"command", "args"}, onError \in {"continue", "stopAndFail"},
     own \in BOOLEAN, effect \in LineEffect}

EnvProcesses ==
  {OfTask("command", "stopAndFail", FALSE, FALSE, 0, "none", <<"ok">>, envs, from) :
     envs \in Envs, from \in EnvFroms}

\* One name, given by env and by a ConfigMap.
DuplicateKey ==
  {OfTask("command", "stopAndFail", FALSE, FALSE, 0, "none", <<"ok">>, <<Var("k", "0")>>,
          <<Source("", "c", "")>>)}

MCProcesses == ScriptProcesses \cup CommandProcesses \cup EnvProcesses

=============================================================================

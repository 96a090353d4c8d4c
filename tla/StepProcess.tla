---------------------------- MODULE StepProcess ----------------------------
(***************************************************************************)
(* One step from its description to the exit of its process: the run       *)
(* options of its environment, the script file or wrapper made for it, and  *)
(* how a shell runs that.  The rest of the system sees of this only what    *)
(* IgnoresExit and Bounded say.                                             *)
(***************************************************************************)
EXTENDS TaskSteps, SequencesExt

CONSTANTS
  Processes,         \* the steps to look at
  Configs, Secrets,  \* name -> key -> value, as they were read
  MaxClock           \* bound on the half seconds a process runs

\* A line of a script, or the one command of a step.
LineEffect == {"ok", "fail",
               "wait",           \* takes half a second
               "hang"}           \* never ends

\* task has this step alone; limit is the timeout that HasTimeout speaks of, in
\* half seconds.  An interpreter line starts the script, or comes after blank lines.
Process == [task    : PipelineTask,
            limit   : Nat,
            shebang : {"none", "first", "afterBlank"},
            lines   : Seq(LineEffect),
            env     : Seq([name : STRING, value : STRING]),
            envFrom : Seq([prefix : STRING, configMap : STRING, secret : STRING])]

ASSUME ProcessAssumption ==
  /\ Processes \subseteq Process /\ MaxClock \in Nat
  /\ \A p \in Processes : Len(p.task.steps) = 1

\* A name has one value in a map.
ASSUME MapsAssumption ==
  \A maps \in {Configs, Secrets} : \A n \in DOMAIN maps : DOMAIN maps[n] \subseteq STRING

VARIABLES
  process,           \* never changes
  pc,                \* env, envFrom, file, run, ended
  next,              \* the next entry of env or envFrom
  pending,           \* the pairs of the source at hand still to be added
  env,               \* the environment the run options amount to
  file,              \* how the script file is run
  line, clock, exit

processVars == <<process, pc, next, pending, env, file, line, clock, exit>>

step == process.task.steps[1]

NoFile == [wrapped |-> FALSE, interpreter |-> "none"]

ProcessInit ==
  /\ process \in Processes
  /\ pc = "env" /\ next = 1 /\ pending = {} /\ env = [n \in {} |-> ""]
  /\ file = NoFile /\ line = 1 /\ clock = 0 /\ exit = "none"

-----------------------------------------------------------------------------
(* The environment.                                                         *)

\* Mutant of WithEnv: what is there stays.
WithEnv_First(e, name, value) ==
  [n \in DOMAIN e \cup {name} |-> IF n \in DOMAIN e THEN e[n] ELSE value]

\* AddEnv takes the place of what was there under the name.
WithEnv(e, name, value) ==
  [n \in DOMAIN e \cup {name} |-> IF n = name THEN value ELSE e[n]]

AddEnv ==
  /\ pc = "env" /\ next \in DOMAIN process.env
  /\ env' = WithEnv(env, <<"", process.env[next].name>>, process.env[next].value)
  /\ next' = next + 1
  /\ UNCHANGED <<process, pc, pending, file, line, clock, exit>>

EnvAdded ==
  /\ pc = "env" /\ next \notin DOMAIN process.env
  /\ pc' = "envFrom" /\ next' = 1
  /\ UNCHANGED <<process, pending, env, file, line, clock, exit>>

\* Mutant of DataOf: a name is given together with its value, as NAME=value.
DataOf_Joined(maps, name, prefix) ==
  IF name \notin DOMAIN maps THEN {}
  ELSE {<<<<prefix, k, maps[name][k]>>, maps[name][k]>> : k \in DOMAIN maps[name]}

\* The pairs of a source, each name with its prefix; nothing when it is not found.
DataOf(maps, name, prefix) ==
  IF name \notin DOMAIN maps THEN {}
  ELSE {<<<<prefix, k>>, maps[name][k]>> : k \in DOMAIN maps[name]}

\* The sources in order, of an entry the ConfigMap before the Secret.
Sources ==
  [k \in 1..(2 * Len(process.envFrom)) |->
     LET from == process.envFrom[(k + 1) \div 2]
     IN  IF k % 2 = 1 THEN DataOf(Configs, from.configMap, from.prefix)
         ELSE DataOf(Secrets, from.secret, from.prefix)]

OpenSource ==
  /\ pc = "envFrom" /\ pending = {} /\ next \in DOMAIN Sources
  /\ pending' = Sources[next] /\ next' = next + 1
  /\ UNCHANGED <<process, pc, env, file, line, clock, exit>>

\* The pairs of a map come in any order.
AddFrom ==
  /\ pc = "envFrom"
  /\ \E pair \in pending :
       /\ env' = WithEnv(env, pair[1], pair[2])
       /\ pending' = pending \ {pair}
  /\ UNCHANGED <<process, pc, next, file, line, clock, exit>>

FromAdded ==
  /\ pc = "envFrom" /\ pending = {} /\ next \notin DOMAIN Sources
  /\ pc' = "file" /\ next' = 1
  /\ UNCHANGED <<process, pending, env, file, line, clock, exit>>

-----------------------------------------------------------------------------
(* The file: Script, CommandWrapper and wrapScript.                         *)

\* Mutant of Interpreter: the first line is not looked for.
Interpreter_Default == IF step.form = "script" THEN "sh -e" ELSE "none"

\* What runs the lines.  A script without an interpreter gets sh, stopped by the
\* first error; one whose interpreter is not in its very first line is left as it
\* is, and the kernel does not run that: only a shell that starts it does.
Interpreter ==
  IF step.form # "script" THEN "none"
  ELSE IF process.shebang = "none" THEN "sh -e"
  ELSE IF process.shebang = "first" THEN "own"
  ELSE IF Wrapped(process.task, step) THEN "sh" ELSE "unknown"

MakeFile ==
  /\ pc = "file"
  /\ file' = [wrapped |-> Wrapped(process.task, step), interpreter |-> Interpreter]
  /\ pc' = "run"
  /\ UNCHANGED <<process, next, pending, env, line, clock, exit>>

\* Mutant of Seconds: no least value.
Seconds_Truncated(halves) == halves \div 2

\* formatDuration: whole seconds, one at least.
Seconds(halves) == IF halves \div 2 <= 0 THEN 1 ELSE halves \div 2

-----------------------------------------------------------------------------
(* The process, as a shell and timeout(1) run it.                           *)

Running == pc = "run" /\ file.interpreter # "unknown"

\* The wrapper lets the exit code of the script through, or masks it.
Exit(code) ==
  /\ pc' = "ended"
  /\ exit' = IF file.wrapped /\ step.onError = "continue" THEN "ok" ELSE code

HasLimit == file.wrapped /\ HasTimeout(process.task, step)

Cannot ==
  /\ pc = "run" /\ file.interpreter = "unknown"
  /\ Exit("failed")
  /\ UNCHANGED <<process, next, pending, env, file, line, clock>>

RunLine ==
  /\ Running /\ line <= Len(process.lines) /\ process.lines[line] \in {"ok", "fail"}
  /\ IF process.lines[line] = "fail" /\ file.interpreter = "sh -e"
     THEN Exit("failed")
     ELSE UNCHANGED <<pc, exit>>
  /\ line' = line + 1
  /\ UNCHANGED <<process, next, pending, env, file, clock>>

\* Half a second goes by, unless the limit is reached.
Tick ==
  /\ Running /\ line <= Len(process.lines) /\ process.lines[line] \in {"wait", "hang"}
  /\ clock < MaxClock
  /\ HasLimit => clock < 2 * Seconds(process.limit)
  /\ clock' = clock + 1
  /\ line' = IF process.lines[line] = "wait" THEN line + 1 ELSE line
  /\ UNCHANGED <<process, pc, next, pending, env, file, exit>>

\* The last line is done, and its exit code is that of the script.
Finish ==
  /\ Running /\ line > Len(process.lines)
  /\ Exit(IF process.lines # <<>> /\ Last(process.lines) = "fail" THEN "failed" ELSE "ok")
  /\ UNCHANGED <<process, next, pending, env, file, line, clock>>

\* Mutant of Kill: timeout(1) is not put before the command.
Kill_Never ==
  /\ FALSE
  /\ UNCHANGED processVars

Kill ==
  /\ Running /\ HasLimit /\ clock >= 2 * Seconds(process.limit)
  /\ line <= Len(process.lines)
  /\ Exit("failed")
  /\ UNCHANGED <<process, next, pending, env, file, line, clock>>

ProcessNext ==
  \/ AddEnv \/ EnvAdded \/ OpenSource \/ AddFrom \/ FromAdded
  \/ MakeFile \/ Cannot \/ RunLine \/ Tick \/ Finish \/ Kill

ProcessSpec == ProcessInit /\ [][ProcessNext]_processVars /\ WF_processVars(ProcessNext)

-----------------------------------------------------------------------------

\* TYPE INVARIANT.  A name of env has the empty prefix.
ProcessTypeOK ==
  /\ pc \in {"env", "envFrom", "file", "run", "ended"} /\ next \in Nat \ {0}
  /\ DOMAIN env \subseteq ({""} \cup STRING) \X STRING
  /\ file \in [wrapped : BOOLEAN, interpreter : {"none", "sh -e", "own", "sh", "unknown"}]
  /\ line \in 1..(Len(process.lines) + 1) /\ clock \in 0..MaxClock
  /\ exit \in {"none", "ok", "failed"} /\ (exit = "none" <=> pc # "ended")

\* What gives the process its environment, in order: the pairs of env one by one,
\* then the sources.
Givers ==
  [k \in 1..(Len(process.env) + Len(Sources)) |->
     IF k <= Len(process.env)
     THEN {<<<<"", process.env[k].name>>, process.env[k].value>>}
     ELSE Sources[k - Len(process.env)]]

InEnv(k) == k <= Len(process.env)

Gives(k, name) == \E pair \in Givers[k] : pair[1] = name

Given == pc \in {"file", "run", "ended"}

\* THE LAST SOURCE COUNTS.  However the pairs of a map come, the environment a
\* process is run with has the names that something gives, and for each of them the
\* last value env gives it, or that of the last source that does.  Which of the two
\* is to count is the question of EnvTakesPrecedence.
LastSourceCounts ==
  Given =>
    /\ \A name \in DOMAIN env : \E k \in DOMAIN Givers :
         /\ <<name, env[name]>> \in Givers[k]
         /\ \A j \in DOMAIN Givers : Gives(j, name) /\ (InEnv(j) <=> InEnv(k)) => j <= k
    /\ \A k \in DOMAIN Givers : \A pair \in Givers[k] : pair[1] \in DOMAIN env

\* What Tekton says of envFrom where it declares it: values defined by an Env with
\* a duplicate key take precedence.
EnvTakesPrecedence ==
  Given =>
    \A k \in DOMAIN process.env :
      LET name == <<"", process.env[k].name>>
      IN  (\A j \in DOMAIN process.env : Gives(j, name) => j <= k) =>
            name \in DOMAIN env /\ env[name] = process.env[k].value

\* THE REST OF THE SYSTEM MAY RELY ON IT.  A step whose errors are ignored never
\* fails, and one that is bounded is not run for longer than its timeout, or a
\* second; any other fails when, and only when, its script does or takes too long.
OutcomeIsDeclared ==
  /\ pc = "ended" /\ IgnoresExit(process.task, step) => exit = "ok"
  /\ Bounded(process.task, step) =>
       clock <= IF process.limit < 2 THEN 2 ELSE process.limit
  /\ pc = "ended" /\ process.shebang # "afterBlank" /\ exit = "failed" =>
       \/ "fail" \in ToSet(process.lines)
       \/ Bounded(process.task, step) /\ clock >= 2 /\ clock >= process.limit - 1
  /\ pc = "ended" /\ exit = "ok" /\ ~IgnoresExit(process.task, step) =>
       /\ line > Len(process.lines)
       /\ step.form = "script" /\ process.shebang = "none" =>
            "fail" \notin ToSet(process.lines)

\* AN INTERPRETER'S OWN RULES.  A script that names its interpreter is not stopped
\* by an error the interpreter goes on after.
OwnRules ==
  pc = "ended" /\ process.shebang = "first" /\ step.form = "script" =>
    line > Len(process.lines) \/ Bounded(process.task, step)

\* BOUNDED STEPS END, also one that hangs.
BoundedEnds ==
  Bounded(process.task, step) /\ process.limit < MaxClock ~> pc = "ended"

=============================================================================

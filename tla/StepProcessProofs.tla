------------------------- MODULE StepProcessProofs -------------------------
(***************************************************************************)
(* What the rest of the system relies on of the process of a step, proved   *)
(* for every step, script and environment: the environment is that of the   *)
(* last source of each name, and the exit is the one its onError and its    *)
(* timeout declare.                                                        *)
(***************************************************************************)
EXTENDS StepProcess, TLAPS

\* The environment e is what n sets of pairs, given one after the other, amount to.
LastCounts(e, given, n) ==
  /\ \A x \in DOMAIN e : \E k \in 1..n :
       /\ <<x, e[x]>> \in given[k]
       /\ \A j \in 1..n : \A pair \in given[j] : pair[1] = x => j <= k
  /\ \A k \in 1..n : \A pair \in given[k] : pair[1] \in DOMAIN e

\* A set of pairs none of which has been given yet.
LEMMA NothingMoreGiven ==
  ASSUME NEW e, NEW given, NEW n \in Nat, LastCounts(e, given, n),
         NEW more, \A k \in 1..n : more[k] = given[k], more[n + 1] = {}
  PROVE  LastCounts(e, more, n + 1)
<1>1. \A k \in 1..(n + 1) : k \in 1..n \/ (k = n + 1 /\ more[k] = {})
  OBVIOUS
<1>2. \A k \in 1..n : k \in 1..(n + 1)
  OBVIOUS
<1> QED
  BY <1>1, <1>2 DEF LastCounts

\* One more pair of the last set is given.
LEMMA OneMoreGiven ==
  ASSUME NEW e, NEW given, NEW n \in Nat \ {0}, LastCounts(e, given, n),
         NEW x, NEW value,
         NEW more, \A k \in 1..(n - 1) : more[k] = given[k],
         more[n] = given[n] \cup {<<x, value>>}
  PROVE  LastCounts(WithEnv(e, x, value), more, n)
<1>1. \A k \in 1..n : k <= n /\ (k \in 1..(n - 1) \/ k = n)
  OBVIOUS
<1>2. \A k \in 1..n : given[k] \subseteq more[k] /\ \A pair \in more[k] : pair \in given[k] \/ pair = <<x, value>>
  BY <1>1
<1> DEFINE now == WithEnv(e, x, value)
<1>3. /\ DOMAIN now = DOMAIN e \cup {x} /\ now[x] = value
      /\ \A y \in DOMAIN e : y # x => now[y] = e[y]
  BY DEF WithEnv
<1>4. n \in 1..n /\ <<x, value>> \in more[n]
  OBVIOUS
<1> HIDE DEF now
<1>5. ASSUME NEW y \in DOMAIN now
      PROVE  \E k \in 1..n : /\ <<y, now[y]>> \in more[k]
                             /\ \A j \in 1..n : \A pair \in more[j] : pair[1] = y => j <= k
  <2>1. CASE y = x
    BY <1>1, <1>3, <1>4, <2>1
  <2>2. CASE y # x
    <3>1. y \in DOMAIN e /\ now[y] = e[y]
      BY <1>3, <1>5, <2>2
    <3>2. PICK k \in 1..n : /\ <<y, e[y]>> \in given[k]
                            /\ \A j \in 1..n : \A pair \in given[j] : pair[1] = y => j <= k
      BY <3>1 DEF LastCounts
    <3> QED
      BY <1>2, <2>2, <3>1, <3>2
  <2> QED
    BY <2>1, <2>2
<1>6. ASSUME NEW k \in 1..n, NEW pair \in more[k] PROVE pair[1] \in DOMAIN now
  BY <1>2, <1>3 DEF LastCounts
<1> QED
  BY <1>5, <1>6 DEF LastCounts, now

\* The sources are maps from names with a prefix.
LEMMA SourcesAre ==
  ASSUME process \in Process
  PROVE  /\ Len(Sources) \in Nat /\ DOMAIN Sources = 1..Len(Sources)
         /\ Len(process.env) \in Nat /\ DOMAIN process.env = 1..Len(process.env)
         /\ \A k \in DOMAIN process.env : process.env[k].name \in STRING
         /\ \A k \in DOMAIN Sources : \A pair \in Sources[k] :
              pair = <<pair[1], pair[2]>> /\ pair[1] \in STRING \X STRING
<1>1. /\ process.envFrom \in Seq([prefix : STRING, configMap : STRING, secret : STRING])
      /\ process.env \in Seq([name : STRING, value : STRING])
  BY DEF Process
<1> DEFINE entry == [name : STRING, value : STRING]
           origin == [prefix : STRING, configMap : STRING, secret : STRING]
           n == 2 * Len(process.envFrom)
<1>2. \A S : \A s \in Seq(S) :
        Len(s) \in Nat /\ DOMAIN s = 1..Len(s) /\ \A i \in 1..Len(s) : s[i] \in S
  OBVIOUS
<1>3. /\ Len(process.env) \in Nat /\ DOMAIN process.env = 1..Len(process.env)
      /\ \A i \in 1..Len(process.env) : process.env[i] \in entry
      /\ \A i \in 1..Len(process.envFrom) : process.envFrom[i] \in origin
  <2> HIDE DEF entry, origin
  <2> QED
    BY <1>2, <1>1 DEF entry, origin
<1>4. n \in Nat
  BY <1>1
<1>5. DOMAIN Sources = 1..n
  BY DEF Sources
<1>6. Sources \in Seq({Sources[k] : k \in 1..n})
  <2>1. Sources = [k \in 1..n |-> Sources[k]]
    BY DEF Sources
  <2> QED
    BY <1>4, <2>1
<1>7. Len(Sources) = n
  BY <1>4, <1>5, <1>6
<1>8. ASSUME NEW k \in 1..n, NEW pair \in Sources[k]
      PROVE  pair = <<pair[1], pair[2]>> /\ pair[1] \in STRING \X STRING
  <2>1. PICK from : from = process.envFrom[(k + 1) \div 2]
    OBVIOUS
  <2>2. (k + 1) \div 2 \in 1..Len(process.envFrom)
    BY <1>1
  <2>3. from.prefix \in STRING
    <3>1. from \in [prefix : STRING, configMap : STRING, secret : STRING]
      BY <1>3, <2>1, <2>2
    <3> QED
      BY <3>1
  <2>4. PICK maps \in {Configs, Secrets}, name \in {from.configMap, from.secret} :
          pair \in DataOf(maps, name, from.prefix)
    BY <1>8, <2>1 DEF Sources
  <2>5. name \in DOMAIN maps
    BY <2>4 DEF DataOf
  <2>6. PICK key \in DOMAIN maps[name] : pair = <<<<from.prefix, key>>, maps[name][key]>>
    BY <2>4, <2>5 DEF DataOf
  <2>7. key \in STRING
    BY <2>5, <2>6, MapsAssumption
  <2> QED
    BY <2>3, <2>6, <2>7
<1>9. /\ Len(process.env) \in Nat /\ DOMAIN process.env = 1..Len(process.env)
      /\ \A k \in DOMAIN process.env : process.env[k].name \in STRING
  BY <1>3
<1> HIDE DEF n
<1> QED
  BY <1>4, <1>5, <1>7, <1>8, <1>9

-----------------------------------------------------------------------------
(* The invariant.                                                          *)

\* How many of the sets of pairs have been looked at.
Opened ==
  IF pc = "env" THEN next - 1
  ELSE IF pc = "envFrom" THEN Len(process.env) + (next - 1)
  ELSE Len(process.env) + Len(Sources)

\* What has been given of each: of the one at hand, all but what is pending.
GivenSoFar ==
  [k \in 1..Opened |-> IF k = Opened THEN Givers[k] \ pending ELSE Givers[k]]

\* The environment is what has been given amounts to.
EnvInv ==
  /\ pc # "envFrom" => pending = {}
  /\ pc = "env" => next \in 1..(Len(process.env) + 1)
  /\ pc = "envFrom" => next \in 1..(Len(Sources) + 1)
  /\ pending # {} => next > 1 /\ pending \subseteq Sources[next - 1]
  /\ LastCounts(env, GivenSoFar, Opened)

\* The script is where its clock, its interpreter and its limit let it be.
ScriptInv ==
  /\ pc \in {"env", "envFrom", "file"} => line = 1 /\ clock = 0
  /\ pc \in {"run", "ended"} =>
       /\ file.wrapped = Wrapped(process.task, step)
       /\ file.interpreter = Interpreter
       /\ HasLimit => clock <= 2 * Seconds(process.limit)
  /\ pc = "run" /\ file.interpreter = "sh -e" =>
       \A i \in 1..(line - 1) : process.lines[i] # "fail"

\* INDUCTIVE INVARIANT of the process of a step.
ProcessInv ==
  /\ process \in Process /\ Len(process.task.steps) = 1
  /\ ProcessTypeOK /\ EnvInv /\ ScriptInv /\ OutcomeIsDeclared /\ OwnRules

\* What the lengths and the sets of pairs are, in terms of the sequences.
LEMMA GiversAre ==
  ASSUME process \in Process
  PROVE  /\ DOMAIN Givers = 1..(Len(process.env) + Len(Sources))
         /\ \A k \in 1..Len(process.env) :
              Givers[k] = {<<<<"", process.env[k].name>>, process.env[k].value>>}
         /\ \A k \in 1..Len(Sources) : Givers[Len(process.env) + k] = Sources[k]
<1> DEFINE m == Len(process.env)
           n == Len(Sources)
<1>1. m \in Nat /\ n \in Nat
  BY SourcesAre
<1>2. DOMAIN Givers = 1..(m + n)
  BY DEF Givers
<1>3. ASSUME NEW k \in 1..(m + n)
      PROVE  Givers[k] = IF k <= m
                         THEN {<<<<"", process.env[k].name>>, process.env[k].value>>}
                         ELSE Sources[k - m]
  BY DEF Givers
<1> HIDE DEF m, n
<1>4. ASSUME NEW k \in 1..m
      PROVE  Givers[k] = {<<<<"", process.env[k].name>>, process.env[k].value>>}
  <2>1. k \in 1..(m + n) /\ k <= m
    BY <1>1
  <2> QED
    BY <1>3, <2>1
<1>5. ASSUME NEW k \in 1..n PROVE Givers[m + k] = Sources[k]
  <2>1. m + k \in 1..(m + n) /\ ~(m + k <= m) /\ (m + k) - m = k
    BY <1>1
  <2> QED
    BY <1>3, <2>1
<1> QED
  BY <1>2, <1>4, <1>5 DEF m, n

\* At first nothing is given.
LEMMA ProcessInvInit == ProcessInit => ProcessInv
<1> SUFFICES ASSUME ProcessInit PROVE ProcessInv
  OBVIOUS
<1>1. process \in Process /\ Len(process.task.steps) = 1 /\ MaxClock \in Nat
  BY ProcessAssumption DEF ProcessInit
<1>2. /\ pc = "env" /\ next = 1 /\ pending = {} /\ DOMAIN env = {}
      /\ file.wrapped = FALSE /\ file = NoFile
      /\ line = 1 /\ clock = 0 /\ exit = "none"
  BY DEF ProcessInit, NoFile
<1>3. Len(process.lines) \in Nat /\ Len(process.env) \in Nat /\ process.limit \in Nat
  BY <1>1 DEF Process
<1>4. ProcessTypeOK
  BY <1>1, <1>2, <1>3 DEF ProcessTypeOK, NoFile
<1>5. EnvInv
  BY <1>2, <1>3 DEF EnvInv, Opened, LastCounts
<1>6. ScriptInv /\ OwnRules
  BY <1>2 DEF ScriptInv, OwnRules
<1>7. OutcomeIsDeclared
  BY <1>2, <1>3 DEF OutcomeIsDeclared
<1> QED
  BY <1>1, <1>4, <1>5, <1>6, <1>7 DEF ProcessInv

\* The environment, as each pair is added.
LEMMA EnvNext ==
  ASSUME ProcessInv, AddEnv \/ EnvAdded \/ OpenSource \/ AddFrom \/ FromAdded
  PROVE  EnvInv'
<1>1. /\ process \in Process /\ process' = process /\ next \in Nat \ {0}
      /\ Sources' = Sources /\ Givers' = Givers
  <2>1. process' = process
    BY DEF AddEnv, EnvAdded, OpenSource, AddFrom, FromAdded
  <2>2. process \in Process /\ next \in Nat \ {0}
    BY DEF ProcessInv, ProcessTypeOK
  <2>3. Sources' = Sources
    BY <2>1 DEF Sources
  <2>4. Givers' = Givers
    BY <2>1, <2>3 DEF Givers
  <2> QED
    BY <2>1, <2>2, <2>3, <2>4
<1> DEFINE m == Len(process.env)
           n == Len(Sources)
<1>2. m \in Nat /\ n \in Nat /\ DOMAIN Sources = 1..n /\ DOMAIN process.env = 1..m
  BY <1>1, SourcesAre
<1>3. /\ \A k \in 1..m : Givers[k] = {<<<<"", process.env[k].name>>, process.env[k].value>>}
      /\ \A k \in 1..n : Givers[m + k] = Sources[k]
  BY <1>1, GiversAre
<1>4. LastCounts(env, GivenSoFar, Opened) /\ EnvInv
  BY DEF ProcessInv, EnvInv
<1> HIDE DEF m, n
<1>5. CASE AddEnv
  <2> DEFINE given == GivenSoFar
             mid == [k \in 1..next |-> IF k = next THEN {} ELSE given[k]]
  <2>1. /\ pc = "env" /\ next \in 1..m /\ pc' = "env" /\ next' = next + 1
        /\ pending = {} /\ pending' = {}
        /\ env' = WithEnv(env, <<"", process.env[next].name>>, process.env[next].value)
    BY <1>2, <1>4, <1>5 DEF AddEnv, EnvInv, m
  <2>2. Opened = next - 1 /\ Opened' = next
    <3>1. (next + 1) - 1 = next
      BY <1>1
    <3> QED
      BY <2>1, <3>1 DEF Opened
  <2>3. /\ \A k \in 1..(next - 1) : given[k] = Givers[k]
        /\ \A k \in 1..next : GivenSoFar'[k] = Givers[k]
    BY <1>1, <2>1, <2>2 DEF GivenSoFar
  <2>4. LastCounts(env, mid, next)
    <3>1. (next - 1) \in Nat /\ (next - 1) + 1 = next
      BY <1>1
    <3>2. /\ \A k \in 1..(next - 1) : mid[k] = given[k]
          /\ mid[next] = {}
      BY <1>1
    <3>3. LastCounts(env, given, next - 1)
      BY <1>4, <2>2
    <3> HIDE DEF mid, given
    <3> QED
      BY <3>1, <3>2, <3>3, NothingMoreGiven
  <2>5. /\ \A k \in 1..(next - 1) : GivenSoFar'[k] = mid[k]
        /\ GivenSoFar'[next] =
             mid[next] \cup {<<<<"", process.env[next].name>>, process.env[next].value>>}
    <3>1. mid[next] = {} /\ \A k \in 1..(next - 1) : mid[k] = given[k] /\ k \in 1..next
      BY <1>1
    <3>2. next \in 1..next
      BY <1>1
    <3>3. Givers[next] = {<<<<"", process.env[next].name>>, process.env[next].value>>}
      BY <1>3, <2>1
    <3> HIDE DEF mid, given
    <3> QED
      BY <2>3, <3>1, <3>2, <3>3
  <2>6. LastCounts(env', GivenSoFar', next)
    <3> HIDE DEF mid, given
    <3> QED
      BY <1>1, <2>1, <2>4, <2>5, OneMoreGiven
  <2>7. next + 1 \in 1..(m + 1)
    <3>1. m \in Nat /\ next \in 1..m
      BY <1>2, <2>1
    <3> QED
      BY <3>1
  <2> QED
    BY <1>1, <2>1, <2>2, <2>6, <2>7 DEF EnvInv, m
<1>6. CASE EnvAdded
  <2>1. /\ pc = "env" /\ next = m + 1 /\ pc' = "envFrom" /\ next' = 1
        /\ pending = {} /\ pending' = {} /\ env' = env
    BY <1>1, <1>2, <1>4, <1>6 DEF EnvAdded, EnvInv, m
  <2>2. Opened = m /\ Opened' = m
    BY <1>1, <1>2, <2>1 DEF Opened, m
  <2>3. GivenSoFar' = GivenSoFar
    BY <1>1, <2>1, <2>2 DEF GivenSoFar
  <2>4. 1 \in 1..(n + 1)
    BY <1>2
  <2> QED
    BY <1>1, <1>4, <2>1, <2>2, <2>3, <2>4 DEF EnvInv, n
<1>7. CASE OpenSource
  <2>1. /\ pc = "envFrom" /\ next \in 1..n /\ pc' = "envFrom" /\ next' = next + 1
        /\ pending = {} /\ pending' = Sources[next] /\ env' = env
    BY <1>2, <1>7 DEF OpenSource
  <2>2. Opened = m + (next - 1) /\ Opened' = Opened + 1 /\ Opened \in Nat
        /\ Opened' = m + next
    BY <1>1, <1>2, <2>1 DEF Opened, m
  <2>3. /\ \A k \in 1..Opened : GivenSoFar'[k] = GivenSoFar[k]
        /\ GivenSoFar'[Opened + 1] = {}
    <3>1. Givers[Opened + 1] = Sources[next]
      BY <1>3, <2>1, <2>2
    <3> QED
      BY <1>1, <2>1, <2>2, <3>1 DEF GivenSoFar
  <2>4. LastCounts(env, GivenSoFar', Opened + 1)
    BY <1>4, <2>2, <2>3, NothingMoreGiven
  <2>5. next + 1 \in 1..(n + 1) /\ next + 1 > 1 /\ (next + 1) - 1 = next
    BY <1>2, <2>1
  <2> QED
    BY <1>1, <2>1, <2>2, <2>4, <2>5 DEF EnvInv, n
<1>8. CASE AddFrom
  <2>1. PICK pair \in pending :
          env' = WithEnv(env, pair[1], pair[2]) /\ pending' = pending \ {pair}
    BY <1>8 DEF AddFrom
  <2>2. pc = "envFrom" /\ pc' = "envFrom" /\ next' = next
    BY <1>8 DEF AddFrom
  <2>3. /\ next \in 1..(n + 1) /\ next > 1 /\ next - 1 \in 1..n
        /\ pending \subseteq Sources[next - 1]
    BY <1>2, <1>4, <2>1, <2>2 DEF EnvInv, n
  <2>4. pair = <<pair[1], pair[2]>>
    BY <1>1, <1>2, <2>1, <2>3, SourcesAre
  <2>5. Opened = m + (next - 1) /\ Opened' = Opened /\ Opened \in Nat \ {0}
    BY <1>1, <1>2, <2>2, <2>3 DEF Opened, m
  <2>6. Givers[Opened] = Sources[next - 1]
    BY <1>3, <2>3, <2>5
  <2>7. /\ \A k \in 1..(Opened - 1) : GivenSoFar'[k] = GivenSoFar[k]
        /\ GivenSoFar'[Opened] = GivenSoFar[Opened] \cup {<<pair[1], pair[2]>>}
    <3>1. Opened \in 1..Opened /\ \A k \in 1..(Opened - 1) : k \in 1..Opened /\ k # Opened
      BY <2>5
    <3>2. GivenSoFar'[Opened] = Givers[Opened] \ pending'
      BY <1>1, <2>5, <3>1 DEF GivenSoFar
    <3>3. GivenSoFar[Opened] = Givers[Opened] \ pending
      BY <3>1 DEF GivenSoFar
    <3>4. Givers[Opened] \ pending' = (Givers[Opened] \ pending) \cup {<<pair[1], pair[2]>>}
      BY <2>1, <2>3, <2>4, <2>6
    <3>5. \A k \in 1..(Opened - 1) : GivenSoFar'[k] = GivenSoFar[k]
      BY <1>1, <2>5, <3>1 DEF GivenSoFar
    <3> QED
      BY <3>2, <3>3, <3>4, <3>5
  <2>8. LastCounts(env', GivenSoFar', Opened)
    BY <1>4, <2>1, <2>5, <2>7, OneMoreGiven
  <2>9. pending' \subseteq Sources[next - 1]
    BY <2>1, <2>3
  <2> QED
    BY <1>1, <2>2, <2>3, <2>5, <2>8, <2>9 DEF EnvInv, n
<1>9. CASE FromAdded
  <2>1. /\ pc = "envFrom" /\ next = n + 1 /\ pc' = "file"
        /\ pending = {} /\ pending' = {} /\ env' = env
    BY <1>1, <1>2, <1>4, <1>9 DEF FromAdded, EnvInv, n
  <2>2. Opened = m + n /\ Opened' = m + n
    BY <1>1, <1>2, <2>1 DEF Opened, m, n
  <2>3. GivenSoFar' = GivenSoFar
    BY <1>1, <2>1, <2>2 DEF GivenSoFar
  <2> QED
    BY <1>1, <1>4, <2>1, <2>2, <2>3 DEF EnvInv
<1> QED
  BY <1>5, <1>6, <1>7, <1>8, <1>9

-----------------------------------------------------------------------------
(* The environment is made before anything is run.                          *)

\* Adding to the environment leaves the script alone.
LEMMA BeforeNext ==
  ASSUME ProcessInv, AddEnv \/ EnvAdded \/ OpenSource \/ AddFrom \/ FromAdded
  PROVE  ProcessInv'
<1>1. /\ process \in Process /\ Len(process.task.steps) = 1
      /\ ProcessTypeOK /\ EnvInv /\ ScriptInv
  BY DEF ProcessInv
<1>2. /\ process' = process /\ file' = file /\ line' = line /\ clock' = clock /\ exit' = exit
      /\ pc \in {"env", "envFrom"} /\ pc' \in {"env", "envFrom", "file"}
  BY DEF AddEnv, EnvAdded, OpenSource, AddFrom, FromAdded
<1>3. line = 1 /\ clock = 0
  BY <1>1, <1>2 DEF ScriptInv
<1>4. next' \in Nat \ {0}
  <2>1. next' = next \/ next' = next + 1 \/ next' = 1
    BY DEF AddEnv, EnvAdded, OpenSource, AddFrom, FromAdded
  <2>2. next \in Nat \ {0}
    BY <1>1 DEF ProcessTypeOK
  <2> QED
    BY <2>1, <2>2
<1>5. DOMAIN env' \subseteq ({""} \cup STRING) \X STRING
  <2>1. CASE AddEnv
    <3>1. env' = WithEnv(env, <<"", process.env[next].name>>, process.env[next].value)
          /\ process.env[next].name \in STRING
      BY <1>1, <2>1, SourcesAre DEF AddEnv
    <3>2. DOMAIN env' = DOMAIN env \cup {<<"", process.env[next].name>>}
      BY <3>1 DEF WithEnv
    <3>3. <<"", process.env[next].name>> \in ({""} \cup STRING) \X STRING
      BY <3>1
    <3>4. DOMAIN env \subseteq ({""} \cup STRING) \X STRING
      BY <1>1 DEF ProcessTypeOK
    <3> QED
      BY <3>2, <3>3, <3>4
  <2>2. CASE AddFrom
    <3>1. PICK pair \in pending : env' = WithEnv(env, pair[1], pair[2])
      BY <2>2 DEF AddFrom
    <3>2. next - 1 \in DOMAIN Sources /\ pending \subseteq Sources[next - 1]
      <4>1. next \in 1..(Len(Sources) + 1) /\ next > 1 /\ pending \subseteq Sources[next - 1]
        BY <1>1, <2>2, <3>1 DEF EnvInv, AddFrom
      <4>2. Len(Sources) \in Nat /\ DOMAIN Sources = 1..Len(Sources)
        BY <1>1, SourcesAre
      <4> QED
        BY <4>1, <4>2
    <3>3. pair[1] \in STRING \X STRING
      BY <1>1, <3>1, <3>2, SourcesAre
    <3>4. DOMAIN env' = DOMAIN env \cup {pair[1]}
      BY <3>1 DEF WithEnv
    <3> QED
      BY <1>1, <3>3, <3>4 DEF ProcessTypeOK
  <2>3. CASE EnvAdded \/ OpenSource \/ FromAdded
    BY <1>1, <2>3 DEF ProcessTypeOK, EnvAdded, OpenSource, FromAdded
  <2> QED
    BY <2>1, <2>2, <2>3
<1>6. ProcessTypeOK'
  BY <1>1, <1>2, <1>4, <1>5 DEF ProcessTypeOK
<1>7. EnvInv'
  BY EnvNext
<1>8. ScriptInv' /\ OwnRules'
  BY <1>2, <1>3 DEF ScriptInv, OwnRules
<1>9. OutcomeIsDeclared'
  <2>1. process.limit \in Nat
    BY <1>1 DEF Process
  <2> QED
    BY <1>2, <1>3, <2>1 DEF OutcomeIsDeclared
<1> QED
  BY <1>1, <1>2, <1>6, <1>7, <1>8, <1>9 DEF ProcessInv

\* What follows leaves the environment as it is.
LEMMA EnvStays ==
  ASSUME ProcessInv, pc \in {"file", "run", "ended"}, pc' \in {"file", "run", "ended"},
         process' = process, env' = env, pending' = pending
  PROVE  EnvInv'
<1>1. Sources' = Sources
  BY DEF Sources
<1>2. Givers' = Givers
  BY <1>1 DEF Givers
<1>3. Opened' = Opened
  BY <1>1 DEF Opened
<1>4. GivenSoFar' = GivenSoFar
  BY <1>2, <1>3 DEF GivenSoFar
<1>5. EnvInv
  BY DEF ProcessInv
<1> QED
  BY <1>1, <1>3, <1>4, <1>5 DEF EnvInv

-----------------------------------------------------------------------------
(* The script.                                                              *)

\* What the kinds of a script and its timeout come to.
LEMMA ScriptFacts ==
  ASSUME process \in Process, Len(process.task.steps) = 1
  PROVE  /\ Interpreter \in {"none", "sh -e", "own", "sh", "unknown"}
         /\ Interpreter = "unknown" => process.shebang = "afterBlank"
         /\ Interpreter = "sh -e" <=> step.form = "script" /\ process.shebang = "none"
         /\ process.shebang = "first" => Interpreter \in {"own", "none"}
         /\ Wrapped(process.task, step) \in BOOLEAN
         /\ Len(process.lines) \in Nat /\ DOMAIN process.lines = 1..Len(process.lines)
         /\ \A i \in 1..Len(process.lines) : process.lines[i] \in LineEffect
<1>1. process.shebang \in {"none", "first", "afterBlank"} /\ process.lines \in Seq(LineEffect)
  BY DEF Process
<1>2. step.form \in Form
  <2>1. process.task \in PipelineTask
    BY DEF Process
  <2>2. process.task.steps \in Seq(Step)
    BY <2>1 DEF PipelineTask
  <2>3. \A S : \A s \in Seq(S) : \A i \in 1..Len(s) : s[i] \in S
    OBVIOUS
  <2>4. process.task.steps[1] \in Step
    BY <2>2, <2>3
  <2> QED
    BY <2>4 DEF Step, step
<1>3. Wrapped(process.task, step) \in BOOLEAN
  BY DEF Wrapped
<1>4. \A S : \A s \in Seq(S) :
        Len(s) \in Nat /\ DOMAIN s = 1..Len(s) /\ \A i \in 1..Len(s) : s[i] \in S
  OBVIOUS
<1>5. /\ Len(process.lines) \in Nat /\ DOMAIN process.lines = 1..Len(process.lines)
      /\ \A i \in 1..Len(process.lines) : process.lines[i] \in LineEffect
  BY <1>1, <1>4
<1>6. /\ Interpreter \in {"none", "sh -e", "own", "sh", "unknown"}
      /\ Interpreter = "unknown" => process.shebang = "afterBlank"
      /\ Interpreter = "sh -e" <=> step.form = "script" /\ process.shebang = "none"
      /\ process.shebang = "first" => Interpreter \in {"own", "none"}
  BY <1>1 DEF Interpreter
<1> QED
  BY <1>3, <1>5, <1>6

\* The whole seconds of a limit, in half seconds.
LEMMA SecondsFacts ==
  ASSUME NEW halves \in Nat
  PROVE  /\ Seconds(halves) \in Nat
         /\ 2 * Seconds(halves) >= 2 /\ 2 * Seconds(halves) >= halves - 1
         /\ 2 * Seconds(halves) <= IF halves < 2 THEN 2 ELSE halves
BY DEF Seconds

\* The wrapper is made with the timeout and the onError of the step.
LEMMA MakeFileNext == ASSUME ProcessInv, MakeFile PROVE ProcessInv'
<1>1. /\ process \in Process /\ Len(process.task.steps) = 1
      /\ ProcessTypeOK /\ ScriptInv
  BY DEF ProcessInv
<1>2. /\ process' = process /\ env' = env /\ pending' = pending /\ next' = next
      /\ line' = line /\ clock' = clock /\ exit' = exit /\ pc = "file" /\ pc' = "run"
      /\ file' = [wrapped |-> Wrapped(process.task, step), interpreter |-> Interpreter]
  BY DEF MakeFile
<1>3. line = 1 /\ clock = 0
  BY <1>1, <1>2 DEF ScriptInv
<1>4. step' = step /\ Interpreter' = Interpreter
  BY <1>2 DEF step, Interpreter
<1>5. process.limit \in Nat
  BY <1>1 DEF Process
<1>6. ProcessTypeOK'
  BY <1>1, <1>2, ScriptFacts DEF ProcessTypeOK
<1>7. ScriptInv'
  <2>1. 0 <= 2 * Seconds(process.limit)
    BY <1>5, SecondsFacts
  <2>2. \A i \in 1..(1 - 1) : FALSE
    OBVIOUS
  <2> QED
    BY <1>2, <1>3, <1>4, <2>1, <2>2 DEF ScriptInv
<1>8. OwnRules' /\ OutcomeIsDeclared'
  BY <1>2, <1>3, <1>5 DEF OwnRules, OutcomeIsDeclared
<1>9. EnvInv'
  BY <1>2, EnvStays
<1> QED
  BY <1>1, <1>2, <1>6, <1>7, <1>8, <1>9 DEF ProcessInv

\* A line after another, until the script or its limit ends.
LEMMA RunNext ==
  ASSUME ProcessInv, Cannot \/ RunLine \/ Tick \/ Finish \/ Kill
  PROVE  ProcessInv'
<1>1. /\ process \in Process /\ Len(process.task.steps) = 1
      /\ ProcessTypeOK /\ ScriptInv /\ OutcomeIsDeclared
  BY DEF ProcessInv
<1>2. /\ process' = process /\ env' = env /\ pending' = pending /\ next' = next
      /\ file' = file /\ pc = "run" /\ pc' \in {"run", "ended"}
  BY DEF Cannot, RunLine, Tick, Finish, Kill, Running, Exit
<1> DEFINE n == Len(process.lines)
           limit == 2 * Seconds(process.limit)
           wrapped == Wrapped(process.task, step)
           masked == IgnoresExit(process.task, step)
           bounded == Bounded(process.task, step)
<1>3. /\ n \in Nat /\ DOMAIN process.lines = 1..n
      /\ line \in 1..(n + 1) /\ clock \in 0..MaxClock /\ MaxClock \in Nat
  BY <1>1, ScriptFacts, ProcessAssumption DEF ProcessTypeOK
<1>4. /\ limit \in Nat /\ process.limit \in Nat
      /\ limit >= 2 /\ limit >= process.limit - 1
      /\ limit <= IF process.limit < 2 THEN 2 ELSE process.limit
  <2>1. process.limit \in Nat
    BY <1>1 DEF Process
  <2> QED
    BY <2>1, SecondsFacts
<1>5. /\ file.wrapped = wrapped /\ file.interpreter = Interpreter
      /\ HasLimit <=> bounded
      /\ file.wrapped /\ step.onError = "continue" <=> masked
      /\ bounded => clock <= limit
  BY <1>1, <1>2 DEF ScriptInv, HasLimit, Bounded, IgnoresExit
<1>6. step' = step /\ Interpreter' = Interpreter /\ (HasLimit' <=> HasLimit)
  BY <1>2 DEF step, Interpreter, HasLimit
<1>7. /\ line' \in 1..(n + 1) /\ clock' \in 0..MaxClock
      /\ bounded => clock' <= limit
  <2>1. CASE Cannot
    BY <1>3, <1>5, <2>1 DEF Cannot
  <2>2. CASE RunLine
    <3>1. line <= n /\ line' = line + 1 /\ clock' = clock
      BY <2>2 DEF RunLine
    <3> HIDE DEF n, limit, bounded
    <3> QED
      BY <1>3, <1>5, <3>1
  <2>3. CASE Tick
    <3>1. /\ line <= n /\ (line' = line \/ line' = line + 1)
          /\ clock' = clock + 1 /\ clock < MaxClock
          /\ bounded => clock < limit
      BY <1>5, <2>3 DEF Tick
    <3> HIDE DEF n, limit, bounded
    <3> QED
      BY <1>3, <1>4, <3>1
  <2>4. CASE Finish
    BY <1>3, <1>5, <2>4 DEF Finish
  <2>5. CASE Kill
    BY <1>3, <1>5, <2>5 DEF Kill
  <2> QED
    BY <2>1, <2>2, <2>3, <2>4, <2>5
<1>8. exit' \in {"none", "ok", "failed"} /\ (exit' = "none" <=> pc' # "ended")
  BY <1>1, <1>2 DEF ProcessTypeOK, Cannot, RunLine, Tick, Finish, Kill, Exit
<1>9. ProcessTypeOK'
  BY <1>1, <1>2, <1>7, <1>8 DEF ProcessTypeOK
<1>10. pc' = "run" /\ file.interpreter = "sh -e" =>
         \A i \in 1..(line' - 1) : process.lines[i] # "fail"
  <2>1. SUFFICES ASSUME pc' = "run", file.interpreter = "sh -e",
                        NEW i \in 1..(line' - 1)
                 PROVE  process.lines[i] # "fail"
    OBVIOUS
  <2>2. \A j \in 1..(line - 1) : process.lines[j] # "fail"
    BY <1>1, <1>2, <2>1 DEF ScriptInv
  <2>3. \/ line' = line
        \/ line' = line + 1 /\ process.lines[line] # "fail"
    BY <1>2, <2>1 DEF Cannot, RunLine, Tick, Finish, Kill, Exit
  <2>4. line \in Nat
    BY <1>3
  <2>5. CASE line' = line
    BY <2>1, <2>2, <2>5
  <2>6. CASE line' = line + 1 /\ process.lines[line] # "fail"
    <3>1. i \in 1..((line + 1) - 1)
      BY <2>1, <2>6
    <3>2. i \in 1..(line - 1) \/ i = line
      BY <2>4, <3>1
    <3> QED
      BY <2>2, <2>6, <3>2
  <2> QED
    BY <2>3, <2>5, <2>6
<1>11. ScriptInv'
  BY <1>2, <1>5, <1>6, <1>7, <1>10 DEF ScriptInv
<1>12. OwnRules' /\ OutcomeIsDeclared'
  <2>1. CASE pc' = "run"
    <3>1. step' = step /\ process' = process
      BY <1>2, <1>6
    <3>2. (Bounded(process.task, step) => clock <= IF process.limit < 2 THEN 2 ELSE process.limit)'
      BY <1>3, <1>4, <1>7, <3>1
    <3> QED
      BY <2>1, <3>2 DEF OwnRules, OutcomeIsDeclared
  <2>2. CASE pc' = "ended"
    <3>1. CASE Cannot
      <4>1. /\ Interpreter = "unknown" /\ process.shebang = "afterBlank"
            /\ masked => exit' = "ok"
            /\ ~masked => exit' = "failed"
        BY <1>1, <1>5, <3>1, ScriptFacts DEF Cannot, Exit
      <4> QED
        BY <1>2, <1>3, <1>4, <1>6, <1>7, <2>2, <4>1 DEF OwnRules, OutcomeIsDeclared
    <3>2. CASE RunLine
      <4>1. /\ Interpreter = "sh -e" /\ process.shebang = "none"
            /\ "fail" \in ToSet(process.lines)
            /\ masked => exit' = "ok"
            /\ ~masked => exit' = "failed"
        <5>1. /\ line <= n /\ process.lines[line] = "fail"
              /\ file.interpreter = "sh -e"
              /\ exit' = IF file.wrapped /\ step.onError = "continue" THEN "ok" ELSE "failed"
          BY <1>2, <2>2, <3>2 DEF RunLine, Exit
        <5>2. line \in DOMAIN process.lines /\ Interpreter = "sh -e"
          <6>1. line \in 1..n
            <7>1. n \in Nat /\ line \in 1..(n + 1) /\ line <= n
              BY <1>3, <5>1
            <7> HIDE DEF n
            <7> QED
              BY <7>1
          <6>2. Interpreter = "sh -e"
            BY <1>5, <5>1
          <6> QED
            BY <1>3, <6>1, <6>2
        <5>3. "fail" \in ToSet(process.lines)
          BY <5>1, <5>2 DEF ToSet
        <5>4. process.shebang = "none"
          BY <1>1, <5>2, ScriptFacts
        <5> QED
          BY <1>5, <5>1, <5>2, <5>3, <5>4
      <4>2. OwnRules'
        BY <1>2, <4>1 DEF OwnRules
      <4>3. OutcomeIsDeclared'
        <5>1. bounded => clock' <= IF process.limit < 2 THEN 2 ELSE process.limit
          BY <1>3, <1>4, <1>7
        <5>2. /\ process' = process /\ pc' = "ended"
              /\ (IgnoresExit(process.task, step)' <=> masked)
              /\ (Bounded(process.task, step)' <=> bounded)
          BY <1>2, <1>6, <2>2
        <5> HIDE DEF masked, bounded
        <5> QED
          BY <4>1, <5>1, <5>2 DEF OutcomeIsDeclared
      <4> QED
        BY <4>2, <4>3
    <3>3. CASE Tick
      BY <1>2, <2>2, <3>3 DEF Tick
    <3>4. CASE Finish
      <4>1. /\ line > n /\ line' = line
            /\ masked => exit' = "ok"
            /\ ~masked /\ exit' = "failed" => "fail" \in ToSet(process.lines)
        <5>1. process.lines # <<>> => n \in DOMAIN process.lines
          BY <1>1, <1>3 DEF Process
        <5>2. process.lines # <<>> /\ Last(process.lines) = "fail" =>
                "fail" \in ToSet(process.lines)
          BY <5>1 DEF Last, ToSet
        <5> QED
          BY <1>5, <3>4, <5>2 DEF Finish, Exit
      <4>2. step.form = "script" /\ process.shebang = "none" =>
              "fail" \notin ToSet(process.lines)
        <5>1. SUFFICES ASSUME step.form = "script", process.shebang = "none"
                       PROVE  \A i \in 1..n : process.lines[i] # "fail"
          BY <1>3 DEF ToSet
        <5>2. file.interpreter = "sh -e"
          BY <1>1, <1>5, <5>1, ScriptFacts
        <5>3. \A i \in 1..(line - 1) : process.lines[i] # "fail"
          BY <1>1, <1>2, <5>2 DEF ScriptInv
        <5>4. \A i \in 1..n : i \in 1..(line - 1)
          BY <1>3, <4>1
        <5> QED
          BY <5>3, <5>4
      <4> QED
        BY <1>2, <1>3, <1>4, <1>6, <1>7, <2>2, <4>1, <4>2 DEF OwnRules, OutcomeIsDeclared
    <3>5. CASE Kill
      <4>1. /\ bounded /\ clock' >= limit
            /\ masked => exit' = "ok"
            /\ ~masked => exit' = "failed"
        BY <1>5, <3>5 DEF Kill, Exit
      <4> QED
        BY <1>2, <1>3, <1>4, <1>6, <1>7, <2>2, <4>1 DEF OwnRules, OutcomeIsDeclared
    <3> QED
      BY <3>1, <3>2, <3>3, <3>4, <3>5
  <2> QED
    BY <1>2, <2>1, <2>2
<1>13. EnvInv'
  BY <1>2, EnvStays
<1> QED
  BY <1>1, <1>2, <1>9, <1>11, <1>12, <1>13 DEF ProcessInv

\* Every step keeps the invariant.
LEMMA ProcessInvNext == ProcessInv /\ [ProcessNext]_processVars => ProcessInv'
<1> SUFFICES ASSUME ProcessInv, [ProcessNext]_processVars PROVE ProcessInv'
  OBVIOUS
<1>1. CASE UNCHANGED processVars
  <2>1. /\ process' = process /\ pc' = pc /\ next' = next /\ pending' = pending /\ env' = env
        /\ file' = file /\ line' = line /\ clock' = clock /\ exit' = exit
    BY <1>1 DEF processVars
  <2>2. step' = step /\ Sources' = Sources /\ Interpreter' = Interpreter
    BY <2>1 DEF step, Sources, Interpreter
  <2>3. Givers' = Givers /\ Opened' = Opened /\ (HasLimit' <=> HasLimit)
    BY <2>1, <2>2 DEF Givers, Opened, HasLimit
  <2>4. GivenSoFar' = GivenSoFar
    BY <2>1, <2>3 DEF GivenSoFar
  <2>5. ProcessTypeOK'
    BY <2>1 DEF ProcessInv, ProcessTypeOK
  <2>6. EnvInv'
    BY <2>1, <2>2, <2>3, <2>4 DEF ProcessInv, EnvInv
  <2>7. ScriptInv'
    BY <2>1, <2>2, <2>3 DEF ProcessInv, ScriptInv
  <2>8. OwnRules' /\ OutcomeIsDeclared'
    BY <2>1, <2>2 DEF ProcessInv, OwnRules, OutcomeIsDeclared
  <2> QED
    BY <2>1, <2>5, <2>6, <2>7, <2>8 DEF ProcessInv
<1>2. CASE ProcessNext
  BY <1>2, BeforeNext, MakeFileNext, RunNext DEF ProcessNext
<1> QED
  BY <1>1, <1>2

\* Once nothing is pending all has been given.
LEMMA LastSourceFollows == ProcessInv => LastSourceCounts
<1> SUFFICES ASSUME ProcessInv, Given PROVE LastSourceCounts
  BY DEF LastSourceCounts
<1>1. /\ process \in Process /\ pending = {} /\ LastCounts(env, GivenSoFar, Opened)
  BY DEF ProcessInv, EnvInv, Given
<1>2. DOMAIN Givers = 1..Opened
  BY <1>1, GiversAre DEF Opened, Given
<1>3. \A k \in 1..Opened : GivenSoFar[k] = Givers[k]
  BY <1>1 DEF GivenSoFar
<1>4. /\ \A name \in DOMAIN env : \E k \in DOMAIN Givers :
           /\ <<name, env[name]>> \in Givers[k]
           /\ \A j \in DOMAIN Givers : Gives(j, name) => j <= k
      /\ \A k \in DOMAIN Givers : \A pair \in Givers[k] : pair[1] \in DOMAIN env
  BY <1>1, <1>2, <1>3 DEF LastCounts, Gives
<1> QED
  BY <1>4 DEF LastSourceCounts

-----------------------------------------------------------------------------

\* THE INVARIANT HOLDS of every process.
LEMMA ProcessInvariant == ProcessSpec => []ProcessInv
BY ProcessInvInit, ProcessInvNext, PTL DEF ProcessSpec

\* TYPE CORRECTNESS.
THEOREM ProcessTypeCorrect == ProcessSpec => []ProcessTypeOK
<1>1. ProcessInv => ProcessTypeOK
  BY DEF ProcessInv
<1> QED
  BY <1>1, ProcessInvariant, PTL

\* THE LAST SOURCE COUNTS, whatever the entries of env and envFrom, and in whatever
\* order the pairs of a ConfigMap or a Secret are taken: no name keeps the value of
\* an earlier entry of env when a later one gives it, or that of an earlier source, and
\* none is added that nothing gives.
THEOREM LastSourceWins == ProcessSpec => []LastSourceCounts
BY LastSourceFollows, ProcessInvariant, PTL

\* THE REST OF THE SYSTEM MAY RELY ON IT.  However long the script, and wherever
\* its lines fail, wait or hang: a step whose errors are ignored exits with none, a
\* bounded one has stopped by its timeout, and no other outcome is made up.
THEOREM OutcomeAsDeclared == ProcessSpec => []OutcomeIsDeclared
<1>1. ProcessInv => OutcomeIsDeclared
  BY DEF ProcessInv
<1> QED
  BY <1>1, ProcessInvariant, PTL

\* AN INTERPRETER'S OWN RULES: no error ends a script early that names its own.
THEOREM InterpreterKeepsItsRules == ProcessSpec => []OwnRules
<1>1. ProcessInv => OwnRules
  BY DEF ProcessInv
<1> QED
  BY <1>1, ProcessInvariant, PTL
=============================================================================

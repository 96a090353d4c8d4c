----------------------------- MODULE CacheDirs ------------------------------
(***************************************************************************)
(* Results, emptyDir volumes and workspaces are persistent cache            *)
(* directories of BuildKit: they are known by their name, stay when the     *)
(* build is over, and are shared by all builds that mount them, one after   *)
(* the other or at once.                                                   *)
(***************************************************************************)
EXTENDS DeclaredGraph

CONSTANTS
  Builds,            \* the builds the daemon is asked for
  Meta,              \* build -> name and generateName of its run
  RunOf              \* build -> the run, but for its name

ASSUME BuildsAssumption ==
  /\ Meta \in [Builds -> [name : STRING, generateName : STRING]]
  /\ RunOf \in [Builds -> PipelineRun]

\* A run without a name gets the same one each time it is built.
Named(meta) == IF meta.name = "" THEN meta.generateName \o "generated" ELSE meta.name

RunFor(b) == [RunOf[b] EXCEPT !.name = Named(Meta[b])]

Graph(b) == GraphOf(RunFor(b))

VARIABLES
  phase,             \* build -> "new", "solving" or "over"
  running,           \* build -> the operations that run
  done,              \* build -> the operations that are done
  wrote,             \* build -> the operations that have written
  cache              \* directory -> what builds have left in it

cacheVars == <<phase, running, done, wrote, cache>>

Mounted(b, v) == Graph(b)[v].writes \cup Graph(b)[v].reads

Dirs == UNION {UNION {Mounted(b, v) : v \in DOMAIN Graph(b)} : b \in Builds}

CacheInit ==
  /\ phase = [b \in Builds |-> "new"]
  /\ running = [b \in Builds |-> {}]
  /\ done = [b \in Builds |-> {}]
  /\ wrote = [b \in Builds |-> {}]
  /\ cache = [d \in Dirs |-> {}]

\* Equal operations of builds at the same time would be run once for both.
Begin(b) ==
  /\ phase[b] = "new"
  /\ \A other \in Builds : phase[other] = "solving" => Graph(other) # Graph(b)
  /\ phase' = [phase EXCEPT ![b] = "solving"]
  /\ UNCHANGED <<running, done, wrote, cache>>

Start(b, v) ==
  /\ phase[b] = "solving"
  /\ v \notin running[b] \cup done[b]
  /\ Graph(b)[v].inputs \subseteq done[b]
  /\ running' = [running EXCEPT ![b] = @ \cup {v}]
  /\ UNCHANGED <<phase, done, wrote, cache>>

\* A command writes what it has to say to every directory it may write to, over
\* what the same step of another build has left there.
Write(b, v) ==
  /\ v \in running[b] \ wrote[b]
  /\ Graph(b)[v].writes # {}
  /\ cache' = [d \in Dirs |->
                 IF d \in Graph(b)[v].writes
                 THEN {m \in cache[d] : m.step # v} \cup {[build |-> b, step |-> v]}
                 ELSE cache[d]]
  /\ wrote' = [wrote EXCEPT ![b] = @ \cup {v}]
  /\ UNCHANGED <<phase, running, done>>

\* Mutant of End: the operation goes on when its result is already used.
End_GoesOn(b, v) ==
  /\ v \in running[b]
  /\ done' = [done EXCEPT ![b] = @ \cup {v}]
  /\ UNCHANGED <<phase, running, wrote, cache>>

End(b, v) ==
  /\ v \in running[b]
  /\ running' = [running EXCEPT ![b] = @ \ {v}]
  /\ done' = [done EXCEPT ![b] = @ \cup {v}]
  /\ UNCHANGED <<phase, wrote, cache>>

\* The build is over, or ends early; directories keep what they hold.
Over(b) ==
  /\ phase[b] = "solving"
  /\ phase' = [phase EXCEPT ![b] = "over"]
  /\ running' = [running EXCEPT ![b] = {}]
  /\ UNCHANGED <<done, wrote, cache>>

CacheNext ==
  \E b \in Builds :
    \/ Begin(b) \/ Over(b)
    \/ \E v \in DOMAIN Graph(b) : Start(b, v) \/ Write(b, v) \/ End(b, v)

CacheSpec == CacheInit /\ [][CacheNext]_cacheVars

-----------------------------------------------------------------------------
(* Properties.                                                             *)

\* TYPE INVARIANT.
CacheTypeOK ==
  /\ phase \in [Builds -> {"new", "solving", "over"}]
  /\ \A b \in Builds : /\ running[b] \cup done[b] \subseteq DOMAIN Graph(b)
                       /\ running[b] \cap done[b] = {}
                       /\ wrote[b] \subseteq running[b] \cup done[b] \/ phase[b] = "over"
  /\ DOMAIN cache = Dirs
  /\ \A d \in Dirs : \A m \in cache[d] : m.build \in Builds /\ m.step \in wrote[m.build]

\* Runs whose users chose different names for all that directories are named by.
Apart(r, s) ==
  LET owners(x) == {x.name} \cup Names(x.tasks)
  IN  /\ owners(r) \cap owners(s) = {}
      /\ "finally" \notin owners(r) \cup owners(s)
      /\ Names(r.finally) \cap Names(s.finally) = {}

\* NO FOREIGN DATA.  A running step finds nothing in the directories it mounts
\* that a build of a run with other names has left there or is writing, although
\* runs, tasks, finally tasks, volumes and workspaces share one space of names.
NoForeignData ==
  \A b \in Builds : \A v \in running[b] : \A d \in Mounted(b, v) : \A m \in cache[d] :
    Apart(RunFor(b), RunFor(m.build)) => m.build = b

=============================================================================

------------------------------ MODULE BuildKit ------------------------------
(***************************************************************************)
(* The BuildKit daemon as tkn-local relies on it: Solve is given a graph of *)
(* operations and its last one, and runs each operation that one needs     *)
(* once all those whose results it mounts are done, several at a time.     *)
(* The code of the daemon is not part of the repository.                   *)
(***************************************************************************)
EXTENDS Naturals

CONSTANT Faults      \* whether operations may fail outside their command

VARIABLES
  root,              \* the vertex Solve is asked for, set by the translation
  llb,               \* vertex -> operation
  status,            \* vertex -> how far the build of it has got
  build              \* how far the call of Build has got

\* A vertex has failed by the exit code of its command, or broken without one.
VertexStatus == {"pending", "running", "done", "failed", "broken", "canceled"}

\* Marshalling the root state keeps what it can reach: the vertices that are
\* in every set closed under inputs around the root.
Closed(S) == root \in S /\ \A v \in S : llb[v].inputs \subseteq S

Reachable == {v \in DOMAIN llb : \A S \in SUBSET DOMAIN llb : Closed(S) => v \in S}

\* An operation without a command line cannot be marshalled.
Marshals == \A v \in Reachable : llb[v].args

\* Marshalling also looks up the config of each image, which may not be had.
MarshalFails == ~Marshals \/ Faults

Solve ==
  /\ build = "idle"
  /\ \/ /\ Marshals
        /\ build' = "solving"
        /\ status' = [v \in Reachable |-> "pending"]
     \/ /\ MarshalFails
        /\ build' = "failed"
        /\ UNCHANGED status
  /\ UNCHANGED llb

Ready(v) ==
  /\ status[v] = "pending"
  /\ \A u \in llb[v].inputs : status[u] = "done"

SetStatus(v, s) ==
  /\ build = "solving"
  /\ status' = [status EXCEPT ![v] = s]
  /\ UNCHANGED <<llb, build>>

Start(v) == Ready(v) /\ SetStatus(v, "running")

\* The command of v ends, with or without success.
ExitsWith(v, success) ==
  /\ status[v] = "running"
  /\ SetStatus(v, IF success \/ llb[v].ignores THEN "done" ELSE "failed")

Exit(v) == \E success \in BOOLEAN : ExitsWith(v, success)

\* timeout(1) ends the command, with exit code 124.
TimeoutExpires(v) == llb[v].bounded /\ ExitsWith(v, FALSE)

\* The operation fails outside its command: no image, no shell, no space.
Breaks(v) == Faults /\ status[v] = "running" /\ SetStatus(v, "broken")

\* What is left is given up when the solve ends early.
GiveUp ==
  status' = [v \in DOMAIN status |->
               IF status[v] \in {"pending", "running"} THEN "canceled" ELSE status[v]]

\* Solve returns the error of the operation that failed.
Abort ==
  /\ build = "solving"
  /\ \E v \in DOMAIN status : status[v] \in {"failed", "broken"}
  /\ build' = "failed"
  /\ GiveUp
  /\ UNCHANGED llb

\* The user interrupts tkn-local, whose context is then canceled.
Interrupt ==
  /\ build = "solving"
  /\ build' = "interrupted"
  /\ GiveUp
  /\ UNCHANGED llb

Finish ==
  /\ build = "solving"
  /\ status[root] = "done"
  /\ build' = "succeeded"
  /\ UNCHANGED <<llb, status>>

SolveNext ==
  \/ \E v \in DOMAIN status :
       Start(v) \/ Exit(v) \/ TimeoutExpires(v) \/ Breaks(v)
  \/ Abort \/ Interrupt \/ Finish

=============================================================================

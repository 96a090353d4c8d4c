---------------------------- MODULE MCCacheDirs -----------------------------
(* Three builds of runs whose names come as close as they can.       *)
EXTENDS CacheDirs

Step1 == [form |-> "script", onError |-> "stopAndFail", timeout |-> FALSE, volumes |-> {}]

Task(name, after, ws, vols) ==
  [name |-> name, when |-> {}, runAfter |-> after, workspaces |-> ws, ref |-> FALSE,
   unsupported |-> FALSE, defect |-> "none", timeout |-> FALSE,
   steps |-> <<[Step1 EXCEPT !.volumes = vols]>>]

PipelineOf(ts, fs, ws) ==
  [name |-> "", spec |-> "embedded", apiFields |-> "stable", unsupported |-> FALSE,
   tasks |-> ts, finally |-> fs, workspaces |-> <<[name |-> ws, kind |-> "cacheDir", usable |-> TRUE]>>]

Three == 1..3

\* A finally task has the name of a task of the other run, a workspace and a
\* volume the fixed names.
NearRuns ==
  <<PipelineOf(<<Task("a", {}, {"volume"}, {"results"}), Task("b", {"a"}, {}, {})>>,
               <<Task("c", {}, {}, {})>>, "volume"),
    PipelineOf(<<Task("c", {}, {"results"}, {"results"})>>, <<Task("a", {}, {}, {})>>, "results"),
    PipelineOf(<<Task("c", {}, {"results"}, {"results"})>>, <<Task("a", {}, {}, {})>>, "results")>>

\* The third is the second once more.
NearNames == <<[name |-> "r", generateName |-> ""], [name |-> "", generateName |-> "s"],
               [name |-> "sgenerated", generateName |-> ""]>>

=============================================================================

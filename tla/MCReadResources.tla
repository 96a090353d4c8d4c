-------------------------- MODULE MCReadResources ---------------------------
(* Small files: up to two objects, with comments, separators and texts that  *)
(* look like them in every place.                                           *)
EXTENDS ReadResources

L(is) == [is |-> is, kind |-> "none", name |-> ""]

Obj(kind, name) == [is |-> "object", kind |-> kind, name |-> name]

In(kind, name) == [is |-> "embedded", kind |-> kind, name |-> name]

\* Texts that hold a manifest, which may be the end of the object or not.
Manifests ==
  {<<L("text"), L("rule"), In(k, "e"), L("inner")>> \o end :
     k \in {"ConfigMap", "TaskRun", "Unknown"}, end \in {<<>>, <<L("text")>>}}
  \cup {<<In("Task", "e"), L("inner"), L("rule"), In("Other", "f")>>}

Bodies == {<<>>, <<L("text"), L("comment"), L("hashes")>>, <<L("dashes"), L("text")>>,
           <<L("rule")>>} \cup Manifests

Before == {<<>>, <<L("separator")>>, <<L("comment"), L("bare"), L("comment")>>,
           <<L("comment"), L("separator")>>}

Between == {<<L("separator")>>, <<L("comment"), L("separator"), L("blank")>>,
            <<L("separator"), L("comment"), L("separator")>>, <<L("bare"), L("separator")>>}

After == {<<>>, <<L("separator")>>, <<L("comment")>>}

Run(kind, b) == <<Obj(kind, "r")>> \o b

\* A file of a run and one other object, framed in each way.
MainFiles ==
  {x \o Run(k, b) \o y \o <<o>> \o z :
     x \in Before, k \in {"TaskRun", "PipelineRun"}, b \in Bodies, y \in Between,
     o \in {Obj("ConfigMap", "c"), Obj("Other", "c"), Obj("Unknown", "c"), Obj("TaskRun", "s")},
     z \in After}
  \cup {<<Obj("Task", "t")>>}

Definition(kind, name, is) == <<Obj(kind, name), L(is)>>

\* Two files that define the same names or others.
Contexts ==
  {<<Definition("Task", "t", i) \o <<L("separator")>> \o Definition(k, n, j),
     Definition("Task", n, "text")>> :
     i \in {"text", "hashes"}, j \in {"text", "dashes", "rule", "hashes"},
     k \in {"Task", "Pipeline", "ConfigMap"}, n \in {"t", "u"}}

PlainRun(kind) == Run(kind, <<L("text")>>)

AllInputs ==
  {[main |-> m, context |-> <<m>>] : m \in MainFiles} \cup
  {[main |-> PlainRun(k), context |-> c] : k \in {"TaskRun", "PipelineRun"}, c \in Contexts}

ScriptInputs ==
  {[main |-> Run("TaskRun", <<[L("interpreter") EXCEPT !.name = "bash"], L("text")>>),
    context |-> <<>>]}

=============================================================================

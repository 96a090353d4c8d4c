--------------------------- MODULE ReadResources ----------------------------
(***************************************************************************)
(* How Build gets from the file of a run and the files around it to the    *)
(* resources: the files are read, their lines that look like comments are  *)
(* taken out, they are cut at each ---, and every piece is decoded.        *)
(***************************************************************************)
EXTENDS Integers, SequencesExt

CONSTANT Inputs      \* the files the program may be given

ObjectKind == {"TaskRun", "PipelineRun", "Task", "Pipeline", "ConfigMap", "Secret",
               "Other", "Unknown"}     \* Unknown is not in the scheme

\* A line, by what the program or a reader of YAML sees in it.  An object that is on
\* the line of a --- counts as a line of its own.
LineKind == {"object",       \* the kind and the name of an object
             "text",         \* any line of its spec
             "interpreter",  \* the #! line of a script
             "hashes",       \* a line of a script that starts with ##
             "dashes",       \* a line of a text with --- in it, and more after that
             "rule",         \* a line of a text that ends in ---, but for a comment
             "embedded",     \* the kind and the name of an object that is in a text
             "inner",        \* any other line of such an object
             "comment",      \* # and some text
             "bare",         \* # alone
             "separator",    \* ---
             "blank"}

Line == [is : LineKind, kind : ObjectKind \cup {"none"}, name : STRING]

File == Seq(Line)

\* The file of the run, and the yaml files of the context in their order.
ASSUME InputsAssumption == Inputs \subseteq [main : File, context : Seq(File)]

\* The lines of some kinds, by their places: a line keeps its place in all that follows.
At(lines, kinds) == {i \in DOMAIN lines : lines[i].is \in kinds}

Content == {"text", "interpreter", "hashes", "dashes", "rule", "embedded", "inner"}

\* The lines of the document that begins at cut b: those up to the next cut.
Document(lines, cuts, b) ==
  {i \in DOMAIN lines : i > b /\ \A c \in cuts : c > b => i < c}

Headers(lines, doc) == At(lines, {"object"}) \cap doc

Body(lines, doc, heads) == (At(lines, Content) \cap doc) \ heads

\* The object of a document with these headers.  Of two documents that have become
\* one, keys of the second count.
Object(lines, doc, heads) ==
  LET head == lines[Max(heads)]
  IN  [kind |-> head.kind, name |-> head.name,
       body |-> [i \in Body(lines, doc, heads) |-> lines[i]]]

-----------------------------------------------------------------------------
(* What the program does with a file.                                      *)

Blank == [is |-> "blank", kind |-> "none", name |-> ""]

\* The pattern asks for one character after the #, which for a # alone is the
\* end of the line: the next line goes with it.
Eaten(lines) ==
  LET eaten[i \in 0..Len(lines)] == i > 1 /\ lines[i - 1].is = "bare" /\ ~eaten[i - 1]
  IN  {i \in DOMAIN lines : eaten[i]}

\* Mutant of LooksLikeComment: the second character is not looked at.
LooksLikeComment_AnyHash(l) == l.is \in {"comment", "bare", "interpreter", "hashes"}

LooksLikeComment(l) == l.is \in {"comment", "bare", "interpreter"}

Strip(lines) ==
  [i \in DOMAIN lines |->
     IF i \in Eaten(lines) \/ LooksLikeComment(lines[i]) THEN Blank ELSE lines[i]]

\* Split cuts at every ---, in a text and in the middle of a line too.
Cuts(lines) == At(lines, {"separator", "dashes", "rule"})

Piece(lines, b) == Document(lines, Cuts(lines), b)

\* The lines that say what the document that begins at b is.  What comes after a ---
\* in a text is a document of its own, and may be an object of the text.
Heads(lines, b) ==
  IF b \in At(lines, {"rule"}) /\ Headers(lines, Piece(lines, b)) = {}
  THEN At(lines, {"embedded"}) \cap Piece(lines, b)
  ELSE Headers(lines, Piece(lines, b))

\* Mutant of Begins: what comes before the first separator is a document.
Begins_Untrimmed(lines) == Cuts(lines) \cup {0}

\* Where a document begins: at each cut and at the start, but for dashes there,
\* which are trimmed.
Begins(lines) == Cuts(lines) \cup (IF 1 \in At(lines, {"separator"}) THEN {} ELSE {0})

\* A document needs a kind, of the scheme, before anything else; one that is cut
\* off in the middle of a line begins with the rest of it, and one that is the end of
\* a text has to be an object to its last line, since the lines after the text are
\* indented less.
Decodes(lines, b) ==
  /\ b \notin At(lines, {"dashes"})
  /\ \E h \in Heads(lines, b) : \A i \in Body(lines, Piece(lines, b), Heads(lines, b)) : h < i
  /\ Heads(lines, b) \subseteq At(lines, {"object"})
       \/ At(lines, {"text"}) \cap Piece(lines, b) = {}
  /\ Object(lines, Piece(lines, b), Heads(lines, b)).kind # "Unknown"

AllDecode(file) == \A b \in Begins(Strip(file)) : Decodes(Strip(file), b)

-----------------------------------------------------------------------------
(* readResources and its callers, one action per file read or parsed.       *)

VARIABLES
  input,             \* the files, they never change
  pc,
  next,              \* the index of the file in the context
  objs,              \* the objects of the main file, by where they begin
  run,               \* the resource to run
  tasks, pipelines, configs    \* name -> object

readVars == <<input, pc, next, objs, run, tasks, pipelines, configs>>

NoMap == [n \in {} |-> n]

NoRun == [kind |-> "none", name |-> "", body |-> NoMap]

ReadInit ==
  /\ input \in Inputs
  /\ pc = "readMain" /\ next = 1
  /\ objs = NoMap /\ run = NoRun
  /\ tasks = NoMap /\ pipelines = NoMap /\ configs = NoMap

Goto(stage) == pc' = stage /\ next' = 1

resources == <<objs, run, tasks, pipelines, configs>>

\* GetTektonResource, then GetContextResources: any file may turn out unreadable.
ReadMain ==
  /\ pc = "readMain"
  /\ Goto("readContext") \/ Goto("unread")
  /\ UNCHANGED <<input, resources>>

ReadContextFile ==
  /\ pc = "readContext" /\ next \in DOMAIN input.context
  /\ (next' = next + 1 /\ UNCHANGED pc) \/ Goto("unread")
  /\ UNCHANGED <<input, resources>>

AllRead ==
  /\ pc = "readContext" /\ next \notin DOMAIN input.context
  /\ Goto("parse")
  /\ UNCHANGED <<input, resources>>

Files == UNION {{i.main} \cup ToSet(i.context) : i \in Inputs}

\* The objects of each file that has no document but what decodes.
Objects ==
  [file \in {f \in Files : AllDecode(f)} |->
     LET lines == Strip(file)
     IN  [b \in Begins(lines) |-> Object(lines, Piece(lines, b), Heads(lines, b))]]

ParseMain ==
  /\ pc = "parse"
  /\ IF input.main \in DOMAIN Objects
     THEN objs' = Objects[input.main] /\ Goto("select")
     ELSE UNCHANGED objs /\ Goto("error")
  /\ UNCHANGED <<input, run, tasks, pipelines, configs>>

OfKind(os, kinds) == {b \in DOMAIN os : os[b].kind \in kinds}

Named(os, kind, n) == {b \in OfKind(os, {kind}) : os[b].name = n}

Names(os, kind) == {os[b].name : b \in OfKind(os, {kind})}

\* map with the objects of a kind put in under their names, one after the other.
WithObjects(map, os, kind) ==
  [n \in DOMAIN map \cup Names(os, kind) |->
     IF n \in Names(os, kind) THEN os[Max(Named(os, kind, n))] ELSE map[n]]

RunKind == {"TaskRun", "PipelineRun"}

\* Mutant of Select: a file with no run is let through.
Select_NoRun ==
  /\ pc = "select"
  /\ \/ /\ \A b, c \in OfKind(objs, RunKind) : b = c
        /\ run' = IF OfKind(objs, RunKind) = {} THEN NoRun ELSE objs[Max(OfKind(objs, RunKind))]
        /\ configs' = WithObjects(NoMap, objs, "ConfigMap")
        /\ Goto("populate")
     \/ /\ \E b, c \in OfKind(objs, RunKind) : b # c
        /\ Goto("error") /\ UNCHANGED <<run, configs>>
  /\ UNCHANGED <<input, objs, tasks, pipelines>>

\* Exactly one run; its ConfigMaps (and Secrets) are those of its own file.
Select ==
  /\ pc = "select"
  /\ \/ \E b \in DOMAIN objs :
           /\ OfKind(objs, RunKind) = {b}
           /\ run' = objs[b]
           /\ configs' = WithObjects(NoMap, objs, "ConfigMap")
           /\ Goto("populate")
     \/ /\ \A b \in DOMAIN objs : OfKind(objs, RunKind) # {b}
        /\ Goto("error") /\ UNCHANGED <<run, configs>>
  /\ UNCHANGED <<input, objs, tasks, pipelines>>

\* Tasks are those of the context, and Pipelines for a PipelineRun.
Populate ==
  /\ pc = "populate" /\ next \in DOMAIN input.context
  /\ LET file == input.context[next]
     IN  IF file \in DOMAIN Objects
         THEN /\ tasks' = WithObjects(tasks, Objects[file], "Task")
              /\ pipelines' = IF run.kind = "TaskRun" THEN pipelines
                              ELSE WithObjects(pipelines, Objects[file], "Pipeline")
              /\ next' = next + 1 /\ UNCHANGED pc
         ELSE UNCHANGED <<tasks, pipelines>> /\ Goto("error")
  /\ UNCHANGED <<input, objs, run, configs>>

Populated ==
  /\ pc = "populate" /\ next \notin DOMAIN input.context
  /\ Goto("done")
  /\ UNCHANGED <<input, resources>>

ReadNext ==
  \/ ReadMain \/ ReadContextFile \/ AllRead
  \/ ParseMain \/ Select \/ Populate \/ Populated

ReadSpec == ReadInit /\ [][ReadNext]_readVars /\ WF_readVars(ReadNext)

-----------------------------------------------------------------------------
(* What a file means: documents separated by ---, comments left out, and    *)
(* documents with nothing in them of no account.                           *)

Separators(file) == At(file, {"separator"})

Meant(file) ==
  LET doc(b) == Document(file, Separators(file), b)
  IN  [b \in {c \in {0} \cup Separators(file) : Headers(file, doc(c)) # {}} |->
         Object(file, doc(b), Headers(file, doc(b)))]

\* The last definition of each name in a sequence of contents of files.
LastOf(contents, kind) ==
  LET defining(n) == {i \in DOMAIN contents : n \in Names(contents[i], kind)}
  IN  [n \in UNION {Names(contents[i], kind) : i \in DOMAIN contents} |->
         LET os == contents[Max(defining(n))] IN os[Max(Named(os, kind, n))]]

MeantByContext == [i \in DOMAIN input.context |-> Meant(input.context[i])]

\* The pattern for comments takes no more than comments.
OnlyComments(file) ==
  /\ At(file, {"interpreter"}) = {}
  /\ Eaten(file) \subseteq At(file, {"comment", "bare", "blank"})

\* No object comes after a --- in a text.
NoObjectCutOff(file) == \A b \in At(file, {"rule"}) : Heads(file, b) = {}

\* TYPE INVARIANT.
ReadTypeOK ==
  /\ pc \in {"readMain", "readContext", "parse", "select", "populate", "done", "error", "unread"}
  /\ next \in 1..(Len(input.context) + 1)
  /\ \A map \in {tasks, pipelines, configs} :
       \A n \in DOMAIN map : map[n].name = n /\ map[n].kind \in ObjectKind
  /\ pc \in {"populate", "done"} => run.kind \in RunKind

\* WHAT IS READ IS WHAT IS WRITTEN.  When reading succeeds, the pattern for comments
\* has taken nothing else and no text has an object after a ---, the run is the one run
\* of its file, and a name stands for its last definition in the context, each with
\* every line its author wrote: any other text that is cut keeps its file from being
\* read, and so does a separator that leaves a document with nothing in it.
ReadAsWritten ==
  (pc = "done" /\ \A file \in {input.main} \cup ToSet(input.context) :
                   OnlyComments(file) /\ NoObjectCutOff(file)) =>
    /\ \E b \in DOMAIN Meant(input.main) :
         OfKind(Meant(input.main), RunKind) = {b} /\ run = Meant(input.main)[b]
    /\ tasks = LastOf(MeantByContext, "Task")
    /\ run.kind = "PipelineRun" => pipelines = LastOf(MeantByContext, "Pipeline")
    /\ configs = LastOf(<<Meant(input.main)>>, "ConfigMap")

\* A file with an object first in each document, and no line cut or eaten; it may
\* start with a separator.
Plain(file) ==
  /\ At(file, {"dashes", "rule", "bare"}) = {}
  /\ \A b \in {0} \cup Separators(file) :
       LET doc == Document(file, Separators(file), b)
       IN  \/ b = 0 /\ 1 \in Separators(file)
           \/ \E h \in doc :
                /\ Headers(file, doc) = {h} /\ file[h].kind # "Unknown"
                /\ \A i \in At(file, Content) \cap doc : h < i

PlainInput ==
  /\ \A file \in {input.main} \cup ToSet(input.context) : Plain(file)
  /\ Cardinality(OfKind(Meant(input.main), RunKind)) = 1

\* READING ENDS, and when every file has one object per document, separators only
\* before and between documents, and one run in the main file, it ends well unless a file
\* cannot be read.
PlainFilesAreRead == PlainInput ~> pc \in {"done", "unread"}

\* The interpreter a script is started with: the one it names first, else sh.
Interpreter(o) ==
  IF \E i \in DOMAIN o.body : o.body[i].is = "interpreter" /\ \A j \in DOMAIN o.body : i <= j
  THEN o.body[Min(DOMAIN o.body)].name
  ELSE "sh"

\* What the feature table says of scripts: an interpreter line is supported.
InterpreterIsKept ==
  pc = "done" =>
    \A b \in OfKind(Meant(input.main), RunKind) :
      Interpreter(run) = Interpreter(Meant(input.main)[b])

=============================================================================

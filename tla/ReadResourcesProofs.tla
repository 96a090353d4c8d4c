------------------------- MODULE ReadResourcesProofs -------------------------
(***************************************************************************)
(* What is read is what is written, for any files, by following each line   *)
(* from its place in the file to its place in an object.                   *)
(***************************************************************************)
EXTENDS ReadResources, WellFoundedInduction, TLAPS

-----------------------------------------------------------------------------
(* Last of several.                                                         *)

Greater == {p \in Nat \X Nat : p[1] < p[2]}

\* The order of the naturals, as a relation the library's theorems are about.
LEMMA GreaterIsWellFounded == IsWellFoundedOn(Greater, Nat)
<1>1. Greater = OpToRel(<, Nat)
  BY Zenon DEF OpToRel, Greater
<1> QED
  BY <1>1, NatLessThanWellFounded, Zenon

\* Of some places in a file, one is the last.
LEMMA MaxIsOne ==
  ASSUME NEW N \in Nat, NEW S \in SUBSET (0..N), S # {}
  PROVE  Max(S) \in S /\ \A i \in S : i <= Max(S)
<1> DEFINE D == {N - i : i \in S}
<1>1. D \in SUBSET Nat /\ D # {}
  OBVIOUS
<1> HIDE DEF D
<1>2. PICK d \in D : \A e \in D : <<e, d>> \notin Greater
  BY <1>1, GreaterIsWellFounded, WFMin, Zenon
<1>3. \A e \in D : d <= e
  <2> SUFFICES ASSUME NEW e \in D, e < d PROVE FALSE
    BY <1>1, <1>2
  <2>1. <<e, d>> \in Nat \X Nat /\ <<e, d>>[1] < <<e, d>>[2]
    BY <1>1
  <2>2. <<e, d>> \in Greater
    BY <2>1, Zenon DEF Greater
  <2> QED
    BY <1>2, <2>2
<1>4. PICK m \in S : d = N - m
  BY DEF D
<1>5. \A i \in S : m >= i
  <2> SUFFICES ASSUME NEW i \in S PROVE m >= i
    OBVIOUS
  <2>1. N - i \in D
    BY DEF D
  <2>2. N - m <= N - i
    BY <1>3, <1>4, <2>1
  <2> QED
    BY <2>2
<1>6. \E x \in S : \A y \in S : x >= y
  BY <1>5
<1>7. Max(S) \in S /\ \A y \in S : Max(S) >= y
  BY <1>6 DEF Max
<1> QED
  BY <1>7

\* The last place is the one that no other comes after.
LEMMA MaxIs ==
  ASSUME NEW S \in SUBSET Nat, NEW m \in S, \A i \in S : i <= m
  PROVE  Max(S) = m
<1>1. \E x \in S : \A y \in S : x >= y
  OBVIOUS
<1>2. Max(S) \in S /\ \A y \in S : Max(S) >= y
  BY <1>1 DEF Max
<1>3. Max(S) \in Nat /\ m \in Nat /\ Max(S) >= m /\ Max(S) <= m
  BY <1>2
<1> QED
  BY <1>3

-----------------------------------------------------------------------------
(* A line that matters is where it was.                                     *)

Lasting == Content \cup {"object", "separator"}

\* The files of the inputs are sequences of lines.
LEMMA FilesAreLines ==
  /\ \A i \in Inputs : i.main \in File /\ i.context \in Seq(File)
  /\ \A i \in Inputs : i.main \in Files /\ \A k \in DOMAIN i.context : i.context[k] \in Files
  /\ Files \subseteq File
<1>1. \A i \in Inputs : i.main \in File /\ i.context \in Seq(File)
  BY InputsAssumption
<1>2. \A i \in Inputs : i.main \in Files /\ \A k \in DOMAIN i.context : i.context[k] \in Files
  BY DEF Files, ToSet
<1>3. \A s \in Seq(File) : \A k \in DOMAIN s : s[k] \in File
  OBVIOUS
<1>4. Files \subseteq File
  BY <1>1, <1>3 DEF Files, ToSet
<1> QED
  BY <1>1, <1>2, <1>4

\* Where the pattern takes only comments, all other lines stay, and stay where they are.
LEMMA StripKeeps ==
  ASSUME NEW file \in File, OnlyComments(file)
  PROVE  /\ DOMAIN Strip(file) = DOMAIN file
         /\ \A kinds \in SUBSET Lasting :
              /\ At(Strip(file), kinds) = At(file, kinds)
              /\ \A i \in At(file, kinds) : Strip(file)[i] = file[i]
<1>1. DOMAIN Strip(file) = DOMAIN file
  BY DEF Strip
<1>2. ASSUME NEW i \in DOMAIN file
      PROVE  \/ Strip(file)[i] = file[i]
             \/ Strip(file)[i] = Blank /\ file[i].is \in {"comment", "bare", "blank"}
  <2>1. Strip(file)[i] =
          IF i \in Eaten(file) \/ LooksLikeComment(file[i]) THEN Blank ELSE file[i]
    BY DEF Strip
  <2>2. i \in Eaten(file) => file[i].is \in {"comment", "bare", "blank"}
    BY DEF OnlyComments, At
  <2>3. LooksLikeComment(file[i]) => file[i].is \in {"comment", "bare"}
    BY DEF OnlyComments, At, LooksLikeComment
  <2> QED
    BY <2>1, <2>2, <2>3
<1>3. ASSUME NEW kinds \in SUBSET Lasting, NEW i \in DOMAIN file
      PROVE  /\ Strip(file)[i].is \in kinds <=> file[i].is \in kinds
             /\ file[i].is \in kinds => Strip(file)[i] = file[i]
  <2>1. kinds \cap {"comment", "bare", "blank"} = {} /\ Blank.is = "blank"
    BY DEF Lasting, Content, Blank
  <2> QED
    BY <1>2, <2>1
<1> QED
  BY <1>1, <1>3 DEF At

\* In a file that decodes no text is cut, unless an object comes after: so its objects
\* are those it means.
LEMMA ReadIsMeant ==
  ASSUME NEW file \in Files, OnlyComments(file), NoObjectCutOff(file), AllDecode(file)
  PROVE  Objects[file] = Meant(file)
<1> DEFINE lines == Strip(file)
           seps == Separators(file)
           doc(b) == Document(file, seps, b)
<1>1. file \in File /\ DOMAIN lines = DOMAIN file
  BY FilesAreLines, StripKeeps
<1>2. /\ At(lines, {"separator"}) = seps
      /\ At(lines, {"dashes"}) = At(file, {"dashes"})
      /\ At(lines, {"rule"}) = At(file, {"rule"})
      /\ At(lines, {"embedded"}) = At(file, {"embedded"})
      /\ At(lines, {"object"}) = At(file, {"object"})
      /\ At(lines, Content) = At(file, Content)
      /\ \A i \in At(file, Content) \cup At(file, {"object"}) : lines[i] = file[i]
  <2>1. {{"separator"}, {"dashes"}, {"rule"}, {"embedded"}, {"object"}, Content} \subseteq SUBSET Lasting
    BY DEF Lasting, Content
  <2> QED
    BY <1>1, <2>1, StripKeeps DEF Separators
<1>3. /\ Cuts(lines) = Cuts(file)
      /\ \A b : Heads(lines, b) = Heads(file, b)
  <2>1. Cuts(lines) = Cuts(file)
    BY <1>1, <1>2 DEF Cuts, At, Separators
  <2>2. \A b : Piece(lines, b) = Piece(file, b)
    BY <1>1, <2>1 DEF Piece, Document
  <2> QED
    BY <1>2, <2>1, <2>2 DEF Heads, Headers
<1>11. At(file, {"dashes"}) = {} /\ At(file, {"rule"}) = {}
  <2>1. At(file, {"dashes"}) \subseteq Begins(lines) /\ At(file, {"rule"}) \subseteq Begins(lines)
    BY <1>3 DEF Begins, Cuts, At
  <2>2. \A b \in Begins(lines) : b \notin At(file, {"dashes"}) /\ Heads(file, b) # {}
    BY <1>2, <1>3 DEF AllDecode, Decodes
  <2> QED
    BY <2>1, <2>2 DEF NoObjectCutOff
<1>12. Cuts(lines) = seps
  BY <1>3, <1>11 DEF Cuts, At, Separators
<1>4. \A b : Piece(lines, b) = doc(b)
  BY <1>1, <1>12 DEF Piece, Document
<1>5. \A b : Headers(lines, doc(b)) = Headers(file, doc(b)) /\ Heads(lines, b) = Headers(file, doc(b))
  BY <1>2, <1>4, <1>11 DEF Headers, Heads
<1>6. \A b \in Begins(lines) : Headers(file, doc(b)) # {}
  BY <1>5 DEF AllDecode, Decodes
<1>7. Begins(lines) = {c \in {0} \cup seps : Headers(file, doc(c)) # {}}
  <2>1. Begins(lines) = seps \cup (IF 1 \in seps THEN {} ELSE {0})
    BY <1>2, <1>12 DEF Begins
  <2>2. 1 \in seps => Headers(file, doc(0)) = {}
    <3> SUFFICES ASSUME 1 \in seps, NEW i \in doc(0) PROVE FALSE
      BY DEF Headers
    <3>1. i \in DOMAIN file /\ i > 0 /\ \A c \in seps : c > 0 => i < c
      BY DEF Document
    <3>2. i \in Int
      BY <1>1, <3>1 DEF File
    <3> QED
      BY <3>1, <3>2
  <2> HIDE DEF seps, doc, lines
  <2> QED
    BY <1>6, <2>1, <2>2
<1>8. ASSUME NEW b \in Begins(lines)
      PROVE  Object(lines, Piece(lines, b), Heads(lines, b)) =
               Object(file, doc(b), Headers(file, doc(b)))
  <2> DEFINE heads == Headers(file, doc(b))
  <2>1. heads # {} /\ heads \subseteq At(file, {"object"})
    BY <1>6 DEF Headers
  <2>2. lines[Max(heads)] = file[Max(heads)]
    <3>1. Len(file) \in Nat /\ DOMAIN file = 1..Len(file)
      BY <1>1 DEF File
    <3>2. heads \in SUBSET (0..Len(file))
      BY <3>1 DEF Headers, At
    <3>3. Max(heads) \in heads
      BY <2>1, <3>1, <3>2, MaxIsOne
    <3> QED
      BY <1>2, <2>1, <3>3
  <2>3. Body(lines, doc(b), heads) = Body(file, doc(b), heads)
    BY <1>2 DEF Body
  <2>4. [i \in Body(lines, doc(b), heads) |-> lines[i]] =
        [i \in Body(file, doc(b), heads) |-> file[i]]
    BY <1>2, <2>3 DEF Body
  <2>5. Piece(lines, b) = doc(b) /\ Heads(lines, b) = heads
    BY <1>4, <1>5
  <2>6. Object(lines, doc(b), heads) = Object(file, doc(b), heads)
    <3> HIDE DEF heads, doc, lines
    <3> QED
      BY <2>2, <2>4 DEF Object
  <2> QED
    BY <2>5, <2>6
<1>9. Objects[file] = [b \in Begins(lines) |-> Object(lines, Piece(lines, b), Heads(lines, b))]
  BY DEF Objects
<1>10. Objects[file] = [b \in Begins(lines) |-> Object(file, doc(b), Headers(file, doc(b)))]
  BY <1>8, <1>9
<1> QED
  BY <1>7, <1>10 DEF Meant

-----------------------------------------------------------------------------
(* Names and their definitions.                                             *)

\* The last definition of a name, when more files are read: that of the next file
\* if it has one.
LEMMA OneFileMore ==
  ASSUME NEW k \in Nat, NEW contents, DOMAIN contents = 1..(k + 1), NEW kind
  PROVE  LastOf(contents, kind) =
           WithObjects(LastOf([i \in 1..k |-> contents[i]], kind), contents[k + 1], kind)
<1> DEFINE before == [i \in 1..k |-> contents[i]]
           os == contents[k + 1]
           defining(n) == {i \in 1..(k + 1) : n \in Names(contents[i], kind)}
           definingBefore(n) == {i \in 1..k : n \in Names(before[i], kind)}
           names == UNION {Names(contents[i], kind) : i \in 1..(k + 1)}
           namesBefore == UNION {Names(before[i], kind) : i \in 1..k}
<1>1. /\ DOMAIN before = 1..k /\ \A i \in 1..k : before[i] = contents[i]
      /\ 1..(k + 1) = 1..k \cup {k + 1}
  OBVIOUS
<1>2. names = namesBefore \cup Names(os, kind)
  BY <1>1
<1>3. ASSUME NEW n \in Names(os, kind) PROVE Max(defining(n)) = k + 1
  <2>1. k + 1 \in defining(n) /\ \A i \in defining(n) : i <= k + 1
    BY <1>1, <1>3
  <2>2. defining(n) \in SUBSET Nat
    OBVIOUS
  <2> QED
    BY <2>1, <2>2, MaxIs
<1>4. ASSUME NEW n, n \notin Names(os, kind) PROVE defining(n) = definingBefore(n)
  BY <1>1, <1>4
<1>5. LastOf(contents, kind) =
        [n \in names |-> contents[Max(defining(n))][Max(Named(contents[Max(defining(n))], kind, n))]]
  BY DEF LastOf
<1>6. LastOf(before, kind) =
        [n \in namesBefore |->
           before[Max(definingBefore(n))][Max(Named(before[Max(definingBefore(n))], kind, n))]]
  BY <1>1 DEF LastOf
<1>7. ASSUME NEW n \in namesBefore, n \notin Names(os, kind)
      PROVE  LastOf(before, kind)[n] = LastOf(contents, kind)[n]
  <2>1. definingBefore(n) \in SUBSET (0..k) /\ definingBefore(n) # {}
    BY <1>1
  <2>2. Max(definingBefore(n)) \in definingBefore(n)
    BY <2>1, MaxIsOne
  <2>3. before[Max(definingBefore(n))] = contents[Max(definingBefore(n))]
    BY <1>1, <2>2
  <2>4. n \in names /\ Max(defining(n)) = Max(definingBefore(n))
    BY <1>2, <1>4, <1>7
  <2> HIDE DEF before, defining, definingBefore, names, namesBefore
  <2> QED
    BY <1>5, <1>6, <1>7, <2>3, <2>4
<1>8. ASSUME NEW n \in Names(os, kind)
      PROVE  LastOf(contents, kind)[n] = os[Max(Named(os, kind, n))]
  <2>1. n \in names
    BY <1>2
  <2> HIDE DEF defining, names
  <2> QED
    BY <1>3, <1>5, <2>1
<1> HIDE DEF before, os, defining, definingBefore, names, namesBefore
<1>9. DOMAIN LastOf(before, kind) = namesBefore /\ DOMAIN LastOf(contents, kind) = names
  BY <1>5, <1>6
<1>10. ASSUME NEW n \in names
       PROVE  LastOf(contents, kind)[n] =
                IF n \in Names(os, kind) THEN os[Max(Named(os, kind, n))]
                ELSE LastOf(before, kind)[n]
  BY <1>2, <1>7, <1>8
<1>11. LastOf(contents, kind) =
         [n \in names |-> IF n \in Names(os, kind) THEN os[Max(Named(os, kind, n))]
                          ELSE LastOf(before, kind)[n]]
  BY <1>5, <1>10
<1> QED
  BY <1>2, <1>9, <1>11 DEF WithObjects, before, os

\* No files define nothing.
LEMMA NoFiles ==
  ASSUME NEW contents, DOMAIN contents = {}, NEW kind
  PROVE  LastOf(contents, kind) = NoMap
<1>1. UNION {Names(contents[i], kind) : i \in DOMAIN contents} = {}
  OBVIOUS
<1> QED
  BY <1>1 DEF LastOf, NoMap

\* A map of what is read has each object under its own name.
ByName(map) == \A n \in DOMAIN map : map[n].name = n /\ map[n].kind \in ObjectKind

\* Where the documents of a file begin, in it.
LEMMA ObjectsPlaces ==
  ASSUME NEW file \in DOMAIN Objects
  PROVE  \E N \in Nat : DOMAIN Objects[file] \subseteq 0..N
<1>1. file \in Files /\ file \in File
  BY FilesAreLines DEF Objects
<1>2. DOMAIN Objects[file] = Begins(Strip(file))
  BY DEF Objects
<1>3. DOMAIN Strip(file) = 1..Len(file) /\ Len(file) \in Nat
  BY <1>1 DEF Strip, File
<1>4. Begins(Strip(file)) \subseteq 0..Len(file)
  BY <1>3 DEF Begins, Cuts, At
<1> QED
  BY <1>2, <1>3, <1>4

\* A name that is defined stands for an object of that name and kind.
LEMMA WithObjectsByName ==
  ASSUME NEW map, ByName(map), NEW file \in DOMAIN Objects, NEW kind \in ObjectKind
  PROVE  ByName(WithObjects(map, Objects[file], kind))
<1> DEFINE os == Objects[file]
<1> SUFFICES ASSUME NEW n \in DOMAIN map \cup Names(os, kind)
             PROVE  /\ WithObjects(map, os, kind)[n].name = n
                    /\ WithObjects(map, os, kind)[n].kind \in ObjectKind
  BY DEF ByName, WithObjects
<1>1. CASE n \notin Names(os, kind)
  BY <1>1 DEF ByName, WithObjects
<1>2. CASE n \in Names(os, kind)
  <2>1. PICK N \in Nat : DOMAIN os \subseteq 0..N
    BY ObjectsPlaces
  <2>2. Named(os, kind, n) \in SUBSET (0..N) /\ Named(os, kind, n) # {}
    BY <1>2, <2>1 DEF Names, Named, OfKind
  <2>3. Max(Named(os, kind, n)) \in Named(os, kind, n)
    BY <2>2, MaxIsOne
  <2>4. WithObjects(map, os, kind)[n] = os[Max(Named(os, kind, n))]
    BY <1>2 DEF WithObjects
  <2> HIDE DEF os
  <2>5. os[Max(Named(os, kind, n))].name = n /\ os[Max(Named(os, kind, n))].kind = kind
    BY <2>3 DEF Named, OfKind
  <2> QED
    BY <2>4, <2>5
<1> QED
  BY <1>1, <1>2

-----------------------------------------------------------------------------
(* The stages of reading.                                                   *)

\* How many files of the context have been put into the maps.
Populating == IF pc = "done" THEN Len(input.context) ELSE next - 1

\* What they contain.
Contents(k) == [i \in 1..k |-> Objects[input.context[i]]]

Stage ==
  /\ input \in Inputs
  /\ pc \in {"readMain", "readContext", "parse", "select", "populate", "done", "error", "unread"}
  /\ next \in 1..(Len(input.context) + 1)
  /\ ByName(tasks) /\ ByName(pipelines) /\ ByName(configs)

\* Nothing is in the maps until the file of the run has been parsed.
NothingYet ==
  pc \in {"readMain", "readContext", "parse", "select"} =>
    tasks = NoMap /\ pipelines = NoMap /\ configs = NoMap

Parsed == pc = "select" => input.main \in DOMAIN Objects /\ objs = Objects[input.main]

\* The one run there is in what the file contains.
Selected ==
  pc \in {"populate", "done"} =>
    /\ input.main \in DOMAIN Objects
    /\ \E b \in DOMAIN Objects[input.main] :
         OfKind(Objects[input.main], RunKind) = {b} /\ run = Objects[input.main][b]
    /\ configs = LastOf(<<Objects[input.main]>>, "ConfigMap")

\* The maps hold the last definitions of the files that have been parsed.
Populates ==
  pc \in {"populate", "done"} =>
    /\ \A i \in 1..Populating : input.context[i] \in DOMAIN Objects
    /\ tasks = LastOf(Contents(Populating), "Task")
    /\ pipelines = IF run.kind = "TaskRun" THEN NoMap
                   ELSE LastOf(Contents(Populating), "Pipeline")

ReadInv == Stage /\ NothingYet /\ Parsed /\ Selected /\ Populates

\* At first nothing has been read.
LEMMA ReadInvInit == ReadInit => ReadInv
<1> SUFFICES ASSUME ReadInit PROVE ReadInv
  OBVIOUS
<1>1. ByName(NoMap)
  BY DEF ByName, NoMap
<1>2. Len(input.context) \in Nat
  BY FilesAreLines DEF ReadInit
<1> QED
  BY <1>1, <1>2 DEF ReadInit, ReadInv, Stage, NothingYet, Parsed, Selected, Populates

\* The files are read: nothing is known of what is in them.
LEMMA ReadingKeeps ==
  ASSUME ReadInv, ReadMain \/ ReadContextFile \/ AllRead
  PROVE  ReadInv'
<1>1. /\ Stage /\ tasks = NoMap /\ pipelines = NoMap /\ configs = NoMap
      /\ UNCHANGED <<input, objs, run, tasks, pipelines, configs>>
      /\ pc' \in {"readContext", "parse", "unread"}
      /\ next' = 1 \/ (next' = next + 1 /\ next \in DOMAIN input.context)
  BY DEF ReadInv, NothingYet, ReadMain, ReadContextFile, AllRead, Goto, resources
<1>2. Len(input.context) \in Nat /\ DOMAIN input.context = 1..Len(input.context)
  <2>1. input.context \in Seq(File)
    BY <1>1, FilesAreLines DEF Stage
  <2> QED
    BY <2>1
<1>3. next' \in 1..(Len(input.context) + 1)
  BY <1>1, <1>2 DEF Stage
<1> QED
  BY <1>1, <1>3 DEF ReadInv, Stage, NothingYet, Parsed, Selected, Populates, ByName

\* The file of the run is parsed, whole or not at all.
LEMMA ParsingKeeps ==
  ASSUME ReadInv, ParseMain
  PROVE  ReadInv'
<1>1. /\ Stage /\ tasks = NoMap /\ pipelines = NoMap /\ configs = NoMap
      /\ UNCHANGED <<input, run, tasks, pipelines, configs>>
      /\ next' = 1
      /\ \/ pc' = "select" /\ input.main \in DOMAIN Objects /\ objs' = Objects[input.main]
         \/ pc' = "error"
  BY DEF ReadInv, NothingYet, ParseMain, Goto
<1>2. Len(input.context) \in Nat
  BY <1>1, FilesAreLines DEF Stage
<1>3. next' \in 1..(Len(input.context) + 1)
  BY <1>1, <1>2 DEF Stage
<1> QED
  BY <1>1, <1>3 DEF ReadInv, Stage, NothingYet, Parsed, Selected, Populates, ByName

\* One run is chosen, if there is one, with the ConfigMaps of its file.
LEMMA SelectingKeeps ==
  ASSUME ReadInv, Select
  PROVE  ReadInv'
<1>1. /\ Stage /\ tasks = NoMap /\ pipelines = NoMap /\ configs = NoMap
      /\ input.main \in DOMAIN Objects /\ objs = Objects[input.main]
      /\ UNCHANGED <<input, objs, tasks, pipelines>> /\ next' = 1
  BY DEF ReadInv, NothingYet, Parsed, Select, Goto
<1>2. Len(input.context) \in Nat
  BY <1>1, FilesAreLines DEF Stage
<1>3. CASE pc' = "error" /\ UNCHANGED <<run, configs>>
  BY <1>1, <1>2, <1>3 DEF ReadInv, Stage, NothingYet, Parsed, Selected, Populates, ByName
<1>4. ASSUME NEW b \in DOMAIN objs, OfKind(objs, RunKind) = {b}, run' = objs[b],
             configs' = WithObjects(NoMap, objs, "ConfigMap"), pc' = "populate"
      PROVE  ReadInv'
  <2>1. ByName(configs')
    <3>1. ByName(NoMap) /\ "ConfigMap" \in ObjectKind
      BY DEF ByName, NoMap, ObjectKind
    <3> QED
      BY <1>1, <1>4, <3>1, WithObjectsByName
  <2>2. Stage'
    BY <1>1, <1>2, <1>4, <2>1 DEF Stage, ByName
  <2>3. configs' = LastOf(<<Objects[input.main]>>, "ConfigMap")
    <3> DEFINE os == Objects[input.main]
               none == [i \in 1..0 |-> <<os>>[i]]
    <3>1. DOMAIN <<os>> = 1..(0 + 1) /\ <<os>>[0 + 1] = os /\ DOMAIN none = {}
      OBVIOUS
    <3>2. LastOf(none, "ConfigMap") = NoMap
      BY <3>1, NoFiles
    <3> HIDE DEF os
    <3>3. LastOf(<<os>>, "ConfigMap") = WithObjects(LastOf(none, "ConfigMap"), os, "ConfigMap")
      BY <3>1, OneFileMore
    <3> QED
      BY <1>1, <1>4, <3>2, <3>3 DEF os
  <2>4. Selected'
    BY <1>1, <1>4, <2>3 DEF Selected
  <2>5. Populates'
    <3>1. Populating' = 0 /\ 1..Populating' = {}
      BY <1>1, <1>4 DEF Populating
    <3>2. Contents(0)' = Contents(0) /\ DOMAIN Contents(0) = {}
      BY DEF Contents
    <3>3. Contents(Populating)' = Contents(0)'
      BY <3>1 DEF Contents
    <3>4. \A kind : LastOf(Contents(Populating)', kind) = NoMap
      BY <3>2, <3>3, NoFiles
    <3> QED
      BY <1>1, <3>1, <3>4 DEF Populates
  <2> QED
    BY <1>4, <2>2, <2>4, <2>5 DEF ReadInv, NothingYet, Parsed
<1> QED
  BY <1>3, <1>4 DEF Select, Goto

\* A file of the context is parsed, and its definitions take the place of others.
LEMMA PopulatingKeeps ==
  ASSUME ReadInv, Populate
  PROVE  ReadInv'
<1> DEFINE file == input.context[next]
<1>1. /\ Stage /\ Selected /\ Populates /\ pc = "populate" /\ next \in DOMAIN input.context
      /\ UNCHANGED <<input, objs, run, configs>>
  BY DEF ReadInv, Populate
<1>2. Len(input.context) \in Nat /\ DOMAIN input.context = 1..Len(input.context)
  <2>1. input.context \in Seq(File)
    BY <1>1, FilesAreLines DEF Stage
  <2> QED
    BY <2>1
<1>3. CASE pc' = "error" /\ next' = 1 /\ UNCHANGED <<tasks, pipelines>>
  BY <1>1, <1>2, <1>3 DEF ReadInv, Stage, NothingYet, Parsed, Selected, Populates, ByName
<1>4. CASE /\ file \in DOMAIN Objects
           /\ tasks' = WithObjects(tasks, Objects[file], "Task")
           /\ pipelines' = IF run.kind = "TaskRun" THEN pipelines
                           ELSE WithObjects(pipelines, Objects[file], "Pipeline")
           /\ next' = next + 1 /\ pc' = pc
  <2>1. ByName(tasks') /\ ByName(pipelines')
    <3>1. {"Task", "Pipeline"} \subseteq ObjectKind /\ ByName(tasks) /\ ByName(pipelines)
      BY <1>1 DEF ObjectKind, Stage
    <3> HIDE DEF file
    <3>2. ByName(tasks')
      BY <1>4, <3>1, WithObjectsByName
    <3>3. ByName(WithObjects(pipelines, Objects[file], "Pipeline"))
      BY <1>4, <3>1, WithObjectsByName
    <3> QED
      BY <1>4, <3>1, <3>2, <3>3
  <2>2. Stage'
    <3>1. next' \in 1..(Len(input.context') + 1)
      BY <1>1, <1>2, <1>4
    <3> QED
      BY <1>1, <1>4, <2>1, <3>1 DEF Stage, ByName
  <2>3. Selected'
    BY <1>1, <1>4 DEF Selected
  <2> DEFINE k == next - 1
  <2>4. /\ k \in Nat /\ k + 1 = next /\ Populating = k /\ Populating' = k + 1
    BY <1>1, <1>2, <1>4 DEF Populating
  <2>5. /\ Contents(Populating) = [i \in 1..k |-> Objects[input.context[i]]]
        /\ Contents(Populating)' = [i \in 1..(k + 1) |-> Objects[input.context[i]]]
    BY <1>1, <2>4 DEF Contents
  <2> HIDE DEF k
  <2> DEFINE now == [i \in 1..(k + 1) |-> Objects[input.context[i]]]
  <2>6. [i \in 1..k |-> now[i]] = Contents(Populating) /\ now[k + 1] = Objects[file]
    BY <2>4, <2>5
  <2>7. ASSUME NEW kind
        PROVE  LastOf(now, kind) =
                 WithObjects(LastOf(Contents(Populating), kind), Objects[file], kind)
    <3>1. DOMAIN now = 1..(k + 1)
      OBVIOUS
    <3> HIDE DEF now, file
    <3>2. LastOf(now, kind) = WithObjects(LastOf([i \in 1..k |-> now[i]], kind), now[k + 1], kind)
      BY <2>4, <3>1, OneFileMore
    <3> QED
      BY <2>6, <3>2
  <2>8. Populates'
    <3>1. \A i \in 1..(k + 1) : input.context[i] \in DOMAIN Objects
      <4>1. \A i \in 1..(k + 1) : i \in 1..k \/ i = next
        BY <2>4
      <4> QED
        BY <1>1, <1>4, <2>4, <4>1 DEF Populates
    <3>2. tasks = LastOf(Contents(Populating), "Task")
      BY <1>1 DEF Populates
    <3>3. tasks' = LastOf(now, "Task")
      BY <1>4, <2>7, <3>2
    <3>4. pipelines' = IF run.kind = "TaskRun" THEN NoMap ELSE LastOf(now, "Pipeline")
      BY <1>1, <1>4, <2>7 DEF Populates
    <3> HIDE DEF file
    <3> QED
      BY <1>1, <2>4, <2>5, <3>1, <3>3, <3>4 DEF Populates
  <2> QED
    BY <1>1, <1>4, <2>2, <2>3, <2>8 DEF ReadInv, NothingYet, Parsed
<1> QED
  BY <1>3, <1>4 DEF Populate, Goto

\* When all the files of the context have been parsed.
LEMMA DoneKeeps ==
  ASSUME ReadInv, Populated
  PROVE  ReadInv'
<1>1. /\ Stage /\ Selected /\ Populates /\ pc = "populate" /\ next \notin DOMAIN input.context
      /\ pc' = "done" /\ next' = 1
      /\ UNCHANGED <<input, objs, run, tasks, pipelines, configs>>
  BY DEF ReadInv, Populated, Goto, resources
<1>2. Len(input.context) \in Nat /\ DOMAIN input.context = 1..Len(input.context)
  <2>1. input.context \in Seq(File)
    BY <1>1, FilesAreLines DEF Stage
  <2> QED
    BY <2>1
<1>3. Populating = Len(input.context) /\ Populating' = Len(input.context)
  BY <1>1, <1>2 DEF Stage, Populating
<1>4. Contents(Populating)' = Contents(Populating)
  BY <1>1, <1>3 DEF Contents
<1>5. Populates'
  BY <1>1, <1>3, <1>4 DEF Populates
<1>6. Stage'
  BY <1>1, <1>2 DEF Stage, ByName
<1> QED
  BY <1>1, <1>5, <1>6 DEF ReadInv, NothingYet, Parsed, Selected

\* One case per stage.
LEMMA ReadInvNext == ReadInv /\ [ReadNext]_readVars => ReadInv'
<1>1. ReadInv /\ UNCHANGED readVars => ReadInv'
  BY DEF readVars, ReadInv, Stage, NothingYet, Parsed, Selected, Populates, Populating, Contents,
     ByName
<1> QED
  BY <1>1, ReadingKeeps, ParsingKeeps, SelectingKeeps, PopulatingKeeps, DoneKeeps DEF ReadNext

\* TYPES.  Each name of a map stands for an object of that name, and what is
\* chosen is a run, for any files.
THEOREM ReadTypeCorrect == ReadSpec => []ReadTypeOK
<1>1. ReadInv => ReadTypeOK
  <2> SUFFICES ASSUME ReadInv PROVE ReadTypeOK
    OBVIOUS
  <2>1. pc \in {"populate", "done"} => run.kind \in RunKind
    BY DEF ReadInv, Selected, OfKind
  <2> QED
    BY <2>1 DEF ReadInv, Stage, ReadTypeOK, ByName
<1> QED
  BY <1>1, ReadInvInit, ReadInvNext, PTL DEF ReadSpec

\* AS WRITTEN.  Whatever the files, when reading succeeds, the pattern for comments
\* has taken nothing else and no object comes after a --- in a text, the run is the one
\* of its file, and each name stands for its last definition, with every line its
\* author wrote.
THEOREM ReadsAsWritten == ReadSpec => []ReadAsWritten
<1>1. ReadInv => ReadAsWritten
  <2> SUFFICES ASSUME ReadInv, pc = "done",
                      \A file \in {input.main} \cup ToSet(input.context) :
                        OnlyComments(file) /\ NoObjectCutOff(file)
               PROVE  /\ \E b \in DOMAIN Meant(input.main) :
                           /\ OfKind(Meant(input.main), RunKind) = {b}
                           /\ run = Meant(input.main)[b]
                      /\ tasks = LastOf(MeantByContext, "Task")
                      /\ run.kind = "PipelineRun" => pipelines = LastOf(MeantByContext, "Pipeline")
                      /\ configs = LastOf(<<Meant(input.main)>>, "ConfigMap")
    BY DEF ReadAsWritten
  <2>1. input \in Inputs /\ Selected /\ Populates
    BY DEF ReadInv, Stage
  <2>2. Len(input.context) \in Nat /\ DOMAIN input.context = 1..Len(input.context)
    <3>1. input.context \in Seq(File)
      BY <2>1, FilesAreLines
    <3> QED
      BY <3>1
  <2>3. \A file \in DOMAIN Objects : file \in Files /\ AllDecode(file)
    BY DEF Objects
  <2>4. Objects[input.main] = Meant(input.main)
    BY <2>1, <2>3, ReadIsMeant DEF Selected
  <2>5. \A i \in 1..Len(input.context) : Objects[input.context[i]] = Meant(input.context[i])
    <3> SUFFICES ASSUME NEW i \in 1..Len(input.context)
                 PROVE  Objects[input.context[i]] = Meant(input.context[i])
      OBVIOUS
    <3>1. /\ input.context[i] \in DOMAIN Objects
          /\ OnlyComments(input.context[i]) /\ NoObjectCutOff(input.context[i])
      BY <2>1, <2>2 DEF Populates, Populating, ToSet
    <3> QED
      BY <2>3, <3>1, ReadIsMeant
  <2>6. Contents(Populating) = MeantByContext
    BY <2>2, <2>5 DEF Contents, Populating, MeantByContext
  <2> QED
    BY <2>1, <2>4, <2>6 DEF Selected, Populates
<1> QED
  BY <1>1, ReadInvInit, ReadInvNext, PTL DEF ReadSpec

=============================================================================

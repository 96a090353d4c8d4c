---------------------------- MODULE TknLocalProofs ----------------------------
(***************************************************************************)
(* The two commands of tkn-local.  The display of run ends last and has     *)
(* shown everything, for any number of statuses and of handlers; and what   *)
(* prune has printed when it returns, for any number of records.            *)
(***************************************************************************)
EXTENDS TknLocalRun, TknLocalPrune, SequenceTheorems, TLAPS

-----------------------------------------------------------------------------
(* tkn-local run.                                                           *)

\* Before run has started anything, and for ever when it could not.
Idle ==
  builder = "idle" =>
    /\ main # "waiting" /\ open = {} /\ live = {} /\ ~displayed
    /\ pending = None /\ \A h \in Handlers : left[h] = -1

\* From Start to CallBuild.
Ready ==
  builder = "ready" =>
    /\ open = Channels /\ live = {"auth"} /\ ~displayed
    /\ \A h \in Handlers : left[h] = -1

\* Until its writers are closed, a build has them.
WritersOpen ==
  /\ builder = "calling" => "status" \in open
  /\ builder \in {"calling", "closing"} => "auth" \in open

\* A forwarder is there while its channel is open.
ForwardersLive ==
  builder \notin {"idle", "ready"} =>
    /\ "status" \in open => "reset" \in live
    /\ "build" \in open => "prefix" \in live
    /\ "auth" \in open => "auth" \in live

\* And the channel it sends on is open while it is there.
OutputsOpen ==
  /\ "reset" \in live => "build" \in open
  /\ live \cap {"auth", "prefix"} # {} => "printer" \in open

\* A message is held by a forwarder that is there, and a status by a build that runs.
HeldByLive ==
  /\ \A s \in Stages : held[s] # None => s \in live
  /\ pending # None => builder = "calling"

DisplayAtEnd == displayed => "printer" \notin open

PanicOfHandler ==
  panicked => builder = "returned" /\ \E h \in Handlers : left[h] \in {0, 1}

\* The types, with the display as a sequence and each variable by itself.
Types ==
  /\ main \in {"starting", "waiting", "returned"}
  /\ builder \in {"idle", "ready", "calling", "closing", "returned"}
  /\ waiter \in BOOLEAN /\ groupErr \in BOOLEAN /\ failed \in BOOLEAN
  /\ displayed \in BOOLEAN /\ panicked \in BOOLEAN
  /\ delivered \in 0..MaxStatus /\ pending \in Messages \cup {None}
  /\ left \in [Handlers -> -1..2]
  /\ open \subseteq Channels /\ live \subseteq Stages
  /\ held \in [Stages -> Messages \cup {None}]
  /\ shown \in Seq(Messages)
  /\ main = "starting" => builder = "idle"

RunInv ==
  /\ Types
  /\ Idle /\ Ready /\ WritersOpen /\ ForwardersLive /\ OutputsOpen /\ HeldByLive
  /\ DisplayAtEnd /\ PanicOfHandler

-----------------------------------------------------------------------------

\* Who reads a channel.
LEMMA Readers ==
  /\ ReaderOf("status") = "reset" /\ ReaderOf("build") = "prefix" /\ ReaderOf("auth") = "auth"
BY DEF ReaderOf, Stages, In

\* The messages of the daemon and of handlers.
LEMMA Types1 ==
  /\ None \notin Messages
  /\ \A n \in 1..MaxStatus : <<"status", n>> \in Messages
  /\ \A h \in Handlers : \A n \in 1..2 : <<h, n>> \in Messages
BY RunAssumption DEF None, Messages

\* What a message that is sent does: it is shown, or it is held by the goroutine
\* that reads the channel, which was there for it.
LEMMA Sending ==
  ASSUME Types, NEW ch \in Channels, NEW msg \in Messages, NEW from \in Stages \cup {"build"},
         Send(ch, msg, from)
  PROVE  /\ held' \in [Stages -> Messages \cup {None}] /\ shown' \in Seq(Messages)
         /\ \A s \in Stages : held'[s] # None => held[s] # None \/ s \in live
         /\ panicked' = panicked \/ (panicked' = TRUE /\ ch \notin open)
<1>1. /\ held \in [Stages -> Messages \cup {None}] /\ shown \in Seq(Messages)
      /\ None \notin Messages
  BY Types1 DEF Types
<1> DEFINE sent == IF from \in Stages THEN [held EXCEPT ![from] = None] ELSE held
<1>2. /\ sent \in [Stages -> Messages \cup {None}]
      /\ \A s \in Stages : sent[s] # None => held[s] # None
  BY <1>1
<1>3. CASE ch \notin open /\ panicked' = TRUE /\ UNCHANGED <<held, shown>>
  BY <1>1, <1>3
<1>4. CASE shown' = Append(shown, msg) /\ held' = sent /\ panicked' = panicked
  BY <1>1, <1>2, <1>4
<1>5. CASE /\ ch # "printer" /\ ReaderOf(ch) \in live
           /\ held' = [sent EXCEPT ![ReaderOf(ch)] = msg] /\ UNCHANGED <<shown, panicked>>
  <2>1. ReaderOf(ch) \in Stages
    BY <1>5, Readers DEF Channels, Stages
  <2>2. held' \in [Stages -> Messages \cup {None}]
    BY <1>2, <1>5, <2>1
  <2>3. \A s \in Stages : s # ReaderOf(ch) => held'[s] = sent[s]
    BY <1>2, <1>5, <2>1
  <2> HIDE DEF sent
  <2> QED
    BY <1>1, <1>2, <1>5, <2>2, <2>3
<1> QED
  BY <1>3, <1>4, <1>5 DEF Send

\* The invariant holds at first, and after each step.
LEMMA RunInvInit == RunInit => RunInv
<1> SUFFICES ASSUME RunInit PROVE RunInv
  OBVIOUS
<1>1. Types
  <2>1. left \in [Handlers -> -1..2]
    BY DEF RunInit
  <2>2. held \in [Stages -> Messages \cup {None}] /\ pending \in Messages \cup {None}
    BY DEF RunInit
  <2>3. shown \in Seq(Messages) /\ delivered \in 0..MaxStatus
    BY RunAssumption DEF RunInit
  <2> QED
    BY <2>1, <2>2, <2>3 DEF RunInit, Types
<1>2. /\ main = "starting" /\ builder = "idle" /\ open = {} /\ live = {}
      /\ ~displayed /\ ~panicked /\ pending = None
      /\ \A h \in Handlers : left[h] = -1
      /\ \A s \in Stages : held[s] = None
  BY DEF RunInit
<1> QED
  BY <1>1, <1>2 DEF RunInv, Idle, Ready, WritersOpen, ForwardersLive, OutputsOpen, HeldByLive,
     DisplayAtEnd, PanicOfHandler

\* The steps that send: what is open and who is there stays.
LEMMA SendersKeep ==
  ASSUME RunInv, SendStatus \/ (\E h \in Handlers : Log(h)) \/ \E s \in Stages : Forward(s)
  PROVE  RunInv'
<1>0. /\ Types /\ ~panicked /\ None \notin Messages /\ MaxStatus \in Nat
      /\ UNCHANGED <<main, waiter, groupErr, builder, failed, delivered, open, live, displayed>>
  BY RunAssumption, Types1 DEF RunInv, SendStatus, Log, Forward, Running, group, build
<1>1. CASE SendStatus
  <2>1. "status" \in open /\ pending \in Messages /\ pending' = None /\ left' = left
    BY <1>0, <1>1 DEF RunInv, Types, HeldByLive, WritersOpen, SendStatus
  <2>2. Send("status", pending, "build")
    BY <1>1 DEF SendStatus
  <2>3. /\ held' \in [Stages -> Messages \cup {None}] /\ shown' \in Seq(Messages)
        /\ \A s \in Stages : held'[s] # None => held[s] # None \/ s \in live
        /\ panicked' = FALSE
    BY <1>0, <2>1, <2>2, Sending DEF Channels, Types
  <2>4. Types'
    BY <1>0, <2>1, <2>3 DEF Types
  <2> QED
    BY <1>0, <2>1, <2>3, <2>4 DEF RunInv, Idle, Ready, WritersOpen, ForwardersLive, OutputsOpen,
       HeldByLive, DisplayAtEnd, PanicOfHandler
<1>2. ASSUME NEW h \in Handlers, Log(h) PROVE RunInv'
  <2>1. /\ left[h] \in 1..2 /\ left' = [left EXCEPT ![h] = left[h] - 1] /\ pending' = pending
        /\ left \in [Handlers -> -1..2]
    BY <1>0, <1>2 DEF Log, Types
  <2>2. left' \in [Handlers -> -1..2] /\ left'[h] \in {0, 1} /\ left[h] # -1
    BY <2>1
  <2>3. <<h, 3 - left[h]>> \in Messages
    <3>1. 3 - left[h] \in 1..2
      BY <2>1
    <3> QED
      BY <3>1, Types1
  <2>4. Send("auth", <<h, 3 - left[h]>>, "build")
    BY <1>2 DEF Log
  <2>5. /\ held' \in [Stages -> Messages \cup {None}] /\ shown' \in Seq(Messages)
        /\ \A s \in Stages : held'[s] # None => held[s] # None \/ s \in live
        /\ panicked' = FALSE \/ (panicked' = TRUE /\ "auth" \notin open)
    BY <1>0, <2>3, <2>4, Sending DEF Channels, Types
  <2>6. builder \notin {"idle", "ready"}
    BY <1>0, <2>2 DEF RunInv, Idle, Ready
  <2>7. PanicOfHandler'
    BY <1>0, <2>2, <2>5, <2>6 DEF RunInv, WritersOpen, PanicOfHandler, Types
  <2>8. Types'
    BY <1>0, <2>1, <2>2, <2>5 DEF Types
  <2> QED
    BY <1>0, <2>1, <2>5, <2>6, <2>7, <2>8 DEF RunInv, Idle, Ready, WritersOpen, ForwardersLive,
       OutputsOpen, HeldByLive, DisplayAtEnd
<1>3. ASSUME NEW s \in Stages, Forward(s) PROVE RunInv'
  <2>1. /\ held[s] \in Messages /\ pending' = pending /\ left' = left
        /\ Send(Out[s], held[s], s)
    BY <1>0, <1>3 DEF Forward, Types, build
  <2>2. Out[s] \in Channels /\ Out[s] \in open
    BY <1>0, <2>1 DEF RunInv, HeldByLive, OutputsOpen, Out, Stages, Channels
  <2>3. /\ held' \in [Stages -> Messages \cup {None}] /\ shown' \in Seq(Messages)
        /\ \A t \in Stages : held'[t] # None => held[t] # None \/ t \in live
        /\ panicked' = FALSE
    BY <1>0, <2>1, <2>2, Sending DEF Types
  <2>4. Types'
    BY <1>0, <2>1, <2>3 DEF Types
  <2> QED
    BY <1>0, <2>1, <2>3, <2>4 DEF RunInv, Idle, Ready, WritersOpen, ForwardersLive, OutputsOpen,
       HeldByLive, DisplayAtEnd, PanicOfHandler
<1> QED
  BY <1>1, <1>2, <1>3

\* The other steps, which neither send nor take a message from a goroutine.
LEMMA OthersKeep ==
  ASSUME RunInv,
         \/ FailToStart \/ Start \/ CallBuild \/ ReceiveStatus \/ BuildEnds \/ CloseWriters
         \/ (\E h \in Handlers : CallHandler(h)) \/ (\E s \in Stages : StageEnds(s))
         \/ ClosePrinter \/ DisplayEnds \/ Wait \/ Return
  PROVE  RunInv'
<1> USE DEF RunInv
<1>0. /\ Types /\ ~panicked /\ None \notin Messages /\ MaxStatus \in Nat
      /\ panicked' = panicked /\ held' = held /\ shown' = shown
  BY RunAssumption, Types1 DEF FailToStart, Start, CallBuild, ReceiveStatus, BuildEnds,
     CloseWriters, CallHandler, StageEnds, ClosePrinter, DisplayEnds, Wait, Return, Running,
     progress
<1>1. CASE FailToStart
  <2>1. /\ main' = "returned" /\ groupErr' = TRUE /\ failed' = TRUE
        /\ UNCHANGED <<waiter, builder, delivered, pending, left, progress>>
    BY <1>1 DEF FailToStart
  <2> QED
    BY <1>0, <2>1 DEF progress, Types, Idle, Ready, WritersOpen, ForwardersLive, OutputsOpen,
       HeldByLive, DisplayAtEnd, PanicOfHandler
<1>2. CASE Start
  <2>1. /\ builder = "idle" /\ builder' = "ready" /\ open' = Channels /\ live' = {"auth"}
        /\ main' = "waiting" /\ left' = left /\ displayed' = displayed /\ pending' = pending
        /\ UNCHANGED <<waiter, groupErr, failed, delivered>>
    BY <1>0, <1>2 DEF Start, Types
  <2>2. Types'
    BY <1>0, <2>1 DEF Types, Stages
  <2> QED
    BY <1>0, <2>1, <2>2 DEF Idle, Ready, WritersOpen, ForwardersLive, OutputsOpen, HeldByLive,
       DisplayAtEnd, PanicOfHandler, Channels
<1>3. CASE CallBuild
  <2>1. /\ builder = "ready" /\ builder' = "calling" /\ live' = live \cup {"prefix", "reset"}
        /\ UNCHANGED <<main, waiter, groupErr, failed, delivered, pending, left, open, displayed>>
    BY <1>3 DEF CallBuild, group
  <2>2. Types'
    BY <1>0, <2>1 DEF Types, Stages
  <2>3. open = Channels /\ live' = Stages
    BY <2>1 DEF Ready, Stages
  <2> QED
    BY <1>0, <2>1, <2>2, <2>3 DEF Idle, Ready, WritersOpen, ForwardersLive, OutputsOpen,
       HeldByLive, DisplayAtEnd, PanicOfHandler, Channels, Stages
<1>4. CASE ReceiveStatus
  <2>1. /\ builder = "calling" /\ delivered' = delivered + 1 /\ delivered < MaxStatus
        /\ pending' = <<"status", delivered + 1>>
        /\ UNCHANGED <<main, waiter, groupErr, builder, failed, left, open, live, displayed>>
    BY <1>4 DEF ReceiveStatus, group, progress
  <2>2. delivered' \in 0..MaxStatus /\ pending' \in Messages
    <3>1. delivered + 1 \in 1..MaxStatus
      BY <1>0, <2>1 DEF Types
    <3> QED
      BY <1>0, <2>1, <3>1, Types1
  <2>3. Types'
    BY <1>0, <2>1, <2>2 DEF Types
  <2> QED
    BY <1>0, <2>1, <2>3 DEF Idle, Ready, WritersOpen, ForwardersLive, OutputsOpen, HeldByLive,
       DisplayAtEnd, PanicOfHandler
<1>5. CASE BuildEnds \/ CloseWriters
  <2>1. /\ UNCHANGED <<main, waiter, delivered, pending, left, live, displayed>>
        /\ groupErr' \in BOOLEAN /\ failed' \in BOOLEAN /\ pending = None
    BY <1>0, <1>5 DEF BuildEnds, CloseWriters, group, Types, HeldByLive
  <2>2. \/ builder = "calling" /\ builder' = "closing" /\ open' = open \ {"status"}
        \/ builder = "closing" /\ builder' = "returned" /\ open' = open \ {"auth"}
    BY <1>5 DEF BuildEnds, CloseWriters
  <2>3. Types'
    BY <1>0, <2>1, <2>2 DEF Types
  <2> QED
    BY <1>0, <2>1, <2>2, <2>3 DEF Idle, Ready, WritersOpen, ForwardersLive, OutputsOpen,
       HeldByLive, DisplayAtEnd, PanicOfHandler
<1>6. ASSUME NEW h \in Handlers, CallHandler(h) PROVE RunInv'
  <2>1. /\ builder = "calling" /\ left' = [left EXCEPT ![h] = 2]
        /\ UNCHANGED <<group, builder, failed, delivered, pending, open, live, displayed>>
    BY <1>6 DEF CallHandler, progress
  <2>2. Types'
    BY <1>0, <2>1 DEF Types, group
  <2> QED
    BY <1>0, <2>1, <2>2 DEF Idle, Ready, WritersOpen, ForwardersLive, OutputsOpen, HeldByLive,
       DisplayAtEnd, PanicOfHandler
<1>7. ASSUME NEW s \in Stages, StageEnds(s) PROVE RunInv'
  <2>1. /\ s \in live /\ held[s] = None /\ In[s] \notin open /\ live' = live \ {s}
        /\ open' = IF s = "reset" THEN open \ {"build"} ELSE open
        /\ UNCHANGED <<group, builder, failed, delivered, pending, left, displayed>>
    BY <1>7 DEF StageEnds, build
  <2>2. Types'
    BY <1>0, <2>1 DEF Types, group
  <2>3. builder \notin {"idle", "ready"}
    BY <2>1 DEF Idle, Ready, In, Stages, Channels
  <2>4. ForwardersLive'
    BY <2>1, <2>3 DEF ForwardersLive, In, Stages
  <2>5. OutputsOpen'
    BY <2>1 DEF OutputsOpen, Stages
  <2>6. HeldByLive'
    BY <1>0, <2>1 DEF HeldByLive
  <2>7. WritersOpen' /\ DisplayAtEnd'
    BY <2>1 DEF WritersOpen, DisplayAtEnd
  <2> QED
    BY <1>0, <2>1, <2>2, <2>3, <2>4, <2>5, <2>6, <2>7 DEF Idle, Ready, PanicOfHandler
<1>8. CASE ClosePrinter \/ DisplayEnds
  <2>1. /\ UNCHANGED <<group, build, live>>
        /\ \/ /\ live \cap {"auth", "prefix"} = {} /\ "printer" \in open
              /\ open' = open \ {"printer"} /\ displayed' = displayed
           \/ "printer" \notin open /\ displayed' = TRUE /\ open' = open /\ main = "waiting"
    BY <1>8 DEF ClosePrinter, DisplayEnds
  <2>2. Types'
    BY <1>0, <2>1 DEF Types, group, build
  <2>3. builder # "ready"
    BY <2>1 DEF Ready, Channels
  <2>4. builder # "idle"
    BY <1>8, <2>1 DEF Idle, ClosePrinter, DisplayEnds
  <2> QED
    BY <1>0, <2>1, <2>2, <2>3, <2>4 DEF build, Idle, Ready, WritersOpen, ForwardersLive,
       OutputsOpen, HeldByLive, DisplayAtEnd, PanicOfHandler
<1>9. CASE Wait \/ Return
  <2>1. /\ UNCHANGED <<groupErr, build, progress>> /\ main' \in {"waiting", "returned"}
        /\ waiter' \in BOOLEAN /\ main = "waiting"
    BY <1>0, <1>9 DEF Wait, Return, Types
  <2> QED
    BY <1>0, <2>1 DEF build, progress, Types, Idle, Ready, WritersOpen, ForwardersLive,
       OutputsOpen, HeldByLive, DisplayAtEnd, PanicOfHandler
<1> QED
  BY <1>1, <1>2, <1>3, <1>4, <1>5, <1>6, <1>7, <1>8, <1>9

\* Each step either sends or does not.
LEMMA RunInvNext == RunInv /\ [RunNext]_runVars => RunInv'
<1>1. RunInv /\ UNCHANGED runVars => RunInv'
  BY DEF runVars, group, build, progress, RunInv, Types, Idle, Ready, WritersOpen,
     ForwardersLive, OutputsOpen, HeldByLive, DisplayAtEnd, PanicOfHandler
<1> QED
  BY <1>1, SendersKeep, OthersKeep DEF RunNext

\* TYPES.  The state of tkn-local run keeps its types.
THEOREM RunTypeCorrect == RunSpec => []RunTypeOK
<1>1. RunInv => RunTypeOK
  BY DEF RunInv, Types, RunTypeOK, ToSet
<1> QED
  BY <1>1, RunInvInit, RunInvNext, PTL DEF RunSpec

\* LAST.  The display ends after every forwarder, and no forwarder and no status
\* finds its channel closed, for any number of statuses and of handlers.
THEOREM DisplayEndsLast == RunSpec => []DisplayIsLast
<1>1. RunInv => DisplayIsLast
  <2> SUFFICES ASSUME RunInv PROVE DisplayIsLast
    OBVIOUS
  <2>1. \A s \in Stages : held[s] # None => Out[s] \in open
    BY DEF RunInv, HeldByLive, OutputsOpen, Out, Stages
  <2>2. ASSUME displayed PROVE live = {}
    <3>1. "printer" \notin open /\ "auth" \notin live /\ "prefix" \notin live
      BY <2>2 DEF RunInv, DisplayAtEnd, OutputsOpen
    <3>2. "reset" \notin live
      BY <2>2, <3>1 DEF RunInv, Idle, Ready, ForwardersLive, OutputsOpen
    <3> QED
      BY <3>1, <3>2 DEF RunInv, Types, Stages
  <2>3. pending # None => "status" \in open
    BY DEF RunInv, HeldByLive, WritersOpen
  <2> QED
    BY <2>1, <2>2, <2>3 DEF DisplayIsLast, RunInv, PanicOfHandler
<1> QED
  BY <1>1, RunInvInit, RunInvNext, PTL DEF RunSpec

-----------------------------------------------------------------------------
(* Everything a sender has got rid of is somewhere on its way to the display. *)

\* On its way: c.Build sends it, or a forwarder.
Underway(m) == pending = m \/ \E s \in Stages : held[s] = m

\* What has been handed over is shown or under way, and nothing else is.
Accounted ==
  \A m \in Messages : m[2] <= Handed(m[1]) <=> m \in ToSet(shown) \/ Underway(m)

ShownInOrder ==
  \A i, j \in DOMAIN shown : i < j /\ shown[i][1] = shown[j][1] => shown[i][2] < shown[j][2]

\* A message under way comes after those of its sender that are shown.
ShownFirst ==
  \A i \in DOMAIN shown, m \in Messages :
    Underway(m) /\ shown[i][1] = m[1] => shown[i][2] < m[2]

\* Statuses go by way of reset and prefix, in this order; all others through auth.
HeldInOrder ==
  /\ held["auth"] # None => held["auth"][1] # "status"
  /\ \A s \in {"reset", "prefix"} : held[s] # None => held[s][1] = "status"
  /\ held["prefix"] # None /\ held["reset"] # None => held["prefix"][2] < held["reset"][2]
  /\ pending # None =>
       /\ pending = <<"status", delivered>>
       /\ \A s \in {"reset", "prefix"} : held[s] # None => held[s][2] < delivered

\* run returns when it could not start, or its two goroutines have.
EndInv ==
  /\ waiter => displayed
  /\ builder = "returned" => groupErr = failed
  /\ main = "returned" =>
       /\ ~panicked /\ groupErr = failed
       /\ builder = "idle" \/ (builder = "returned" /\ displayed)

OnTheWay ==
  ~panicked => Accounted /\ ShownInOrder /\ ShownFirst /\ HeldInOrder

-----------------------------------------------------------------------------

\* A message is known by its sender and its number.
LEMMA MessageParts ==
  /\ \A m \in Messages : m # None /\ m = <<m[1], m[2]>> /\ m[2] \in Nat /\ m[2] >= 1
  /\ \A m \in Messages : m[1] # "status" => m[1] \in Handlers
BY RunAssumption DEF Messages, None

\* What is shown is messages, and one more of them when one is appended.
LEMMA Appended ==
  ASSUME Types, NEW m \in Messages
  PROVE  /\ \A i \in DOMAIN shown : shown[i] \in Messages /\ shown[i] \in ToSet(shown)
         /\ \A x \in ToSet(shown) : x \in Messages /\ \E i \in DOMAIN shown : shown[i] = x
         /\ Len(shown) \in Nat /\ DOMAIN shown = 1..Len(shown)
         /\ LET longer == Append(shown, m)
            IN  /\ DOMAIN longer = 1..(Len(shown) + 1) /\ longer[Len(shown) + 1] = m
                /\ \A i \in DOMAIN shown : longer[i] = shown[i]
                /\ ToSet(longer) = ToSet(shown) \cup {m}
<1>1. /\ shown \in Seq(Messages) /\ Len(shown) \in Nat /\ DOMAIN shown = 1..Len(shown)
      /\ \A i \in 1..Len(shown) : shown[i] \in Messages
  BY DEF Types
<1> DEFINE longer == Append(shown, m)
<1>2. /\ DOMAIN longer = 1..(Len(shown) + 1) /\ longer[Len(shown) + 1] = m
      /\ \A i \in 1..Len(shown) : longer[i] = shown[i]
  BY <1>1
<1> HIDE DEF longer
<1>3. ToSet(longer) = ToSet(shown) \cup {m}
  <2>1. \A x \in ToSet(longer) : x \in ToSet(shown) \cup {m}
    <3> SUFFICES ASSUME NEW i \in DOMAIN longer PROVE longer[i] \in ToSet(shown) \cup {m}
      BY DEF ToSet
    <3>1. i = Len(shown) + 1 \/ i \in 1..Len(shown)
      BY <1>1, <1>2
    <3> QED
      BY <1>1, <1>2, <3>1 DEF ToSet
  <2>2. m \in ToSet(longer)
    <3>1. Len(shown) + 1 \in DOMAIN longer
      BY <1>1, <1>2
    <3> QED
      BY <1>2, <3>1 DEF ToSet
  <2>3. \A x \in ToSet(shown) : x \in ToSet(longer)
    <3> SUFFICES ASSUME NEW i \in 1..Len(shown) PROVE shown[i] \in ToSet(longer)
      BY <1>1 DEF ToSet
    <3>1. i \in DOMAIN longer
      BY <1>1, <1>2
    <3> QED
      BY <1>2, <3>1 DEF ToSet
  <2> QED
    BY <2>1, <2>2, <2>3
<1> QED
  BY <1>1, <1>2, <1>3 DEF longer, ToSet

\* A forwarder that shows its message: what was under way is shown.
LEMMA Showing ==
  ASSUME Types, Accounted, ShownInOrder, ShownFirst, HeldInOrder,
         NEW s \in {"prefix", "auth"}, held[s] # None,
         shown' = Append(shown, held[s]), held' = [held EXCEPT ![s] = None],
         UNCHANGED <<pending, delivered, left>>
  PROVE  Accounted' /\ ShownInOrder' /\ ShownFirst' /\ HeldInOrder'
<1> DEFINE m == held[s]
<1>1. /\ m \in Messages /\ m # None /\ s \in Stages /\ held \in [Stages -> Messages \cup {None}]
      /\ pending \in Messages \cup {None}
  BY DEF Types, Stages
<1>2. /\ held'[s] = None
      /\ \A t \in Stages \ {s} : held'[t] = held[t]
  BY <1>1
<1>3. \A x \in Messages : Underway(x) <=> Underway(x)' \/ x = m
  BY <1>1, <1>2, MessageParts DEF Underway
<1>4. /\ \A i \in DOMAIN shown : shown[i] \in Messages /\ shown[i] \in ToSet(shown)
      /\ Len(shown) \in Nat /\ DOMAIN shown = 1..Len(shown)
      /\ DOMAIN shown' = 1..(Len(shown) + 1) /\ shown'[Len(shown) + 1] = m
      /\ \A i \in DOMAIN shown : shown'[i] = shown[i]
      /\ ToSet(shown') = ToSet(shown) \cup {m}
  BY <1>1, Appended
<1>5. \A i \in DOMAIN shown' : i \in DOMAIN shown \/ i = Len(shown) + 1
  BY <1>4
<1>6. \A i \in DOMAIN shown : shown[i][1] = m[1] => shown[i][2] < m[2]
  BY <1>1, <1>3 DEF ShownFirst
<1>7. Accounted'
  <2>1. \A x \in Messages : Handed(x[1])' = Handed(x[1])
    BY DEF Handed
  <2> SUFFICES ASSUME NEW x \in Messages
               PROVE  x[2] <= Handed(x[1])' <=> x \in ToSet(shown') \/ Underway(x)'
    BY DEF Accounted
  <2>2. x[2] <= Handed(x[1]) <=> x \in ToSet(shown) \/ Underway(x)
    BY DEF Accounted
  <2> QED
    BY <1>3, <1>4, <2>1, <2>2
<1>8. ShownInOrder'
  <2> SUFFICES ASSUME NEW i \in DOMAIN shown', NEW j \in DOMAIN shown', i < j,
                      shown'[i][1] = shown'[j][1]
               PROVE  shown'[i][2] < shown'[j][2]
    BY DEF ShownInOrder
  <2>1. i \in DOMAIN shown
    BY <1>4
  <2>2. CASE j \in DOMAIN shown
    BY <1>4, <2>1, <2>2 DEF ShownInOrder
  <2>3. CASE j = Len(shown) + 1
    BY <1>4, <1>6, <2>1, <2>3
  <2> QED
    BY <1>5, <2>2, <2>3
<1>9. ShownFirst'
  <2> SUFFICES ASSUME NEW i \in DOMAIN shown', NEW x \in Messages, Underway(x)',
                      shown'[i][1] = x[1]
               PROVE  shown'[i][2] < x[2]
    BY DEF ShownFirst
  <2>1. CASE i \in DOMAIN shown
    BY <1>3, <1>4, <2>1 DEF ShownFirst
  <2>2. CASE i = Len(shown) + 1
    <3>1. x[1] = m[1] /\ shown'[i] = m
      BY <1>4, <2>2
    <3>2. pending = x \/ \E t \in Stages \ {s} : held[t] = x
      BY <1>2, MessageParts DEF Underway
    <3>3. m[2] < x[2]
      <4>1. m # None /\ x # None /\ x = <<x[1], x[2]>>
        BY <1>1, MessageParts
      <4>2. s = "prefix"
        <5> SUFFICES ASSUME s = "auth" PROVE FALSE
          OBVIOUS
        <5>1. m[1] # "status"
          BY <4>1 DEF HeldInOrder
        <5>2. CASE pending = x
          BY <3>1, <4>1, <5>1, <5>2 DEF HeldInOrder
        <5>3. CASE \E t \in Stages \ {s} : held[t] = x
          BY <3>1, <4>1, <5>1, <5>3 DEF HeldInOrder, Stages
        <5> QED
          BY <3>2, <5>2, <5>3
      <4>3. m[1] = "status"
        BY <4>1, <4>2 DEF HeldInOrder
      <4>4. CASE pending = x
        <5>1. x[2] = delivered /\ m[2] < delivered
          BY <4>1, <4>2, <4>4 DEF HeldInOrder
        <5> QED
          BY <5>1
      <4>5. CASE \E t \in Stages \ {s} : held[t] = x
        <5>1. held["reset"] = x
          BY <3>1, <4>1, <4>2, <4>3, <4>5 DEF HeldInOrder, Stages
        <5> QED
          BY <4>1, <4>2, <5>1 DEF HeldInOrder
      <4> QED
        BY <3>2, <4>4, <4>5
    <3> QED
      BY <3>1, <3>3
  <2> QED
    BY <1>5, <2>1, <2>2
<1>10. HeldInOrder'
  BY <1>2 DEF HeldInOrder, Stages
<1> QED
  BY <1>7, <1>8, <1>9, <1>10

\* What stays under way and what stays shown is accounted for as before.
LEMMA Moving ==
  ASSUME Accounted, ShownInOrder, ShownFirst,
         \A m \in Messages : Underway(m)' <=> Underway(m),
         shown' = shown, UNCHANGED <<delivered, left>>
  PROVE  Accounted' /\ ShownInOrder' /\ ShownFirst'
<1>1. \A m \in Messages : Handed(m[1])' = Handed(m[1])
  BY DEF Handed
<1>2. Accounted'
  <2> SUFFICES ASSUME NEW x \in Messages
               PROVE  x[2] <= Handed(x[1])' <=> x \in ToSet(shown') \/ Underway(x)'
    BY DEF Accounted
  <2>1. x[2] <= Handed(x[1]) <=> x \in ToSet(shown) \/ Underway(x)
    BY DEF Accounted
  <2> QED
    BY <1>1, <2>1
<1>3. ShownInOrder' /\ ShownFirst'
  BY DEF ShownInOrder, ShownFirst
<1> QED
  BY <1>2, <1>3

\* A new message: the next of its sender.
LEMMA Entering ==
  ASSUME Types, Accounted, ShownInOrder, ShownFirst,
         NEW n \in Messages, n[2] = Handed(n[1]) + 1, Handed(n[1]) \in Int,
         \A m \in Messages : Underway(m)' <=> Underway(m) \/ m = n,
         \A m \in Messages : Handed(m[1])' = IF m[1] = n[1] THEN n[2] ELSE Handed(m[1]),
         shown' = shown
  PROVE  Accounted' /\ ShownInOrder' /\ ShownFirst'
<1>1. Accounted'
  <2> SUFFICES ASSUME NEW x \in Messages
               PROVE  x[2] <= Handed(x[1])' <=> x \in ToSet(shown') \/ Underway(x)'
    BY DEF Accounted
  <2>1. x[2] <= Handed(x[1]) <=> x \in ToSet(shown) \/ Underway(x)
    BY DEF Accounted
  <2>2. x = n <=> x[1] = n[1] /\ x[2] = n[2]
    BY MessageParts
  <2>3. x[2] \in Int
    BY MessageParts
  <2>4. x[1] = n[1] => (x[2] <= n[2] <=> x[2] <= Handed(n[1]) \/ x[2] = n[2])
    BY <2>3
  <2> QED
    BY <2>1, <2>2, <2>4
<1>2. ShownInOrder'
  BY DEF ShownInOrder
<1>3. ShownFirst'
  <2> SUFFICES ASSUME NEW i \in DOMAIN shown, shown[i][1] = n[1]
               PROVE  shown[i][2] < n[2]
    BY DEF ShownFirst
  <2>1. shown[i] \in Messages /\ shown[i] \in ToSet(shown)
    BY Appended
  <2>2. shown[i][2] <= Handed(n[1]) /\ shown[i][2] \in Int
    BY <2>1, MessageParts DEF Accounted
  <2> QED
    BY <2>2
<1> QED
  BY <1>1, <1>2, <1>3

\* The daemon's next status, and the first and second message of a handler.
LEMMA Numbers ==
  ASSUME Types
  PROVE  /\ Handed("status") = delivered /\ "status" \notin Handlers
         /\ \A h \in Handlers : left[h] = -1 => Handed(h) = 0
         /\ \A h \in Handlers : left[h] \in 0..2 => Handed(h) = 2 - left[h]
BY RunAssumption DEF Types, Handed

\* A build that receives a status, and gives it to reset.
LEMMA StatusOnTheWay ==
  ASSUME RunInv, OnTheWay, ReceiveStatus \/ SendStatus
  PROVE  OnTheWay'
<1>1. /\ Types /\ Accounted /\ ShownInOrder /\ ShownFirst /\ HeldInOrder
      /\ None \notin Messages /\ MaxStatus \in Nat /\ ~panicked
  BY RunAssumption, Types1 DEF RunInv, OnTheWay, ReceiveStatus, SendStatus, Running
<1>2. held \in [Stages -> Messages \cup {None}] /\ delivered \in 0..MaxStatus
  BY <1>1 DEF Types
<1>3. CASE ReceiveStatus
  <2>1. /\ pending = None /\ delivered < MaxStatus /\ delivered' = delivered + 1
        /\ pending' = <<"status", delivered + 1>>
        /\ UNCHANGED <<left, held, shown, panicked>>
    BY <1>3 DEF ReceiveStatus, progress
  <2> DEFINE n == <<"status", delivered + 1>>
  <2>2. n \in Messages /\ n[1] = "status" /\ n[2] = delivered + 1
    <3>1. delivered + 1 \in 1..MaxStatus
      BY <1>1, <1>2, <2>1
    <3> QED
      BY <3>1, Types1
  <2>3. n[2] = Handed(n[1]) + 1 /\ Handed(n[1]) \in Int
    BY <1>1, <1>2, <2>2, Numbers
  <2>4. \A m \in Messages : Underway(m)' <=> Underway(m) \/ m = n
    BY <1>1, <2>1 DEF Underway
  <2>5. \A m \in Messages : Handed(m[1])' = IF m[1] = n[1] THEN n[2] ELSE Handed(m[1])
    BY <2>1, <2>2 DEF Handed
  <2> HIDE DEF n
  <2>6. Accounted' /\ ShownInOrder' /\ ShownFirst'
    BY <1>1, <2>1, <2>2, <2>3, <2>4, <2>5, Entering
  <2>7. \A s \in {"reset", "prefix"} : held[s] # None => held[s][2] < delivered + 1
    <3> SUFFICES ASSUME NEW s \in {"reset", "prefix"}, held[s] # None
                 PROVE  held[s][2] < delivered + 1
      OBVIOUS
    <3>1. s \in Stages /\ held[s] \in Messages /\ held[s][1] = "status"
      BY <1>1, <1>2 DEF HeldInOrder, Stages
    <3>2. held[s][2] <= delivered /\ held[s][2] \in Int
      BY <1>1, <3>1, Numbers, MessageParts DEF Accounted, Underway
    <3> QED
      BY <1>2, <3>2
  <2>8. HeldInOrder'
    BY <1>1, <2>1, <2>7 DEF HeldInOrder
  <2> QED
    BY <2>6, <2>8 DEF OnTheWay
<1>4. CASE SendStatus
  <2>1. /\ pending \in Messages /\ pending = <<"status", delivered>> /\ pending' = None
        /\ "status" \in open /\ UNCHANGED <<delivered, left>>
    BY <1>1, <1>4 DEF SendStatus, HeldInOrder, Types, RunInv, HeldByLive, WritersOpen
  <2>2. Send("status", pending, "build")
    BY <1>4 DEF SendStatus
  <2>3. /\ held["reset"] = None /\ held' = [held EXCEPT !["reset"] = pending]
        /\ UNCHANGED <<shown, panicked>>
    BY <2>1, <2>2, Readers DEF Send, Stages
  <2>4. /\ held'["reset"] = pending /\ held'["prefix"] = held["prefix"]
        /\ held'["auth"] = held["auth"]
    BY <1>2, <2>3 DEF Stages
  <2>5. \A m \in Messages : Underway(m)' <=> Underway(m)
    BY <1>1, <2>1, <2>3, <2>4 DEF Underway, Stages
  <2>6. HeldInOrder'
    BY <1>1, <2>1, <2>4 DEF HeldInOrder
  <2>7. Accounted' /\ ShownInOrder' /\ ShownFirst'
    BY <1>1, <2>1, <2>3, <2>5, Moving
  <2> QED
    BY <2>6, <2>7 DEF OnTheWay
<1> QED
  BY <1>3, <1>4

\* A handler that logs, when there is somebody to take it.
LEMMA LogOnTheWay ==
  ASSUME RunInv, OnTheWay, NEW h \in Handlers, Log(h)
  PROVE  OnTheWay'
<1> SUFFICES ASSUME ~panicked' PROVE OnTheWay'
  BY DEF OnTheWay
<1>1. /\ Types /\ Accounted /\ ShownInOrder /\ ShownFirst /\ HeldInOrder
      /\ None \notin Messages
  BY Types1 DEF RunInv, OnTheWay, Log, Running
<1>2. held \in [Stages -> Messages \cup {None}] /\ left \in [Handlers -> -1..2]
  BY <1>1 DEF Types
<1> DEFINE n == <<h, 3 - left[h]>>
<1>3. /\ left[h] > 0 /\ Send("auth", n, "build") /\ left' = [left EXCEPT ![h] = left[h] - 1]
      /\ UNCHANGED <<delivered, pending>>
  BY DEF Log
<1>4. left[h] \in 1..2 /\ 3 - left[h] \in 1..2
  BY <1>2, <1>3
<1>5. n \in Messages /\ n[1] = h /\ n[2] = 3 - left[h] /\ h # "status"
  BY <1>4, Types1, RunAssumption
<1>6. n[2] = Handed(n[1]) + 1 /\ Handed(n[1]) \in Int
  BY <1>1, <1>4, <1>5, Numbers
<1>7. /\ held["auth"] = None /\ held' = [held EXCEPT !["auth"] = n] /\ shown' = shown
  BY <1>3, Readers DEF Send, Stages
<1>8. \A m \in Messages : Handed(m[1])' = IF m[1] = n[1] THEN n[2] ELSE Handed(m[1])
  <2>1. left'[h] # -1 /\ 2 - left'[h] = 3 - left[h]
    BY <1>2, <1>3, <1>4
  <2>2. \A g \in Handlers \ {h} : left'[g] = left[g]
    BY <1>2, <1>3
  <2> SUFFICES ASSUME NEW m \in Messages
               PROVE  Handed(m[1])' = IF m[1] = n[1] THEN n[2] ELSE Handed(m[1])
    OBVIOUS
  <2>3. CASE m[1] = "status"
    BY <1>3, <1>5, <2>3 DEF Handed
  <2>4. CASE m[1] = h
    BY <1>5, <2>1, <2>4 DEF Handed
  <2>5. CASE m[1] \in Handlers \ {h}
    BY <1>5, <2>2, <2>5, Numbers, <1>1 DEF Handed
  <2> QED
    BY <2>3, <2>4, <2>5, MessageParts
<1> HIDE DEF n
<1>9. held'["auth"] = n /\ held'["reset"] = held["reset"] /\ held'["prefix"] = held["prefix"]
  BY <1>2, <1>7 DEF Stages
<1>10. \A m \in Messages : Underway(m)' <=> Underway(m) \/ m = n
  BY <1>1, <1>3, <1>7, <1>9 DEF Underway, Stages
<1>11. Accounted' /\ ShownInOrder' /\ ShownFirst'
  BY <1>1, <1>5, <1>6, <1>7, <1>8, <1>10, Entering
<1>12. HeldInOrder'
  BY <1>1, <1>3, <1>5, <1>9 DEF HeldInOrder
<1> QED
  BY <1>11, <1>12 DEF OnTheWay

\* A forwarder that sends what it holds: to prefix, or to the display.
LEMMA ForwardOnTheWay ==
  ASSUME RunInv, OnTheWay, NEW s \in Stages, Forward(s)
  PROVE  OnTheWay'
<1>1. /\ Types /\ Accounted /\ ShownInOrder /\ ShownFirst /\ HeldInOrder
      /\ None \notin Messages /\ held[s] # None
      /\ held \in [Stages -> Messages \cup {None}]
      /\ UNCHANGED <<delivered, left, pending>>
  BY Types1 DEF RunInv, OnTheWay, Forward, Running, build, Types
<1>2. Send(Out[s], held[s], s) /\ Out[s] \in open
  BY DEF Forward, RunInv, HeldByLive, OutputsOpen, Out, Stages
<1>3. CASE s = "reset"
  <2>1. Out[s] = "build" /\ "build" # "printer"
    BY <1>3 DEF Out
  <2>2. /\ held["prefix"] = None
        /\ held' = [[held EXCEPT !["reset"] = None] EXCEPT !["prefix"] = held["reset"]]
        /\ UNCHANGED <<shown, panicked>>
    BY <1>2, <1>3, <2>1, Readers DEF Send, Stages
  <2>3. held'["reset"] = None /\ held'["prefix"] = held["reset"] /\ held'["auth"] = held["auth"]
    BY <1>1, <2>2 DEF Stages
  <2>4. \A m \in Messages : Underway(m)' <=> Underway(m)
    BY <1>1, <2>2, <2>3 DEF Underway, Stages
  <2>5. HeldInOrder'
    BY <1>1, <2>2, <2>3 DEF HeldInOrder
  <2>6. Accounted' /\ ShownInOrder' /\ ShownFirst'
    BY <1>1, <2>2, <2>4, Moving
  <2> QED
    BY <2>5, <2>6 DEF OnTheWay
<1>4. CASE s \in {"prefix", "auth"}
  <2>1. Out[s] = "printer"
    BY <1>4 DEF Out
  <2>2. shown' = Append(shown, held[s]) /\ held' = [held EXCEPT ![s] = None]
    BY <1>2, <1>4, <2>1 DEF Send, Stages
  <2> QED
    BY <1>1, <1>4, <2>2, Showing DEF OnTheWay
<1> QED
  BY <1>3, <1>4 DEF Stages

\* Nothing else shows, takes or makes a message.
LEMMA OthersOnTheWay ==
  ASSUME RunInv, OnTheWay,
         \/ FailToStart \/ Start \/ CallBuild \/ BuildEnds \/ CloseWriters
         \/ (\E h \in Handlers : CallHandler(h)) \/ (\E s \in Stages : StageEnds(s))
         \/ ClosePrinter \/ DisplayEnds \/ Wait \/ Return \/ UNCHANGED runVars
  PROVE  OnTheWay'
<1>1. UNCHANGED <<delivered, pending, held, shown, panicked>>
  BY DEF FailToStart, Start, CallBuild, BuildEnds, CloseWriters, CallHandler, StageEnds,
     ClosePrinter, DisplayEnds, Wait, Return, progress, build, runVars
<1>2. \A m \in Messages : Handed(m[1])' = Handed(m[1])
  <2>1. CASE left' = left
    BY <1>1, <2>1 DEF Handed
  <2>2. CASE \E h \in Handlers : CallHandler(h)
    <3>1. PICK h \in Handlers : left[h] = -1 /\ left' = [left EXCEPT ![h] = 2]
      BY <2>2 DEF CallHandler
    <3>2. left \in [Handlers -> -1..2]
      BY DEF RunInv, Types
    <3>3. left'[h] = 2 /\ \A g \in Handlers \ {h} : left'[g] = left[g]
      BY <3>1, <3>2
    <3> QED
      BY <1>1, <3>1, <3>3, MessageParts DEF Handed
  <2> QED
    BY <2>1, <2>2 DEF FailToStart, Start, CallBuild, BuildEnds, CloseWriters, StageEnds,
       ClosePrinter, DisplayEnds, Wait, Return, build, runVars
<1>3. \A m \in Messages : Underway(m)' <=> Underway(m)
  BY <1>1 DEF Underway
<1>4. Accounted => Accounted'
  <2> SUFFICES ASSUME Accounted, NEW x \in Messages
               PROVE  x[2] <= Handed(x[1])' <=> x \in ToSet(shown') \/ Underway(x)'
    BY DEF Accounted
  <2>1. x[2] <= Handed(x[1]) <=> x \in ToSet(shown) \/ Underway(x)
    BY DEF Accounted
  <2> QED
    BY <1>1, <1>2, <1>3, <2>1
<1>5. /\ ShownInOrder => ShownInOrder'
      /\ ShownFirst => ShownFirst'
      /\ HeldInOrder => HeldInOrder'
  BY <1>1, <1>3 DEF ShownInOrder, ShownFirst, HeldInOrder
<1> QED
  BY <1>1, <1>4, <1>5 DEF OnTheWay

\* How run ends: the steps of its two goroutines.
LEMMA EndKept ==
  ASSUME RunInv, EndInv, [RunNext]_runVars
  PROVE  EndInv'
<1>1. CASE UNCHANGED runVars
  BY <1>1 DEF EndInv, runVars, group, build, progress
<1>2. CASE FailToStart
  BY <1>2 DEF FailToStart, Running, EndInv, RunInv, Types, progress
<1>3. CASE Start \/ CallBuild \/ ReceiveStatus \/ BuildEnds \/ CloseWriters
  BY <1>3 DEF Start, CallBuild, ReceiveStatus, BuildEnds, CloseWriters, Running, EndInv,
     RunInv, Types, group, progress
<1>4. CASE \E h \in Handlers : CallHandler(h) \/ Log(h)
  BY <1>4 DEF CallHandler, Log, Running, EndInv, group, progress
<1>5. CASE SendStatus \/ \E s \in Stages : Forward(s) \/ StageEnds(s)
  BY <1>5 DEF SendStatus, Forward, StageEnds, Running, EndInv, group, build
<1>6. CASE ClosePrinter \/ DisplayEnds \/ Wait \/ Return
  BY <1>6 DEF ClosePrinter, DisplayEnds, Wait, Return, Running, EndInv, group, build, progress
<1> QED
  BY <1>1, <1>2, <1>3, <1>4, <1>5, <1>6 DEF RunNext

\* At first there is nothing to account for.
LEMMA OnTheWayInit == RunInit => OnTheWay /\ EndInv
<1> SUFFICES ASSUME RunInit PROVE OnTheWay /\ EndInv
  OBVIOUS
<1>1. /\ shown = <<>> /\ pending = None /\ \A s \in Stages : held[s] = None
      /\ delivered = 0 /\ \A h \in Handlers : left[h] = -1
  BY DEF RunInit
<1>2. Accounted
  <2> SUFFICES ASSUME NEW m \in Messages
               PROVE  m[2] <= Handed(m[1]) <=> m \in ToSet(shown) \/ Underway(m)
    BY DEF Accounted
  <2>1. Handed(m[1]) = 0
    BY <1>1, MessageParts DEF Handed
  <2>2. ~(m[2] <= 0) /\ m # None
    BY MessageParts
  <2> QED
    BY <1>1, <2>1, <2>2 DEF Underway, ToSet
<1>3. ShownInOrder /\ ShownFirst
  BY <1>1 DEF ShownInOrder, ShownFirst
<1>4. HeldInOrder
  BY <1>1 DEF HeldInOrder, Stages
<1> QED
  BY <1>2, <1>3, <1>4 DEF OnTheWay, EndInv, RunInit

\* Each step keeps the account.
LEMMA OnTheWayNext == RunInv /\ OnTheWay /\ EndInv /\ [RunNext]_runVars => OnTheWay' /\ EndInv'
BY StatusOnTheWay, LogOnTheWay, ForwardOnTheWay, OthersOnTheWay, EndKept DEF RunNext

\* ALL IS SHOWN.  When run returns, what the daemon and the handlers have handed
\* over has been on the display, those of one sender in their order, and its error
\* is that of the build: for any number of statuses and of handlers.
THEOREM AllIsShown == RunSpec => []AllShown
<1>1. RunInv /\ OnTheWay /\ EndInv /\ DisplayIsLast => AllShown
  <2> SUFFICES ASSUME RunInv, OnTheWay, EndInv, DisplayIsLast, main = "returned" PROVE AllShown
    BY DEF AllShown
  <2>1. /\ Types /\ Accounted /\ ShownInOrder /\ groupErr = failed
    BY DEF OnTheWay, EndInv, RunInv
  <2>2. live = {} /\ builder # "calling"
    BY DEF EndInv, DisplayIsLast, RunInv, Idle
  <2>3. pending = None /\ \A s \in Stages : held[s] = None
    BY <2>2 DEF RunInv, HeldByLive
  <2>4. \A m \in Messages : ~Underway(m)
    BY <2>3, MessageParts DEF Underway
  <2>5. \A m \in ToSet(shown) : m \in Messages
    BY <2>1 DEF Types, ToSet
  <2>6. ToSet(shown) = {m \in Messages : m[2] <= Handed(m[1])}
    BY <2>1, <2>4, <2>5 DEF Accounted
  <2> QED
    BY <2>1, <2>6 DEF AllShown, ShownInOrder
<1> QED
  BY <1>1, RunInvInit, RunInvNext, OnTheWayInit, OnTheWayNext, DisplayEndsLast, PTL DEF RunSpec

-----------------------------------------------------------------------------
(* tkn-local prune.                                                         *)

\* The lines there are before the first record.
Above == IF verbose THEN 0 ELSE 1

\* What has been printed when k records have: a line's number less the header is
\* that of its record, and that of the header, 0.
Printed(k) == IF k = 0 THEN <<>> ELSE [i \in 1..(k + Above) |-> i - Above]

\* The record the pruner is sending has not been taken, the one the printer has
\* taken has not been printed.
Taken == IF pruner = "sending" THEN removed - 1 ELSE removed

Count == IF printer = "printing" THEN Taken - 1 ELSE Taken

PruneInv ==
  /\ PruneTypeOK
  /\ pruner = "connecting" => removed = 0
  /\ pruner = "sending" => removed > 0
  /\ Count \in Nat
  /\ printer = "printing" => printing = Taken
  /\ channel = "open" => printer # "ended"
  /\ output = Printed(Count)
  /\ first = (verbose \/ Count = 0)

-----------------------------------------------------------------------------

\* The header is a line or none.
LEMMA AboveType == Above \in {0, 1}
BY DEF Above

\* The lines printed, and what stands in each.
LEMMA PrintedType ==
  ASSUME NEW k \in Nat
  PROVE  /\ Printed(k) \in Seq(Int)
         /\ Len(Printed(k)) = IF k = 0 THEN 0 ELSE k + Above
         /\ \A i \in 1..Len(Printed(k)) : Printed(k)[i] = i - Above
<1>1. CASE k = 0
  BY <1>1 DEF Printed
<1>2. CASE k # 0
  <2>1. k + Above \in Nat /\ Above \in Int
    BY AboveType
  <2>2. Printed(k) = [i \in 1..(k + Above) |-> i - Above]
    BY <1>2 DEF Printed
  <2>3. \A i \in 1..(k + Above) : i - Above \in Int
    BY <2>1
  <2>4. Printed(k) \in Seq(Int) /\ Len(Printed(k)) = k + Above
    BY <2>1, <2>2, <2>3
  <2> QED
    BY <1>2, <2>2, <2>4
<1> QED
  BY <1>1, <1>2

\* One more row: the header goes before the first one.
LEMMA PrintedOneMore ==
  ASSUME NEW k \in Nat
  PROVE  Printed(k) \o (IF k = 0 /\ ~verbose THEN <<Header>> ELSE <<>>) \o <<k + 1>> = Printed(k + 1)
<1> DEFINE head == IF k = 0 /\ ~verbose THEN <<Header>> ELSE <<>>
           above == Printed(k) \o head
<1>0. /\ head \in Seq(Int) /\ Len(head) = IF k = 0 THEN Above ELSE 0
      /\ k = 0 /\ Above = 1 => head[1] = 0
  BY DEF Above, Header
<1>1. /\ above \in Seq(Int) /\ Len(above) = k + Above
      /\ \A i \in 1..Len(above) : above[i] = i - Above
  <2>1. CASE k = 0
    <3>1. Printed(k) = <<>>
      BY <2>1 DEF Printed
    <3>2. above = head
      BY <1>0, <3>1
    <3> HIDE DEF head, above
    <3> QED
      BY <1>0, <2>1, <3>2, AboveType
  <2>2. CASE k # 0
    <3>1. above = Printed(k)
      BY <2>2, PrintedType
    <3> HIDE DEF head, above
    <3> QED
      BY <2>2, <3>1, PrintedType
  <2> QED
    BY <2>1, <2>2
<1> HIDE DEF head, above
<1>2. /\ above \o <<k + 1>> \in Seq(Int) /\ Len(above \o <<k + 1>>) = k + 1 + Above
      /\ \A i \in 1..(k + 1 + Above) :
           (above \o <<k + 1>>)[i] = IF i <= k + Above THEN above[i] ELSE k + 1
  BY <1>1, AboveType
<1>3. \A i \in 1..(k + 1 + Above) : (above \o <<k + 1>>)[i] = i - Above
  BY <1>1, <1>2, AboveType
<1>4. /\ Printed(k + 1) \in Seq(Int) /\ Len(Printed(k + 1)) = k + 1 + Above
      /\ \A i \in 1..(k + 1 + Above) : Printed(k + 1)[i] = i - Above
  BY PrintedType, AboveType
<1>5. above \o <<k + 1>> = Printed(k + 1)
  BY <1>2, <1>3, <1>4, AboveType, SeqEqual
<1> QED
  BY <1>5 DEF above, head

\* What fewer records print comes first in what more of them print.
LEMMA PrintedPrefix ==
  ASSUME NEW k \in Nat, NEW n \in Nat, k <= n
  PROVE  IsPrefix(Printed(k), Printed(n))
<1> DEFINE p == Printed(k)
           q == Printed(n)
<1>1. /\ p \in Seq(Int) /\ q \in Seq(Int) /\ Len(p) <= Len(q) /\ Len(p) \in Nat
      /\ \A i \in 1..Len(p) : p[i] = q[i]
  <2>1. /\ p \in Seq(Int) /\ Len(p) = IF k = 0 THEN 0 ELSE k + Above
        /\ \A i \in 1..Len(p) : p[i] = i - Above
    BY PrintedType
  <2>2. /\ q \in Seq(Int) /\ Len(q) = IF n = 0 THEN 0 ELSE n + Above
        /\ \A i \in 1..Len(q) : q[i] = i - Above
    BY PrintedType
  <2> HIDE DEF p, q
  <2> QED
    BY <2>1, <2>2, AboveType
<1> HIDE DEF p, q
<1>2. SubSeq(p, 1, Len(p)) = SubSeq(q, 1, Len(p))
  BY <1>1
<1> QED
  BY <1>1, <1>2 DEF IsPrefix, p, q

\* Without its last row, what is printed is what one record less prints.
LEMMA PrintedFront ==
  ASSUME NEW k \in Nat, k > 1
  PROVE  Front(Printed(k)) = Printed(k - 1)
<1> DEFINE p == Printed(k - 1)
           q == Printed(k)
<1>1. /\ p \in Seq(Int) /\ q \in Seq(Int) /\ Len(p) = Len(q) - 1 /\ Len(p) \in Nat
      /\ \A i \in 1..Len(p) : p[i] = q[i]
  <2>0. k - 1 \in Nat /\ k - 1 # 0
    OBVIOUS
  <2>1. /\ p \in Seq(Int) /\ Len(p) = k - 1 + Above
        /\ \A i \in 1..Len(p) : p[i] = i - Above
    BY <2>0, PrintedType
  <2>2. /\ q \in Seq(Int) /\ Len(q) = k + Above
        /\ \A i \in 1..Len(q) : q[i] = i - Above
    BY PrintedType
  <2> HIDE DEF p, q
  <2> QED
    BY <2>0, <2>1, <2>2, AboveType
<1> HIDE DEF p, q
<1>2. SubSeq(q, 1, Len(q) - 1) = p
  BY <1>1
<1> QED
  BY <1>2 DEF Front, p, q

\* A listing is what all the records print.
LEMMA ListingIsPrinted ==
  ASSUME removed \in Nat PROVE Listing = Printed(removed)
<1> DEFINE ns == [n \in 1..removed |-> n]
<1>0. ns \in Seq(Int) /\ Len(ns) = removed /\ \A i \in 1..removed : ns[i] = i
  OBVIOUS
<1> HIDE DEF ns
<1>1. CASE removed = 0
  <2>1. ns = <<>>
    BY <1>0, <1>1
  <2> QED
    BY <1>1, <2>1 DEF Listing, Printed, ns
<1>2. CASE removed # 0 /\ verbose
  <2>1. Listing = ns
    BY <1>0, <1>2 DEF Listing, ns
  <2>2. Above = 0
    BY <1>2 DEF Above
  <2>3. /\ Printed(removed) \in Seq(Int) /\ Len(Printed(removed)) = removed
        /\ \A i \in 1..removed : Printed(removed)[i] = i
    BY <1>2, <2>2, PrintedType
  <2> QED
    BY <1>0, <2>1, <2>3, SeqEqual
<1>3. CASE removed # 0 /\ ~verbose
  <2>1. Listing = <<Header>> \o ns /\ Above = 1
    BY <1>3 DEF Listing, ns, Above
  <2>2. /\ Listing \in Seq(Int) /\ Len(Listing) = removed + 1
        /\ \A i \in 1..(removed + 1) : Listing[i] = i - 1
    BY <1>0, <2>1 DEF Header
  <2>3. /\ Printed(removed) \in Seq(Int) /\ Len(Printed(removed)) = removed + 1
        /\ \A i \in 1..(removed + 1) : Printed(removed)[i] = i - 1
    BY <1>3, <2>1, PrintedType
  <2> QED
    BY <2>2, <2>3, SeqEqual
<1> QED
  BY <1>1, <1>2, <1>3

-----------------------------------------------------------------------------

\* Nothing has been printed at first.
LEMMA PruneInvInit == PruneInit => PruneInv
<1> SUFFICES ASSUME PruneInit PROVE PruneInv
  OBVIOUS
<1>1. PruneTypeOK
  <2>1. failure \in BOOLEAN /\ err \in BOOLEAN /\ first \in BOOLEAN /\ verbose \in BOOLEAN
    BY DEF PruneInit
  <2>2. removed \in 0..MaxRecords /\ printing \in Record \cup {0}
    BY PruneAssumption DEF PruneInit
  <2>3. /\ pruner = "connecting" /\ channel = "open"
        /\ printer = "waiting" /\ printing = 0
    BY DEF PruneInit
  <2> QED
    BY <2>1, <2>2, <2>3 DEF PruneTypeOK
<1>2. Taken = 0 /\ Count = 0
  BY DEF PruneInit, Taken, Count
<1>3. output = Printed(Count) /\ first = (verbose \/ Count = 0)
  BY <1>2 DEF PruneInit, Printed
<1> QED
  BY <1>1, <1>2, <1>3 DEF PruneInit, PruneInv

\* One case per step of prune.
LEMMA PruneInvNext == PruneInv /\ [PruneNext]_pruneVars => PruneInv'
<1> SUFFICES ASSUME PruneInv, [PruneNext]_pruneVars PROVE PruneInv'
  OBVIOUS
<1>0. PruneTypeOK /\ MaxRecords \in Nat /\ Count \in Nat
  BY PruneAssumption DEF PruneInv
<1>1. ASSUME UNCHANGED <<output, verbose, first>>, Count' = Count
      PROVE  /\ Count' \in Nat /\ output' = Printed(Count)' /\ first' = (verbose \/ Count = 0)'
  <2>1. Printed(Count)' = Printed(Count)
    BY <1>1 DEF Printed, Above
  <2> QED
    BY <1>1, <2>1 DEF PruneInv
<1>2. CASE Connect
  <2>1. /\ pruner = "connecting" /\ pruner' \in {"receiving", "returned"}
        /\ failure' \in BOOLEAN /\ err' \in BOOLEAN
        /\ UNCHANGED <<removed, channel, printer, printing, first, output, verbose>>
    BY <1>0, <1>2 DEF Connect, printerVars, PruneTypeOK
  <2>2. Count' = Count /\ Taken' = Taken
    BY <2>1 DEF Count, Taken
  <2> QED
    BY <1>0, <1>1, <2>1, <2>2 DEF PruneInv, PruneTypeOK
<1>3. CASE Receive
  <2>1. /\ pruner = "receiving" /\ pruner' = "sending" /\ removed' = removed + 1
        /\ removed < MaxRecords
        /\ UNCHANGED <<failure, err, channel, printer, printing, first, output, verbose>>
    BY <1>3 DEF Receive, printerVars
  <2>2. Count' = Count /\ Taken' = Taken
    BY <1>0, <2>1 DEF Count, Taken, PruneTypeOK
  <2> QED
    BY <1>0, <1>1, <2>1, <2>2 DEF PruneInv, PruneTypeOK
<1>4. CASE SendRecord
  <2>1. /\ pruner = "sending" /\ pruner' = "receiving" /\ printer = "waiting"
        /\ printer' = "printing" /\ printing' = removed
        /\ UNCHANGED <<failure, err, removed, channel, first, output, verbose>>
    BY <1>4 DEF SendRecord
  <2>2. Count' = Count /\ Taken' = removed
    BY <1>0, <2>1 DEF Count, Taken, PruneTypeOK
  <2>3. removed > 0 /\ removed \in Record
    BY <1>0, <2>1 DEF PruneInv, PruneTypeOK, Record
  <2> QED
    BY <1>0, <1>1, <2>1, <2>2, <2>3 DEF PruneInv, PruneTypeOK
<1>5. CASE StreamEnds \/ PruneEnds
  <2>1. /\ pruner \in {"receiving", "closing"} /\ pruner' \in {"closing", "returned"}
        /\ failure' \in BOOLEAN /\ err' \in BOOLEAN /\ channel' \in {"closed", channel}
        /\ UNCHANGED <<removed, printer, printing, first, output, verbose>>
    BY <1>0, <1>5 DEF StreamEnds, PruneEnds, printerVars, PruneTypeOK
  <2>2. Count' = Count /\ Taken' = Taken
    BY <2>1 DEF Count, Taken
  <2> QED
    BY <1>0, <1>1, <2>1, <2>2 DEF PruneInv, PruneTypeOK
<1>6. CASE PrintRow
  <2>1. /\ printer = "printing" /\ printer' = "waiting" /\ printing' = 0
        /\ output' = output \o (IF first /\ ~verbose THEN <<Header>> ELSE <<>>) \o <<printing>>
        /\ first' = (first /\ verbose)
        /\ UNCHANGED <<pruner, failure, err, removed, channel, verbose>>
    BY <1>6 DEF PrintRow
  <2>2. /\ Taken = Count + 1 /\ printing = Count + 1 /\ Count' = Count + 1 /\ Taken' = Taken
    BY <1>0, <2>1 DEF PruneInv, PruneTypeOK, Count, Taken
  <2>3. output' = Printed(Count + 1)
    <3>1. (first /\ ~verbose) <=> (Count = 0 /\ ~verbose)
      BY DEF PruneInv
    <3>2. output' = Printed(Count) \o (IF Count = 0 /\ ~verbose THEN <<Header>> ELSE <<>>)
                      \o <<Count + 1>>
      BY <2>1, <2>2, <3>1 DEF PruneInv
    <3> QED
      BY <1>0, <3>2, PrintedOneMore
  <2>4. Printed(Count)' = Printed(Count + 1)
    BY <2>1, <2>2 DEF Printed, Above
  <2>5. first' = (verbose \/ Count = 0)'
    BY <1>0, <2>1, <2>2 DEF PruneInv, PruneTypeOK
  <2> QED
    BY <1>0, <2>1, <2>2, <2>3, <2>4, <2>5 DEF PruneInv, PruneTypeOK
<1>7. CASE PrinterEnds
  <2>1. /\ printer = "waiting" /\ printer' = "ended" /\ channel = "closed"
        /\ UNCHANGED <<pruner, failure, err, removed, channel, printing, first, output, verbose>>
    BY <1>7 DEF PrinterEnds
  <2>2. Count' = Count /\ Taken' = Taken
    BY <2>1 DEF Count, Taken
  <2> QED
    BY <1>0, <1>1, <2>1, <2>2 DEF PruneInv, PruneTypeOK
<1>8. CASE UNCHANGED pruneVars
  BY <1>8 DEF pruneVars, printerVars, PruneInv, PruneTypeOK, Count, Taken, Printed, Above
<1> QED
  BY <1>2, <1>3, <1>4, <1>5, <1>6, <1>7, <1>8 DEF PruneNext

\* ALL BUT THE LAST.  Of any number of records, all but perhaps the last have been
\* listed, in order, when prune returns.
THEOREM AllButTheLastAreListed == PruneSpec => []AllButTheLast
<1>1. PruneInv => AllButTheLast
  <2> SUFFICES ASSUME PruneInv PROVE AllButTheLast
    OBVIOUS
  <2>1. /\ removed \in Nat /\ Count \in Nat /\ Count <= removed /\ output = Printed(Count)
        /\ pruner = "returned" => Count >= removed - 1
    BY PruneAssumption DEF PruneInv, PruneTypeOK, Count, Taken
  <2>2. Listing = Printed(removed)
    BY <2>1, ListingIsPrinted
  <2>3. IsPrefix(output, Listing)
    BY <2>1, <2>2, PrintedPrefix
  <2>4. ASSUME pruner = "returned", removed > 1 PROVE IsPrefix(Front(Listing), output)
    <3>1. removed - 1 \in Nat /\ removed - 1 <= Count
      BY <2>1, <2>4
    <3>2. Front(Listing) = Printed(removed - 1)
      BY <2>1, <2>2, <2>4, PrintedFront
    <3> QED
      BY <2>1, <3>1, <3>2, PrintedPrefix
  <2> QED
    BY <2>3, <2>4 DEF AllButTheLast
<1> QED
  BY <1>1, PruneInvInit, PruneInvNext, PTL DEF PruneSpec

\* TYPES.  The state of tkn-local prune keeps its types.
THEOREM PruneTypeCorrect == PruneSpec => []PruneTypeOK
<1>1. PruneInv => PruneTypeOK
  BY DEF PruneInv
<1> QED
  BY <1>1, PruneInvInit, PruneInvNext, PTL DEF PruneSpec

=============================================================================

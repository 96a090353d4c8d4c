----------------------------- MODULE TknLocalRun -----------------------------
(***************************************************************************)
(* tkn-local run: one goroutine builds, one waits for the display, and in  *)
(* between the progress goes through unbuffered channels: the status of the *)
(* build by way of reset and prefix, the messages of the session's          *)
(* authentication handlers by way of auth, both to the printer.             *)
(***************************************************************************)
EXTENDS Integers, SequencesExt

CONSTANTS
  Handlers,          \* calls for credentials that the daemon may make
  MaxStatus          \* bound: statuses in a build

ASSUME RunAssumption == MaxStatus \in Nat /\ "status" \notin Handlers

Stages == {"reset", "prefix", "auth"}

In == [reset |-> "status", prefix |-> "build", auth |-> "auth"]

Out == [reset |-> "build", prefix |-> "printer", auth |-> "printer"]

Channels == {"status", "build", "auth", "printer"}

ReaderOf(ch) == CHOOSE s \in Stages : In[s] = ch

\* A message is its sender and its number.
None == <<"none", 0>>

Messages == ({"status"} \X (1..MaxStatus)) \cup (Handlers \X (1..2))

VARIABLES
  main,              \* starting, waiting in eg.Wait, returned
  builder,           \* idle, calling c.Build, closing, returned
  waiter,            \* returned?
  groupErr,          \* the first error of the errgroup
  failed,            \* did the start or the build fail?
  delivered,         \* the number of statuses received from the daemon
  pending,           \* the one c.Build is sending
  left,              \* handler -> its messages to send; -1 before it is called
  open,              \* the channels not closed
  live,              \* the forwarding goroutines that have not returned
  held,              \* stage -> the message it is sending on, or None
  shown,             \* what the display has been updated with
  displayed,         \* the display has returned: pw.Done() is closed
  panicked           \* a message was sent on a closed channel: the process is gone

progress == <<open, live, held, shown, displayed, panicked>>

build == <<builder, failed, delivered, pending, left>>

group == <<main, waiter, groupErr>>

runVars == <<group, build, progress>>

RunInit ==
  /\ main = "starting" /\ builder = "idle" /\ waiter = FALSE
  /\ groupErr = FALSE /\ failed = FALSE
  /\ delivered = 0 /\ pending = None /\ left = [h \in Handlers |-> -1]
  /\ open = {} /\ live = {} /\ held = [s \in Stages |-> None]
  /\ shown = <<>> /\ displayed = FALSE /\ panicked = FALSE

-----------------------------------------------------------------------------

\* The process is there: nothing moves when it has panicked or run has returned.
Running == ~panicked /\ main # "returned"

\* The file, the daemon or an option is no good: run returns before it starts anything.
FailToStart ==
  /\ Running
  /\ main = "starting"
  /\ main' = "returned" /\ groupErr' = TRUE /\ failed' = TRUE
  /\ UNCHANGED <<waiter, builder, delivered, pending, left, progress>>

\* The printer, the writer of the logger and the two goroutines of the group.
Start ==
  /\ Running
  /\ main = "starting"
  /\ main' = "waiting" /\ builder' = "ready"
  /\ open' = Channels /\ live' = {"auth"}
  /\ UNCHANGED <<waiter, groupErr, failed, delivered, pending, left,
                 held, shown, displayed, panicked>>

\* The arguments of c.Build start the other two forwarders.
CallBuild ==
  /\ Running
  /\ builder = "ready"
  /\ builder' = "calling" /\ live' = live \cup {"prefix", "reset"}
  /\ UNCHANGED <<group, failed, delivered, pending, left,
                 open, held, shown, displayed, panicked>>

\* msg goes to the goroutine that waits for it, from one that holds it (or none).
Send(ch, msg, from) ==
  LET sent == IF from \in Stages THEN [held EXCEPT ![from] = None] ELSE held
  IN  \/ /\ ch \notin open
         /\ panicked' = TRUE
         /\ UNCHANGED <<held, shown>>
      \/ /\ ch \in open /\ ch = "printer" /\ ~displayed
         /\ shown' = Append(shown, msg) /\ held' = sent
         /\ UNCHANGED panicked
      \/ /\ ch \in open /\ ch # "printer"
         /\ ReaderOf(ch) \in live /\ held[ReaderOf(ch)] = None
         /\ held' = [sent EXCEPT ![ReaderOf(ch)] = msg]
         /\ UNCHANGED <<shown, panicked>>

ReceiveStatus ==
  /\ Running
  /\ builder = "calling" /\ pending = None /\ delivered < MaxStatus
  /\ delivered' = delivered + 1 /\ pending' = <<"status", delivered + 1>>
  /\ UNCHANGED <<group, builder, failed, left, progress>>

SendStatus ==
  /\ Running
  /\ pending # None
  /\ Send("status", pending, "build")
  /\ pending' = None
  /\ UNCHANGED <<group, builder, failed, delivered, left, open, live, displayed>>

\* The daemon asks for a token through the session of the build.
CallHandler(h) ==
  /\ Running
  /\ builder = "calling" /\ left[h] = -1
  /\ left' = [left EXCEPT ![h] = 2]
  /\ UNCHANGED <<group, builder, failed, delivered, pending, progress>>

\* The logger says that it starts and that it is done.  Closing the session stops
\* the server, which does not wait for its handlers.
Log(h) ==
  /\ Running
  /\ left[h] > 0
  /\ Send("auth", <<h, 3 - left[h]>>, "build")
  /\ left' = [left EXCEPT ![h] = @ - 1]
  /\ UNCHANGED <<group, builder, failed, delivered, pending, open, live, displayed>>

\* c.Build returns, well, failed or interrupted, once its statuses are sent, and
\* closes their channel.
BuildEnds ==
  /\ Running
  /\ builder = "calling" /\ pending = None
  /\ failed' \in BOOLEAN
  /\ builder' = "closing" /\ open' = open \ {"status"}
  /\ UNCHANGED <<group, delivered, pending, left, live, held, shown, displayed, panicked>>

\* Mutant of CloseWriters: the writers are not closed.
CloseWriters_Not ==
  /\ Running
  /\ builder = "closing"
  /\ builder' = "returned" /\ groupErr' = failed
  /\ UNCHANGED <<main, waiter, failed, delivered, pending, left, progress>>

\* The deferred function of the first goroutine.
CloseWriters ==
  /\ Running
  /\ builder = "closing"
  /\ builder' = "returned" /\ open' = open \ {"auth"} /\ groupErr' = failed
  /\ UNCHANGED <<main, waiter, failed, delivered, pending, left,
                 live, held, shown, displayed, panicked>>

-----------------------------------------------------------------------------
(* The progress writers.                                                    *)

Forward(s) ==
  /\ Running
  /\ held[s] # None
  /\ Send(Out[s], held[s], s)
  /\ UNCHANGED <<group, build, open, live, displayed>>

\* Mutant of StageEnds: what a closed channel gives is forwarded, a zero value.
StageEnds_Zero(s) ==
  /\ Running
  /\ s \in live /\ held[s] = None /\ In[s] \notin open
  /\ Send(Out[s], None, s)
  /\ UNCHANGED <<group, build, open, live, displayed>>

\* A forwarder ends with its channel; reset closes the next one.
StageEnds(s) ==
  /\ Running
  /\ s \in live /\ held[s] = None /\ In[s] \notin open
  /\ live' = live \ {s}
  /\ open' = IF s = "reset" THEN open \ {"build"} ELSE open
  /\ UNCHANGED <<group, build, held, shown, displayed, panicked>>

\* Mutant of ClosePrinter: the first of the writers to end closes it.
ClosePrinter_First ==
  /\ Running
  /\ main = "waiting" /\ "printer" \in open
  /\ ~({"auth", "prefix"} \subseteq live) /\ builder \in {"closing", "returned"}
  /\ open' = open \ {"printer"}
  /\ UNCHANGED <<group, build, live, held, shown, displayed, panicked>>

\* The goroutine of the multi writer: those that have been added have ended.
ClosePrinter ==
  /\ Running
  /\ main = "waiting" /\ "printer" \in open
  /\ live \cap {"auth", "prefix"} = {}
  /\ open' = open \ {"printer"}
  /\ UNCHANGED <<group, build, live, held, shown, displayed, panicked>>

DisplayEnds ==
  /\ Running
  /\ main = "waiting" /\ "printer" \notin open /\ ~displayed
  /\ displayed' = TRUE
  /\ UNCHANGED <<group, build, open, live, held, shown, panicked>>

\* Mutant of Wait: the second goroutine does not wait for the display.
Wait_Not ==
  /\ Running
  /\ main = "waiting" /\ ~waiter
  /\ waiter' = TRUE
  /\ UNCHANGED <<main, groupErr, build, progress>>

\* The second goroutine: the display has no error of its own.
Wait ==
  /\ Running
  /\ main = "waiting" /\ displayed /\ ~waiter
  /\ waiter' = TRUE
  /\ UNCHANGED <<main, groupErr, build, progress>>

Return ==
  /\ Running
  /\ main = "waiting" /\ waiter /\ builder = "returned"
  /\ main' = "returned"
  /\ UNCHANGED <<waiter, groupErr, build, progress>>

RunNext ==
  \/ FailToStart \/ Start \/ CallBuild
  \/ ReceiveStatus \/ SendStatus \/ BuildEnds \/ CloseWriters
  \/ \E h \in Handlers : CallHandler(h) \/ Log(h)
  \/ \E s \in Stages : Forward(s) \/ StageEnds(s)
  \/ ClosePrinter \/ DisplayEnds \/ Wait \/ Return

\* Goroutines are run while one can, and the daemon ends a build or is interrupted.
RunSpec == RunInit /\ [][RunNext]_runVars /\ WF_runVars(RunNext)

-----------------------------------------------------------------------------

\* The messages a sender has got rid of: from the daemon, or from a handler.
Handed(sender) ==
  IF sender = "status" THEN delivered
  ELSE IF left[sender] = -1 THEN 0 ELSE 2 - left[sender]

\* TYPE INVARIANT.
RunTypeOK ==
  /\ main \in {"starting", "waiting", "returned"}
  /\ builder \in {"idle", "ready", "calling", "closing", "returned"}
  /\ {waiter, groupErr, failed, displayed, panicked} \subseteq BOOLEAN
  /\ delivered \in 0..MaxStatus /\ pending \in Messages \cup {None}
  /\ left \in [Handlers -> -1..2]
  /\ open \subseteq Channels /\ live \subseteq Stages
  /\ held \in [Stages -> Messages \cup {None}]
  /\ ToSet(shown) \subseteq Messages

\* ALL IS SHOWN IN ORDER.  When run returns, every status received from the daemon
\* and every message a handler has got rid of has been on the display, those of
\* one sender in their order, and the error is that of the build.
AllShown ==
  main = "returned" =>
    /\ ToSet(shown) = {m \in Messages : m[2] <= Handed(m[1])}
    /\ \A i, j \in DOMAIN shown :
         i < j /\ shown[i][1] = shown[j][1] => shown[i][2] < shown[j][2]
    /\ groupErr = failed

\* THE DISPLAY IS LAST.  No forwarder is there any more when the display has
\* ended, so that none has to give up a message because there is no display, and
\* no forwarder and no status of the build finds its channel closed: what ends the
\* process is only ever a handler that still logs when the build has returned.
DisplayIsLast ==
  /\ displayed => live = {}
  /\ \A s \in Stages : held[s] # None => Out[s] \in open
  /\ pending # None => "status" \in open
  /\ panicked => builder = "returned" /\ \E h \in Handlers : left[h] \in {0, 1}

\* RUN ENDS.  However the build ends, run returns, unless the process is gone.
RunEnds == <>(main = "returned" \/ panicked)

=============================================================================

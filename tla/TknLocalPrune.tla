---------------------------- MODULE TknLocalPrune ----------------------------
(***************************************************************************)
(* tkn-local prune: the records the daemon removes go over an unbuffered    *)
(* channel to a goroutine that prints them.  Nothing waits for that         *)
(* goroutine: the process ends when prune returns.                          *)
(***************************************************************************)
EXTENDS Integers, SequencesExt

CONSTANT MaxRecords     \* bound: records a prune removes

ASSUME PruneAssumption == MaxRecords \in Nat

Record == 1..MaxRecords

Header == 0

VARIABLES
  pruner,            \* connecting, receiving, sending, closing, returned
  failure,            \* there was no client, or the stream of the daemon ended badly
  err,               \* prune returns an error
  removed,           \* the number of records received from the daemon
  channel,           \* open or closed
  printer,           \* waiting, printing, ended
  printing,          \* the record it has taken, 0 when none
  first,             \* no row has been printed yet
  verbose,           \* --verbose: a block for a record, and no header
  output             \* the header and the records printed

printerVars == <<printer, printing, first, output>>

pruneVars == <<pruner, failure, err, removed, channel, printerVars, verbose>>

PruneInit ==
  /\ pruner = "connecting" /\ failure = FALSE /\ err = FALSE /\ removed = 0
  /\ channel = "open" /\ printer = "waiting" /\ printing = 0
  /\ first = TRUE /\ verbose \in BOOLEAN /\ output = <<>>

Connect ==
  /\ pruner = "connecting"
  /\ \/ pruner' = "receiving" /\ UNCHANGED <<failure, err>>
     \/ pruner' = "returned" /\ failure' = TRUE /\ err' = TRUE
  /\ UNCHANGED <<removed, channel, printerVars, verbose>>

Receive ==
  /\ pruner = "receiving" /\ removed < MaxRecords
  /\ removed' = removed + 1 /\ pruner' = "sending"
  /\ UNCHANGED <<failure, err, channel, printerVars, verbose>>

\* Mutant of SendRecord: a channel with room for a record.
SendRecord_Buffered ==
  /\ pruner = "sending"
  /\ pruner' = "receiving"
  /\ IF printer = "waiting" THEN printer' = "printing" /\ printing' = removed
     ELSE UNCHANGED <<printer, printing>>
  /\ UNCHANGED <<failure, err, removed, channel, first, output, verbose>>

\* The record goes from one goroutine to the other.
SendRecord ==
  /\ pruner = "sending" /\ printer = "waiting"
  /\ pruner' = "receiving" /\ printer' = "printing" /\ printing' = removed
  /\ UNCHANGED <<failure, err, removed, channel, first, output, verbose>>

\* Mutant of PrintRow: the printer prints one record and is done.
PrintRow_Once ==
  /\ pruner # "returned" /\ printer = "printing"
  /\ output' = output \o (IF first /\ ~verbose THEN <<Header>> ELSE <<>>) \o <<printing>>
  /\ first' = (first /\ verbose) /\ printer' = "ended" /\ printing' = 0
  /\ UNCHANGED <<pruner, failure, err, removed, channel, verbose>>

\* A row is printed with the header before the first one, and flushed.
PrintRow ==
  /\ pruner # "returned" /\ printer = "printing"
  /\ output' = output \o (IF first /\ ~verbose THEN <<Header>> ELSE <<>>) \o <<printing>>
  /\ first' = (first /\ verbose) /\ printer' = "waiting" /\ printing' = 0
  /\ UNCHANGED <<pruner, failure, err, removed, channel, verbose>>

\* The stream of the daemon ends, well or not.
StreamEnds ==
  /\ pruner = "receiving"
  /\ pruner' = "closing" /\ channel' = "closed" /\ failure' \in BOOLEAN
  /\ UNCHANGED <<err, removed, printerVars, verbose>>

\* Mutant of PrinterEnds: it prints what a closed channel gives, a zero record.
PrinterEnds_Zero ==
  /\ pruner # "returned" /\ printer = "waiting" /\ channel = "closed"
  /\ printer' = "printing" /\ printing' = 0
  /\ UNCHANGED <<pruner, failure, err, removed, channel, first, output, verbose>>

\* The printer's loop is over when the channel is closed.
PrinterEnds ==
  /\ pruner # "returned" /\ printer = "waiting" /\ channel = "closed"
  /\ printer' = "ended"
  /\ UNCHANGED <<pruner, failure, err, removed, channel, printing, first, output, verbose>>

\* Mutant of PruneEnds: the error of the stream is dropped.
PruneEnds_Nil ==
  /\ pruner = "closing"
  /\ pruner' = "returned"
  /\ UNCHANGED <<failure, err, removed, channel, printerVars, verbose>>

\* printed is closed by the printer and read by nobody; the error is the stream's.
PruneEnds ==
  /\ pruner = "closing"
  /\ pruner' = "returned" /\ err' = failure
  /\ UNCHANGED <<failure, removed, channel, printerVars, verbose>>

PruneNext ==
  \/ Connect \/ Receive \/ SendRecord \/ StreamEnds \/ PruneEnds
  \/ PrintRow \/ PrinterEnds

PruneSpec == PruneInit /\ [][PruneNext]_pruneVars /\ WF_pruneVars(PruneNext)

-----------------------------------------------------------------------------

\* What a prune of so many records should print.
Listing == (IF verbose \/ removed = 0 THEN <<>> ELSE <<Header>>) \o [n \in 1..removed |-> n]

\* TYPE INVARIANT.
PruneTypeOK ==
  /\ pruner \in {"connecting", "receiving", "sending", "closing", "returned"}
  /\ failure \in BOOLEAN /\ err \in BOOLEAN /\ first \in BOOLEAN /\ verbose \in BOOLEAN
  /\ removed \in 0..MaxRecords /\ channel \in {"open", "closed"}
  /\ printer \in {"waiting", "printing", "ended"} /\ printing \in Record \cup {0}
  /\ printing = 0 <=> printer # "printing"

\* ALL BUT THE LAST ARE LISTED.  What has been printed when prune returns are the
\* records the daemon has removed, in their order and under one header, save
\* perhaps the last: to take one the printer must have flushed the one before.
AllButTheLast ==
  /\ IsPrefix(output, Listing)
  /\ pruner = "returned" /\ removed > 1 => IsPrefix(Front(Listing), output)

\* PRUNE RETURNS, with an error exactly when it had no client or the stream of the
\* daemon ended with one, however far the printer has got.
PruneReturns == <>[](pruner = "returned" /\ err = failure)

=============================================================================

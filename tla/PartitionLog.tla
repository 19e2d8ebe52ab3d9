--------------------------- MODULE PartitionLog ---------------------------
(***************************************************************************)
(* One partition's log at the broker, external to the repository.  It is   *)
(* modelled from what the producer relies on: a batch that carries a       *)
(* producer id is accepted only with the next sequence number of that id,  *)
(* one that was appended before is answered with its original offset       *)
(* (idempotence.rs), and an id the broker has no memory of is answered     *)
(* UNKNOWN_PRODUCER_ID or taken as new.                                    *)
(*                                                                         *)
(* A log is a sequence of batches [recs, pid, base, off]; `forgotten` is   *)
(* how many of its oldest batches the producer-id memory no longer covers. *)
(***************************************************************************)
EXTENDS Integers, Sequences, FiniteSets, SequencesExt

NoPid == 0

LogEnd(log) ==
  IF log = <<>> THEN 0 ELSE Last(log).off + Len(Last(log).recs)

\* What the broker remembers of producer id `pid`, by its place in the log.
Remembered(log, forgotten, pid) ==
  {i \in (forgotten + 1)..Len(log) : log[i].pid = pid}

Duplicates(log, forgotten, batch) ==
  {b \in {log[i] : i \in (forgotten + 1)..Len(log)} :
     b.pid = batch.pid /\ b.base = batch.base /\ Len(b.recs) = Len(batch.recs)}

IsDuplicate(log, forgotten, batch) ==
  batch.pid # NoPid /\ Duplicates(log, forgotten, batch) # {}

Known(log, forgotten, batch) ==
  Remembered(log, forgotten, batch.pid) # {}

InSequence(log, forgotten, batch) ==
  LET latest == log[Max(Remembered(log, forgotten, batch.pid))]
  IN  batch.base = latest.base + Len(latest.recs)

\* Whether the broker may append the batch, and whether it may refuse it for
\* its sequence number: both, for an unknown id that does not start at zero.
MayAppend(log, forgotten, batch) ==
  \/ batch.pid = NoPid
  \/ /\ ~IsDuplicate(log, forgotten, batch)
     /\ Known(log, forgotten, batch) => InSequence(log, forgotten, batch)

MayRefuse(log, forgotten, batch) ==
  /\ batch.pid # NoPid
  /\ ~IsDuplicate(log, forgotten, batch)
  /\ IF Known(log, forgotten, batch) THEN ~InSequence(log, forgotten, batch)
                                     ELSE batch.base # 0

Refusal(log, forgotten, batch) ==
  IF Known(log, forgotten, batch) THEN "OutOfOrder" ELSE "UnknownPid"

AppendBatch(log, batch) ==
  Append(log, [recs |-> batch.recs, pid |-> batch.pid, base |-> batch.base,
               off |-> LogEnd(log)])

\* Where the broker says a batch it accepted begins.
BaseOffset(log, forgotten, batch) ==
  IF IsDuplicate(log, forgotten, batch)
  THEN (CHOOSE b \in Duplicates(log, forgotten, batch) : TRUE).off
  ELSE LogEnd(log)

RecordsIn(log) == UNION {ToSet(log[i].recs) : i \in DOMAIN log}

\* How often a record is in the log.
Copies(log, r) ==
  Cardinality({i \in DOMAIN log : r \in ToSet(log[i].recs)})

\* The record at an offset.
IsAt(log, r, off) ==
  \E i \in DOMAIN log : LET b == log[i] IN
    /\ off - b.off \in 0..(Len(b.recs) - 1)
    /\ b.recs[off - b.off + 1] = r
=============================================================================

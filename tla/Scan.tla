-------------------------------- MODULE Scan --------------------------------
(***************************************************************************)
(* The forward scan of kafka-read/src/scan.rs: a stream that merges the    *)
(* partitions of a topic by timestamp, with a cursor and a buffer for each *)
(* and one request per leader for those that ran dry.  The log grows and   *)
(* loses its beginning while it is read.                                   *)
(***************************************************************************)
EXTENDS RecordBatch

CONSTANTS
  Partitions,     \* the partitions to scan: a set of integers
  Logs,           \* the batches each partition may hold at the beginning
  Grows,          \* batches, as sets of offsets past their base, to append
  Timestamps,     \* timestamp of every offset of every partition
  Scans,          \* the scans to run: ScanSpec, and who leads each partition
  Rejected,       \* offsets ScanSpec::filter does not match
  PartitionMax,   \* partition_max_bytes, in batches
  FetchMax,       \* fetch_max_bytes, in batches
  MaxGrowth,      \* bound on batches appended while the scan runs
  MaxDeletes,     \* bound on deletions at the beginning of a log
  MaxFailures     \* bound on requests that fail

ASSUME ScanAssumption ==
  /\ Partitions \subseteq Nat /\ IsFiniteSet(Partitions)
  /\ PartitionMax \in Nat \ {0} /\ FetchMax \in Nat \ {0}
  /\ \A s \in Scans :
       /\ s.ceiling \in Nat \ {0} /\ s.limit \in Nat /\ s.follow \in BOOLEAN
       /\ s.visibility \in {"All", "CommittedOnly"}
       /\ s.from.kind \in {"Earliest", "Latest", "Offset", "Timestamp"} /\ s.from.at \in Nat
  /\ \A p \in Partitions :
       /\ \A l \in Logs[p] :
            IsLog(l) /\ \A i \in DOMAIN l : l[i].offs \subseteq DOMAIN Timestamps[p]
       /\ \A o \in DOMAIN Timestamps[p] : o \in Nat /\ Timestamps[p][o] \in Nat
  /\ \A offs \in Grows : offs \subseteq Nat /\ IsFiniteSet(offs) /\ offs # {}

VARIABLES
  log,       \* per partition: its batches, its first offset and, history, whether
             \* no compaction took the end of any batch it ever held
  scan,      \* from, limit (0 for none), follow, visibility, ceiling, leader
  cursors,   \* PartitionCursor of each partition
  pc,        \* "refill", "fetch", "emit", "done", "failed"; "off" without a scan
  targets,   \* the requests of this refill still to make, per leader
  events,    \* history: what the stream yielded, in order
  completed, \* partitions announced with PartitionComplete
  window,    \* ScanProgress::reorder_window
  starved,   \* history: partitions whose records did not fit an answer
  faults     \* appends, deletions and failures so far

scanVars == <<log, scan, cursors, pc, targets, events, completed, window, starved, faults>>

Larger(x, y) == IF x < y THEN y ELSE x
Smaller(x, y) == IF x < y THEN x ELSE y

high_watermark(p) == LogEnd(log[p].batches)
end_for(p, visibility) == EndFor(log[p].batches, visibility)

-----------------------------------------------------------------------------
(* Planning *)

Latest == "Latest"
Earliest == "Earliest"

(* bounds: the first offset retained and the one after the last. *)
bounds(l) == [earliest |-> l.start, latest |-> Larger(LogEnd(l.batches), l.start)]

(* at_timestamp: the first retained record at or after an instant, or None.  *)
None == -1
at_timestamp(p, l, instant) ==
  LET later == { o \in UNION { b.offs : b \in ToSet(l.batches) } :
                   o >= l.start /\ Timestamps[p][o] >= instant }
  IN IF later = {} THEN None ELSE CHOOSE o \in later : \A q \in later : o <= q

(* Where an explicit offset lands in the log. *)
resolve_offset_start(requested, earliest, latest) ==
  Smaller(Larger(requested, earliest), latest)

StartOf(p, l, from) ==
  LET b == bounds(l)
      found == at_timestamp(p, l, from.at)
  IN CASE from.kind = Earliest -> b.earliest
       [] from.kind = Latest   -> b.latest
       [] from.kind = "Offset" -> resolve_offset_start(from.at, b.earliest, b.latest)
       [] from.kind = "Timestamp" -> IF found = None THEN b.latest ELSE found

plan(p, l, from, follow) ==
  LET start == StartOf(p, l, from)
      latest == bounds(l).latest
  IN [next |-> start, end |-> latest, start |-> start,
      finished |-> start >= latest /\ ~follow, buffered |-> <<>>]

(* The last offset of every batch is that of a record. *)
TailsIntact(batches) ==
  \A i \in DOMAIN batches :
    LET b == batches[i] IN b.health = "ok" /\ ~b.control => b.last \in b.offs

LogInit ==
  /\ \E l \in [Partitions -> UNION { Logs[p] : p \in Partitions }] :
       /\ \A p \in Partitions : l[p] \in Logs[p]
       /\ log = [p \in Partitions |->
            [batches |-> l[p], start |-> 0, whole |-> TailsIntact(l[p])]]
  /\ faults = [growth |-> 0, deletes |-> 0, failures |-> 0]

NoScan == [follow |-> FALSE]

ScanInit ==
  /\ LogInit
  /\ scan \in Scans
  /\ cursors = [p \in Partitions |-> plan(p, log[p], scan.from, scan.follow)]
  /\ pc = "refill" /\ targets = <<>> /\ events = <<>>
  /\ completed = {} /\ window = 0 /\ starved = {}

-----------------------------------------------------------------------------
(* Reading *)

exhausted(c) == c.finished \/ c.next >= c.end
buffered_total == LET size(n, p) == n + Len(cursors[p].buffered)
                  IN FoldLeft(size, 0, Ascending(Partitions))
records_emitted == Cardinality({ i \in DOMAIN events : events[i].ok })
limit_reached == scan.limit > 0 /\ records_emitted >= scan.limit
all_exhausted(cs) ==
  ~scan.follow /\ \A p \in Partitions : exhausted(cs[p]) /\ cs[p].buffered = <<>>

should_fetch(behind, follow, idle) == behind \/ (follow /\ idle)

(* note_ordering_degraded *)
reorder_window(budget, merging) == IF merging <= 1 THEN 0 ELSE budget \div merging
Degraded ==
  Larger(window, reorder_window(scan.ceiling,
    Cardinality({ p \in Partitions :
                    ~(exhausted(cursors[p]) /\ cursors[p].buffered = <<>>) })))

(* The head of refill: the requests to make, by leader. *)
Dry == { p \in Partitions :
           /\ cursors[p].buffered = <<>>
           /\ should_fetch(~exhausted(cursors[p]), scan.follow, buffered_total = 0) }

StartRefill ==
  /\ pc = "refill"
  /\ \/ /\ limit_reached /\ pc' = "done"
        /\ UNCHANGED <<targets, window>>
     \/ /\ ~limit_reached /\ buffered_total >= scan.ceiling
        /\ window' = Degraded /\ pc' = "emit" /\ UNCHANGED targets
     \/ /\ ~limit_reached /\ buffered_total < scan.ceiling
        /\ LET leaders == { scan.leader[p] : p \in Dry }
           IN /\ targets' = [b \in leaders |-> { p \in Dry : scan.leader[p] = b }]
              /\ pc' = IF leaders = {} THEN "emit" ELSE "fetch"
        /\ UNCHANGED window
  /\ UNCHANGED <<log, scan, cursors, events, completed, starved, faults>>

(* What a leader answers: the partitions share fetch_max_bytes, in the order *)
(* of the request, and one that finds nothing left gets no records.          *)
Share(acc, p) ==
  LET answer == Answer(log[p].batches, cursors[p].next, end_for(p, scan.visibility),
                       Smaller(PartitionMax, acc.left))
  IN [left |-> acc.left - Len(answer.sent), of |-> Append(acc.of, answer)]
Answers(asked) == FoldLeft(Share, [left |-> FetchMax, of |-> <<>>], asked).of

(* Where a cursor resumes after an answer that held something. *)
Advance(c, outcomes) == Larger(last_offset(Last(outcomes)) + 1, c.next + 1)

(* Of an answer that begins before the scan does, what it keeps. *)
Take(c, outcomes) ==
  LET kept == Ascending({ i \in DOMAIN outcomes :
                            ~outcomes[i].ok \/ outcomes[i].offset >= c.start })
  IN [i \in DOMAIN kept |-> outcomes[kept[i]]]

StepPast_Not(c) == c

(* An answer of markers or hidden records only moves the cursor by one. *)
StepPast(c) == [c EXCEPT !.next = @ + 1]

TooLarge == [too_large |-> TRUE]

(* A cursor after its partition's part of an answer. *)
Fill(p, answer) ==
  LET c == [cursors[p] EXCEPT !.end  = Larger(@, end_for(p, scan.visibility)),
                              !.next = Larger(@, log[p].start)]
      d == decode_partition(answer, scan.visibility)
  IN IF d.outcomes # <<>>
       THEN [c EXCEPT !.next = Advance(c, d.outcomes),
                      !.buffered = @ \o Take(c, d.outcomes)]
     ELSE IF d.control > 0 \/ d.hidden > 0 THEN StepPast(c)
     ELSE IF d.truncated THEN TooLarge
     ELSE [c EXCEPT !.finished = ~scan.follow]

FetchFrom(leader) ==
  LET asked   == Ascending(targets[leader])
      answers == Answers(asked)
      filled  == [i \in DOMAIN asked |-> Fill(asked[i], answers[i])]
      place(p) == CHOOSE i \in DOMAIN asked : asked[i] = p
  IN /\ pc = "fetch" /\ leader \in DOMAIN targets
     /\ IF \/ \E p \in targets[leader] : cursors[p].next < log[p].start
           \/ \E i \in DOMAIN asked : filled[i] = TooLarge
          THEN pc' = "failed" /\ UNCHANGED <<cursors, targets, starved>>
          ELSE /\ cursors' = [p \in Partitions |->
                    IF p \in targets[leader] THEN filled[place(p)] ELSE cursors[p]]
               /\ targets' = [b \in DOMAIN targets \ {leader} |-> targets[b]]
               /\ pc' = IF DOMAIN targets = {leader} THEN "emit" ELSE "fetch"
               /\ starved' = starved \cup
                    { p \in targets[leader] : answers[place(p)].sent = <<>>
                        /\ cursors[p].next < end_for(p, scan.visibility) }
     /\ UNCHANGED <<log, scan, events, completed, window, faults>>

(* A request that fails ends the stream with its error. *)
FetchFails ==
  /\ pc = "fetch" /\ faults.failures < MaxFailures
  /\ pc' = "failed" /\ faults' = [faults EXCEPT !.failures = @ + 1]
  /\ UNCHANGED <<log, scan, cursors, targets, events, completed, window, starved>>

-----------------------------------------------------------------------------
(* Emitting *)

head_timestamp(p) ==
  LET o == Head(cursors[p].buffered) IN IF o.ok THEN Timestamps[p][o.offset] ELSE -1

waiting_on_empty_partition ==
  \E p \in Partitions : ~exhausted(cursors[p]) /\ cursors[p].buffered = <<>>

(* min_by_key over the cursors that have something buffered. *)
Choice == CHOOSE p \in Partitions :
  /\ cursors[p].buffered # <<>>
  /\ \A q \in Partitions : cursors[q].buffered # <<>> =>
       \/ head_timestamp(p) < head_timestamp(q)
       \/ head_timestamp(p) = head_timestamp(q) /\ p <= q

(* Ordering is exact only while every unfinished partition is represented. *)
MayEmit ==
  /\ ~waiting_on_empty_partition \/ buffered_total >= scan.ceiling
  /\ \E p \in Partitions : cursors[p].buffered # <<>>

(* emit_next, with what next_event does when it yields nothing; the events   *)
(* it queues are yielded before anything else happens.                       *)
EmitNext ==
  /\ pc = "emit"
  /\ window' = IF waiting_on_empty_partition /\ buffered_total >= scan.ceiling
               THEN Degraded ELSE window
  /\ IF ~MayEmit
       THEN /\ pc' = IF all_exhausted(cursors) THEN "done" ELSE "refill"
            /\ UNCHANGED <<cursors, events, completed>>
       ELSE LET p == Choice
                o == Head(cursors[p].buffered)
                c == [cursors[p] EXCEPT !.buffered = Tail(@)]
                matches == ~(o.ok /\ o.offset \in Rejected)
                drained == exhausted(c) /\ c.buffered = <<>> /\ ~scan.follow
            IN /\ cursors' = [cursors EXCEPT ![p] = c]
               /\ events' = IF matches
                            THEN Append(events, [p |-> p, o |-> o.offset, ok |-> o.ok])
                            ELSE events
               /\ completed' = IF drained THEN completed \cup {p} ELSE completed
               /\ pc' = IF ~matches /\ ~drained /\ all_exhausted(cursors')
                        THEN "done" ELSE "refill"
  /\ UNCHANGED <<log, scan, targets, starved, faults>>

-----------------------------------------------------------------------------
(* The log while it is scanned *)

Grow(p) ==
  /\ faults.growth < MaxGrowth /\ pc \notin {"done", "failed"}
  /\ \E offs \in Grows :
       LET base == high_watermark(p)
       IN /\ \A o \in offs : base + o \in DOMAIN Timestamps[p]
          /\ log' = [log EXCEPT ![p].batches =
               Append(@, Plain(base, base + CHOOSE m \in offs : \A o \in offs : o <= m,
                               { base + o : o \in offs }))]
  /\ faults' = [faults EXCEPT !.growth = @ + 1]
  /\ UNCHANGED <<scan, cursors, pc, targets, events, completed, window, starved>>

(* DeleteRecords, or retention: the log loses its first batch, which holds   *)
(* no record of an open transaction.                                         *)
DeleteFirst(p) ==
  /\ faults.deletes < MaxDeletes /\ pc \notin {"done", "failed"}
  /\ log[p].batches # <<>> /\ Head(log[p].batches).last < LastStable(log[p].batches)
  /\ log' = [log EXCEPT ![p].start = Head(log[p].batches).last + 1,
                        ![p].batches = IF Len(@) > 1 THEN Tail(@) ELSE @]
  /\ log'[p].start # log[p].start
  /\ faults' = [faults EXCEPT !.deletes = @ + 1]
  /\ UNCHANGED <<scan, cursors, pc, targets, events, completed, window, starved>>

ScanStep == StartRefill \/ (\E b \in DOMAIN targets : FetchFrom(b)) \/ EmitNext
ScanRests == pc \in {"done", "failed"} /\ UNCHANGED scanVars
ScanNext ==
  \/ ScanStep \/ FetchFails \/ ScanRests
  \/ \E p \in Partitions : Grow(p) \/ DeleteFirst(p)

(* The stream is polled for as long as it has something to say: weak         *)
(* fairness of ScanStep, which is enabled unless the stream has ended.       *)
Polled == []<>(pc \in {"off", "done", "failed"}) \/ []<><<ScanStep>>_scanVars

-----------------------------------------------------------------------------
(* Properties *)

(* Within a partition records come in log order and each of them once        *)
(* (scan.rs, module comment: "exact log order, always"), wherever the scan   *)
(* starts and whatever lies between the records.  Only where compaction took *)
(* the end of a batch may a record be repeated.                              *)
LogOrder ==
  \A i, j \in DOMAIN events :
    /\ i < j /\ events[i].ok /\ events[j].ok /\ events[i].p = events[j].p
    /\ log[events[i].p].whole
    => events[i].o < events[j].o

(* Nothing is invented: what is yielded is a record of the log, at or after  *)
(* the start, that the chosen visibility lets through.                       *)
NothingHidden ==
  faults.deletes = 0 =>
    \A i \in DOMAIN events : LET e == events[i] IN e.ok =>
      /\ e.o \in VisibleOffsets(log[e.p].batches, scan.visibility)
      /\ e.o >= cursors[e.p].start /\ e.o \notin Rejected

Yielded(p, o) == \E i \in DOMAIN events : events[i].ok /\ events[i].p = p /\ events[i].o = o

(* The offsets a scan is to cover: from its start to the end it last heard   *)
(* of, short of a transaction that is still open, as far as they are there.  *)
Due(p, o) ==
  /\ cursors[p].start <= o /\ o < cursors[p].end
  /\ o < end_for(p, scan.visibility) /\ log[p].start <= o

(* A scan that ends without an error or a limit has yielded every visible    *)
(* record that was there when it began, unless an answer had no room left    *)
(* for a partition (Fill takes an answer without records for the end).       *)
WholeWindow ==
  pc = "done" /\ ~limit_reached =>
    \A p \in Partitions \ starved :
      \A o \in VisibleOffsets(log[p].batches, scan.visibility) \ Rejected :
        Due(p, o) => Yielded(p, o)

(* The same without the exception, as the scan's documentation has it. *)
EveryRecordScanned ==
  pc = "done" /\ ~limit_reached =>
    \A p \in Partitions :
      \A o \in VisibleOffsets(log[p].batches, scan.visibility) \ Rejected :
        Due(p, o) => Yielded(p, o)

Chronological(p) ==
  \A o, q \in DOMAIN Timestamps[p] : o < q => Timestamps[p][o] <= Timestamps[p][q]

(* A reorder window of 0 promises timestamp order across partitions whose    *)
(* own timestamps rise, for a scan that does not follow.  It needs a ceiling *)
(* of one record a partition: the division in reorder_window rounds a        *)
(* smaller one down to 0.                                                    *)
MergeOrder ==
  pc # "off" /\ window = 0 /\ ~scan.follow /\ scan.ceiling >= Cardinality(Partitions) =>
    \A i, j \in DOMAIN events :
      /\ i < j /\ events[i].ok /\ events[j].ok /\ events[i].p # events[j].p
      /\ log[events[j].p].whole /\ Chronological(events[j].p)
      => Timestamps[events[i].p][events[i].o] <= Timestamps[events[j].p][events[j].o]

(* A scan that does not follow ends: damaged batches, markers, hidden and    *)
(* compacted records never hold it, and neither does a full buffer.          *)
ScanEnds == <>(scan.follow \/ pc \in {"off", "done", "failed"})

(* A scan that follows catches up with the log once the log stops growing,   *)
(* as far as its transactions are decided, and goes on.                      *)
TailFollows ==
  <>[](scan.follow /\ pc \notin {"done", "failed"} =>
         \A p \in Partitions :
           \A o \in VisibleOffsets(log[p].batches, scan.visibility) \ Rejected :
             Due(p, o) => Yielded(p, o))
=============================================================================

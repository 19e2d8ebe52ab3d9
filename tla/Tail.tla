-------------------------------- MODULE Tail --------------------------------
(***************************************************************************)
(* The backward reader of kafka-read/src/backward.rs: the last `limit`     *)
(* records of a topic, by a walk down every partition in windows, with the *)
(* limit shared out in rounds among the partitions that can still yield.   *)
(* The log is that of Scan, and changes under the walk as it does there.   *)
(***************************************************************************)
EXTENDS Scan

CONSTANTS
  Tails,         \* the calls to make: TailSpec
  MinFirstStep   \* the least first step when none is set, 64 offsets

ASSUME TailAssumption ==
  /\ MinFirstStep \in Nat
  /\ \A t \in Tails :
       /\ t.limit \in Nat \ {0} /\ t.initial_step \in Nat /\ t.max_step \in Nat \ {0}
       /\ t.anchor.kind \in {"LogEnd", "Offset", "Timestamp"} /\ t.anchor.at \in Int

VARIABLES
  tail,    \* the call: at, its TailSpec, the open walks of the round, the share
  walks,   \* Walk of each partition
  chunk,   \* read_window in progress: partition, start, offset, records
  passed   \* history: partitions where a window was given up before its end

tailVars == <<tail, walks, chunk, passed>>
readerVars == <<scanVars, tailVars>>

NoChunk == [p |-> None, start |-> 0, offset |-> 0, records |-> <<>>]
NoTail == [at |-> "off"]

-----------------------------------------------------------------------------
(* Phase 1: bounds, anchors, the first step *)

clamp(x, low, high) == Smaller(Larger(x, low), high)
clamp_bound(bound, b) == clamp(bound, b.earliest, b.latest)
timestamp_probe(millis) == Larger(millis + 1, 0)

(* The exclusive upper bound a walk starts from. *)
resolve_anchor(p, l, anchor) ==
  LET found == at_timestamp(p, l, timestamp_probe(anchor.at))
  IN CASE anchor.kind = "LogEnd" -> bounds(l).latest
       [] anchor.kind = "Offset" -> clamp_bound(anchor.at + 1, bounds(l))
       [] anchor.kind = "Timestamp" ->
            IF found = None THEN bounds(l).latest ELSE clamp_bound(found, bounds(l))

has_more(w) == w.window_end > w.log_start
kept(w) == Smaller(Len(w.collected), w.target)
can_yield_more(w) == has_more(w) \/ Len(w.collected) > w.target
KeptTotal(ws) == FoldLeft(LAMBDA n, p : n + kept(ws[p]), 0, Ascending(Partitions))

div_ceil(x, y) == (x + y - 1) \div y
first_step(t, holding) ==
  IF t.initial_step > 0 THEN t.initial_step
  ELSE Larger(2 * div_ceil(t.limit, Larger(holding, 1)), MinFirstStep)

NewWalk(p, t) ==
  LET top == resolve_anchor(p, log[p], t.anchor)
  IN [log_start |-> bounds(log[p]).earliest, log_end |-> bounds(log[p]).latest,
      window_end |-> top, step |-> 1, collected |-> <<>>, target |-> 0, trimmed |-> FALSE]

TailInit ==
  /\ \E t \in Tails :
       LET fresh == [p \in Partitions |-> NewWalk(p, t)]
           holding == Cardinality({ p \in Partitions : has_more(fresh[p]) })
           step == clamp(first_step(t, holding), 1, t.max_step)
       IN /\ tail = [at |-> "round", spec |-> t, open |-> <<>>, share |-> 0]
          /\ walks = [p \in Partitions |-> [fresh[p] EXCEPT !.step = step]]
  /\ chunk = NoChunk /\ passed = {}

-----------------------------------------------------------------------------
(* Phase 2: rounds of shares *)

(* Drop over-collection: the oldest records. *)
trim_to_target(w) ==
  [w EXCEPT !.collected = SubSeq(@, Len(@) - kept(w) + 1, Len(@)),
            !.trimmed = @ \/ Len(w.collected) > w.target]

reached_log_start(w) == ~has_more(w) /\ ~w.trimmed

(* A round divides what is owed among the walks that can yield; none can, or *)
(* nothing is owed, and the call returns. *)
TailRound ==
  /\ tail.at = "round"
  /\ LET open == { p \in Partitions : can_yield_more(walks[p]) }
         owed == tail.spec.limit - KeptTotal(walks)
     IN IF owed <= 0 \/ open = {}
          THEN /\ tail' = [tail EXCEPT !.at = "done"]
               /\ walks' = [p \in Partitions |-> trim_to_target(walks[p])]
          ELSE /\ tail' = [tail EXCEPT !.at = "grant", !.open = Ascending(open),
                                       !.share = div_ceil(owed, Cardinality(open))]
               /\ UNCHANGED walks
  /\ UNCHANGED <<chunk, passed>>

Grant_Share(share, deficit) == share
Grant(share, deficit) == Smaller(share, deficit)

(* The next walk of the round is granted its share, capped by the deficit.   *)
TailGrant ==
  /\ tail.at = "grant"
  /\ LET deficit == tail.spec.limit - KeptTotal(walks)
     IN IF tail.open = <<>> \/ deficit <= 0
          THEN tail' = [tail EXCEPT !.at = "round"] /\ UNCHANGED walks
          ELSE /\ tail' = [tail EXCEPT !.at = "walk"]
               /\ walks' = [walks EXCEPT ![Head(tail.open)].target =
                                @ + Grant(tail.share, deficit)]
  /\ UNCHANGED <<chunk, passed>>

(* run_until: another window, or on to the next walk. *)
TailWalk ==
  /\ tail.at = "walk"
  /\ LET p == Head(tail.open)
         w == walks[p]
         start == Larger(w.window_end - w.step, w.log_start)
     IN IF Len(w.collected) < w.target /\ has_more(w)
          THEN /\ chunk' = [p |-> p, start |-> start, offset |-> start, records |-> <<>>]
               /\ tail' = [tail EXCEPT !.at = "read"]
          ELSE /\ tail' = [tail EXCEPT !.at = "grant", !.open = SubSeq(@, 2, Len(@))]
               /\ UNCHANGED chunk
  /\ UNCHANGED <<walks, passed>>

(* The step grows when a window under-delivered. *)
NextStep(w, span, yielded) ==
  LET scale == IF yielded = 0 THEN 8 ELSE clamp(span \div yielded, 2, 8)
  IN IF yielded < span \div 2 /\ Len(w.collected) + yielded < w.target
     THEN clamp(w.step * scale, 1, tail.spec.max_step) ELSE w.step

(* The walk takes what a window yielded, in front of what it has. *)
Collected(w, records) ==
  [w EXCEPT !.collected = records \o @, !.window_end = chunk.start,
            !.step = NextStep(w, Larger(w.window_end - chunk.start, 1), Len(records))]

InWindow(o, w) == o.offset >= chunk.start /\ o.offset < w.window_end

(* Of an answer, the records that the window is read for. *)
Fresh(outcomes, w) ==
  LET found == Ascending({ i \in DOMAIN outcomes :
                             /\ outcomes[i].ok /\ InWindow(outcomes[i], w)
                             /\ outcomes[i].offset \notin Rejected })
  IN [i \in DOMAIN found |-> outcomes[found[i]]]

(* One turn of read_window.  An answer with nothing in it, or one that does  *)
(* not get further, ends the window. *)
TailRead ==
  /\ tail.at = "read"
  /\ LET p == chunk.p
         w == walks[p]
         answer == Answer(log[p].batches, chunk.offset, end_for(p, tail.spec.visibility),
                          Smaller(PartitionMax, FetchMax))
         outcomes == decode_partition(answer, tail.spec.visibility).outcomes
         records == chunk.records \o Fresh(outcomes, w)
         next == last_offset(Last(outcomes)) + 1
         halts == outcomes = <<>> \/ next <= chunk.offset
     IN IF chunk.offset < log[p].start
          THEN tail' = [tail EXCEPT !.at = "failed"] /\ UNCHANGED <<walks, chunk, passed>>
        ELSE IF halts \/ next >= w.window_end
          THEN /\ walks' = [walks EXCEPT ![p] = Collected(w, records)]
               /\ tail' = [tail EXCEPT !.at = "walk"] /\ chunk' = NoChunk
               /\ passed' = IF halts THEN passed \cup {p} ELSE passed
        ELSE /\ chunk' = [chunk EXCEPT !.records = records, !.offset = next]
             /\ UNCHANGED <<tail, walks, passed>>

(* A request that fails fails the call. *)
TailFails ==
  /\ tail.at = "read" /\ faults.failures < MaxFailures
  /\ tail' = [tail EXCEPT !.at = "failed"]
  /\ faults' = [faults EXCEPT !.failures = @ + 1]
  /\ UNCHANGED <<walks, chunk, passed, log, scan, cursors, pc, targets, events,
                 completed, window, starved>>

-----------------------------------------------------------------------------
(* One reader at a time: a scan, or a tail. *)
ReaderInit ==
  \/ ScanInit /\ tail = NoTail /\ walks = <<>> /\ chunk = NoChunk /\ passed = {}
  \/ /\ LogInit /\ TailInit
     /\ scan = NoScan /\ cursors = <<>> /\ pc = "off" /\ targets = <<>> /\ events = <<>>
     /\ completed = {} /\ window = 0 /\ starved = {}

TailStep == TailRound \/ TailGrant \/ TailWalk \/ TailRead
ReaderNext ==
  \/ ScanNext /\ UNCHANGED tailVars
  \/ TailStep /\ UNCHANGED scanVars
  \/ TailFails
  \/ tail.at \in {"done", "failed"} /\ UNCHANGED readerVars

TailPolled == []<>(tail.at \in {"off", "done", "failed"}) \/ []<><<TailStep>>_tailVars
ReaderSpecification == ReaderInit /\ [][ReaderNext]_readerVars /\ Polled /\ TailPolled

-----------------------------------------------------------------------------
(* Properties *)

OffsetsOf(w) == { w.collected[i].offset : i \in DOMAIN w.collected }
AtOrBefore(p, o, anchor) ==
  CASE anchor.kind = "LogEnd" -> TRUE
    [] anchor.kind = "Offset" -> o <= anchor.at
    [] anchor.kind = "Timestamp" -> Timestamps[p][o] <= anchor.at
Wanted(p) ==
  { o \in VisibleOffsets(log[p].batches, tail.spec.visibility) \ Rejected :
      /\ o < end_for(p, tail.spec.visibility)
      /\ walks[p].log_start <= o /\ o < walks[p].log_end /\ AtOrBefore(p, o, tail.spec.anchor) }

(* What is said of a partition: no window of it was given up, no compaction  *)
(* took the end of a batch, nothing was deleted, and where the anchor is an  *)
(* instant its timestamps rise (ListOffsets names the first later record).   *)
Sound(p) ==
  /\ p \notin passed /\ log[p].whole /\ faults.deletes = 0
  /\ tail.spec.anchor.kind = "Timestamp" => Chronological(p)

(* What a finished call returns of a partition is its newest records below   *)
(* the anchor, in log order, each once and with none left out between them   *)
(* (Walk::run_until: "a record discarded mid-chunk would be skipped over on  *)
(* resume"), whatever the windows and however often the target was raised.   *)
NewestInOrder ==
  tail.at = "done" => \A p \in Partitions : Sound(p) =>
    LET w == walks[p]
    IN /\ \A i, j \in DOMAIN w.collected : i < j => w.collected[i].offset < w.collected[j].offset
       /\ OffsetsOf(w) \subseteq Wanted(p)
       /\ \A o \in Wanted(p) : (\E q \in OffsetsOf(w) : q <= o) => o \in OffsetsOf(w)

(* The limit is met when the topic has the records: never more than `limit`, *)
(* and fewer only when every partition was read out (backward.rs, phase 2:   *)
(* "up to this many, if the topic has them").                                *)
LimitMet ==
  tail.at = "done" =>
    LET total == KeptTotal(walks)
    IN /\ total <= tail.spec.limit
       /\ total < tail.spec.limit =>
            \A p \in Partitions : Sound(p) => OffsetsOf(walks[p]) = Wanted(p)

(* reached_log_start is never claimed while an older record was left behind. *)
LogStartClaim ==
  tail.at = "done" => \A p \in Partitions :
    Sound(p) /\ reached_log_start(walks[p]) => OffsetsOf(walks[p]) = Wanted(p)

(* A tail ends, whatever the log holds and however it changes. *)
TailEnds == <>(tail.at \in {"off", "done", "failed"})

(* What a forward scan yields: the visible records of its window, complete,  *)
(* in log order in a partition and in the promised order across them.        *)
ScanSound == LogOrder /\ NothingHidden /\ WholeWindow /\ MergeOrder

(* What a tail returns: the newest records, as many as were asked for, and   *)
(* an honest word on whether there are older ones.                           *)
TailSound == NewestInOrder /\ LimitMet /\ LogStartClaim

(* Reads end, and the one that follows catches up: no shape of the log, and  *)
(* no change of it, holds them.                                              *)
ReadsEnd == ScanEnds /\ TailEnds /\ TailFollows
=============================================================================

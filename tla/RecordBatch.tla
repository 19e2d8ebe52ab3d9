---------------------------- MODULE RecordBatch ----------------------------
(***************************************************************************)
(* What a fetch returns and what the client makes of it: the tolerant      *)
(* decoder of kafka-read/src/batch.rs and decompress.rs, the outcomes of   *)
(* record.rs, and, external, the log of a partition and a broker's answer. *)
(***************************************************************************)
EXTENDS Integers, Sequences, FiniteSets, SequencesExt

(* A batch spans the offsets base..last; `offs` are the offsets of the       *)
(* records it still has, which a compaction may leave anywhere in its span.  *)
(* pid 0 is no producer id.  A batch of transaction tx # 0 is hidden when    *)
(* the transaction was aborted; the batch that ends one is a control batch.  *)
(* `health`: "ok"; "corrupt", its payload does not decode; "header", it is   *)
(* no v2 header at all.                                                      *)
Plain(base, last, offs) ==
  [base |-> base, last |-> last, offs |-> offs, control |-> FALSE, pid |-> 0,
   tx |-> 0, aborted |-> FALSE, health |-> "ok"]

(* A partition: its batches, the first offset it retains, the offset after   *)
(* its last batch, and the last stable offset.                               *)
LogEnd(batches) == IF batches = <<>> THEN 0 ELSE Last(batches).last + 1
LastStable(batches) ==
  LET all  == ToSet(batches)
      open == { b.base : b \in { c \in all :
                  c.tx # 0 /\ ~\E d \in all : d.tx = c.tx /\ d.control } }
  IN IF open = {} THEN LogEnd(batches) ELSE CHOOSE x \in open : \A y \in open : x <= y

(* The usable end of a log: under read_committed the last stable offset.     *)
EndFor(batches, visibility) ==
  IF visibility = "All" THEN LogEnd(batches) ELSE LastStable(batches)

(* The elements of a set of numbers in their order. *)
Ascending(S) ==
  CHOOSE s \in [1..Cardinality(S) -> S] : \A i, j \in DOMAIN s : i < j => s[i] < s[j]

(* The logs a broker can hold: batches in the order of their offsets; the    *)
(* transactions of a producer one after another, each closed by a marker.    *)
BatchRecord ==
  [base : Nat, last : Nat, offs : SUBSET Nat, control : BOOLEAN, pid : Nat,
   tx : Nat, aborted : BOOLEAN, health : {"ok", "corrupt", "header"}]
IsBatch(b) ==
  b.base <= b.last /\ b.offs \subseteq b.base..b.last /\ (b.control \/ b.aborted => b.tx # 0)
IsLog(batches) ==
  /\ batches \in Seq(BatchRecord)
  /\ \A i \in DOMAIN batches : IsBatch(batches[i])
  /\ \A i, j \in DOMAIN batches : i < j =>
       LET b == batches[i]
           c == batches[j]
       IN /\ b.last < c.base
          /\ b.tx # 0 /\ b.tx = c.tx => b.pid = c.pid /\ b.aborted = c.aborted /\ ~b.control
          /\ b.tx # 0 /\ c.tx # 0 /\ b.tx # c.tx /\ b.pid = c.pid =>
               \E k \in i..(j - 1) : batches[k].tx = b.tx /\ batches[k].control

-----------------------------------------------------------------------------
(* The broker's side of a fetch *)

(* The transactions of the log that were aborted, with the offset of their   *)
(* first record, as far as the answer to a fetch from `from` needs them.     *)
AbortedTransactions(batches, sent, from) ==
  { [pid |-> b.pid, first |-> b.base] :
      b \in { c \in ToSet(batches) :
                /\ c.tx # 0 /\ c.aborted /\ ~c.control
                /\ \A d \in ToSet(batches) :
                     d.tx = c.tx => c.base <= d.base /\ (d.control => d.last >= from)
                /\ \E d \in ToSet(sent) : d.last >= c.base } }

(* Whole batches from the one that holds `from`, at most `budget` of them;   *)
(* `cut` says that the answer ends in the middle of the next one.            *)
Answer(batches, from, stable, budget) ==
  LET ahead == { i \in DOMAIN batches : batches[i].last >= from /\ batches[i].base < stable }
      whole == IF Max(ahead) - Min(ahead) < budget THEN Max(ahead) ELSE Min(ahead) + budget - 1
      sent  == IF ahead = {} THEN <<>> ELSE SubSeq(batches, Min(ahead), whole)
  IN [sent |-> sent, cut |-> ahead # {} /\ budget > 0 /\ whole < Max(ahead),
      aborted |-> AbortedTransactions(batches, sent, from)]

-----------------------------------------------------------------------------
(* The decoder *)

Ok(offset) == [ok |-> TRUE, offset |-> offset, last |-> offset]
Malformed(offset, last) == [ok |-> FALSE, offset |-> offset, last |-> last]
Unknown == -1

(* RecordOutcome::last_offset *)
last_offset(outcome) ==
  IF outcome.last < outcome.offset THEN outcome.offset ELSE outcome.last

NothingDecoded(spans) ==
  [outcomes |-> <<>>, control |-> 0, hidden |-> 0, broken |-> FALSE,
   spans |-> spans, producers |-> {}]

(* A wrong rule: whoever aborts in this answer hides from its beginning on.  *)
hiding_EveryAborter(acc, b) == acc.producers \cup { s.pid : s \in acc.spans }

(* The producers whose aborted span the walk is in when it reaches b.        *)
hiding(acc, b) ==
  acc.producers \cup { s.pid : s \in { t \in acc.spans : t.first <= b.base } }

(* One turn of the loop of decode_partition. *)
DecodeBatch(acc, b) ==
  LET now == [acc EXCEPT !.spans = { s \in @ : s.first > b.base },
                         !.producers = hiding(acc, b)]
      sorted == Ascending(b.offs)
  IN IF acc.broken THEN acc
     ELSE IF b.health = "header"
       THEN [acc EXCEPT !.broken = TRUE, !.outcomes = Append(@, Malformed(b.base, Unknown))]
     ELSE IF b.control
       THEN [now EXCEPT !.control = @ + 1, !.producers = @ \ {b.pid}]
     ELSE IF b.tx # 0 /\ b.pid \in now.producers
       THEN [now EXCEPT !.hidden = @ + (b.last - b.base + 1)]
     ELSE IF b.health = "corrupt"
       THEN [now EXCEPT !.outcomes = Append(@, Malformed(b.base, b.last))]
     ELSE [now EXCEPT !.outcomes = @ \o [i \in DOMAIN sorted |-> Ok(sorted[i])]]

decode_partition(answer, visibility) ==
  LET spans == IF visibility = "CommittedOnly" THEN answer.aborted ELSE {}
      acc   == FoldLeft(DecodeBatch, NothingDecoded(spans), answer.sent)
  IN [outcomes |-> acc.outcomes, control |-> acc.control, hidden |-> acc.hidden,
      truncated |-> answer.cut /\ ~acc.broken]

(* What a reader of the given visibility is to see of a log: the reference   *)
(* the decoder, the scan and the tail are compared with.                     *)
VisibleOffsets(batches, visibility) ==
  UNION { b.offs : b \in { c \in ToSet(batches) :
    ~c.control /\ c.health = "ok" /\ ~(visibility = "CommittedOnly" /\ c.aborted) } }
=============================================================================

---------------------------- MODULE Accumulator ----------------------------
(***************************************************************************)
(* The batching state of crates/kafka-produce/src/accumulator.rs and the   *)
(* steps its actor takes on it, as operators from one actor state to the   *)
(* next.  One turn of `Actor::run` is a composition of these operators;    *)
(* Producer.tla composes them into actions.                                *)
(*                                                                         *)
(* Records are numbered in the order callers hand them to `append`.  Every *)
(* record gets the same delivery_timeout, so deadlines pass in that order: *)
(* "the deadlines of records 1..k have passed" is all there is to know     *)
(* about the clock, and k is the operators' parameter `overdue`.           *)
(***************************************************************************)
EXTENDS Integers, Sequences, FiniteSets, FiniteSetsExt, SequencesExt

CONSTANTS
  NumRecords,    \* records the callers hand over in one behaviour (a bound)
  Partitions,    \* <<topic, index>> pairs
  PartitionOf,   \* the partition each record was assigned to
  Size,          \* accounted_size of each record
  BatchSize,     \* config.batch_size
  MaxRequest,    \* config.max_request_size
  BufferMemory,  \* config.buffer_memory, the permits of the semaphore
  Idempotent     \* config.idempotent

Records == 1..NumRecords

ASSUME RecordsAssumption ==
  /\ NumRecords \in Nat
  /\ PartitionOf \in [Records -> Partitions]
  /\ Size \in [Records -> Nat \ {0}]

ASSUME LimitsAssumption ==
  /\ BatchSize \in Nat /\ MaxRequest \in Nat /\ BufferMemory \in Nat
  /\ Idempotent \in BOOLEAN

-----------------------------------------------------------------------------
(* Actor state: the fields of `Actor` and of its PartitionStates.  An open  *)
(* batch is the sequence of its records, <<>> for None: a batch emptied by  *)
(* expiry is dropped in the same step.  Batch::bytes is always the sum of   *)
(* the sizes of its records, so it is computed and not stored.  `inflight`  *)
(* is the set of partitions whose in_flight is set.                         *)

NoIdentity == 0

NewActor ==
  [open     |-> [p \in Partitions |-> <<>>],
   pending  |-> [p \in Partitions |-> <<>>],
   inflight |-> {},
   next     |-> [p \in Partitions |-> 0],
   identity |-> NoIdentity]

Bytes(batch) == MapThenSumSet(LAMBDA r : Size[r], ToSet(batch))

InBatches(batches) == UNION {ToSet(batches[i]) : i \in DOMAIN batches}

Buffered(A) ==
  UNION {ToSet(A.open[p]) \cup InBatches(A.pending[p]) : p \in Partitions}

has_work(A) == \E p \in Partitions : A.pending[p] # <<>>

IdleBuffers(A) ==
  \A p \in Partitions : A.open[p] = <<>> /\ A.pending[p] = <<>>

is_idle(A) ==
  /\ A.inflight = {}
  /\ \A p \in Partitions : A.open[p] = <<>> /\ A.pending[p] = <<>>

blocked_on_identity(A) == Idempotent /\ A.identity = NoIdentity /\ has_work(A)

-----------------------------------------------------------------------------
(* Closing batches *)

\* Move the open batches of the partitions in S behind their closed ones.
Close(A, S) ==
  [A EXCEPT
     !.pending = [p \in Partitions |->
        IF p \in S /\ A.open[p] # <<>> THEN Append(A.pending[p], A.open[p])
                                       ELSE A.pending[p]],
     !.open = [p \in Partitions |-> IF p \in S THEN <<>> ELSE A.open[p]]]

close_all(A) == Close(A, Partitions)

\* `lingered` is the set of partitions whose open batch has waited `linger`.
close_expired(A, lingered) == Close(A, lingered)

append(A, r) ==
  LET p        == PartitionOf[r]
      wouldBe  == Bytes(A.open[p]) + Size[r]
      overflow == A.open[p] # <<>> /\ (wouldBe > BatchSize \/ wouldBe > MaxRequest)
      B        == IF overflow THEN Close(A, {p}) ELSE A
      C        == [B EXCEPT !.open[p] = Append(@, r)]
  IN  IF Bytes(C.open[p]) >= BatchSize THEN Close(C, {p}) ELSE C

-----------------------------------------------------------------------------
(* Delivery deadlines and terminal failures *)

Overdue(A, overdue) == {r \in Buffered(A) : r <= overdue}

\* The elements of a sequence at the positions K, in their order.
Retain(s, K) ==
  [n \in 1..Cardinality(K) |-> s[CHOOSE i \in K : Cardinality({j \in K : j <= i}) = n]]

drop_expired(batch, overdue) == Retain(batch, {i \in DOMAIN batch : batch[i] > overdue})

ExpireKeepingEmpty(A, overdue) ==
  [A EXCEPT
     !.open = [p \in Partitions |-> drop_expired(A.open[p], overdue)],
     !.pending = [p \in Partitions |->
        [i \in DOMAIN A.pending[p] |-> drop_expired(A.pending[p][i], overdue)]]]

\* A batch emptied by expiry is no longer work.
expire_overdue(A, overdue) ==
  LET B == ExpireKeepingEmpty(A, overdue)
      left(p) == {i \in DOMAIN B.pending[p] : B.pending[p][i] # <<>>}
  IN  IF Overdue(A, overdue) = {} THEN A
      ELSE [B EXCEPT !.pending = [p \in Partitions |-> Retain(B.pending[p], left(p))]]

fail_buffered(A) ==
  [A EXCEPT !.open    = [p \in Partitions |-> <<>>],
            !.pending = [p \in Partitions |-> <<>>]]

-----------------------------------------------------------------------------
(* Sequences and the batches handed to a send task *)

DispatchAnyway(A) ==
  IF Idempotent /\ A.identity = NoIdentity THEN {}
  ELSE {p \in Partitions : A.pending[p] # <<>>}

\* The partitions dispatch_ready takes a batch from.
Ready(A) ==
  IF Idempotent /\ A.identity = NoIdentity THEN {}
  ELSE {p \in Partitions \ A.inflight : A.pending[p] # <<>>}

StampedAnonymous(A, p) ==
  [recs |-> Head(A.pending[p]), pid |-> NoIdentity, base |-> A.next[p]]

\* A batch as it is stamped for the wire; `pid` is NoIdentity, and `base`
\* means nothing, for a producer that is not idempotent.
Stamped(A, p) ==
  [recs |-> Head(A.pending[p]), pid |-> A.identity, base |-> A.next[p]]

\* Sequences::reserve.
Reserve(A, p) ==
  IF A.identity = NoIdentity THEN A.next[p]
  ELSE A.next[p] + Len(Head(A.pending[p]))

dispatch_ready(A) ==
  [A EXCEPT
     !.pending  = [p \in Partitions |->
        IF p \in Ready(A) THEN Tail(A.pending[p]) ELSE A.pending[p]],
     !.inflight = A.inflight \cup Ready(A),
     !.next     = [p \in Partitions |->
        IF p \in Ready(A) THEN Reserve(A, p) ELSE A.next[p]]]

\* Let the partitions go, give the released reservations back, and after that
\* forget identity and sequences together if the broker forgot them.
settle(A, c) ==
  [A EXCEPT
     !.inflight = A.inflight \ c.parts,
     !.next     = [p \in Partitions |->
        IF c.reset THEN 0
        ELSE IF p \in DOMAIN c.released THEN c.released[p] ELSE A.next[p]],
     !.identity = IF c.reset THEN NoIdentity ELSE A.identity]
=============================================================================

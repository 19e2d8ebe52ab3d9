# A TLA+ model of kaas-lib

kaas-lib is an asynchronous Kafka client in Rust: a set of crates from the socket
(`kafka-conn`) over cluster metadata (`kafka-meta`) up to a producer
(`kafka-produce`), a consumer (`kafka-consume`), a log reader (`kafka-read`) and an
admin client (`kafka-admin`). These modules model the parts whose correctness
depends on interleavings, failures and order, check them with TLC on small
instances, and prove some of the properties with TLAPS for every instance.

Paths below are relative to `crates/`.

## 1. The system

| Component | State it keeps | Operations | What is hard |
|---|---|---|---|
| Producer actor, `kafka-produce/src/accumulator.rs` | per partition: open batch, closed batches, `in_flight`; flush waiters; identity and sequence numbers; buffer permits; the command and completion channels | `append`, `flush`, drop; the actor's turn: one event, then `expire_overdue`, `ensure_identity`, `ensure_enrolled`, `dispatch_ready`, `settle_flushes` | callers, one actor and many send tasks interleave; the actor awaits in the middle of its turn; it must wake itself |
| Dispatch, `dispatch.rs`, and sequences, `idempotence.rs` | a send task's batches, their attempts and results; the next sequence of each partition | route, send, read the response, decide on a retry | requests and answers are lost or late; some partitions of a request fail; a retry may write twice |
| Transactions, `transactions.rs` | identity, `open`, `enrolled`, `fenced`, behind a mutex | `init`, `begin`, `enrol`, `send_offsets`, `end` | the application and the actor share the state and each awaits coordinator calls; an answer may be lost after the call took effect; another producer may claim the id |
| Connection, `kafka-conn/src/conn.rs` | the map of waiters by correlation id, the permits, the command channel, the re-authentication gate, the shutdown flag | `send_until`, `close`, drop; writer, reader and re-authentication tasks | registration races closing; deadlines race answers; futures are dropped anywhere; re-authentication shares the socket |
| Handshake: `tls.rs`, `versions.rs`, `sasl.rs`, `scram.rs`, `oauth.rs`, `oidc.rs` | an exchange; the session's lifetime; a cached token shared by connections | connect, negotiate, login, re-authenticate, refresh | a session ends without grace; a token ages while it is cached and while it travels; a peer that answers nothing |
| Metadata, pool and retry, `kafka-meta` | a snapshot, a slot per broker, a coordinator cache, the attempts of a call | refresh, merge, connect, route, invalidate, re-ask | refreshes at once, an older answer installed last; a slot dropped while it is dialled; budgets |
| Consumer, `kafka-consume` | fetch sessions, positions, the buffer, assignment and target, member epoch or generation, committed offsets | assign, seek, pause, poll, heartbeat, reconcile, join, sync, revoke, commit, leave | rebalances race fetches and commits; a dropped poll; sessions that disagree with the broker; a protocol refused at run time |
| Reader, `kafka-read` | a cursor and a buffer per partition; windows and collected records of a backward walk | forward scan, follow, backward read | gaps, compaction, control records, aborted transactions, damaged batches, truncation while reading |
| Admin, `kafka-admin` | none beyond a call | requests per topic, group, broker, and their re-asks; pages; inferences | partial failure, roles that move, what changes between two requests of one call, a store that refuses |

How they interact: the producer, consumer, reader and admin client send through
`kafka-meta`'s cluster, which owns one connection per broker. The application talks
to the producer through a channel and to its `Transactions` through a mutex; the
actor starts one task per leader and hears of its end through a channel. What makes
them correct is, briefly: what the application is told agrees with what the brokers
hold; nothing that was accepted is forgotten; every call ends; the documented bounds
are kept.

## 2. The modules

| Module | Models |
|---|---|
| `Accumulator` | the producer actor's data and the pure steps of its turn, as operators on a record |
| `PartitionLog` | external: a partition's log with a broker's duplicate and sequence check |
| `Producer` | EXTENDS both: the callers, the channels, the actor's turns, the send tasks with their retries, the network |
| `Transactions` | a transactional producer, its coordinators and its partitions |
| `Connection` | one open connection: callers, writer, reader, re-authentication, peer |
| `TokenSource` | the cache of OAUTHBEARER tokens and its fetches |
| `Handshake` | EXTENDS it: connections that are opened, authenticated and kept so |
| `Cluster` | snapshot, addresses, slots, coordinator cache, the dispatch and re-ask loops, the background refresh |
| `RecordBatch` | the decoder's walk over a fetched answer; external: the log and a broker's answer |
| `Scan` | EXTENDS it: the forward scan |
| `Tail` | EXTENDS `Scan`: the backward read on the same log |
| `FetchSession` | the client's side of an incremental fetch session and, external, the broker's |
| `Consumer` | EXTENDS `RecordBatch`, `FetchSession`: the manually assigned consumer |
| `Cursor` | the abstract specification `Consumer` implements |
| `Assignors` | range, round-robin and cooperative-sticky, as functions of the members |
| `GroupMember` | EXTENDS it: what members have in common: positions, listener, commits, replacing an assignment |
| `ClassicGroup`, `ConsumerGroup` | EXTEND it: a member and the coordinator under the classic and the KIP-848 protocol |
| `NegotiatedConsumer` | composes the two, with the choice of a protocol and the fall-back |
| `AdminOps` | the operations of the admin client, by key, target, effect and treatment of the answer |
| `Admin` | EXTENDS it: one call of the admin client while the cluster changes |
| `Principal` | describing a principal, the listeners, and the verdict on how it logs in |
| `MC...` | values of the constants for TLC; `MCAdmin` also joins `Admin` and `Principal` |
| `ProducerProofs`, `ProducerAccountProofs`, `TransactionsProofs`, `TransportProofs` (on `Connection`, `Handshake` and `Cluster`), `DecodeProofs` (a decoded answer), `ConsumerProofs` (on `Consumer` and the groups), `ReaderProofs` (on `Scan` and `Tail`), `AdminProofs` | the theorems |

**Producer.** `actor` is the `Actor`: `open`, `pending` and `inflight` are the fields of
`PartitionState`, `identity` and `next` the producer id and `Sequences`. `waiters`,
`holding` and `free` are the semaphore of the buffer, `commands` the bounded channel,
`tasks` the spawned `send_group`s and `completions` what they post. A turn (`Turn`,
`Proceed`) is everything between two awaits of `Actor::run`; the only await in a turn
is the claim of a producer id, and then `pc = "claim"`. A send task takes its steps
apart: `Encode`, `RouteFails` or a request (`Respond`, `LoseRequest`), and `Judge`. A
request that the client gave up may still arrive: it becomes a ghost. Time is one
counter, `overdue`: the records up to it have passed their deadline, which is in the
order of submission because every record has the same `delivery_timeout`. The linger
of any open batch may run out at any turn. An error is the class the code tells apart:
retriable or not, refreshing metadata or not, ambiguous or a refusal.

**Transactions.** `txn` is `State`; an action runs from one acquisition of the mutex,
or one await, to the next. Batching is left to `Producer`: a batch is a record. A
coordinator call is answered, or it "failed", and then nobody knows whether it was
carried out. The send task of a batch is in it as well (`ServeProduce`, `LoseProduce`): a request
is answered, or it is lost on its way or its answer is; the task sends it again or gives it up, and its number
goes back (`HandleCompleted`); a request nobody waits for stays in `stray` and may arrive later,
also after the transaction ended (`ServeLate`). `unsure` is a history of the records that failed although they
may be written. The application follows the guide: it hands records over inside a
transaction, ends it from the same task, and aborts after a call that failed.

**Connection.** A request goes through the stages of `round_trip`: the gate, the
permit, the command channel, the wait for its oneshot, taking back its waiter when its
deadline passed. `pending`, `closed`, `sink`, `wire`, `inbound` and `holding` follow a
frame and its answer. The steps of a re-authentication are requests too, made by a
task that holds the gate. A future may be dropped at every await.

**Handshake.** `conn[c].stage` is where `connect` or `spawn_reauth` waits: TCP and TLS,
`ApiVersions` (and again at version 0), `SaslHandshake`, the messages of a mechanism, the
token, a call. Time is counted in units of which an answer takes at most `Latency`; the
scale of a token's life is that of the code, the connect timeout and the floor of
`reauth_delay` are shortened. `conf` and `peer` are fixed for a behaviour: what the
client was configured with and what kind of broker it meets. Messages are what the
checks on them tell apart (a SCRAM proof is "knows the password").

**Cluster.** A `task` is a call, or the background refresh, at a place of `dispatch`:
resolving a target, asking for metadata, merging, storing, looking a coordinator up,
waiting for a slot (`Get`), trying the known nodes and the bootstrap addresses one after the other
(`Reach`, which is `any`), dialling, sending. The answer of a broker is computed at one step and
installed at a later one, so that answers overtake each other. A connection leads to an address:
once the node is elsewhere a request over it fails, and the retry refreshes and redials. `slots` are
the pool's, with their lock and backoff; `sockets` counts what is really open. A bootstrap address
has an endpoint of its own in the pool, answers as long as its node is at its first address, and is not
counted in `sockets`.

**Reader.** A log is a sequence of batches with a span, the offsets that compaction left, a
transaction, a health. `RecordBatch` turns an answer into the outcomes the decoder yields;
`Scan` has a cursor for each partition (`refill`, `fetch`, `emit`), `Tail` a `Walk` for each
and the rounds in which the limit is shared. The log grows and loses its beginning meanwhile.

**Consumer.** A poll is one step per request, so that it can fail or be dropped between any
two; `fetchers` are the client's sessions, `caches` the brokers'. `doubt` is a history of the
exceptions the properties make (section 4 names them). The application may crash and start from
what it committed.

**Groups.** `member[c]` is a `NegotiatedConsumer` with the state of either protocol,
`coord` the coordinator. A poll is a sequence of steps that ends where the code awaits:
heartbeat, join, sync, the listener's callbacks, commits, the reset of the assignment, a round over the
leaders. `ReadRecords` hands out what such a round brought; `ReadCut` is the poll that is dropped or fails between two
leaders, when positions have moved and the records are in `buffer`, to be handed out by the next poll or dropped
by `reassign`. The application may commit between any two polls (`GroupCommit`). The leader of a classic
group sizes its own subscription (`partition_counts`) and so hands out no other topic. Histories keep what the
properties speak of: `stranded`, the records that were in a buffer when their partition went; `told` and `untold`, who lost
what and whether `on_revoke` had named it; `forgotten`, what a KIP-848 member held when a refused heartbeat reset it;
`bereft`, who lost its listener in a handoff that failed; `excused`, who may hold what is another's. Under
KIP-848 the coordinator takes away before it gives; under the classic protocol it waits for
everyone to join, and the leader runs an assignor.

**Admin.** `AdminOps` gives each operation of the client by the four things its control depends
on; `Admin` runs one call: `Answered`, `Refused`, `Fail`, the re-ask loop with its rounds, and
step by step the operations that need several requests (`reset_offsets`, `topic_offset_range`,
`describe_topics`, `topic_size`). `call.past` is a history of what the call really did.

## 3. What TLC checks

| Run | Instance | Checks |
|---|---|---|
| `producer_once` | 3 records of sizes 1 to 3 in a buffer of 5, 2 partitions, 2 leaders, one record dropped while it waits or not encodable, 2 losses, a flush, deadlines, not idempotent | `AckedAtOffset`, `AckedInOrder`, `FailedMeansNotWritten`, `BufferAccounted` (types, permits, records, batch bounds), `FlushCovers` |
| `producer_idempotent` | 2 records of one partition in a buffer of 1, a flush, 2 attempts, refusals before and after the append, one loss, a broker that forgets the producer, deadlines, fairness | `OneBatchPerPartition`, `NoDuplicate`, `NoSequenceGap`, `SendsEnd` |
| `transactions_commit` | 2 transactions, 3 records, 2 partitions and the offsets, a refusal, one loss (a coordinator's answer, a call, a Produce or its answer), a rival, with and without epoch bumps, fairness | `EnrolledFirst`, `AllOrNothing`, `WrittenInSequence`, `CallsReturn` |
| `connection_calls` | 2 calls, 1 permit, a re-authentication of 2 round trips, a refusal, a dropped future, a broken stream, fairness | `RightAnswer`, `NobodyLeftWaiting`, `PermitsConserved`, `ReauthUninterrupted`, `CallsEnd` |
| `handshake_auth` | families of configurations and brokers (encryption, versions, passwords, tokens); 2 connections that share a token source, one fault | `CredentialsGuarded`, `SessionSound`, `ConnectSound` |
| `cluster_calls` | 2 brokers, one of them a bootstrap address, a call to every kind of target and the background refresh, a cache of 1, one move or restart, and one lost answer, eviction or invalidation | `OneSocket`, `Lands`, `ComesToRest` |
| `reader_reads` | 2 partitions over 9 shapes of logs, 6 scans and 4 tails, one growth, deletion and failure | `ScanSound`, `TailSound`, `ReadsEnd` |
| `consumer_poll` | 2 partitions, 2 brokers, a log with a damaged batch, an aborted and an open transaction, session epochs up to 2, an offset committed in the middle of a batch by an earlier run, an assignment and one more call of the application, one fault of any kind or a crash | `NothingSkipped`, `SessionAgrees`, `InOrderOnce` (the refinement of `Cursor`), `CatchesUp` |
| `group_rebalance` | 2 members, 2 topics of a partition each, one of them subscribed to by both, both protocols and the fall-back, range and cooperative-sticky, commits at any time, two faults (removal, lost answer, poll dropped or failing, leaving); 1.9 million states | `ProgressKept`, `RevokedFirst`, `OneOwner`, `Settles` |
| `admin_calls` | every operation on 2 items, 2 brokers, 2 rounds, 2 faults, 2 changes by others; every configuration of 2 listeners with every principal | `ScopeHolds`, `OutcomesSound`, `ResetSticks`, `OnePicture`, `VerdictSound` |
| `producer_index`, `reader_starved` | see section 4 | each ends in a counterexample |

What they show, property by property, is said in the comment above each definition. A
property that has several parts names them in its last definition (`SendsEnd` is
`EveryRecordResolved`, `FlushReturns` and `DrainsAndStops`). Each property has a mutant in
`PROJECT.json`: a plausible mistake in one definition that makes the property fail under the
same configuration. The mutated forms stand before the definitions they replace.

**Refinement.** `Cursor` says what a consumer promises the application: a cursor in each
partition which only placing it moves back, and records handed out in log order from it on, none
of them undecided or aborted. `Consumer!Abstract` maps the log's visible offsets, the place of
the last assignment or seek and the delivered records to it; `InOrderOnce` is
`Abstract!CursorSpec`, checked over lost sessions, moved leaders and dropped polls.

**Why these bounds.** The producer needs two records on one partition for order, re-use of
numbers and batching, a second partition with a leader of its own so that a completion of one
task meets a batch of another in flight, and two attempts so that a retry can race the request
it repeats. A buffer smaller than the records makes callers wait. The idempotent instance has one
partition, so that an identity is never reset while another partition is in flight (see the
first observation below). The connection needs two calls for a mix-up, one permit so that one
of them waits, and two steps of re-authentication so that something could come between them;
its invariants are proved for any number. Transactions need two, for what the first leaves to
the second; one loss, because the interesting case is one call or send whose effect and answer part
ways (given up and late is one loss, so is sent twice); one rival. A partition with one record and one with two, so that a
number that was given back is used again. Two brokers and one move are enough for a stale view; the refresh
opens the connection that the move breaks under the call, contends with it for the slots, and installs what it
read before the move. (A second call, or a second move, is beyond five minutes.) A session epoch of at most 2 makes the wrap happen.
Each log of the reader holds one oddity between ordinary batches, so that the cursor must get over
it; windows of the backward read begin at 1 or 2 offsets and so are doubled. Two members that
join one after the other make every rebalance a move of a partition; a topic that only the second subscribes to tells
a leader that sizes it from one that does not; two faults let one strike
while the other is being repaired, or a poll be cut and its member then leave.

**Fairness.** Weak fairness for every task that can run, since tokio polls it again, and for
what has a timeout: a claim, a coordinator call, a round trip. Strong fairness for the branches
of the actor's `select!`, which picks at random among those that are ready, and for who waits for a
slot of the pool, whose mutex serves in order. Streams, consumers
and members are polled by their application as long as they have something to do (`Polled`,
`Polls`, `PollStep`): the liveness of a pull interface means nothing otherwise. Elections end.
None for the application's other calls, a broker's answers or the passing of deadlines, with two
exceptions, named in the specifications: `Producer!FairSpec` lets either the deadlines pass or
the cluster grant an id that is asked for again and again (each is enough), and
`Connection!FairSpec` has the socket take bytes or fail (see the observation on `conn.rs:327`).
Records, calls and faults are finite in number.

Deadlock is not checked where the application may stop calling (`Transactions`, `Consumer`, the
groups, `Cluster`, `Admin`) or where a bound on the time ends a behaviour (`Handshake`). In the
others a named step (`Resting`, `Spent`, `Stopped`, `ScanRests`) says when the system may rest.

## 4. Where the code and its documentation disagree

Two have a run that TLC ends with a counterexample, and an entry under `findings`.

* `producer_index` (`kafka-produce/src/dispatch.rs:450`): the answers of a response are kept by
  the partition's index alone, so two topics with the same index in one request swap them.
* `reader_starved` (`kafka-read/src/scan.rs:776`): an empty answer is taken for the end of a
  partition, also when the answer had no room left for it; the scan ends without its records.

Observations met while modelling. Where a property has to make an exception for one of them, its
comment says so.

*Producer.* `accumulator.rs:420`: a batch that fails after the identity was reset puts its old
number into the new sequences ("restarts from zero", `idempotence.rs:125`); the broker refuses it
and the identity is reset once more. `accumulator.rs:859`: the numbers of a batch of unknown
outcome are given back ("The batch did not land, so its numbers must not be spent", `:856`); if it was written, or is later, the broker
takes the next batch for a duplicate
(hence the condition of `WrittenInSequence`, on its partition, and the first condition of `NoSequenceGap`; the second, that no broker forgot the producer, is there because a late
request that arrives after that is appended once more, and what the log then ends with is an old number). `dispatch.rs:130`: NOT_ENOUGH_REPLICAS_AFTER_APPEND counts as
proof that nothing was appended; without idempotence its retry writes a duplicate.
`dispatch.rs:134`: a batch whose first attempt was ambiguous and whose second was refused is
reported as refused. A transactional Produce that was given up may be written after the transaction
ended; where EndTxn does not bump the epoch the record then opens an entry which the marker of the next
transaction decides (`Doubtful` in `EnrolledFirst` and `AllOrNothing`). `accumulator.rs:424`: a transactional producer reads the identity it has just
reset back from `Transactions` and numbers from zero under it. `accumulator.rs:668`: a transaction
that fencing closed is taken for none, and what is still buffered leaves as plain batches.
`transactions.rs:387`: an enrolment that is answered late is noted in the next transaction, if an
append races the end of one. `idempotence.rs:113`: sequences wrap to `i32::MIN`, where the
protocol wraps to 0.

*Connection.* `conn.rs:327`: a call hands its frame over without a deadline and the writer does not
look at the shutdown flag while it writes; when the peer stops reading, the call does not return, also
after `close`. `conn.rs:317`, `:336`: an expired or dropped call frees its permit while its request
is outstanding, and a dropped one leaves its waiter in the map. `conn.rs:434`: the
re-authentication task owns a clone of the connection, so the socket stays open after the user's
last one is dropped. `connect_timeout` applies to each step of the handshake afresh, so that a
connect may take several times as long; `reauth_delay` has a floor of a second, and a session
shorter than that is lost each time; the timeout of a token fetch covers the headers and not the
body; a token's life is counted from the arrival of its answer.

*Cluster.* `with_topics_merged` keeps brokers of the older snapshot, and load, merge and store
(`cluster.rs:185-195`) are not one step, so old addresses can come back until the next refresh; each
task with an older answer may cost a call an attempt. A slot that is dropped while it is dialled
leaves a second socket. A closed connection does not clear the coordinator cache
(`cluster.rs:491-495`). A client whose known addresses and bootstrap addresses are all left by their nodes
cannot find the cluster again.

*Reader.* `backward.rs:54-56`: a tail at `Timestamp(t)` "yields the last record written at or before `t`". It ends below the first
record that is later than `t`, which is what ListOffsets answers (`backward.rs:478-515`); where the timestamps of a log do not rise,
records at or before `t` that come after that one are left out.

*Consumer.* A poll that ends before its request was sent leaves the session ahead of the broker
(`session.rs:119-123`; `consumer.rs:584-590` says "worst case is re-fetching the same records"):
records may be passed over. `seek_to_committed` clears the whole buffer while a partition without a
committed offset keeps its position. A commit after a failed poll covers records that were never handed
out. A partition at OFFSET_OUT_OF_RANGE, and one whose next answers hold only markers, hidden records or a
damaged batch that begins before the position, is not advanced.

*Groups.* `consumer.rs:588-590`: "It never advances a position for records the caller did not receive, so the worst case is
re-fetching the same records." A round over the leaders moves positions leader by leader (`:656-721`), with an await or a `?`
between; a poll that is dropped or fails there leaves records in the buffer behind a moved position. If the next step of
the group commits that position (`:738-757`) and takes the partition away, the buffer is cleared of it (`:440-443`) and no member
is handed those records (`stranded` in `CommitsDelivered` and `Settles`). A classic leader sizes only its own subscription
(`:1395`, `:1591-1604`): a topic that other members subscribe to and it does not is held by nobody. What a KIP-848 member
held when a refused heartbeat reset its membership goes without `on_revoke`.
A heartbeat that owes no acknowledgement sends an empty list (`group.rs:385`), which a coordinator
takes for one: after a lost answer two members may hold a partition. A member whose join answer was
lost leaves in silence. Topics whose id is unknown are left out of the target (`group.rs:275-281`).
`offsets::fetch` does not look at the errors of single partitions. The fall-back takes the listener
before the classic `subscribe` that may fail, and a member that then goes on has none. An eager member that misses a generation keeps its
positions. The `?` in `imbalance` ends balancing early.

*Admin.* An error of a later round loses outcomes that were settled; a re-asked create or delete whose
answer was lost reports its own effect as an error; the `delete_*` operations do not report items the
answer leaves out; `list_groups` swallows a broker's error, and `reset_offsets` then commits under a live
member (`groups.rs:767-768` says "Refuses unless the group is empty"). A topic deleted between two pages is
reported as described and is truncated. `validate_topics` is gated as a mutation.

## 5. What is proved

For all values of the constants, under the assumptions named in the modules. They type the
constants; beyond that they ask for one permit, one attempt and one leader at least, for finite sets
of nodes and calls in `Cluster` (sockets are counted) and of items and brokers in `Admin` (lists are numbered), for members numbered from one in the
groups, and, in `Handshake`, that the worlds enumerated are worlds of the type the code reads. None
bounds how many calls, records, members, transactions or faults there may be. Every inductive
invariant below was first checked by TLC over the states of its run.

`ProducerProofs` and `ProducerAccountProofs`, which extends it: nine theorems on one ladder of invariants.
`InFlightRule`: the invariant adds to the property that the actor's record has its fields (`Shape`), which is all
it takes: the property names the send tasks, the completions and `in_flight` together. It is restated as
`Exclusive`, and four lemmas on sets say that a task may start on free partitions, change, hand over to a
completion, and be settled.
`CustodyInv` adds who has a record: it is with its caller before it is accepted, then once in the command channel,
or in the buffers, or away with a task or in a request that a cut connection left at the broker, and never in two of
these places. It rests on lemmas about each step of a turn (what `Close`, `append`, `expire_overdue`, `dispatch_ready`
and `settle` do to the records buffered), and on what `Retain` keeps of a sequence.
`FlushRule` needs the position of the flush in the channel (`FlushInv`): what it covers and is not settled is ahead of
its command, or already in hand; while it waits, in hand. That the turn answers it only when the actor has
no work then gives the property. `NoneLost` adds that what is carried is not settled (`PendingInv`).
`BufferIsAccounted` adds the permits (`AccountInv`): those that are free and those of the records whose result is
outstanding make up `buffer_memory`, and the semaphore lends none it does not have; batches within their bounds after each step
of a turn (`Sound`), and the types of what tasks and completions report (`Reported`). The permits of a set of records are a
fold over the set in an order nobody chose. That the fold exists, and that records may be added and taken from the sum in any
order, is proved by induction over the size of the set (`SumExists`, `PermitsStep`, `PermitsPart`).
`WrittenOnce`: any two batches with a record in common, in a log, with a task or left behind at the broker, are one
batch under one producer id and base sequence (`OnceInv`), so the broker knows the second for the first.
`SequencesHaveNoGap`: `GapInv` compares the actor's numbers with what each log expects next (`Expected`). While nothing
in a log was reported as failed (`Settled`, which is less than the property's own condition asks) and no broker forgot the
producer, the batch a task carries has the number expected or is the last one written, and it is acknowledged only
when it is (`InLine`); a completion gives back or keeps exactly that number (`Back`); where nothing is in flight
the next number is it (`Lined`). The broker then has nothing to refuse, so the identity is never reset, and a late request is a copy of
what a task carries or of what the log ends with: for that, what was acknowledged is in the log (`AcksWritten`). It asks that no
two partitions have the same index. Without idempotence no batch has a producer id (`Anonymous`).
`FailureIsCertain`: a record that is in a log, or may get there, has a caller who waits, was acknowledged, or was told
that nothing is known, and so has the task that carries it (`CleanInv`).
`AckIsCertain`: a result that acknowledges a batch names where the batch is (`AckInv`).
`AcksKeepOrder`: everything of one partition stands in the order of acceptance, from the log's end back to the command
channel: what a task carries is behind what has been acknowledged, the pending batches are behind the task, the open
batch behind them and the channel behind that (`OrderInv`; one batch in flight per partition is what keeps it through
retries).
`FailureIsCertain`, `AckIsCertain` and `AcksKeepOrder` are about a producer without idempotence. Its batches are sent once more only if the broker cannot have
them. An idempotent one gives back the sequence numbers of a batch whose fate is unknown, and a later batch may be taken for
it. They also ask that no two partitions have the same index, since a produce response is read by index
alone (run `producer_index` shows what happens otherwise), and the first of them that no broker answers
NOT_ENOUGH_REPLICAS_AFTER_APPEND, which the retry rule takes for a rejection (section 4). `producer_once` is an instance.

`TransportProofs`, on `Connection`: the invariant `ConnectionInv` has five parts, each preserved given
the ones before it.
`Types`; `Ids`: no two requests have the same correlation id and every id is below the
next; `Tagged`: every frame, waiter and answer bears the id of its request, from which
`RightAnswer` follows; `Waiting`: who holds a oneshot is in the map, or in the hands of
the reader, or has been told, and a closed map stays empty, from which
`NobodyLeftWaiting` follows, registration during a close included; `Permits`: the
permits out are those of the requests between acquisition and end. Re-authentication
adds that the gate has been cleared of calls and that the frames of calls which are
still to be written are ahead of its steps. Theorems: `TypeCorrect`,
`AnswersReachTheirCaller`, `NoHang`, `PermitsAreConserved`, `ReauthIsContiguous`.

`TransactionsProofs`: `TypesHold`, `EnrolledBeforeWritten` and `EndsAsOne`. A batch is composed in one
step, its partition enrolled in another and sent in a third, with a rival free to bump the epoch between
any two. So `TxnInv` says of the record being written, wherever it has got to, that either its epoch
is the coordinator's, the transaction is ongoing and the partition among its parts (`LiveOK`), or the
epoch has been fenced off and the broker will refuse it; the questions under way, the flush, the idle
states, the actor's and the epochs' bookkeeping (`AsksOK`, `FlushOK`, `IdleOK`, `ActorOK`, `EpochsOK`)
are there to make it inductive. `AtomInv` adds what makes a transaction end as one: all that is on
its way belongs to the current transaction; once the fate of one write is decided the coordinator is no
longer ongoing and the producer can write no more under that epoch; the coordinator's status, its
answer on the way and what the application has been told agree with the fate of every write.
A Produce whose task waits no longer needs a part of its own. `StraysOK`: its record is `unsure`, or the batch is in the log and a
second copy is known for one, or its task is sending it again. `StraysLive`: under a coordinator that bumps
the epoch with every end, it is of the transaction that is ongoing, or fenced off. So a copy that is late writes nothing outside its
transaction unless it is `Doubtful`, which both theorems except: a send given up with its outcome unknown, where EndTxn
does not bump the epoch. `StrayIn` says which transaction it belongs to.

`TransportProofs`, on `Handshake`: `HandshakeInvariant`, `CredentialsAreGuarded`, `ConnectIsSound`, `SessionsAreKept`. `HandshakeInv` has the
clocks, the addresses chosen, and for each connection that its record fits its phase, that a secret has
been shown only over a channel that the configuration allows, that the error told is the error of
the step that failed, that the versions in force are the ones negotiated, and that the step runs within
its deadline.
`SessionsAreKept` is about clocks: the broker's, from which a session is counted, the issuer's, from which a token's
life is, and the client's, which starts later than either by what the answer took. `SessionInv` bounds, for each stage of a renewal,
how long after the timer its message went out (`Renewed`), and has of a token in use that it arrived
within the fetch's timeout and was not past its refresh (`Taken`, `Presented`), so that the session it bounds is long enough
(`BearerSession`). It has a hypothesis, `RoomForRenewal`: a fifth of a session, and a fifth of what is left of a token at its
refresh less the fetch's timeout, is more than four answers and one timeout; TLC evaluates it for
the instance of the run. Under the code's defaults (30 and 10 seconds) and answers within a second that is a session
of three minutes or more and a token of fifteen. The timeout in it is the token step's, which may wait that long for another
connection's fetch; for shorter lives the theorem says nothing.

`TransportProofs`, on `Cluster`: `OneSocketEach`. That the pool holds one socket for a node is not inductive: a dial that
was given up completes after its successor. `Balanced` counts: the open sockets of a node and its abandoned
dials are no more than those dropped and its own; with `DialsWhenEmpty` (only an empty slot is dialled)
every step of the pool keeps it. It needs cardinalities, hence the finite sets.

`ConsumerProofs`: `SessionsAgree`, `ConsumerSkipsNothing` and `ConsumerIsCursor`. The first says that what the client
believes the broker's session holds is what it holds, whatever answers are lost; its invariant adds the
shapes of sessions and caches (`SessionShape`).
The other two rest on what a decoded answer yields, which `DecodeProofs` has by induction over the batches of the answer: its records
ascend, lie between the offset asked for and the position it returns, are visible, and no visible record in
that range is missing, through batches that are damaged, compacted, aborted, still open or cut off by the budget.
`ReadInv` says of each partition that what waits in the buffer comes after what was handed out and before the
position (`Ordered`), that with the records handed out it is all there is to see since the partition was placed
(`Gapless`), and that what was committed was received (`Kept`). The offset a broker answers from is the
one that was wanted because the sessions agree; where a request was given up unsent they need not, and `doubt` has
the partition. `ConsumerIsCursor` then maps each step to a step of `Cursor` or to none. Assumed are that a log is
one a broker can hold (`IsLog`: batches in the order of their offsets, the transactions of one producer one after another) and that
commits found at the start lie within it.

`ReaderProofs`: `ScanIsSound` and `TailIsSound`, on the two readers, from the same lemmas. For the forward scan, `ReaderInv` says of each partition that what waits in its buffer
rises and lies before the position (`CursorGood`), that all between the start and the position was yielded or waits there (`Covered`), and
that a partition taken for finished has nothing more to show (`ReadOut`; those that an answer had no room for excepted, which is
`reader_starved`). An event came before everything its partition still has (`EventInv`), which gives the order within one; and, with
a reorder window of 0, no other partition has anything older left, neither in its buffer nor in its log (`MergeInv`), which gives the
order across them. The step that matters is that the scan emits only when every partition that is not exhausted has something
buffered. That no batch lies across a position (`Aligned`) keeps a second answer from repeating the first. It fails where
compaction took the end of a batch, since the decoder then places the next request inside the batch: `LogOrder` and `MergeOrder` ask that this
never happened to the log (`log[p].whole`). Logs grow and lose their beginning meanwhile; a log loses nothing past its last stable
offset.
`TailSound` speaks of a call that has returned, and so says nothing of the steps before; `TailsInv` does. A walk has found, in order,
every wanted record from its window's end up, and what lies below is not past the anchor (`WalkShape`, `WalkGood`); the window being read
has found all up to the offset it has reached (`ChunkGood`), with no batch across that offset; a walk that was granted a share and left has
met it or has no more (`QuietInv`); and what the walks keep, with the target of the one at work in full, is within the limit
(`LimitInv`, from `KeptTotalStep`: raising one target changes the sum by what that walk keeps more). A log that grows meanwhile grows
past the ends that the call found at its start, so it adds nothing to what is wanted. At the end trimming drops only the
oldest, so what is left is the newest, and the limit is missed only if all walks have no more. It holds for any limit, anchor, steps and sizes of answers, on
partitions of which no window was given up, nothing deleted and no batch's end compacted away (`Sound`).

`ConsumerProofs`, on the groups: `RevokedAreTold` and `CommitsAreDelivered` for the members of classic and consumer groups.
The inductive `GroupInv` has the members' shapes, their progress through the rebalance, what is announced (what a member is
about to give up was told, at each stage at which it may be interrupted), and what is delivered: below a position every record was
handed out, waits in a buffer, or was stranded. The exceptions are those of the properties: a listener lost in a failed
handoff, what a reset KIP-848 member held, stranded records. Evicted members, interrupted rounds, dropped polls and lost answers
are not excepted. Then `KipHasOneOwner`: the coordinator of a KIP-848 group never has one partition
owned by two members, from `CoordOK` (targets are disjoint, an assignment holds only what no other member
has), `IdsOK` and `HoldsOK` (a member holds no more than the coordinator thinks it may).

`AdminProofs`: `ScopeIsKept`. The lemma `ChangesMutate` (a request that changes the cluster is one of the
mutating operations) carries the reviewed scope from the call to what reaches a broker, over retries and
re-routing.
`OutcomesAreSound`: `OutcomeInv` says of a round under way that every item is settled, answered in this
round or still to be asked for, and never two of these (`Rounds`); that what a list says Ok was executed, and what was
executed is said Ok somewhere or is in doubt (`Told`); and that each further round was asked for by a retriable code but the
one the refresh is worth (`Rationed`). The lemmas `NthIs`, `ListingIs`, `JoinedIs`, `InRoundIs` and `RestIs` say
that entries move between the lists without one being lost or doubled.
`ResetsStick` adds that there is no member from the check on (`ResetInv`).
`PicturesAreWhole` adds three (`PictureInv`): the start a range has read is not after the log's; the brokers read are
as many as the replicas added up, and the leader's is the size once it is read; the partitions counted of a topic are those
before the cursor, and the missing topics before it have been told (`PageIs`, `PageCounts`: a page ends where the next begins,
at any page size, also inside a topic).
`VerdictIsSound`, on `Principal`: what was heard of a store is what it had to say (`HeardInv`), and a store that answered with
nothing has nothing, because a cluster keeps SCRAM credentials of users only, tokens where it has a key for them and ACLs where it has an
authorizer (`PrincipalAssumption`). It holds for any listeners, protocols and mechanism names.

Some definitions of the model had to change to be reasoned about, none in meaning: a CASE whose arms
overlapped, of which TLC takes the first and the prover may take any, is an IF; a set of tuples built by a
pattern is built from its components; what expiry and a cancelled wait keep of a sequence is `Retain`, by position,
and the copies in a log are counted as a set of positions, where both were folds; what a broker remembers of a producer is
a set of positions, where it was a subsequence; the consumer's buffer is kept for each partition (a poll hands it out
whole, so the order between partitions is seen by nobody); the lists of `Admin` are numbered by
`Nth`, where they were enumerated. One proof attempt showed a property to be too strong: `NoSequenceGap` held in the run
and not in general once a broker had forgotten the producer, and says so now.
Another showed that a scan keeps the order of a log only where batches kept their ends: `LogOrder` says so now. A third
showed that a tail anchored at an instant is the tail up to that instant only where timestamps rise (section 4): `Sound` says so now.

Only model-checked. Liveness: TLAPS does not reason about fairness. `WrittenInSequence` of `Transactions` but for its types: which
numbers are certain depends on every copy that may still arrive. `OneOwner` for classic
groups, where the assignors are folds over the subscriptions, and the half of `ProgressKept` about records that are
delivered twice. `Lands` of `Cluster`, which is
about the instance: a call reaches its broker if its attempts are enough for the moves and the stale
answers it can meet, and with more tasks or fewer attempts they are not.
`AckedAtOffset`, `AckedInOrder` and `FailedMeansNotWritten` of an idempotent producer are not claimed at all.

## 6. What is not modelled

Formatting, logging, encodings, compression, checksums and cryptography; certificates and HTTP; the
network below a frame; the tables of the protocol where no decision reads them; builders of
configurations; the partitioner's hash; statistics; the test programs, probes and macros. The
brokers, coordinators and the token endpoint are external: they do what the client relies on, and what
the client must be able to bear. A broker in `Transactions` takes a transactional batch without asking
the coordinator, as those before KIP-890 do, so that enrolment is the client's affair. Sequence numbers
and offsets are naturals; the wrap at 2^31 is not modelled, that of session epochs is. Delivery
deadlines, lingers and batches of several records are in `Producer` and not in `Transactions`. There a coordinator call that was
given up has been carried out or never will be (a late one is not modelled; a late Produce is), a broker that would refuse a
batch for its content does so before it looks at the epoch, and one budget bounds all losses. `Cluster`
has one topic and one coordinator key of its own; the sockets of bootstrap addresses and the snapshot's accessors are left
out. Groups have no static members. What a description of the admin client contains is left out; how
it is put together from several answers is not. The components are modelled one at a time, each with
what it relies on: `Consumer`'s leaders move without `Cluster`'s snapshot between them and the groups read
records without sessions, since a product of the two is beyond TLC.

## 7. The plan

1. Proofs. `OneOwner` for classic groups, from what an assignor promises.
2. An abstract `Delivery` (a record is accepted, then written at most once, then its caller told) that
   `Producer` implements, and an abstract call and reply that `Connection` implements.
3. `Producer` with two partitions and a reset while one of them is in flight, once an instance of it fits.

Components that share a question share a run, so that the suite stays small: a weaker run gives way to a
stronger one.

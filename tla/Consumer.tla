------------------------------ MODULE Consumer ------------------------------
(***************************************************************************)
(* The manually assigned consumer of kafka-consume/src/consumer.rs, with   *)
(* its fetchers and their sessions (fetcher.rs, session.rs) and its        *)
(* committed offsets (offsets.rs).  The brokers, external, lead            *)
(* partitions, cache fetch sessions, lose them, and hold the offsets of    *)
(* the group.  A poll may fail or be dropped between any two requests, and *)
(* the application may crash and start over from what it committed.        *)
(***************************************************************************)
EXTENDS RecordBatch, FetchSession

CONSTANTS
  Partitions,    \* the partitions of the topics: a set of integers
  Brokers,       \* a set of positive integers
  Leaders,       \* who leads them to begin with
  Logs,          \* the assignments of batches to partitions to begin with
  Starts,        \* the positions a partition may be assigned from or sought to
  Commits,       \* what a run before may have committed: an offset or None each
  Visibility,    \* "CommittedOnly" or "All"
  PartitionMax,  \* partition_max_bytes, in batches
  MaxGrowth,     \* bound on batches appended
  MaxDeletes,    \* bound on deletions at the beginning of a log
  MaxMoves,      \* bound on changes of leadership
  MaxEvictions,  \* bound on sessions a broker drops
  MaxAborted,    \* bound on polls that fail or are dropped
  MaxOps,        \* bound on the application's other calls
  MaxCrashes,    \* bound on restarts of the application
  MaxFaults      \* bound on all of these but the calls together

ASSUME ConsumerAssumption ==
  /\ Partitions \subseteq Nat /\ IsFiniteSet(Partitions)
  /\ Brokers \subseteq Nat \ {0} /\ PartitionMax \in Nat \ {0}
  /\ Visibility \in {"All", "CommittedOnly"}
  /\ Starts \subseteq Nat
  /\ \A l \in Logs, c \in Commits, p \in Partitions :
       /\ IsLog(l[p])
       /\ c[p] \in Int /\ c[p] <= LogEnd(l[p])

VARIABLES
  log,         \* per partition: its batches and its first offset
  leader,      \* per partition: its leader, or NoLeader
  caches,      \* per broker: the fetch session it holds for us
  committed,   \* per partition: the offset the group committed, or None
  snapshot,    \* the metadata snapshot: per partition a leader, or NoLeader
  assignment,  \* Assigned of each assigned partition
  fetchers,    \* BrokerFetcher: per broker its FetchSession
  buffered,    \* per partition: offsets of records decoded and not handed out yet
  round,       \* fetch_once in progress: per leader still to ask, what is wanted
  polling,     \* whether a poll is in progress
  delivered,   \* history: offsets handed out, per partition, since it was placed
  received,    \* history: offsets ever handed out, per partition
  placed,      \* history: where the partition was last placed
  doubt,       \* history: what may excuse a property (see below)
  used         \* the bounded events so far

brokerVars == <<log, leader, caches, committed>>
clientVars == <<snapshot, assignment, fetchers, buffered, round, polling>>
historyVars == <<delivered, received, placed, doubt>>
consumerVars == <<brokerVars, clientVars, historyVars, used>>

None == -1
NoLeader == 0
Use(what) == used' = [used EXCEPT ![what] = @ + 1]
Faulty == used.growth + used.deletes + used.moves + used.evictions + used.aborted + used.crashes
MayFail == Faulty < MaxFaults
Empty == [p \in Partitions |-> <<>>]

ConsumerInit ==
  /\ log \in { [p \in Partitions |-> [batches |-> l[p], start |-> 0]] : l \in Logs }
  /\ leader \in Leaders
  /\ caches = [b \in Brokers |-> NoCache]
  /\ committed \in Commits
  /\ snapshot = leader
  /\ assignment = <<>> /\ fetchers = <<>> /\ buffered = Empty
  /\ round = <<>> /\ polling = FALSE
  /\ delivered = Empty
  /\ received = [p \in Partitions |->
       { o \in VisibleOffsets(log[p].batches, Visibility) : o < committed[p] }]
  /\ placed = [p \in Partitions |-> None]
  /\ doubt = [unsent |-> {}, lost |-> {}, skipped |-> {}]
  /\ used = [growth |-> 0, deletes |-> 0, moves |-> 0, evictions |-> 0, aborted |-> 0,
             ops |-> 0, crashes |-> 0]

-----------------------------------------------------------------------------
(* Assigning and positioning *)

Place(p, position) == [position |-> position, paused |-> FALSE, high_watermark |-> None]

(* resolve *)
resolve(p, from) ==
  CASE from = "Earliest" -> log[p].start
    [] from = "Latest" -> LogEnd(log[p].batches)

assign(parts, from) ==
  /\ ~polling /\ used.ops < MaxOps /\ Use("ops")
  /\ assignment' = [p \in parts |-> Place(p, resolve(p, from))]
  /\ buffered' = Empty
  /\ snapshot' = [p \in Partitions |-> IF p \in parts THEN leader[p] ELSE snapshot[p]]
  /\ delivered' = [p \in Partitions |-> IF p \in parts THEN <<>> ELSE delivered[p]]
  /\ placed' = [p \in Partitions |-> IF p \in parts THEN resolve(p, from) ELSE placed[p]]
  /\ doubt' = [doubt EXCEPT !.lost = @ \ parts,
                            !.skipped = IF from = "Latest" THEN @ \cup parts ELSE @]
  /\ UNCHANGED <<brokerVars, fetchers, round, polling, received>>

seek_KeepBuffered(p, offset) ==
  /\ ~polling /\ used.ops < MaxOps /\ Use("ops") /\ p \in DOMAIN assignment
  /\ assignment' = [assignment EXCEPT ![p].position = offset]
  /\ delivered' = [delivered EXCEPT ![p] = <<>>] /\ placed' = [placed EXCEPT ![p] = offset]
  /\ doubt' = [doubt EXCEPT !.lost = @ \ {p}, !.skipped = @ \cup {p}]
  /\ UNCHANGED <<brokerVars, snapshot, fetchers, buffered, round, polling, received>>

seek(p, offset) ==
  /\ ~polling /\ used.ops < MaxOps /\ Use("ops") /\ p \in DOMAIN assignment
  /\ assignment' = [assignment EXCEPT ![p].position = offset]
  /\ buffered' = [buffered EXCEPT ![p] = <<>>]
  /\ delivered' = [delivered EXCEPT ![p] = <<>>] /\ placed' = [placed EXCEPT ![p] = offset]
  /\ doubt' = [doubt EXCEPT !.lost = @ \ {p}, !.skipped = @ \cup {p}]
  /\ UNCHANGED <<brokerVars, snapshot, fetchers, round, polling, received>>

(* pause and resume, of which only the first counts against the bound. *)
SetPaused(p, paused) ==
  /\ ~polling /\ p \in DOMAIN assignment /\ assignment[p].paused # paused
  /\ IF paused THEN used.ops < MaxOps /\ Use("ops") ELSE UNCHANGED used
  /\ assignment' = [assignment EXCEPT ![p].paused = paused]
  /\ UNCHANGED <<brokerVars, snapshot, fetchers, buffered, round, polling, historyVars>>

-----------------------------------------------------------------------------
(* Polling *)

(* take_buffered, and the return of poll. *)
HandOut(records) ==
  /\ buffered' = Empty
  /\ delivered' = [p \in Partitions |-> delivered[p] \o records[p]]
  /\ received' = [p \in Partitions |-> received[p] \cup ToSet(records[p])]

PollBuffered ==
  /\ ~polling /\ buffered # Empty
  /\ HandOut(buffered)
  /\ UNCHANGED <<brokerVars, snapshot, assignment, fetchers, round, polling, placed, doubt, used>>

(* leader_for, for each active partition: the snapshot, or a refresh of it.  *)
Resolved == [p \in Partitions |->
  IF p \in DOMAIN assignment /\ ~assignment[p].paused /\ snapshot[p] = NoLeader
  THEN leader[p] ELSE snapshot[p]]

(* fetch_once, up to its first request: who is asked for what.  A broker     *)
(* that holds a session is asked even when nothing is wanted of it, so that  *)
(* its partitions are forgotten.                                             *)
PollStart ==
  /\ ~polling /\ buffered = Empty /\ assignment # <<>>
  /\ LET active == { p \in DOMAIN assignment : ~assignment[p].paused /\ Resolved[p] # NoLeader }
         leaders == { Resolved[p] : p \in active }
         live == { b \in DOMAIN fetchers : b \in leaders \/ fetchers[b].id # NO_SESSION }
     IN /\ fetchers' = [b \in live |-> fetchers[b]]
        /\ round' = [b \in leaders \cup live |->
             [p \in { q \in active : Resolved[q] = b } |-> assignment[p].position]]
        /\ polling' = (leaders \cup live # {})
  /\ snapshot' = Resolved
  /\ UNCHANGED <<brokerVars, assignment, buffered, historyVars, used>>

(* The consumer's session with b, created when it is first needed. *)
SessionOf(b) == IF b \in DOMAIN fetchers THEN fetchers[b] ELSE FreshSession

(* The answer of broker b for partition p from an offset. *)
PartAnswer(b, p, from) ==
  IF leader[p] # b THEN [error |-> "NotLeader"]
  ELSE IF from < log[p].start \/ from > LogEnd(log[p].batches) THEN [error |-> "OutOfRange"]
  ELSE [error |-> "none", hw |-> LogEnd(log[p].batches),
        of |-> Answer(log[p].batches, from, EndFor(log[p].batches, Visibility), PartitionMax)]

(* A batch that does not decode: past its first offset. *)
StepPastMalformed(position, outcome) ==
  IF position < outcome.offset + 1 THEN outcome.offset + 1 ELSE position

(* One outcome of a partition's records: what comes before the position, in  *)
(* the batch that holds it, is dropped.                                      *)
Accept(acc, outcome) ==
  IF outcome.ok /\ outcome.offset < acc.position THEN acc
  ELSE IF outcome.ok
  THEN [position |-> outcome.offset + 1,
        records |-> Append(acc.records, outcome.offset)]
  ELSE [acc EXCEPT !.position = StepPastMalformed(@, outcome)]

(* What a partition's part of an answer does to it: its position, and the    *)
(* records it yields. *)
Absorbed(p, answer) ==
  LET keep == [position |-> assignment[p].position, records |-> <<>>]
  IN IF answer.error # "none" THEN keep
     ELSE FoldLeft(Accept, keep, decode_partition(answer.of, Visibility).outcomes)

(* The records of an answer join the buffer. *)
Buffer(took, parts) ==
  [p \in Partitions |-> IF p \in parts THEN buffered[p] \o took[p].records ELSE buffered[p]]

on_stale_metadata_Ignored(stale) == snapshot

(* An answer that names another leader empties the snapshot. *)
on_stale_metadata(stale) == IF stale THEN [p \in Partitions |-> NoLeader] ELSE snapshot

(* BrokerFetcher::fetch, then the loop of fetch_once over what it returned.  *)
(* A refused session is reset and the request made again in full.  `room`:   *)
(* the broker has room for a session; `again`: the first response was lost   *)
(* and the request sent a second time.                                       *)
Fetched(b, room, again) ==
  LET first    == next(SessionOf(b), round[b])
      resent   == IF again /\ ~Refuses(caches[b], first.delta)
                  THEN Cached(caches[b], first.delta, NewId(SessionOf(b), caches[b]))
                  ELSE caches[b]
      grant    == IF room THEN NewId(SessionOf(b), resent) ELSE NO_SESSION
      refused  == Refuses(resent, first.delta)
      sent     == IF refused THEN next(reset, round[b]) ELSE first
      asked    == Asked(resent, sent.delta)
      answers  == [p \in DOMAIN asked |-> PartAnswer(b, p, asked[p])]
      mine     == DOMAIN asked \cap DOMAIN assignment
      took     == [p \in mine |-> Absorbed(p, answers[p])]
      stale    == \E p \in mine : answers[p].error = "NotLeader"
      cache    == Cached(resent, sent.delta, grant)
      left     == [c \in DOMAIN round \ {b} |-> round[c]]
      records  == Buffer(took, mine)
  IN /\ again => used.aborted < MaxAborted /\ MayFail
     /\ ~room => used.evictions < MaxEvictions /\ MayFail /\ ~again
                 /\ sent.delta.id = NO_SESSION
     /\ used' = [used EXCEPT !.aborted   = IF again THEN @ + 1 ELSE @,
                             !.evictions = IF room THEN @ ELSE @ + 1]
     /\ caches' = [caches EXCEPT ![b] = cache]
     /\ fetchers' = [c \in DOMAIN fetchers \cup {b} |->
          IF c = b
          THEN accept(sent.session, IF sent.delta.id = NO_SESSION THEN grant ELSE sent.delta.id,
                      sent.delta.epoch)
          ELSE fetchers[c]]
     /\ assignment' = [p \in DOMAIN assignment |->
          IF p \in mine /\ answers[p].error = "none"
          THEN [assignment[p] EXCEPT !.position = took[p].position,
                                     !.high_watermark = answers[p].hw]
          ELSE assignment[p]]
     /\ snapshot' = on_stale_metadata(stale)
     /\ round' = left /\ polling' = (left # <<>>)
     /\ LET misread == IF b \notin doubt.unsent THEN {}
                       ELSE { p \in mine : p \notin DOMAIN round[b] \/ asked[p] # round[b][p] }
        IN doubt' = [unsent  |-> IF sent.delta.id = NO_SESSION
                                 THEN doubt.unsent \ {b} ELSE doubt.unsent,
                     lost    |-> doubt.lost \cup misread,
                     skipped |-> doubt.skipped \cup misread]
     /\ IF left = <<>> /\ records # Empty
        THEN HandOut(records)
        ELSE buffered' = records /\ UNCHANGED <<delivered, received>>

FetchFrom(b) ==
  /\ polling /\ b \in DOMAIN round
  /\ \E room, again \in BOOLEAN : Fetched(b, room, again)
  /\ UNCHANGED <<log, leader, committed, placed>>

(* The request to b fails for good, or the poll is dropped while it waits    *)
(* for it: the session has recorded what it meant to send.  The broker may   *)
(* have served it.                                                           *)
FetchAborted(b) ==
  /\ polling /\ b \in DOMAIN round /\ used.aborted < MaxAborted /\ MayFail /\ Use("aborted")
  /\ \E reached \in BOOLEAN :
       LET sent == next(SessionOf(b), round[b])
           serves == reached /\ ~Refuses(caches[b], sent.delta)
       IN /\ fetchers' = [c \in DOMAIN fetchers \cup {b} |->
                            IF c = b THEN sent.session ELSE fetchers[c]]
          /\ caches' = IF serves
                       THEN [caches EXCEPT ![b] =
                              Cached(@, sent.delta, NewId(SessionOf(b), caches[b]))]
                       ELSE caches
          /\ doubt' = IF reached THEN doubt ELSE [doubt EXCEPT !.unsent = @ \cup {b}]
  /\ round' = <<>> /\ polling' = FALSE
  /\ UNCHANGED <<log, leader, committed, snapshot, assignment, buffered, delivered, received, placed>>

-----------------------------------------------------------------------------
(* The offsets of the group *)

Undelivered(p) == buffered[p] # <<>>

(* commit: the positions of the whole assignment. *)
commit ==
  /\ ~polling /\ assignment # <<>> /\ used.ops < MaxOps /\ Use("ops")
  /\ committed' = [p \in Partitions |->
       IF p \in DOMAIN assignment THEN assignment[p].position ELSE committed[p]]
  /\ doubt' = [doubt EXCEPT !.skipped = @ \cup { p \in DOMAIN assignment : Undelivered(p) }]
  /\ UNCHANGED <<log, leader, caches, clientVars, delivered, received, placed>>

(* A group's offset, where there is one: record leaves out what is negative. *)
Sought == { p \in DOMAIN assignment : committed[p] >= 0 }

seek_to_committed ==
  /\ ~polling /\ used.ops < MaxOps /\ Use("ops")
  /\ assignment' = [p \in DOMAIN assignment |->
       IF p \in Sought THEN [assignment[p] EXCEPT !.position = committed[p]] ELSE assignment[p]]
  /\ buffered' = Empty
  /\ placed' = [p \in Partitions |-> IF p \in Sought THEN committed[p] ELSE placed[p]]
  /\ delivered' = [p \in Partitions |-> IF p \in Sought THEN <<>> ELSE delivered[p]]
  /\ LET dropped == { p \in DOMAIN assignment \ Sought : Undelivered(p) }
     IN doubt' = [doubt EXCEPT !.lost = (@ \ Sought) \cup dropped,
                               !.skipped = @ \cup dropped]
  /\ UNCHANGED <<brokerVars, snapshot, fetchers, round, polling, received>>

(* The application crashes and starts over: it assigns its partitions from   *)
(* the beginning and seeks to what it committed.                             *)
Restart ==
  /\ used.crashes < MaxCrashes /\ MayFail /\ Use("crashes") /\ assignment # <<>>
  /\ LET from(p) == IF committed[p] = None THEN log[p].start ELSE committed[p]
     IN /\ assignment' = [p \in DOMAIN assignment |-> Place(p, from(p))]
        /\ placed' = [p \in Partitions |-> IF p \in DOMAIN assignment THEN from(p) ELSE placed[p]]
        /\ delivered' = [p \in Partitions |-> IF p \in DOMAIN assignment THEN <<>> ELSE delivered[p]]
  /\ snapshot' = leader /\ fetchers' = <<>> /\ buffered' = Empty /\ round' = <<>> /\ polling' = FALSE
  /\ doubt' = [doubt EXCEPT !.unsent = {}, !.lost = {}]
  /\ UNCHANGED <<brokerVars, received>>

-----------------------------------------------------------------------------
(* The brokers *)

Grow(p) ==
  /\ used.growth < MaxGrowth /\ MayFail /\ Use("growth")
  /\ LET base == LogEnd(log[p].batches)
     IN log' = [log EXCEPT ![p].batches = Append(@, Plain(base, base, {base}))]
  /\ UNCHANGED <<leader, caches, committed, clientVars, historyVars>>

DeleteFirst(p) ==
  /\ used.deletes < MaxDeletes /\ MayFail /\ Use("deletes") /\ Len(log[p].batches) > 1
  /\ log' = [log EXCEPT ![p].start = Head(log[p].batches).last + 1, ![p].batches = Tail(@)]
  /\ UNCHANGED <<leader, caches, committed, clientVars, historyVars>>

LeaderMoves(p, b) ==
  /\ used.moves < MaxMoves /\ MayFail /\ Use("moves") /\ b # leader[p]
  /\ leader' = [leader EXCEPT ![p] = b]
  /\ UNCHANGED <<log, caches, committed, clientVars, historyVars>>

(* An election ends. *)
LeaderElected(p, b) ==
  /\ leader[p] = NoLeader /\ leader' = [leader EXCEPT ![p] = b]
  /\ UNCHANGED <<log, caches, committed, clientVars, historyVars, used>>

Evict(b) ==
  /\ used.evictions < MaxEvictions /\ MayFail /\ Use("evictions") /\ caches[b].id # NO_SESSION
  /\ caches' = [caches EXCEPT ![b] = NoCache]
  /\ UNCHANGED <<log, leader, committed, clientVars, historyVars>>

-----------------------------------------------------------------------------
Poll == PollBuffered \/ PollStart \/ \E b \in Brokers : FetchFrom(b)
Application ==
  \/ \E parts \in SUBSET Partitions \ {{}}, from \in {"Earliest", "Latest"} : assign(parts, from)
  \/ \E p \in Partitions, o \in Starts : seek(p, o)
  \/ \E p \in Partitions, on \in BOOLEAN : SetPaused(p, on)
  \/ commit \/ seek_to_committed \/ Restart
Cluster ==
  \/ \E p \in Partitions : Grow(p) \/ DeleteFirst(p)
  \/ \E p \in Partitions, b \in Brokers \cup {NoLeader} : LeaderMoves(p, b)
  \/ \E p \in Partitions, b \in Brokers : LeaderElected(p, b)
  \/ \E b \in Brokers : Evict(b)

ConsumerNext == Poll \/ Application \/ Cluster \/ \E b \in Brokers : FetchAborted(b)

(* The application polls in a loop, and elections end. *)
Idle == ~polling /\ buffered = Empty /\ fetchers = <<>> /\
  \A p \in DOMAIN assignment : assignment[p].paused
Polls == []<>Idle \/ []<><<Poll>>_consumerVars
Elections == []<>(\A p \in Partitions : leader[p] # NoLeader)
ConsumerSpecification == ConsumerInit /\ [][ConsumerNext]_consumerVars /\ Polls /\ Elections

-----------------------------------------------------------------------------
(* Properties *)

InBuffer(p) == ToSet(buffered[p])
Visible(p) == VisibleOffsets(log[p].batches, Visibility)

(* The consumer implements Cursor.  From where a partition was last placed,  *)
(* by assign, a seek or a restart, its records are handed out in log order   *)
(* and each once, and nothing that was aborted or is still undecided is among *)
(* them: whatever sessions were lost, requests repeated, leaders moved or    *)
(* polls dropped in between.                                                 *)
Abstract == INSTANCE Cursor WITH
  readable <- [p \in Partitions |-> { o \in Visible(p) : o < EndFor(log[p].batches, Visibility) }],
  start <- [p \in Partitions |-> log[p].start],
  cursor <- [p \in Partitions |->
               IF delivered[p] = <<>> THEN placed[p] ELSE delivered[p][Len(delivered[p])] + 1],
  handed <- delivered
InOrderOnce == Abstract!CursorSpec

(* No record is passed over: what lies between where a partition was placed  *)
(* and its position was handed out or waits in the buffer.  Two cases are    *)
(* excepted: seek_to_committed clears the whole buffer, and a partition      *)
(* without a committed offset keeps its position; and a broker that was not  *)
(* told the offset (see SessionAgrees) answers for another one.              *)
NoGap ==
  \A p \in DOMAIN assignment : p \notin doubt.lost =>
    \A o \in Visible(p) : placed[p] <= o /\ o < assignment[p].position =>
      o \in ToSet(delivered[p]) \cup InBuffer(p)

(* What the group committed for a partition was received, by this run of the *)
(* application or one before a crash.  Excepted is an application that moves *)
(* the partition itself, and one that commits after a failed poll, when      *)
(* records it has not been given are already behind the position.            *)
AtLeastOnce ==
  \A p \in Partitions : p \notin doubt.skipped =>
    \A o \in Visible(p) : o < committed[p] => o \in received[p]

(* Nothing is skipped, by the consumer or by a restart from its commits. *)
NothingSkipped == NoGap /\ AtLeastOnce

(* As long as a broker would accept the next incremental request, it holds   *)
(* of every partition what the consumer takes it to hold.  Excepted is a     *)
(* session whose last request was given up and never reached the broker      *)
(* (FetchSession::next records a request as sent before it is).              *)
SessionAgrees ==
  \A b \in DOMAIN fetchers \ doubt.unsent :
    LET s == fetchers[b]
        c == caches[b]
    IN s.id # NO_SESSION /\ s.id = c.id /\ s.epoch = Expects(c) => s.known = c.parts

(* A fetch at the position of p is refused, or what fits in its answer is    *)
(* all markers and hidden records, which fetch_once does not step over.      *)
Stuck(p) ==
  LET answer == PartAnswer(leader[p], p, assignment[p].position)
  IN \/ answer.error # "none"
     \/ \A b \in ToSet(answer.of.sent) :
          /\ \A o \in VisibleOffsets(<<b>>, Visibility) : o < assignment[p].position
          /\ b.health # "ok" => b.base < assignment[p].position

(* Every record of a partition that is assigned and not paused is handed out *)
(* sooner or later: leaders that move, sessions that are dropped or outgrow  *)
(* their epochs, damaged batches and polls that are given up only delay it.  *)
(* Excepted are partitions a fetch cannot advance, and brokers that were not *)
(* told what the consumer takes them to know (see SessionAgrees).            *)
CatchesUp ==
  <>[](\A p \in DOMAIN assignment :
         \/ assignment[p].paused \/ p \in doubt.lost \/ doubt.unsent # {} \/ Stuck(p)
         \/ \A o \in Visible(p) :
              placed[p] <= o /\ o < EndFor(log[p].batches, Visibility) => o \in ToSet(delivered[p]))
=============================================================================

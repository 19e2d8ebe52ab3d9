------------------------------- MODULE Admin -------------------------------
(***************************************************************************)
(* One call of the admin client (kafka-admin).  per_item_retrying          *)
(* (reask.rs) asks for all the items, settles those with a final outcome   *)
(* and asks again for the others only; the operations that take several    *)
(* requests are modelled step by step: reset_offsets (groups.rs), which    *)
(* lists and describes the group before it commits, topic_offset_range     *)
(* (offsets.rs) and describe_topics (topics.rs), which follows a cursor.   *)
(* The cluster changes under the call: another client creates and deletes  *)
(* the items, roles move, a member joins and commits, the log grows and is *)
(* truncated.  The budget of a call, a timeout, may run out after any      *)
(* round; MaxReasks bounds the rounds a run looks at.                      *)
(***************************************************************************)
EXTENDS AdminOps, Naturals, Sequences, FiniteSets

CONSTANTS Items,       \* the items a call names, numbers 1..n in the order of their names
          MaxReasks,   \* rounds after the first
          MaxFaults,   \* answers that are late, lost, refused, incomplete or out of date
          MaxOthers,   \* steps of the rest of the world during the call
          Brokers,     \* the brokers topic_size asks, with a replica of the partition or without
          Parts,       \* partitions of a topic
          PageLimit    \* DESCRIBE_PARTITION_LIMIT

ASSUME AdminAssumption ==
  /\ Items \subseteq Nat /\ IsFiniteSet(Items)
  /\ Brokers # {} /\ IsFiniteSet(Brokers)
  /\ {MaxReasks, MaxFaults, MaxOthers} \subseteq Nat
  /\ {Parts, PageLimit} \subseteq Nat \ {0}

VARIABLES
  store,    \* the items that exist in the cluster
  group,    \* the group of reset_offsets: its kind, whether a member lives, the partitions
            \* whose committed offset is the one the call wrote, those at which the member
            \* still reads on from another (`holds`), and whether it joined past the check
  log,      \* the log topic_offset_range looks at
  dirs,     \* the leader of the partition topic_size measures, and its replicas on each
            \* broker: their sizes, and whether they are copies being made (future)
  stale,    \* the client's caches that are out of date: "metadata", "coordinator"
  scope,    \* the mutating keys the handle may send, as scoped() or the ceiling left them
  call,     \* the call: see NoCall
  faults, others

vars == <<store, group, log, dirs, stale, scope, call, faults, others>>

\* What only the properties read: `did`, the items the call's requests were
\* executed for; `doubt`, those executed by a request whose answer did not
\* say so; `repeated`, those executed again after they had settled; `waits`,
\* the rounds a retriable code asked for; `disturbed`, whether the world
\* changed; `lost`, whether outcomes were settled when the call failed; `blind`,
\* whether a group was described as another kind than its own; `raced`, the
\* items committed while a member was there that joined after the check.
History == [did |-> {}, doubt |-> {}, repeated |-> {}, waits |-> 0, disturbed |-> FALSE,
            lost |-> FALSE, blind |-> FALSE, raced |-> {}]
NoCall == [op |-> describe_cluster, state |-> "idle", items |-> {}, unasked |-> {}, round |-> <<>>,
           settled |-> <<>>, spent |-> FALSE, reasks |-> 0, kind |-> "none", low |-> 0, high |-> 0,
           unread |-> {}, leader |-> 0, logical |-> 0, replicated |-> 0,
           heard |-> FALSE, partial |-> [i \in Items |-> 0], cursor |-> <<0, 0>>, past |-> History]

Outcomes(s, i) == {s[k][2] : k \in {j \in DOMAIN s : s[j][1] = i}}

\* The k-th of a set of numbers.
Nth(K, k) == CHOOSE j \in K : Cardinality({h \in K : h < j}) = k - 1

-----------------------------------------------------------------------------
(* Error codes, by the classes the loop asks about.                        *)

retriable_for_named_resource(code) == code \in {"NotLeader", "NotCoordinator", "TimedOut"}
needs_metadata_refresh(code) == code \in {"NotLeader", "UnknownTopic"}
needs_coordinator_refresh(code) == code = "NotCoordinator"

disposition(code, spent) ==
  IF retriable_for_named_resource(code) THEN "Reask"
  ELSE IF needs_metadata_refresh(code) /\ ~spent THEN "RefreshOnce" ELSE "Settle"

\* The gate of a scoped or read-only handle, in front of every send.
Admitted(key) == ~is_mutating(key) \/ key \in scope

Cache(op) == IF op.to = "coordinator" THEN "coordinator" ELSE "metadata"

-----------------------------------------------------------------------------
(* The broker's part in a request: what may happen to an item.             *)

\* The code for an item that is not there, by the cache its operation uses.
Absent(op) == IF op.to \in {"controller", "leader"} THEN "UnknownTopic" ELSE "NotFound"
Result(op, i) ==
  CASE op.verb = "create" /\ i \in store -> "Exists"
    [] op.verb \in {"alter", "delete", "read"} /\ i \notin store -> Absent(op)
    [] OTHER -> "Ok"

\* An item's request is executed and answered, executed and answered too late,
\* answered by a broker that is behind, refused, or left out of the answer.
Answer(op, i) ==
  {[done |-> Result(op, i) = "Ok", code |-> Result(op, i), fault |-> 0]}
  \cup {[done |-> Result(op, i) = "Ok", code |-> "TimedOut", fault |-> 1],
        [done |-> FALSE, code |-> Absent(op), fault |-> 1],
        [done |-> FALSE, code |-> "Denied", fault |-> 1]}
  \cup (IF "positional" \in op.how THEN {}
        ELSE {[done |-> FALSE, code |-> "Unmentioned", fault |-> 1]})
Misrouted(op) == {[done |-> FALSE, fault |-> 0,
                   code |-> IF Cache(op) = "coordinator" THEN "NotCoordinator" ELSE "NotLeader"]}
Answers(op, i) == IF op.to # "any" /\ Cache(op) \in stale THEN Misrouted(op) ELSE Answer(op, i)

\* The items D are executed.
Execute(op, D) ==
  /\ store' = CASE op.verb \in {"create", "put"} -> store \cup D
                [] op.verb = "delete" -> store \ D
                [] OTHER -> store
  /\ group' = IF op = reset_offsets THEN [group EXCEPT !.written = @ \cup D] ELSE group

Settled(i) == Outcomes(call.settled, i) # {}
Past(op, D, unsure) ==
  IF op.verb = "read" THEN call.past
  ELSE [call.past EXCEPT !.did = @ \cup D, !.doubt = @ \cup unsure,
                         !.repeated = @ \cup {i \in D : Settled(i)},
                         !.raced = @ \cup (IF group.late THEN D ELSE {})]

-----------------------------------------------------------------------------
(* The call.                                                               *)

\* Any operation on any of the items, through a handle of any scope; the
\* operations that start with requests of their own go to their first step.
Begin(op, I, first) ==
  /\ call.state = "idle"
  /\ call' = [NoCall EXCEPT !.op = op, !.items = I, !.unasked = I,
                            !.state = IF I = {} THEN "returned" ELSE first]
  /\ UNCHANGED <<store, group, log, dirs, stale, scope, faults, others>>

\* The items of the next request of the round.
Batch(S) == IF "split" \in call.op.how THEN \E i \in call.unasked : S = {i} ELSE S = call.unasked
Fails == [call EXCEPT !.state = "failed", !.round = <<>>, !.unasked = {},
                           !.past.lost = call.settled # <<>>]
InRound(S, code) == call.round \o [k \in 1..Cardinality(S) |-> <<Nth(S, k), code[Nth(S, k)]>>]

\* A request the handle may not send: the error of the call, or of the items.
Refused(S) ==
  /\ call.state = "ask" /\ call.unasked # {} /\ Batch(S) /\ ~Admitted(call.op.key)
  /\ call' = IF "split" \in call.op.how
               THEN [call EXCEPT !.unasked = @ \ S, !.round = InRound(S, [i \in S |-> "ReadOnly"])]
               ELSE Fails
  /\ UNCHANGED <<store, group, log, dirs, stale, scope, faults, others>>

\* The outcomes an answer gives the items S: by name, whatever the answer leaves out.
ByName(op, S, a) ==
  [i \in {j \in S : "named" \in op.how \/ a[j].code # "Unmentioned"} |-> a[i].code]

\* A request is answered, each item on its own; an item the answer leaves out
\* becomes an error or is not reported.  A code of the whole answer that is
\* spread over the items is the case of the same code for each.
Answered(S) ==
  /\ call.state = "ask" /\ call.unasked # {} /\ Batch(S) /\ Admitted(call.op.key)
  /\ \E a \in [S -> UNION {Answers(call.op, i) : i \in S}] :
       /\ \A i \in S : a[i] \in Answers(call.op, i)
       /\ faults + Cardinality({i \in S : a[i].fault = 1}) <= MaxFaults
       /\ faults' = faults + Cardinality({i \in S : a[i].fault = 1})
       /\ LET D == {i \in S : a[i].done}
              codes == ByName(call.op, S, a)
          IN /\ Execute(call.op, D)
             /\ call' = [call EXCEPT !.unasked = @ \ S, !.round = InRound(DOMAIN codes, codes),
                           !.past = Past(call.op, D, {i \in D : a[i].code # "Ok"})]
  /\ UNCHANGED <<log, dirs, stale, scope, others>>

\* A request fails after its retries: it may have been executed for some of
\* its items, or executed and retried until the answer was another.
Fail(S) ==
  /\ call.state = "ask" /\ call.unasked # {} /\ Batch(S) /\ Admitted(call.op.key) /\ faults < MaxFaults
  /\ faults' = faults + 1
  /\ \E D \in SUBSET {i \in S : Result(call.op, i) = "Ok"} :
       /\ Execute(call.op, D)
       /\ call' = IF "split" \in call.op.how
                    THEN [call EXCEPT !.unasked = @ \ S, !.round = InRound(S, [i \in S |-> "Failed"]),
                                      !.past = Past(call.op, D, D)]
                    ELSE [Fails EXCEPT !.past.did = Past(call.op, D, D).did,
                                                 !.past.doubt = Past(call.op, D, D).doubt]
  /\ UNCHANGED <<log, dirs, stale, scope, others>>

\* What the loop keeps for the next round, given how it judges a code.
Kept_All(sorted) == {k \in DOMAIN call.round : \E j \in DOMAIN call.round : sorted[j] # "Settle"}
Kept(sorted) == {k \in DOMAIN call.round : sorted[k] # "Settle"}
\* The round is over: settle, and ask again for what is left unless the budget
\* is used up, after a refresh of the caches the codes say are out of date; one
\* of the metadata may fail, and the round goes on without it.
RoundEnds ==
  /\ call.state = "ask" /\ call.unasked = {}
  /\ LET judged == [k \in DOMAIN call.round |->
                      IF "narrow" \notin call.op.how THEN "Settle"
                      ELSE disposition(call.round[k][2], call.spent)]
         kept == Kept(judged)
         rest(K) == [k \in 1..Cardinality(K) |-> call.round[Nth(K, k)]]
         final == call.settled \o rest({k \in DOMAIN call.round : judged[k] = "Settle"})
         codes == {call.round[k][2] : k \in kept}
         behind == \E c \in codes : needs_metadata_refresh(c)
     IN \/ /\ kept = {}
           /\ call' = [call EXCEPT !.state = "returned", !.settled = final, !.round = <<>>]
           /\ UNCHANGED <<stale, faults>>
        \/ /\ kept # {}        \* the next delay would end after the budget
           /\ call' = [call EXCEPT !.state = "returned", !.settled = final \o rest(kept), !.round = <<>>]
           /\ UNCHANGED <<stale, faults>>
        \/ /\ kept # {} /\ call.reasks < MaxReasks
           /\ call' = [call EXCEPT !.settled = final, !.round = <<>>, !.reasks = @ + 1,
                         !.unasked = {call.round[k][1] : k \in kept},
                         !.spent = @ \/ \E k \in kept : judged[k] = "RefreshOnce",
                         !.past.waits = @ + IF \E c \in codes : retriable_for_named_resource(c)
                                            THEN 1 ELSE 0]
           /\ \E refreshed \in BOOLEAN :
                /\ refreshed \/ (behind /\ faults < MaxFaults)
                /\ faults' = IF refreshed THEN faults ELSE faults + 1
                /\ stale' = stale \ ((IF behind /\ refreshed THEN {"metadata"} ELSE {})
                                \cup (IF call.op.to = "coordinator" /\ \E c \in codes : needs_coordinator_refresh(c)
                                      THEN {"coordinator"} ELSE {}))
  /\ UNCHANGED <<store, group, log, dirs, scope, others>>

-----------------------------------------------------------------------------
(* reset_offsets: list the groups, describe this one by its kind, commit.  *)

\* list_groups asks every broker; a broker that fails is left out, so the
\* group may not be in the list though it exists.
ListGroups ==
  /\ call.state = "list"
  /\ \/ /\ call' = [call EXCEPT !.state = "describe", !.kind = group.kind]
        /\ UNCHANGED faults
     \/ /\ faults < MaxFaults /\ faults' = faults + 1
        /\ call' = [call EXCEPT !.state = "describe", !.kind = "none"]
  /\ UNCHANGED <<store, group, log, dirs, stale, scope, others>>

\* DescribeGroups answers for a group of another kind with a classic group that is dead.
is_empty_Always(members) == TRUE
is_empty(members) == ~members
DescribeGroup ==
  LET as == IF call.kind = "none" THEN "classic" ELSE call.kind
      members == group.members /\ as = group.kind
      seen == [call EXCEPT !.past.blind = as # group.kind]
  IN /\ call.state = "describe"
     /\ \/ /\ is_empty(members) /\ as \in {"classic", "consumer"}
           /\ call' = [seen EXCEPT !.state = "ask"]
           /\ UNCHANGED faults
        \/ /\ ~is_empty(members) \/ as \notin {"classic", "consumer"}
           /\ call' = [seen EXCEPT !.state = "failed", !.unasked = {}]
           /\ UNCHANGED faults
        \/ /\ faults < MaxFaults /\ faults' = faults + 1
           /\ call' = [call EXCEPT !.state = "failed", !.unasked = {}]
     /\ UNCHANGED <<store, group, log, dirs, stale, scope, others>>

-----------------------------------------------------------------------------
(* topic_offset_range: the earliest offset, then the latest.               *)

\* The metadata or a listing fails, and the call with it, or a listing has an
\* error for the partition, which is then its outcome: no range either way.
NoRange ==
  /\ call.state \in {"first", "second"} /\ faults < MaxFaults /\ faults' = faults + 1
  /\ call' = [call EXCEPT !.state = "failed", !.unasked = {}, !.low = 0, !.high = 0]
OffsetRange_Swapped ==
  /\ \/ /\ call.state = "first" /\ UNCHANGED faults
        /\ call' = [call EXCEPT !.state = "second", !.high = log.end]
     \/ /\ call.state = "second" /\ UNCHANGED faults
        /\ call' = [call EXCEPT !.state = "returned", !.low = log.start, !.unasked = {}]
     \/ NoRange
  /\ UNCHANGED <<store, group, log, dirs, stale, scope, others>>
OffsetRange ==
  /\ \/ /\ call.state = "first" /\ UNCHANGED faults
        /\ call' = [call EXCEPT !.state = "second", !.low = log.start]
     \/ /\ call.state = "second" /\ UNCHANGED faults
        /\ call' = [call EXCEPT !.state = "returned", !.high = log.end, !.unasked = {}]
     \/ NoRange
  /\ UNCHANGED <<store, group, log, dirs, stale, scope, others>>

-----------------------------------------------------------------------------
(* describe_topics: pages of at most PageLimit partitions, from a cursor.  *)

AtOrAfter(pos, cursor) == pos[1] > cursor[1] \/ (pos[1] = cursor[1] /\ pos[2] >= cursor[2])
\* The partitions left to list, and those of the next page.
Left == {pos \in (call.items \cap store) \X (1..Parts) : AtOrAfter(pos, call.cursor)}
NextPage == {pos \in Left : Cardinality({q \in Left : ~AtOrAfter(q, pos)}) < PageLimit}
\* The results, when the last page is in: a topic some page listed is described.
Described(partial, gone) ==
  LET known == {i \in call.items : partial[i] > 0 \/ i \in gone}
  IN [k \in 1..Cardinality(known) |->
        <<Nth(known, k), IF partial[Nth(known, k)] > 0 THEN "Ok" ELSE "UnknownTopic">>]
\* A topic that is not there is answered with a code where its page comes.
DescribePage ==
  /\ call.state = "page"
  /\ LET page == NextPage
         over == Left = page
         next == CHOOSE pos \in Left \ page : \A q \in Left \ page : AtOrAfter(q, pos)
         partial == [i \in Items |-> call.partial[i] + Cardinality({pos \in page : pos[1] = i})]
         gone == {i \in call.items \ store : i >= call.cursor[1] /\ (over \/ i < next[1])}
                 \cup {i \in Items : \E k \in DOMAIN call.round : call.round[k][1] = i}
     IN call' = IF over
                  THEN [call EXCEPT !.state = "returned", !.partial = partial, !.unasked = {},
                                    !.round = <<>>, !.settled = Described(partial, gone)]
                  ELSE [call EXCEPT !.partial = partial, !.cursor = next,
                          !.round = InRound(gone, [i \in gone |-> "UnknownTopic"])]
  /\ UNCHANGED <<store, group, log, dirs, stale, scope, faults, others>>

\* A broker without DescribeTopicPartitions: one Metadata request for the names.
DescribeViaMetadata ==
  /\ call.state = "page" /\ call.cursor = <<0, 0>>
  /\ LET partial == [i \in Items |-> IF i \in call.items \cap store THEN Parts ELSE 0]
     IN call' = [call EXCEPT !.state = "returned", !.unasked = {}, !.partial = partial,
                             !.settled = Described(partial, call.items \ store)]
  /\ UNCHANGED <<store, group, log, dirs, stale, scope, faults, others>>

-----------------------------------------------------------------------------
(* topic_size: the leaders from the metadata, then the log directories of  *)
(* one broker after another, with a replica or without; one that fails is  *)
(* left out, unless all do.                                                *)

leader_map == [call EXCEPT !.state = "dirs", !.leader = dirs.leader, !.unread = Brokers]
ReadLeaders == /\ call.state = "leaders" /\ call' = leader_map
               /\ UNCHANGED <<store, group, log, dirs, stale, scope, faults, others>>

\* A copy being made counts for nothing; the leader's size is the partition's.
SizeAt(b) == IF dirs.at[b] = {} THEN 0 ELSE (CHOOSE r \in dirs.at[b] : ~r.future).size
add(b) == [call EXCEPT !.unread = @ \ {b}, !.heard = TRUE, !.replicated = @ + SizeAt(b),
                       !.logical = IF b = call.leader THEN SizeAt(b) ELSE @]
ReadDirs(b) ==
  /\ call.state = "dirs" /\ b \in call.unread
  /\ \/ call' = add(b) /\ UNCHANGED faults
     \/ /\ faults < MaxFaults /\ faults' = faults + 1
        /\ call' = [call EXCEPT !.unread = @ \ {b}, !.past.disturbed = TRUE]
  /\ UNCHANGED <<store, group, log, dirs, stale, scope, others>>
finish ==
  /\ call.state = "dirs" /\ call.unread = {}
  /\ call' = [call EXCEPT !.state = IF call.heard THEN "returned" ELSE "failed", !.unasked = {}]
  /\ UNCHANGED <<store, group, log, dirs, stale, scope, faults, others>>

-----------------------------------------------------------------------------
(* The rest of the world, while the call runs.                             *)

World == /\ call.state \notin {"idle", "returned", "failed"} /\ others < MaxOthers
         /\ others' = others + 1
         /\ UNCHANGED <<scope, faults>>
Disturbs == call' = [call EXCEPT !.past.disturbed = TRUE]

OtherClient(i) == /\ World /\ call.op \notin {reset_offsets, topic_offset_range, topic_size}
                  /\ store' = IF i \in store THEN store \ {i} ELSE store \cup {i}
                  /\ Disturbs /\ UNCHANGED <<group, log, dirs, stale>>
RoleMoves == /\ World /\ call.op.to # "any" /\ "twice" \notin call.op.how
             /\ Cache(call.op) \notin stale
             /\ stale' = stale \cup {Cache(call.op)}
             /\ UNCHANGED <<store, group, log, dirs, call>>
\* A member that joins reads on from what is committed then.
MemberComes == /\ World /\ call.op = reset_offsets /\ ~group.members
               /\ group' = [group EXCEPT !.members = TRUE, !.holds = Items \ group.written,
                                         !.late = (call.state = "ask")]
               /\ UNCHANGED <<store, log, dirs, stale, call>>
MemberLeaves == /\ World /\ call.op = reset_offsets /\ group.members
                /\ group' = [group EXCEPT !.members = FALSE, !.holds = {}, !.late = FALSE]
                /\ UNCHANGED <<store, log, dirs, stale, call>>
LogMoves == /\ World /\ call.op = topic_offset_range
            /\ \/ log' = [log EXCEPT !.end = @ + 1]
               \/ log.start < log.end /\ log' = [log EXCEPT !.start = @ + 1]
            /\ UNCHANGED <<store, group, dirs, stale, call>>
\* A broker copies its replica to another directory, which takes a while, or
\* the leadership moves.
ReplicaMoves == /\ World /\ call.op = topic_size
                /\ \E b \in Brokers :
                     \/ /\ Cardinality(dirs.at[b]) = 1
                        /\ dirs' = [dirs EXCEPT !.at[b] = @ \cup {[size |-> 1, future |-> TRUE]}]
                     \/ /\ Cardinality(dirs.at[b]) = 2
                        /\ dirs' = [dirs EXCEPT !.at[b] = {[size |-> 2, future |-> FALSE]}]
                     \/ dirs.leader # b /\ dirs.at[b] # {} /\ dirs' = [dirs EXCEPT !.leader = b]
                /\ UNCHANGED <<store, group, log, stale, call>>
\* A member commits its own position, also after the call.  One that goes on
\* from what the reset wrote leaves the reset standing.
MemberCommits(i) == /\ group.members /\ i \in group.holds \cap group.written
                    /\ group' = [group EXCEPT !.written = @ \ {i}]
                    /\ UNCHANGED <<store, log, dirs, stale, scope, call, faults, others>>

-----------------------------------------------------------------------------
AdminInit ==
  /\ store \in SUBSET Items
  /\ \E kind \in {"classic", "consumer", "share"}, members \in BOOLEAN :
       group = [kind |-> kind, members |-> members, holds |-> IF members THEN Items ELSE {},
                late |-> FALSE, written |-> {}]
  /\ log = [start |-> 1, end |-> 1]
  /\ \E replicas \in (SUBSET Brokers) \ {{}} :
       dirs = [leader |-> CHOOSE b \in replicas : TRUE,
               at |-> [b \in Brokers |-> IF b \in replicas THEN {[size |-> 2, future |-> FALSE]} ELSE {}]]
  /\ stale = {}
  /\ scope \in {{}, {"OffsetCommit"}, {op.key : op \in Operations \cup {reset_offsets}} \ ReadKeys}
  /\ call = NoCall /\ faults = 0 /\ others = 0

BeginAny == \/ \E op \in Operations, I \in SUBSET Items : Begin(op, I, "ask")
            \/ \E I \in SUBSET Items : Begin(reset_offsets, I, "list")
            \/ \E i \in Items : Begin(topic_offset_range, {i}, "first")
            \/ \E i \in Items : Begin(topic_size, {i}, "leaders")
            \/ \E I \in SUBSET Items : Begin(describe_topics, I, "page")
AdminNext ==
  \/ BeginAny
  \/ \E S \in SUBSET Items : Refused(S) \/ Answered(S) \/ Fail(S)
  \/ RoundEnds \/ ListGroups \/ DescribeGroup \/ OffsetRange \/ DescribePage \/ DescribeViaMetadata
  \/ ReadLeaders \/ finish \/ \E b \in Brokers : ReadDirs(b)
  \/ \E i \in Items : OtherClient(i) \/ MemberCommits(i)
  \/ RoleMoves \/ MemberComes \/ MemberLeaves \/ LogMoves \/ ReplicaMoves
AdminSpecification == AdminInit /\ [][AdminNext]_vars

-----------------------------------------------------------------------------
(* Properties.                                                             *)

Returned == call.state = "returned"
OkOf(i) == "Ok" \in Outcomes(call.settled, i)

\* What the handle's scope does not admit is not done: no request that changes
\* anything at a broker goes out under a key the gate takes for a read
\* (ApiKey::is_mutating, Cluster::in_scope, ConnectionConfig::permits).
ScopeHolds == call.past.did # {} => call.op.key \in scope

\* The outcomes tell what was done: an item reported Ok was executed by this
\* call, and one reported with an error was not, unless a request was executed
\* whose answer did not say so; and a call that fails as a whole has done
\* nothing but that, unless outcomes of an earlier round went with it.
AsReported ==
  /\ Returned /\ call.op.verb # "read" =>
       \A i \in call.items : /\ OkOf(i) => i \in call.past.did
                             /\ ~OkOf(i) /\ i \in call.past.did => i \in call.past.doubt
  /\ call.state = "failed" /\ ~call.past.lost => call.past.did \subseteq call.past.doubt

\* The loop asks for no more than it must: an item is reported once and, once
\* settled, not executed again, so what another client made since is not
\* undone; and the codes of a name that does not exist cost one extra round.
AskedOnce ==
  /\ Returned => \A j, k \in DOMAIN call.settled : call.settled[j][1] = call.settled[k][1] => j = k
  /\ Returned /\ "named" \in call.op.how => \A i \in call.items : Outcomes(call.settled, i) # {}
  /\ call.past.repeated = {}
  /\ call.reasks <= call.past.waits + 1

\* A reset that is reported stands, now and after whatever the members commit
\* later: those that were there before the check, that come and go between its
\* requests, or that join once a partition is committed.  What reset_offsets
\* leaves open is excepted partition by partition: one committed while a member
\* was there that joined after the check, in this round or a later one; and a
\* group the check described as another kind than its own, because list_groups
\* leaves out a broker that fails.
ResetSticks ==
  Returned /\ call.op = reset_offsets /\ ~call.past.blind
    => \A i \in call.items : OkOf(i) => i \in group.written \cup call.past.raced

\* What several requests put together is one picture: an offset range does not
\* end before it begins though the log moves between the two requests; a
\* topic's size is its leader's and never more than its replicas', though a
\* replica is being copied and the leader moves while the brokers are asked;
\* and a topic that pages describe is whole, though a page ends inside it.
OnePicture ==
  Returned => /\ call.low <= call.high
              /\ call.logical <= call.replicated
              /\ call.op = topic_size /\ ~call.past.disturbed =>
                   call.logical = 2 /\ call.replicated = 2 * Cardinality({b \in Brokers : dirs.at[b] # {}})
              /\ call.op = describe_topics /\ ~call.past.disturbed =>
                   \A i \in call.items : /\ Outcomes(call.settled, i) # {}
                                         /\ OkOf(i) <=> i \in store
                                         /\ OkOf(i) => call.partial[i] = Parts

(* The outcome of every item, from one request or several: what the cluster   *)
(* said last, and no item asked for again once it was settled.                *)
OutcomesSound == AsReported /\ AskedOnce
=============================================================================

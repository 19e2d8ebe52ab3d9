---------------------------- MODULE AdminProofs ----------------------------
(***************************************************************************)
(* Proofs about the calls of the admin client, for every set of items, any *)
(* number of rounds and faults, and whatever the rest of the world does:   *)
(* what reaches a broker is within the scope of the handle (ScopeInv), the *)
(* outcomes returned are those of the requests (OutcomeInv, per_item_      *)
(* retrying), a reset that is reported stands (ResetInv, reset_offsets),   *)
(* and what several answers are put together to is whole (PictureInv,      *)
(* topic_offset_range, topic_size and describe_topics). At the end, about  *)
(* Principal: what is inferred about a principal is sound (HeardInv).      *)
(***************************************************************************)
EXTENDS Admin, Principal, FiniteSetTheorems, TLAPS

CallFields == {"op", "state", "items", "unasked", "round", "settled", "spent", "reasks", "kind", "low", "high",
               "unread", "leader", "logical", "replicated", "heard", "partial", "cursor", "past"}
PastFields == {"did", "doubt", "repeated", "waits", "disturbed", "lost", "blind", "raced"}
CallShape(c) == DOMAIN c = CallFields /\ DOMAIN c.past = PastFields

AllOperations == Operations \cup {reset_offsets, topic_offset_range, topic_size, describe_topics}

(* The inductive invariant of the gate.                                    *)
ScopeInv == /\ CallShape(call)
            /\ call.op \in AllOperations
            /\ ScopeHolds

-----------------------------------------------------------------------------
(* The gate knows the keys: an operation that changes anything at a broker *)
(* sends a key that is_mutating takes for one (ApiKey::is_mutating).       *)
LEMMA ChangesMutate ==
  ASSUME NEW op \in AllOperations, op.verb # "read"
  PROVE  is_mutating(op.key)
BY DEF AllOperations, Operations, is_mutating, ReadKeys, Asks,
   create_topics, validate_topics, delete_topics, create_partitions, describe_topics, delete_records,
   describe_configs, alter_configs, alter_partition_reassignments, list_partition_reassignments, elect_leaders,
   list_offsets, topic_offset_range, list_transactions, describe_transactions, describe_producers,
   describe_cluster, describe_log_dirs, topic_size, describe_consumer_groups, describe_share_groups,
   fetch_offsets, reset_offsets, delete_offsets, delete_groups, describe_acls, create_acls, delete_acls,
   describe_client_quotas, alter_client_quotas, describe_scram_credentials, upsert_scram_credentials,
   delete_scram_credentials, create_delegation_token, renew_delegation_token, expire_delegation_token,
   describe_delegation_tokens

(* What a request that went out leaves in the history is within the scope. *)
LEMMA PastKeeps ==
  ASSUME ScopeInv, Admitted(call.op.key), NEW D, NEW unsure
  PROVE  /\ DOMAIN Past(call.op, D, unsure) = PastFields
         /\ Past(call.op, D, unsure).did # {} => call.op.key \in scope
<1>1. CASE call.op.verb = "read" BY <1>1 DEF Past, ScopeInv, ScopeHolds, CallShape
<1>2. CASE call.op.verb # "read"
  <2>1. is_mutating(call.op.key) BY <1>2, ChangesMutate DEF ScopeInv
  <2>2. call.op.key \in scope BY <2>1 DEF Admitted
  <2> QED BY <1>2, <2>2 DEF Past, ScopeInv, CallShape, PastFields
<1> QED BY <1>1, <1>2

(* A step that leaves the operation and what was done alone.               *)
LEMMA QuietStep ==
  ASSUME ScopeInv, CallShape(call'), call'.op = call.op, call'.past.did = call.past.did, scope' = scope
  PROVE  ScopeInv'
BY DEF ScopeInv, CallShape, ScopeHolds

LEMMA FailsShape ==
  ASSUME CallShape(call)
  PROVE  CallShape(Fails) /\ Fails.op = call.op /\ Fails.past.did = call.past.did
BY DEF Fails, CallShape, CallFields, PastFields

LEMMA ScopeStep == ScopeInv /\ [AdminNext]_vars => ScopeInv'
<1> SUFFICES ASSUME ScopeInv, [AdminNext]_vars
             PROVE  ScopeInv'
  OBVIOUS
<1> USE DEF CallShape
<1>0. CallShape(call) BY DEF ScopeInv
<1>1. CASE UNCHANGED vars BY <1>1 DEF vars, ScopeInv, ScopeHolds
<1>2. CASE BeginAny
  <2>1. PICK op \in AllOperations : \E I, first : Begin(op, I, first) BY <1>2 DEF BeginAny, AllOperations
  <2>2. CallShape(NoCall) /\ NoCall.past.did = {} BY DEF NoCall, History, CallFields, PastFields
  <2>3. CallShape(call') /\ call'.op = op /\ call'.past.did = {} BY <2>1, <2>2 DEF Begin, CallFields
  <2> QED BY <2>1, <2>3 DEF ScopeInv, ScopeHolds
<1>3. ASSUME NEW S \in SUBSET Items, Refused(S)
      PROVE  ScopeInv'
  <2>1. CallShape(call') /\ call'.op = call.op /\ call'.past.did = call.past.did /\ scope' = scope
    BY <1>0, <1>3, FailsShape DEF Refused, CallFields
  <2> QED BY <2>1, QuietStep
<1>4. ASSUME NEW S \in SUBSET Items, Answered(S)
      PROVE  ScopeInv'
  <2>1. PICK D, unsure, left, round :
           call' = [call EXCEPT !.unasked = left, !.round = round, !.past = Past(call.op, D, unsure)]
    BY <1>4 DEF Answered
  <2>2. Admitted(call.op.key) /\ scope' = scope BY <1>4 DEF Answered
  <2> DEFINE past == Past(call.op, D, unsure)
  <2>3. DOMAIN past = PastFields /\ (past.did # {} => call.op.key \in scope) BY <2>2, PastKeeps
  <2> HIDE DEF past
  <2>4. CallShape(call') /\ call'.op = call.op /\ call'.past = past BY <1>0, <2>1, <2>3 DEF CallFields, past
  <2> QED BY <2>2, <2>3, <2>4 DEF ScopeInv, ScopeHolds
<1>5. ASSUME NEW S \in SUBSET Items, Fail(S)
      PROVE  ScopeInv'
  <2>1. PICK D : call' = IF "split" \in call.op.how
                    THEN [call EXCEPT !.unasked = @ \ S, !.round = InRound(S, [i \in S |-> "Failed"]),
                                      !.past = Past(call.op, D, D)]
                    ELSE [Fails EXCEPT !.past.did = Past(call.op, D, D).did,
                                       !.past.doubt = Past(call.op, D, D).doubt]
    BY <1>5 DEF Fail
  <2>2. Admitted(call.op.key) /\ scope' = scope BY <1>5 DEF Fail
  <2> DEFINE past == Past(call.op, D, D)
  <2>3. DOMAIN past = PastFields /\ (past.did # {} => call.op.key \in scope) BY <2>2, PastKeeps
  <2> HIDE DEF past
  <2>4. CallShape(call') /\ call'.op = call.op /\ call'.past.did = past.did
    BY <1>0, <2>1, <2>3, FailsShape DEF CallFields, PastFields, past
  <2> QED BY <2>2, <2>3, <2>4 DEF ScopeInv, ScopeHolds
<1>6. CASE RoundEnds
  <2> DEFINE judged == [k \in DOMAIN call.round |->
                          IF "narrow" \notin call.op.how THEN "Settle"
                          ELSE disposition(call.round[k][2], call.spent)]
             kept == Kept(judged)
             rest(K) == [k \in 1..Cardinality(K) |-> call.round[Nth(K, k)]]
             final == call.settled \o rest({k \in DOMAIN call.round : judged[k] = "Settle"})
             all == final \o rest(kept)
             codes == {call.round[k][2] : k \in kept}
             left == {call.round[k][1] : k \in kept}
             spent == call.spent \/ \E k \in kept : judged[k] = "RefreshOnce"
             waits == call.past.waits + IF \E c \in codes : retriable_for_named_resource(c) THEN 1 ELSE 0
  <2>1. \/ call' = [call EXCEPT !.state = "returned", !.settled = final, !.round = <<>>]
        \/ call' = [call EXCEPT !.state = "returned", !.settled = all, !.round = <<>>]
        \/ call' = [call EXCEPT !.settled = final, !.round = <<>>, !.reasks = @ + 1,
                                !.unasked = left, !.spent = spent, !.past.waits = waits]
    BY <1>6, Zenon DEF RoundEnds
  <2> HIDE DEF final, all, left, spent, waits
  <2>2. CallShape(call') /\ call'.op = call.op /\ call'.past.did = call.past.did
    <3> DEFINE Same(c) == CallShape(c) /\ c.op = call.op /\ c.past.did = call.past.did
    <3>1. \A f : Same([call EXCEPT !.state = "returned", !.settled = f, !.round = <<>>])
      BY <1>0 DEF CallFields, PastFields
    <3>2. Same([call EXCEPT !.settled = final, !.round = <<>>, !.reasks = @ + 1,
                            !.unasked = left, !.spent = spent, !.past.waits = waits])
      BY <1>0 DEF CallFields, PastFields
    <3> HIDE DEF Same
    <3>3. Same(call') BY <2>1, <3>1, <3>2, Zenon
    <3> QED BY <3>3 DEF Same
  <2>3. scope' = scope BY <1>6 DEF RoundEnds
  <2> QED BY <2>2, <2>3, QuietStep
<1>7. CASE ListGroups \/ DescribeGroup \/ OffsetRange
  <2>1. CASE ListGroups \/ OffsetRange
    <3>1. CallShape(call') /\ call'.op = call.op /\ call'.past.did = call.past.did /\ scope' = scope
      BY <1>0, <2>1 DEF ListGroups, OffsetRange, NoRange, CallFields, PastFields
    <3> QED BY <3>1, QuietStep
  <2>2. CASE DescribeGroup
    <3>1. PICK blind, state : \/ call' = [[call EXCEPT !.past.blind = blind] EXCEPT !.state = state]
                              \/ call' = [[call EXCEPT !.past.blind = blind] EXCEPT !.state = state, !.unasked = {}]
                              \/ call' = [call EXCEPT !.state = "failed", !.unasked = {}]
      BY <2>2 DEF DescribeGroup
    <3> DEFINE seen == [call EXCEPT !.past.blind = blind]
    <3>2. CallShape(seen) /\ seen.op = call.op /\ seen.past.did = call.past.did
      BY <1>0 DEF CallFields, PastFields
    <3> HIDE DEF seen
    <3>3. CallShape(call') /\ call'.op = call.op /\ call'.past.did = call.past.did
      BY <1>0, <3>1, <3>2 DEF CallFields, PastFields, seen
    <3>4. scope' = scope BY <2>2 DEF DescribeGroup
    <3> QED BY <3>3, <3>4, QuietStep
  <2> QED BY <1>7, <2>1, <2>2
<1>8. CASE DescribePage
  <2> DEFINE page == NextPage
             over == Left = page
             next == CHOOSE pos \in Left \ page : \A q \in Left \ page : AtOrAfter(q, pos)
             partial == [i \in Items |-> call.partial[i] + Cardinality({pos \in page : pos[1] = i})]
             gone == {i \in call.items \ store : i >= call.cursor[1] /\ (over \/ i < next[1])}
                     \cup {i \in Items : \E k \in DOMAIN call.round : call.round[k][1] = i}
             settled == Described(partial, gone)
             round == InRound(gone, [i \in gone |-> "UnknownTopic"])
  <2>1. call' = IF over
                THEN [call EXCEPT !.state = "returned", !.partial = partial, !.unasked = {},
                                  !.round = <<>>, !.settled = settled]
                ELSE [call EXCEPT !.partial = partial, !.cursor = next, !.round = round]
    BY <1>8, Zenon DEF DescribePage
  <2> HIDE DEF over, next, partial, settled, round
  <2>2. CallShape(call') /\ call'.op = call.op /\ call'.past.did = call.past.did
    BY <1>0, <2>1 DEF CallFields, PastFields
  <2>3. scope' = scope BY <1>8 DEF DescribePage
  <2> QED BY <2>2, <2>3, QuietStep
<1>9. CASE DescribeViaMetadata \/ ReadLeaders \/ finish \/ \E b \in Brokers : ReadDirs(b)
  <2>1. \A b : CallShape(add(b)) /\ add(b).op = call.op /\ add(b).past.did = call.past.did
    BY <1>0 DEF add, CallFields, PastFields
  <2>2. CallShape(call') /\ call'.op = call.op /\ call'.past.did = call.past.did /\ scope' = scope
    <3>1. CASE DescribeViaMetadata BY <1>0, <3>1 DEF DescribeViaMetadata, CallFields, PastFields
    <3>2. CASE ReadLeaders \/ finish BY <1>0, <3>2 DEF ReadLeaders, leader_map, finish, CallFields, PastFields
    <3>3. CASE \E b \in Brokers : ReadDirs(b)
      <4>1. PICK b \in Brokers : ReadDirs(b) BY <3>3
      <4>2. CASE call' = add(b) BY <2>1, <4>1, <4>2 DEF ReadDirs
      <4>3. CASE call' = [call EXCEPT !.unread = @ \ {b}, !.past.disturbed = TRUE]
        BY <1>0, <4>1, <4>3 DEF ReadDirs, CallFields, PastFields
      <4> QED BY <4>1, <4>2, <4>3 DEF ReadDirs
    <3> QED BY <1>9, <3>1, <3>2, <3>3
  <2> QED BY <2>2, QuietStep
<1>10. CASE (\E i \in Items : OtherClient(i) \/ MemberCommits(i)) \/ RoleMoves \/ MemberComes \/ MemberLeaves \/ LogMoves \/ ReplicaMoves
  <2>1. CallShape(call') /\ call'.op = call.op /\ call'.past.did = call.past.did /\ scope' = scope
    BY <1>0, <1>10 DEF OtherClient, MemberCommits, RoleMoves, MemberComes, MemberLeaves, LogMoves, ReplicaMoves, World, Disturbs,
       CallFields, PastFields
  <2> QED BY <2>1, QuietStep
<1> QED BY <1>1, <1>2, <1>3, <1>4, <1>5, <1>6, <1>7, <1>8, <1>9, <1>10 DEF AdminNext

LEMMA ScopeInit == AdminInit => ScopeInv
BY DEF AdminInit, ScopeInv, CallShape, NoCall, History, ScopeHolds, CallFields, PastFields, AllOperations, Operations

(* No call does at a broker what the scope of its handle does not admit    *)
(* (Cluster::in_scope, ConnectionConfig::permits).                         *)
THEOREM ScopeIsKept == AdminSpecification => []ScopeHolds
<1>1. ScopeInv => ScopeHolds BY DEF ScopeInv
<1> QED BY <1>1, ScopeInit, ScopeStep, PTL DEF AdminSpecification

-----------------------------------------------------------------------------
(* The outcomes of a call.                                                 *)

(* The entries of a list of outcomes, and the items it names, each once.   *)
Entries(s) == {s[k] : k \in DOMAIN s}
Names(s) == {e[1] : e \in Entries(s)}
Once(s) == \A j, k \in DOMAIN s : s[j][1] = s[k][1] => j = k
OkIn(s, i) == <<i, "Ok">> \in Entries(s)

Codes == {"Ok", "Exists", "UnknownTopic", "NotFound", "TimedOut", "Denied", "Unmentioned", "NotLeader",
          "NotCoordinator", "ReadOnly", "Failed"}

(* The operation of each step that is not a round of requests.             *)
StepsOK ==
  /\ call.state \in {"list", "describe"} => call.op = reset_offsets
  /\ call.state \in {"first", "second"} => call.op = topic_offset_range
  /\ call.state \in {"leaders", "dirs"} => call.op = topic_size
  /\ call.state = "page" => call.op = describe_topics
  /\ call.op = describe_topics => call.state \in {"page", "returned"}

CallTypes ==
  /\ call.items \subseteq Items /\ call.unasked \subseteq call.items
  /\ call.round \in Seq(Items \X Codes) /\ call.settled \in Seq(Items \X Codes)
  /\ call.spent \in BOOLEAN /\ call.reasks \in Nat /\ call.past.waits \in Nat

(* Before the first request for the items nothing has been done or settled. *)
NotAsked ==
  call.state \notin {"ask", "returned", "failed"} =>
    /\ call.past.did = {} /\ call.past.doubt = {} /\ call.settled = <<>>
    /\ call.state # "page" \/ call.cursor = <<0, 0>> => call.round = <<>>
    /\ call.state # "idle" => call.unasked = call.items

(* During a round an item is settled, answered or still to be asked for, and *)
(* never two of these.                                                     *)
Rounds ==
  /\ call.state = "ask" =>
       /\ Once(call.settled) /\ Once(call.round)
       /\ Names(call.settled) \cap Names(call.round) = {}
       /\ call.unasked \cap (Names(call.settled) \cup Names(call.round)) = {}
       /\ Names(call.settled) \cup Names(call.round) \subseteq call.items
       /\ "named" \in call.op.how => call.items = call.unasked \cup Names(call.settled) \cup Names(call.round)
       /\ "split" \notin call.op.how /\ call.unasked # {} => call.round = <<>>
  /\ call.state = "returned" =>
       /\ Once(call.settled) /\ call.round = <<>>
       /\ "named" \in call.op.how => call.items \subseteq Names(call.settled)

(* What is reported Ok was done, and what was done is reported Ok or in    *)
(* doubt.                                                                  *)
Told ==
  /\ call.op.verb = "read" => call.past.did = {} /\ call.past.doubt = {}
  /\ call.op.verb # "read" /\ call.state \in {"ask", "returned"} =>
       /\ \A i \in Items : OkIn(call.settled, i) \/ OkIn(call.round, i) => i \in call.past.did
       /\ \A i \in call.past.did \ call.past.doubt : OkIn(call.settled, i) \/ OkIn(call.round, i)
  /\ call.state = "failed" /\ ~call.past.lost => call.past.did \subseteq call.past.doubt
  /\ call.past.did \subseteq Items

(* Each round after the first was asked for by a retriable code, but for the *)
(* one that a refresh of the metadata is worth.                            *)
Rationed ==
  /\ call.past.repeated = {}
  /\ call.reasks <= call.past.waits + (IF call.spent THEN 1 ELSE 0)

OutcomeInv == ScopeInv /\ CallTypes /\ StepsOK /\ NotAsked /\ Rounds /\ Told /\ Rationed

(* A reset: from the check on only a member is there that joined later,    *)
(* and none holds another position of a partition whose reset did not race *)
(* with it.                                                                *)
Groups == [kind : {"classic", "consumer", "share"}, members : BOOLEAN, holds : SUBSET Items,
           late : BOOLEAN, written : SUBSET Items]
ResetOK ==
  /\ group \in Groups
  /\ ~group.members => group.holds = {}
  /\ call.op = reset_offsets /\ ~call.past.blind =>
       /\ call.state = "ask" /\ group.members => group.late
       /\ call.state \in {"ask", "returned"} =>
            call.past.did \ call.past.raced \subseteq group.written \ group.holds

ResetInv == OutcomeInv /\ ResetOK

-----------------------------------------------------------------------------
(* Lists.                                                                  *)

(* Nth numbers a finite set.                                               *)
LEMMA NthIs ==
  ASSUME NEW K \in SUBSET Nat, IsFiniteSet(K)
  PROVE  /\ Cardinality(K) \in Nat
         /\ \A k \in 1..Cardinality(K) : Nth(K, k) \in K
         /\ \A j, k \in 1..Cardinality(K) : Nth(K, j) = Nth(K, k) => j = k
         /\ \A i \in K : \E k \in 1..Cardinality(K) : Nth(K, k) = i
<1> DEFINE below(i) == {h \in K : h < i}
           rank == [i \in K |-> Cardinality(below(i)) + 1]
           c == Cardinality(K)
<1>0. \A i \in K : i \in Nat OBVIOUS
<1>1. c \in Nat BY FS_CardinalityType
<1>2. ASSUME NEW i \in K
      PROVE  IsFiniteSet(below(i)) /\ Cardinality(below(i)) \in Nat /\ rank[i] \in 1..c
  <2>1. below(i) \in SUBSET K /\ i \in K /\ i \notin below(i) BY <1>0
  <2>2. IsFiniteSet(below(i)) /\ Cardinality(below(i)) <= c /\ Cardinality(below(i)) \in Nat
    BY <2>1, FS_Subset, FS_CardinalityType
  <2>3. Cardinality(below(i)) # c BY <2>1, FS_Subset
  <2> QED BY <1>1, <2>2, <2>3
<1>3. ASSUME NEW i \in K, NEW j \in K, i < j
      PROVE  rank[i] < rank[j]
  <2>1. below(i) \in SUBSET below(j) /\ i \in below(j) /\ i \notin below(i)
    <3>1. \A k \in K : k < i => k < j BY <1>0, <1>3
    <3>2. i < j /\ ~(i < i) BY <1>0, <1>3
    <3> QED BY <3>1, <3>2
  <2> DEFINE x == below(i)
             y == below(j)
  <2>2. IsFiniteSet(y) /\ x # y /\ x \in SUBSET y /\ Cardinality(x) \in Nat /\ Cardinality(y) \in Nat
    BY <1>2, <2>1, Zenon
  <2>3. rank[i] = Cardinality(x) + 1 /\ rank[j] = Cardinality(y) + 1 OBVIOUS
  <2> HIDE DEF x, y, rank
  <2>4. Cardinality(x) <= Cardinality(y) /\ Cardinality(x) # Cardinality(y) BY <2>2, FS_Subset
  <2> QED BY <2>2, <2>3, <2>4
<1>4. rank \in [K -> 1..c] BY <1>2
<1>42. \A k \in 1..c : (\E i \in K : rank[i] = k) => Nth(K, k) \in K /\ rank[Nth(K, k)] = k
  <2> SUFFICES ASSUME NEW k \in 1..c, NEW i \in K, rank[i] = k
               PROVE  Nth(K, k) \in K /\ rank[Nth(K, k)] = k
    OBVIOUS
  <2>1. Cardinality(below(i)) = k - 1 BY <1>1, <1>2
  <2>2. Nth(K, k) \in K /\ Cardinality(below(Nth(K, k))) = k - 1 BY <2>1, Zenon DEF Nth
  <2> QED BY <1>1, <1>2, <2>2
<1> HIDE DEF rank
<1>5. rank \in Injection(K, 1..c) BY <1>0, <1>1, <1>3, <1>4 DEF Injection, IsInjective
<1>6. IsFiniteSet(1..c) /\ Cardinality(1..c) = c BY <1>1, FS_Interval
<1>7. rank \in Surjection(K, 1..c) BY <1>5, <1>6, FS_Injection
<1>8. \A k \in 1..c : \E i \in K : rank[i] = k BY <1>7 DEF Surjection
<1>9. \A k \in 1..c : Nth(K, k) \in K /\ rank[Nth(K, k)] = k BY <1>8, <1>42, Zenon
<1>10. \A j, k \in 1..c : Nth(K, j) = Nth(K, k) => j = k BY <1>9, Zenon
<1>11. \A i \in K : rank[i] \in 1..c /\ Nth(K, rank[i]) = i
  <2> SUFFICES ASSUME NEW i \in K
               PROVE  rank[i] \in 1..c /\ Nth(K, rank[i]) = i
    OBVIOUS
  <2>1. rank[i] \in 1..c BY <1>4
  <2>2. PICK x : x = Nth(K, rank[i]) OBVIOUS
  <2>3. x \in K /\ rank[x] = rank[i] BY <1>9, <2>1, <2>2
  <2>4. x = i BY <1>5, <2>3 DEF Injection, IsInjective
  <2> QED BY <2>1, <2>2, <2>4
<1>12. \A i \in K : \E k \in 1..c : Nth(K, k) = i BY <1>11, Zenon
<1> QED BY <1>1, <1>9, <1>10, <1>12

(* The values of f over a finite set of numbers, as a list.                *)
Listing(K, f) == [k \in 1..Cardinality(K) |-> f[Nth(K, k)]]

LEMMA ListingIs ==
  ASSUME NEW K \in SUBSET Nat, IsFiniteSet(K), NEW T, NEW f \in [K -> T]
  PROVE  /\ Listing(K, f) \in Seq(T)
         /\ Entries(Listing(K, f)) = {f[i] : i \in K}
         /\ (\A i, j \in K : f[i][1] = f[j][1] => i = j) => Once(Listing(K, f))
<1> DEFINE c == Cardinality(K)
           s == Listing(K, f)
<1>1. /\ c \in Nat
      /\ \A k \in 1..c : Nth(K, k) \in K
      /\ \A j, k \in 1..c : Nth(K, j) = Nth(K, k) => j = k
      /\ \A i \in K : \E k \in 1..c : Nth(K, k) = i
  BY NthIs
<1>2. DOMAIN s = 1..c /\ \A k \in 1..c : s[k] = f[Nth(K, k)] BY DEF Listing
<1>3. s \in [1..c -> T] BY <1>1 DEF Listing
<1>4. s \in Seq(T) BY <1>1, <1>3
<1> HIDE DEF s, c
<1>5. Entries(s) = {f[i] : i \in K}
  <2>1. ASSUME NEW e \in Entries(s) PROVE e \in {f[i] : i \in K}
    <3>1. PICK k \in 1..c : e = s[k] BY <1>2, <2>1 DEF Entries
    <3> QED BY <1>1, <1>2, <3>1
  <2>2. ASSUME NEW i \in K PROVE f[i] \in Entries(s)
    <3>1. PICK k \in 1..c : Nth(K, k) = i BY <1>1
    <3>2. s[k] = f[i] /\ k \in DOMAIN s BY <1>2, <3>1
    <3> QED BY <3>2 DEF Entries
  <2> QED BY <2>1, <2>2
<1>6. ASSUME \A i, j \in K : f[i][1] = f[j][1] => i = j PROVE Once(s)
  <2> SUFFICES ASSUME NEW j \in 1..c, NEW k \in 1..c, s[j][1] = s[k][1]
               PROVE  j = k
    BY <1>2 DEF Once
  <2>1. Nth(K, j) \in K /\ Nth(K, k) \in K /\ f[Nth(K, j)][1] = f[Nth(K, k)][1] BY <1>1, <1>2
  <2>2. Nth(K, j) = Nth(K, k) BY <1>6, <2>1
  <2> QED BY <1>1, <2>2
<1> QED BY <1>4, <1>5, <1>6 DEF s

(* Two lists, one after the other.                                         *)
LEMMA JoinedIs ==
  ASSUME NEW T, NEW s \in Seq(T), NEW t \in Seq(T)
  PROVE  /\ s \o t \in Seq(T)
         /\ Entries(s \o t) = Entries(s) \cup Entries(t)
         /\ Names(s \o t) = Names(s) \cup Names(t)
         /\ Once(s) /\ Once(t) /\ Names(s) \cap Names(t) = {} => Once(s \o t)
<1> DEFINE u == s \o t
<1>1. /\ u \in Seq(T) /\ DOMAIN u = 1..(Len(s) + Len(t)) /\ Len(s) \in Nat /\ Len(t) \in Nat
      /\ DOMAIN s = 1..Len(s) /\ DOMAIN t = 1..Len(t)
      /\ \A k \in 1..Len(s) : u[k] = s[k]
      /\ \A k \in 1..Len(t) : u[k + Len(s)] = t[k]
  OBVIOUS
<1> HIDE DEF u
<1>2. \A k \in DOMAIN u : \/ k \in DOMAIN s /\ u[k] = s[k]
                          \/ k - Len(s) \in DOMAIN t /\ u[k] = t[k - Len(s)]
  <2> SUFFICES ASSUME NEW k \in DOMAIN u, k \notin DOMAIN s
               PROVE  k - Len(s) \in DOMAIN t /\ u[k] = t[k - Len(s)]
    BY <1>1
  <2>1. k \in Nat /\ k - Len(s) \in 1..Len(t) /\ (k - Len(s)) + Len(s) = k BY <1>1
  <2> QED BY <1>1, <2>1
<1>3. \A k \in DOMAIN s : k \in DOMAIN u /\ u[k] = s[k] BY <1>1
<1>4. \A k \in DOMAIN t : k + Len(s) \in DOMAIN u /\ u[k + Len(s)] = t[k] BY <1>1
<1>5. Entries(u) = Entries(s) \cup Entries(t)
  <2>1. ASSUME NEW e \in Entries(u) PROVE e \in Entries(s) \cup Entries(t) BY <1>2, <2>1 DEF Entries
  <2>2. ASSUME NEW e \in Entries(s) PROVE e \in Entries(u) BY <1>3, <2>2 DEF Entries
  <2>3. ASSUME NEW e \in Entries(t) PROVE e \in Entries(u) BY <1>4, <2>3 DEF Entries
  <2> QED BY <2>1, <2>2, <2>3
<1>6. Names(u) = Names(s) \cup Names(t) BY <1>5 DEF Names
<1>7. ASSUME Once(s), Once(t), Names(s) \cap Names(t) = {} PROVE Once(u)
  <2> SUFFICES ASSUME NEW j \in DOMAIN u, NEW k \in DOMAIN u, u[j][1] = u[k][1]
               PROVE  j = k
    BY DEF Once
  <2>1. \A h \in DOMAIN s : s[h][1] \in Names(s) BY DEF Names, Entries
  <2>2. \A h \in DOMAIN t : t[h][1] \in Names(t) BY DEF Names, Entries
  <2>3. CASE j \in DOMAIN s /\ k \in DOMAIN s BY <1>3, <1>7, <2>3 DEF Once
  <2>4. CASE j \in DOMAIN s /\ k \notin DOMAIN s
    <3>1. k - Len(s) \in DOMAIN t /\ u[k] = t[k - Len(s)] /\ u[j] = s[j] BY <1>2, <1>3, <2>4
    <3> QED BY <1>7, <2>1, <2>2, <2>4, <3>1
  <2>5. CASE j \notin DOMAIN s /\ k \in DOMAIN s
    <3>1. j - Len(s) \in DOMAIN t /\ u[j] = t[j - Len(s)] /\ u[k] = s[k] BY <1>2, <1>3, <2>5
    <3> QED BY <1>7, <2>1, <2>2, <2>5, <3>1
  <2>6. CASE j \notin DOMAIN s /\ k \notin DOMAIN s
    <3>1. j - Len(s) \in DOMAIN t /\ u[j] = t[j - Len(s)] /\ k - Len(s) \in DOMAIN t /\ u[k] = t[k - Len(s)]
      BY <1>2, <2>6
    <3>2. j - Len(s) = k - Len(s) BY <1>7, <3>1 DEF Once
    <3>3. j \in Nat /\ k \in Nat BY <1>1
    <3> QED BY <1>1, <3>2, <3>3
  <2> QED BY <2>3, <2>4, <2>5, <2>6
<1> QED BY <1>1, <1>5, <1>6, <1>7 DEF u

LEMMA NothingListed == Entries(<<>>) = {} /\ Names(<<>>) = {} /\ Once(<<>>) /\ \A i : ~OkIn(<<>>, i)
BY DEF Entries, Names, Once, OkIn

(* What a list says of an item.                                            *)
LEMMA OutcomesAre ==
  ASSUME NEW T, NEW s \in Seq(Items \X T), NEW i
  PROVE  /\ Outcomes(s, i) # {} <=> i \in Names(s)
         /\ "Ok" \in Outcomes(s, i) <=> OkIn(s, i)
<1>1. \A k \in DOMAIN s : s[k] \in Items \X T OBVIOUS
<1>2. \A k \in DOMAIN s : s[k] = <<s[k][1], s[k][2]>> BY <1>1
<1>3. Outcomes(s, i) # {} <=> i \in Names(s) BY DEF Outcomes, Names, Entries
<1>4. ASSUME "Ok" \in Outcomes(s, i) PROVE OkIn(s, i)
  <2>1. PICK k \in DOMAIN s : s[k][1] = i /\ s[k][2] = "Ok" BY <1>4 DEF Outcomes
  <2>2. s[k] = <<i, "Ok">> BY <1>2, <2>1
  <2> QED BY <2>2 DEF OkIn, Entries
<1>5. ASSUME OkIn(s, i) PROVE "Ok" \in Outcomes(s, i)
  <2>1. PICK k \in DOMAIN s : s[k] = <<i, "Ok">> BY <1>5 DEF OkIn, Entries
  <2> QED BY <2>1 DEF Outcomes
<1> QED BY <1>3, <1>4, <1>5

-----------------------------------------------------------------------------
(* What one round adds.                                                    *)

LEMMA ItemsAre == ASSUME NEW S \in SUBSET Items PROVE S \in SUBSET Nat /\ IsFiniteSet(S)
BY AdminAssumption, FS_Subset

LEMMA InRoundIs ==
  ASSUME CallTypes, NEW S \in SUBSET Items, NEW code \in [S -> Codes]
  PROVE  /\ InRound(S, code) \in Seq(Items \X Codes)
         /\ Entries(InRound(S, code)) = Entries(call.round) \cup {<<i, code[i]>> : i \in S}
         /\ Names(InRound(S, code)) = Names(call.round) \cup S
         /\ Once(call.round) /\ S \cap Names(call.round) = {} => Once(InRound(S, code))
<1> DEFINE T == Items \X Codes
           f == [i \in S |-> <<i, code[i]>>]
           c == Cardinality(S)
           t == [k \in 1..c |-> <<Nth(S, k), code[Nth(S, k)]>>]
           r == call.round
<1>1. S \in SUBSET Nat /\ IsFiniteSet(S) /\ f \in [S -> T] /\ r \in Seq(T) BY ItemsAre DEF CallTypes
<1>2. \A k \in 1..c : Nth(S, k) \in S BY <1>1, NthIs
<1>3. t = Listing(S, f) BY <1>2 DEF Listing
<1>4. InRound(S, code) = r \o t BY DEF InRound
<1>5. \A i \in S : f[i] = <<i, code[i]>> /\ f[i][1] = i OBVIOUS
<1> HIDE DEF f, t, c, T
<1>6. /\ t \in Seq(T) /\ Entries(t) = {f[i] : i \in S}
      /\ (\A i, j \in S : f[i][1] = f[j][1] => i = j) => Once(t)
  BY <1>1, <1>3, ListingIs
<1>7. Once(t) BY <1>5, <1>6
<1>8. Entries(t) = {<<i, code[i]>> : i \in S}
  <2>1. ASSUME NEW e \in {f[i] : i \in S} PROVE e \in {<<i, code[i]>> : i \in S} BY <1>5, <2>1, Zenon
  <2>2. ASSUME NEW i \in S PROVE <<i, code[i]>> \in {f[j] : j \in S} BY <1>5, Zenon
  <2> QED BY <1>6, <2>1, <2>2
<1>9. Names(t) = S
  <2>1. ASSUME NEW i \in Names(t) PROVE i \in S
    <3>1. PICK e \in {f[j] : j \in S} : i = e[1] BY <1>6, <2>1 DEF Names
    <3>2. PICK j \in S : e = f[j] BY <3>1
    <3> QED BY <1>5, <3>1, <3>2
  <2>2. ASSUME NEW i \in S PROVE i \in Names(t)
    <3>1. f[i] \in Entries(t) /\ f[i][1] = i BY <1>5, <1>6
    <3> QED BY <3>1, Zenon DEF Names
  <2> QED BY <2>1, <2>2
<1>10. /\ r \o t \in Seq(T) /\ Entries(r \o t) = Entries(r) \cup Entries(t) /\ Names(r \o t) = Names(r) \cup Names(t)
       /\ Once(r) /\ Once(t) /\ Names(r) \cap Names(t) = {} => Once(r \o t)
  BY <1>1, <1>6, JoinedIs
<1> QED BY <1>4, <1>7, <1>8, <1>9, <1>10 DEF T

(* The entries of the round at the positions K.                            *)
Rest(K) == [k \in 1..Cardinality(K) |-> call.round[Nth(K, k)]]

LEMMA RestIs ==
  ASSUME CallTypes, NEW K \in SUBSET DOMAIN call.round
  PROVE  /\ Rest(K) \in Seq(Items \X Codes)
         /\ Entries(Rest(K)) = {call.round[k] : k \in K}
         /\ Names(Rest(K)) = {call.round[k][1] : k \in K}
         /\ Once(call.round) => Once(Rest(K))
<1> DEFINE T == Items \X Codes
           f == [k \in K |-> call.round[k]]
           r == call.round
<1>1. r \in Seq(T) BY DEF CallTypes
<1>2. DOMAIN r = 1..Len(r) /\ Len(r) \in Nat /\ \A k \in DOMAIN r : r[k] \in T BY <1>1
<1>3. K \in SUBSET Nat /\ IsFiniteSet(K) /\ f \in [K -> T]
  <2>1. IsFiniteSet(1..Len(r)) /\ K \in SUBSET (1..Len(r)) BY <1>2, FS_Interval
  <2>2. IsFiniteSet(K) /\ K \in SUBSET Nat BY <2>1, FS_Subset
  <2> QED BY <1>2, <2>2
<1>4. \A k \in 1..Cardinality(K) : Nth(K, k) \in K BY <1>3, NthIs
<1>5. Rest(K) = Listing(K, f) BY <1>4 DEF Listing, Rest
<1>6. \A k \in K : f[k] = r[k] OBVIOUS
<1> HIDE DEF f, T
<1>7. /\ Rest(K) \in Seq(T) /\ Entries(Rest(K)) = {f[k] : k \in K}
      /\ (\A i, j \in K : f[i][1] = f[j][1] => i = j) => Once(Rest(K))
  BY <1>3, <1>5, ListingIs
<1>8. Entries(Rest(K)) = {r[k] : k \in K} BY <1>6, <1>7
<1>9. Names(Rest(K)) = {r[k][1] : k \in K} BY <1>8 DEF Names
<1>10. Once(r) => Once(Rest(K)) BY <1>6, <1>7 DEF Once
<1> QED BY <1>7, <1>8, <1>9, <1>10 DEF T

LEMMA BatchIs ==
  ASSUME NEW S, call.unasked # {}, Batch(S)
  PROVE  S \subseteq call.unasked /\ ("split" \notin call.op.how => S = call.unasked)
BY DEF Batch

(* What the proofs read of a call, and a step that leaves it alone.        *)
Kept1 == /\ call'.op = call.op /\ call'.items = call.items /\ call'.settled = call.settled
         /\ call'.spent = call.spent /\ call'.reasks = call.reasks /\ call'.past.waits = call.past.waits
         /\ call'.cursor = call.cursor

LEMMA Unmoved ==
  ASSUME OutcomeInv, ScopeInv', Kept1, call'.state = call.state, call'.unasked = call.unasked,
         call'.round = call.round, call'.past.did = call.past.did, call'.past.doubt = call.past.doubt,
         call'.past.repeated = call.past.repeated, call'.past.lost = call.past.lost
  PROVE  OutcomeInv'
BY DEF OutcomeInv, Kept1, CallTypes, StepsOK, NotAsked, Rounds, Told, Rationed

(* A request has been answered, refused or given up: D was executed, for A *)
(* the answer gives codes, and U is what it does not say.                  *)
Hears(S, A, code, D, U) ==
  /\ call.state = "ask" /\ call.unasked # {} /\ Kept1 /\ call'.state = "ask"
  /\ S \subseteq call.unasked /\ ("split" \notin call.op.how => S = call.unasked)
  /\ A \subseteq S /\ ("named" \in call.op.how => A = S) /\ D \subseteq S
  /\ code \in [A -> Codes]
  /\ \A i \in A : code[i] = "Ok" => i \in D
  /\ \A i \in D : (i \in A /\ code[i] = "Ok") \/ i \in U
  /\ call'.unasked = call.unasked \ S /\ call'.round = InRound(A, code)
  /\ IF call.op.verb = "read"
       THEN /\ call'.past.did = call.past.did /\ call'.past.doubt = call.past.doubt
            /\ call'.past.repeated = call.past.repeated
       ELSE /\ call'.past.did = call.past.did \cup D /\ call'.past.doubt = call.past.doubt \cup U
            /\ call'.past.repeated = call.past.repeated \cup {i \in D : Settled(i)}

LEMMA Heard ==
  ASSUME OutcomeInv, ScopeInv', NEW S, NEW A, NEW code, NEW D, NEW U, Hears(S, A, code, D, U)
  PROVE  OutcomeInv'
<1> USE DEF Hears
<1>0. CallTypes /\ StepsOK /\ Rounds /\ Told /\ Rationed BY DEF OutcomeInv
<1>1. /\ Once(call.settled) /\ Once(call.round) /\ Names(call.settled) \cap Names(call.round) = {}
      /\ call.unasked \cap (Names(call.settled) \cup Names(call.round)) = {}
      /\ Names(call.settled) \cup Names(call.round) \subseteq call.items
      /\ "named" \in call.op.how => call.items = call.unasked \cup Names(call.settled) \cup Names(call.round)
  BY <1>0 DEF Rounds
<1>2. A \in SUBSET Items /\ D \in SUBSET Items /\ A \subseteq call.unasked /\ A \subseteq call.items
  BY <1>0 DEF CallTypes
<1>3. /\ call'.round \in Seq(Items \X Codes)
      /\ Entries(call'.round) = Entries(call.round) \cup {<<i, code[i]>> : i \in A}
      /\ Names(call'.round) = Names(call.round) \cup A
      /\ Once(call.round) /\ A \cap Names(call.round) = {} => Once(call'.round)
  BY <1>0, <1>2, InRoundIs
<1>4. Once(call'.round) BY <1>1, <1>2, <1>3
<1>5. CallTypes' BY <1>0, <1>3 DEF CallTypes, Kept1
<1>6. StepsOK' /\ NotAsked' BY <1>0 DEF StepsOK, NotAsked, Kept1
<1>7. Rounds'
  <2>1. Names(call.settled) \cap Names(call'.round) = {} /\ Names(call'.round) \subseteq call.items
    BY <1>1, <1>2, <1>3
  <2>2. (call.unasked \ S) \cap (Names(call.settled) \cup Names(call'.round)) = {} BY <1>1, <1>2, <1>3
  <2>3. "named" \in call.op.how => call.items = (call.unasked \ S) \cup Names(call.settled) \cup Names(call'.round)
    BY <1>1, <1>2, <1>3
  <2>4. "split" \notin call.op.how => call'.unasked = {} OBVIOUS
  <2> QED BY <1>1, <1>4, <2>1, <2>2, <2>3, <2>4 DEF Rounds, Kept1
<1>8. Told'
  <2>1. \A i : OkIn(call'.round, i) <=> OkIn(call.round, i) \/ (i \in A /\ code[i] = "Ok") BY <1>3 DEF OkIn
  <2>2. CASE call.op.verb = "read" BY <1>0, <2>2 DEF Told, Kept1
  <2>3. CASE call.op.verb # "read"
    <3>1. \A i \in Items : OkIn(call.settled, i) \/ OkIn(call'.round, i) => i \in call'.past.did
      BY <1>0, <2>1, <2>3 DEF Told
    <3>2. \A i \in call'.past.did \ call'.past.doubt : OkIn(call.settled, i) \/ OkIn(call'.round, i)
      BY <1>0, <2>1, <2>3 DEF Told
    <3>3. call'.past.did \subseteq Items BY <1>0, <1>2, <2>3 DEF Told
    <3> QED BY <2>3, <3>1, <3>2, <3>3 DEF Told, Kept1
  <2> QED BY <2>2, <2>3
<1>9. Rationed'
  <2>1. call.settled \in Seq(Items \X Codes) BY <1>0 DEF CallTypes
  <2>2. \A i \in D : i \notin Names(call.settled) BY <1>1
  <2>3. \A i \in D : ~Settled(i) BY <2>1, <2>2, OutcomesAre DEF Settled
  <2>4. {i \in D : Settled(i)} = {} BY <2>3
  <2>5. call'.past.repeated = {} BY <1>0, <2>4 DEF Rationed
  <2> QED BY <1>0, <2>5 DEF Rationed, Kept1
<1> QED BY <1>5, <1>6, <1>7, <1>8, <1>9 DEF OutcomeInv

-----------------------------------------------------------------------------
(* The requests of a round.                                                *)

(* A call that fails as a whole.                                           *)
LEMMA FailsOutcome ==
  ASSUME OutcomeInv, ScopeInv', call.state = "ask", call.unasked # {}, "split" \notin call.op.how, NEW D,
         D \subseteq Items, Kept1, call'.state = "failed", call'.round = <<>>, call'.unasked = {},
         call'.past.lost = (call.settled # <<>>), call'.past.repeated = call.past.repeated,
         IF call.op.verb = "read"
           THEN call'.past.did = call.past.did /\ call'.past.doubt = call.past.doubt
           ELSE call'.past.did = call.past.did \cup D /\ call'.past.doubt = call.past.doubt \cup D
  PROVE  OutcomeInv'
<1>0. CallTypes /\ StepsOK /\ Rounds /\ Told /\ Rationed BY DEF OutcomeInv
<1>1. CallTypes' /\ StepsOK' /\ NotAsked' /\ Rounds' /\ Rationed'
  BY <1>0 DEF CallTypes, StepsOK, NotAsked, Rounds, Rationed, Kept1
<1>2. call.settled = <<>> => call.past.did \subseteq call.past.doubt BY <1>0, NothingListed DEF Rounds, Told
<1>3. Told' BY <1>0, <1>2 DEF Told, Kept1
<1> QED BY <1>1, <1>3 DEF OutcomeInv

LEMMA RefusedOutcome ==
  ASSUME OutcomeInv, ScopeInv', NEW S \in SUBSET Items, Refused(S)
  PROVE  OutcomeInv'
<1> USE DEF CallShape
<1>0. CallShape(call) BY DEF OutcomeInv, ScopeInv
<1>1. call.state = "ask" /\ call.unasked # {} /\ Batch(S) BY DEF Refused
<1>2. S \subseteq call.unasked /\ ("split" \notin call.op.how => S = call.unasked) BY <1>1, BatchIs
<1>3. CASE "split" \in call.op.how
  <2> DEFINE code == [i \in S |-> "ReadOnly"]
             round == InRound(S, code)
  <2>1. call' = [call EXCEPT !.unasked = @ \ S, !.round = round] BY <1>3 DEF Refused
  <2>2. code \in [S -> Codes] /\ \A i \in S : code[i] # "Ok"
    <3>1. "ReadOnly" \in Codes /\ "ReadOnly" # "Ok" BY DEF Codes
    <3> QED BY <3>1
  <2> HIDE DEF code
  <2>3. PICK r : r = round OBVIOUS
  <2> HIDE DEF round
  <2>4. /\ Kept1 /\ call'.state = "ask" /\ call'.unasked = call.unasked \ S /\ call'.round = r
        /\ call'.past = call.past
    BY <1>0, <1>1, <2>1, <2>3 DEF Kept1, CallFields
  <2>5. call'.round = InRound(S, code) BY <2>3, <2>4 DEF round
  <2>6. /\ call'.past.did = call.past.did \cup {} /\ call'.past.doubt = call.past.doubt \cup {}
        /\ call'.past.repeated = call.past.repeated \cup {i \in {} : Settled(i)}
    BY <2>4
  <2>7. call'.past.did = call.past.did /\ call'.past.doubt = call.past.doubt /\ call'.past.repeated = call.past.repeated
    BY <2>4
  <2>8. Hears(S, S, code, {}, {}) BY <1>1, <1>2, <2>2, <2>4, <2>5, <2>6, <2>7 DEF Hears
  <2> QED BY <2>8, Heard
<1>4. CASE "split" \notin call.op.how
  <2>1. call' = Fails BY <1>4 DEF Refused
  <2>2. /\ Kept1 /\ call'.state = "failed" /\ call'.round = <<>> /\ call'.unasked = {}
        /\ call'.past.lost = (call.settled # <<>>) /\ call'.past.repeated = call.past.repeated
        /\ call'.past.did = call.past.did /\ call'.past.doubt = call.past.doubt
    BY <1>0, <2>1 DEF Fails, Kept1, CallFields, PastFields
  <2>3. call'.past.did = call.past.did \cup {} /\ call'.past.doubt = call.past.doubt \cup {} /\ {} \subseteq Items
    BY <2>2
  <2> QED BY <1>1, <1>4, <2>2, <2>3, FailsOutcome
<1> QED BY <1>3, <1>4

(* What the history records of a request.                                  *)
LEMMA PastIs ==
  ASSUME CallShape(call), NEW D, NEW U, NEW past, past = Past(call.op, D, U)
  PROVE  /\ past.waits = call.past.waits /\ past.lost = call.past.lost
         /\ IF call.op.verb = "read"
              THEN past.did = call.past.did /\ past.doubt = call.past.doubt /\ past.repeated = call.past.repeated
              ELSE /\ past.did = call.past.did \cup D /\ past.doubt = call.past.doubt \cup U
                   /\ past.repeated = call.past.repeated \cup {i \in D : Settled(i)}
BY DEF Past, CallShape, PastFields

LEMMA AnswersTell ==
  ASSUME NEW op, NEW i, NEW a \in Answers(op, i)
  PROVE  a.code \in Codes /\ (a.code = "Ok" => a.done)
<1>1. CASE a \in Misrouted(op) BY <1>1 DEF Misrouted, Codes
<1>2. CASE a \in Answer(op, i)
  <2>1. Result(op, i) \in Codes /\ Absent(op) \in Codes /\ Absent(op) # "Ok" BY DEF Result, Absent, Codes
  <2>2. \/ a.done = (Result(op, i) = "Ok") /\ a.code = Result(op, i)
        \/ a.code \in {"TimedOut", Absent(op), "Denied", "Unmentioned"}
    <3> HIDE DEF Result, Absent
    <3> QED BY <1>2 DEF Answer
  <2> QED BY <2>1, <2>2 DEF Codes
<1> QED BY <1>1, <1>2 DEF Answers

LEMMA AnsweredOutcome ==
  ASSUME OutcomeInv, ScopeInv', NEW S \in SUBSET Items, Answered(S)
  PROVE  OutcomeInv'
<1>0. CallShape(call) BY DEF OutcomeInv, ScopeInv
<1>1. call.state = "ask" /\ call.unasked # {} /\ Batch(S) BY DEF Answered
<1>2. S \subseteq call.unasked /\ ("split" \notin call.op.how => S = call.unasked) BY <1>1, BatchIs
<1>3. PICK a \in [S -> UNION {Answers(call.op, i) : i \in S}] :
        /\ \A i \in S : a[i] \in Answers(call.op, i)
        /\ call' = [call EXCEPT !.unasked = @ \ S,
                      !.round = InRound(DOMAIN ByName(call.op, S, a), ByName(call.op, S, a)),
                      !.past = Past(call.op, {i \in S : a[i].done},
                                    {i \in {j \in S : a[j].done} : a[i].code # "Ok"})]
  BY Zenon DEF Answered
<1> DEFINE code == ByName(call.op, S, a)
           A == {j \in S : "named" \in call.op.how \/ a[j].code # "Unmentioned"}
           D == {i \in S : a[i].done}
           U == {i \in D : a[i].code # "Ok"}
<1>4. DOMAIN code = A /\ \A i \in A : code[i] = a[i].code BY DEF ByName
<1>5. \A i \in S : a[i].code \in Codes /\ (a[i].code = "Ok" => a[i].done) BY <1>3, AnswersTell
<1>6. code \in [A -> Codes] BY <1>5 DEF ByName
<1>7. PICK r, past : r = InRound(A, code) /\ past = Past(call.op, D, U) OBVIOUS
<1>8. call' = [call EXCEPT !.unasked = @ \ S, !.round = r, !.past = past] BY <1>3, <1>4, <1>7
<1>9. /\ A \in SUBSET S /\ ("named" \in call.op.how => A = S) /\ D \in SUBSET S
      /\ \A i \in D : (i \in A /\ a[i].code = "Ok") \/ i \in U
  OBVIOUS
<1>10. (\A i \in A : code[i] = "Ok" => i \in D) /\ \A i \in D : (i \in A /\ code[i] = "Ok") \/ i \in U
  BY <1>4, <1>5, <1>9
<1> HIDE DEF code, A, D, U
<1>11. call'.past = past /\ call'.state = "ask" /\ call'.unasked = call.unasked \ S /\ call'.round = InRound(A, code)
  BY <1>0, <1>1, <1>7, <1>8 DEF CallShape, CallFields
<1>12. /\ past.waits = call.past.waits
       /\ IF call.op.verb = "read"
            THEN past.did = call.past.did /\ past.doubt = call.past.doubt /\ past.repeated = call.past.repeated
            ELSE /\ past.did = call.past.did \cup D /\ past.doubt = call.past.doubt \cup U
                 /\ past.repeated = call.past.repeated \cup {i \in D : Settled(i)}
  BY <1>0, <1>7, PastIs
<1>13. Kept1 BY <1>0, <1>8, <1>12 DEF Kept1, CallShape, CallFields
<1>14. IF call.op.verb = "read"
         THEN /\ call'.past.did = call.past.did /\ call'.past.doubt = call.past.doubt
              /\ call'.past.repeated = call.past.repeated
         ELSE /\ call'.past.did = call.past.did \cup D /\ call'.past.doubt = call.past.doubt \cup U
              /\ call'.past.repeated = call.past.repeated \cup {i \in D : Settled(i)}
  BY <1>11, <1>12
<1>15. Hears(S, A, code, D, U) BY <1>1, <1>2, <1>6, <1>9, <1>10, <1>11, <1>13, <1>14 DEF Hears
<1> QED BY <1>15, Heard

LEMMA FailOutcome ==
  ASSUME OutcomeInv, ScopeInv', NEW S \in SUBSET Items, Fail(S)
  PROVE  OutcomeInv'
<1>0. CallShape(call) BY DEF OutcomeInv, ScopeInv
<1>1. call.state = "ask" /\ call.unasked # {} /\ Batch(S) BY DEF Fail
<1>2. S \subseteq call.unasked /\ ("split" \notin call.op.how => S = call.unasked) BY <1>1, BatchIs
<1>3. PICK D \in SUBSET S :
        call' = IF "split" \in call.op.how
                THEN [call EXCEPT !.unasked = @ \ S, !.round = InRound(S, [i \in S |-> "Failed"]),
                                  !.past = Past(call.op, D, D)]
                ELSE [Fails EXCEPT !.past.did = Past(call.op, D, D).did,
                                   !.past.doubt = Past(call.op, D, D).doubt]
  BY DEF Fail
<1>4. PICK past : past = Past(call.op, D, D) OBVIOUS
<1>5. /\ past.waits = call.past.waits
      /\ IF call.op.verb = "read"
           THEN past.did = call.past.did /\ past.doubt = call.past.doubt /\ past.repeated = call.past.repeated
           ELSE /\ past.did = call.past.did \cup D /\ past.doubt = call.past.doubt \cup D
                /\ past.repeated = call.past.repeated \cup {i \in D : Settled(i)}
  BY <1>0, <1>4, PastIs
<1>6. CASE "split" \in call.op.how
  <2> DEFINE code == [i \in S |-> "Failed"]
  <2>1. PICK r : r = InRound(S, code) OBVIOUS
  <2>2. call' = [call EXCEPT !.unasked = @ \ S, !.round = r, !.past = past] BY <1>3, <1>4, <1>6, <2>1
  <2>3. code \in [S -> Codes] /\ \A i \in S : code[i] # "Ok"
    <3>1. "Failed" \in Codes /\ "Failed" # "Ok" BY DEF Codes
    <3> QED BY <3>1
  <2> HIDE DEF code
  <2>4. call'.past = past /\ call'.state = "ask" /\ call'.unasked = call.unasked \ S /\ call'.round = InRound(S, code)
    BY <1>0, <1>1, <2>1, <2>2 DEF CallShape, CallFields
  <2>5. Kept1 BY <1>0, <1>5, <2>2 DEF Kept1, CallShape, CallFields
  <2>6. IF call.op.verb = "read"
          THEN /\ call'.past.did = call.past.did /\ call'.past.doubt = call.past.doubt
               /\ call'.past.repeated = call.past.repeated
          ELSE /\ call'.past.did = call.past.did \cup D /\ call'.past.doubt = call.past.doubt \cup D
               /\ call'.past.repeated = call.past.repeated \cup {i \in D : Settled(i)}
    BY <1>5, <2>4
  <2>7. Hears(S, S, code, D, D) BY <1>1, <1>2, <2>3, <2>4, <2>5, <2>6 DEF Hears
  <2> QED BY <2>7, Heard
<1>7. CASE "split" \notin call.op.how
  <2>1. PICK did, doubt : did = past.did /\ doubt = past.doubt OBVIOUS
  <2>2. call' = [Fails EXCEPT !.past.did = did, !.past.doubt = doubt] BY <1>3, <1>4, <1>7, <2>1
  <2>3. /\ Kept1 /\ call'.state = "failed" /\ call'.round = <<>> /\ call'.unasked = {}
        /\ call'.past.lost = (call.settled # <<>>) /\ call'.past.repeated = call.past.repeated
        /\ call'.past.did = did /\ call'.past.doubt = doubt
    BY <1>0, <2>2 DEF Fails, Kept1, CallShape, CallFields, PastFields
  <2>4. D \subseteq Items OBVIOUS
  <2>5. IF call.op.verb = "read"
           THEN call'.past.did = call.past.did /\ call'.past.doubt = call.past.doubt
           ELSE call'.past.did = call.past.did \cup D /\ call'.past.doubt = call.past.doubt \cup D
    BY <1>5, <2>1, <2>3
  <2> QED BY <1>1, <1>7, <2>3, <2>4, <2>5, FailsOutcome
<1> QED BY <1>6, <1>7

-----------------------------------------------------------------------------
(* The end of a round.                                                     *)

Judged == [k \in DOMAIN call.round |-> IF "narrow" \notin call.op.how THEN "Settle"
                                        ELSE disposition(call.round[k][2], call.spent)]
Final == {k \in DOMAIN call.round : Judged[k] = "Settle"}
Again == {k \in DOMAIN call.round : Judged[k] # "Settle"}

(* A code that is final is not asked for again, and one that is either says *)
(* so or is worth the one refresh.                                         *)
LEMMA JudgedIs ==
  ASSUME call.spent \in BOOLEAN
  PROVE  /\ DOMAIN Judged = DOMAIN call.round
         /\ \A k \in Again : call.round[k][2] # "Ok"
         /\ \A k \in Again : ~retriable_for_named_resource(call.round[k][2]) =>
              ~call.spent /\ Judged[k] = "RefreshOnce"
BY DEF Judged, Again, disposition, retriable_for_named_resource, needs_metadata_refresh

(* The lists after the round.                                              *)
RoundAsLists(final, all) == final = call.settled \o Rest(Final) /\ all = final \o Rest(Again)

LEMMA RoundSplits ==
  ASSUME OutcomeInv, call.state = "ask", call.unasked = {},
         NEW final, NEW all, RoundAsLists(final, all)
  PROVE  /\ final \in Seq(Items \X Codes) /\ all \in Seq(Items \X Codes)
         /\ Once(final) /\ Once(all)
         /\ Names(final) \cap Names(Rest(Again)) = {}
         /\ Names(all) = Names(call.settled) \cup Names(call.round)
         /\ Names(all) = Names(final) \cup Names(Rest(Again))
         /\ \A i : OkIn(final, i) <=> OkIn(call.settled, i) \/ OkIn(call.round, i)
         /\ \A i : OkIn(all, i) <=> OkIn(call.settled, i) \/ OkIn(call.round, i)
<1> DEFINE T == Items \X Codes
           r == call.round
<1>0. CallTypes /\ Rounds BY DEF OutcomeInv
<1>1. Once(call.settled) /\ Once(r) /\ Names(call.settled) \cap Names(r) = {} BY <1>0 DEF Rounds
<1>2. call.settled \in Seq(T) /\ r \in Seq(T) /\ call.spent \in BOOLEAN BY <1>0 DEF CallTypes
<1>3. /\ Final \in SUBSET DOMAIN r /\ Again \in SUBSET DOMAIN r
      /\ Final \cup Again = DOMAIN r /\ Final \cap Again = {}
  BY DEF Final, Again
<1>4. /\ Rest(Final) \in Seq(T) /\ Entries(Rest(Final)) = {r[k] : k \in Final}
      /\ Names(Rest(Final)) = {r[k][1] : k \in Final} /\ Once(Rest(Final))
  BY <1>0, <1>1, <1>3, RestIs
<1>5. /\ Rest(Again) \in Seq(T) /\ Entries(Rest(Again)) = {r[k] : k \in Again}
      /\ Names(Rest(Again)) = {r[k][1] : k \in Again} /\ Once(Rest(Again))
  BY <1>0, <1>1, <1>3, RestIs
<1>6. Names(r) = Names(Rest(Final)) \cup Names(Rest(Again))
  <2>1. Entries(r) = Entries(Rest(Final)) \cup Entries(Rest(Again)) BY <1>3, <1>4, <1>5 DEF Entries
  <2> QED BY <2>1 DEF Names
<1>7. Names(Rest(Final)) \cap Names(Rest(Again)) = {} BY <1>1, <1>3, <1>4, <1>5 DEF Once
<1>8. /\ final \in Seq(T) /\ Entries(final) = Entries(call.settled) \cup Entries(Rest(Final))
      /\ Names(final) = Names(call.settled) \cup Names(Rest(Final))
      /\ Once(call.settled) /\ Once(Rest(Final)) /\ Names(call.settled) \cap Names(Rest(Final)) = {} => Once(final)
  BY <1>2, <1>4, JoinedIs DEF RoundAsLists
<1>9. Once(final) BY <1>1, <1>4, <1>6, <1>8
<1>10. Names(final) \cap Names(Rest(Again)) = {} BY <1>1, <1>6, <1>7, <1>8
<1>11. /\ all \in Seq(T) /\ Entries(all) = Entries(final) \cup Entries(Rest(Again))
       /\ Names(all) = Names(final) \cup Names(Rest(Again))
       /\ Once(final) /\ Once(Rest(Again)) /\ Names(final) \cap Names(Rest(Again)) = {} => Once(all)
  <2>1. PICK t : t = Rest(Again) OBVIOUS
  <2>2. t \in Seq(T) /\ all = final \o t BY <1>5, <2>1 DEF RoundAsLists
  <2>3. /\ final \o t \in Seq(T) /\ Entries(final \o t) = Entries(final) \cup Entries(t)
        /\ Names(final \o t) = Names(final) \cup Names(t)
        /\ Once(final) /\ Once(t) /\ Names(final) \cap Names(t) = {} => Once(final \o t)
    BY <1>8, <2>2, JoinedIs
  <2> QED BY <2>1, <2>2, <2>3, Zenon
<1>12. Once(all) BY <1>5, <1>9, <1>10, <1>11
<1>13. Names(all) = Names(call.settled) \cup Names(r) BY <1>6, <1>8, <1>11
<1>14. ASSUME NEW i PROVE OkIn(r, i) <=> OkIn(Rest(Final), i)
  <2>1. ASSUME OkIn(r, i) PROVE OkIn(Rest(Final), i)
    <3>1. PICK k \in DOMAIN r : r[k] = <<i, "Ok">> BY <2>1 DEF OkIn, Entries
    <3>2. k \notin Again
      <4>1. r[k][2] = "Ok" BY <3>1
      <4> QED BY <1>2, <4>1, JudgedIs
    <3>3. k \in Final BY <1>3, <3>2
    <3> QED BY <1>4, <3>1, <3>3 DEF OkIn
  <2>2. ASSUME OkIn(Rest(Final), i) PROVE OkIn(r, i) BY <1>3, <1>4, <2>2 DEF OkIn, Entries
  <2> QED BY <2>1, <2>2
<1>15. \A i : ~OkIn(Rest(Again), i)
  <2> SUFFICES ASSUME NEW i, OkIn(Rest(Again), i) PROVE FALSE OBVIOUS
  <2>1. PICK k \in Again : r[k] = <<i, "Ok">> BY <1>5 DEF OkIn
  <2>2. r[k][2] = "Ok" BY <2>1
  <2> QED BY <1>2, <2>2, JudgedIs
<1>16. \A i : OkIn(final, i) <=> OkIn(call.settled, i) \/ OkIn(r, i) BY <1>8, <1>14 DEF OkIn
<1>17. \A i : OkIn(all, i) <=> OkIn(call.settled, i) \/ OkIn(r, i) BY <1>11, <1>15, <1>16 DEF OkIn
<1> QED BY <1>8, <1>9, <1>10, <1>11, <1>12, <1>13, <1>16, <1>17

(* The call is over.                                                       *)
LEMMA ReturnOutcome ==
  ASSUME OutcomeInv, ScopeInv', call.state = "ask", call.unasked = {}, NEW s,
         s \in Seq(Items \X Codes), Once(s), Names(call.settled) \cup Names(call.round) = Names(s),
         \A i : OkIn(s, i) <=> OkIn(call.settled, i) \/ OkIn(call.round, i),
         call'.state = "returned", call'.settled = s, call'.round = <<>>, call'.op = call.op,
         call'.items = call.items, call'.unasked = {}, call'.spent = call.spent, call'.reasks = call.reasks,
         call'.past = call.past
  PROVE  OutcomeInv'
<1>0. CallTypes /\ StepsOK /\ Rounds /\ Told /\ Rationed BY DEF OutcomeInv
<1>1. CallTypes' /\ StepsOK' /\ NotAsked' /\ Rationed' BY <1>0 DEF CallTypes, StepsOK, NotAsked, Rationed
<1>2. Rounds' BY <1>0 DEF Rounds
<1>3. Told' BY <1>0, NothingListed DEF Told
<1> QED BY <1>1, <1>2, <1>3 DEF OutcomeInv

LEMMA RoundEndsOutcome ==
  ASSUME OutcomeInv, ScopeInv', RoundEnds
  PROVE  OutcomeInv'
<1>0. CallShape(call) /\ CallTypes /\ StepsOK /\ Rounds /\ Told /\ Rationed BY DEF OutcomeInv, ScopeInv
<1>1. call.state = "ask" /\ call.unasked = {} BY DEF RoundEnds
<1>2. PICK final, all, left, spent, codes :
        /\ RoundAsLists(final, all)
        /\ left = {call.round[k][1] : k \in Again}
        /\ spent = (call.spent \/ \E k \in Again : Judged[k] = "RefreshOnce")
        /\ codes = {call.round[k][2] : k \in Again}
  BY DEF RoundAsLists
<1>3. PICK waits : waits = call.past.waits + IF \E c \in codes : retriable_for_named_resource(c) THEN 1 ELSE 0
  OBVIOUS
<1>4. \/ Again = {} /\ call' = [call EXCEPT !.state = "returned", !.settled = final, !.round = <<>>]
      \/ call' = [call EXCEPT !.state = "returned", !.settled = all, !.round = <<>>]
      \/ /\ Again # {}
         /\ call' = [call EXCEPT !.settled = final, !.round = <<>>, !.reasks = @ + 1,
                                 !.unasked = left, !.spent = spent, !.past.waits = waits]
  BY <1>2, <1>3, Zenon DEF RoundEnds, Kept, Judged, Final, Again, Rest, RoundAsLists
<1>5. /\ final \in Seq(Items \X Codes) /\ all \in Seq(Items \X Codes)
      /\ Once(final) /\ Once(all)
      /\ Names(final) \cap Names(Rest(Again)) = {}
      /\ Names(all) = Names(call.settled) \cup Names(call.round)
      /\ Names(all) = Names(final) \cup Names(Rest(Again))
      /\ \A i : OkIn(final, i) <=> OkIn(call.settled, i) \/ OkIn(call.round, i)
      /\ \A i : OkIn(all, i) <=> OkIn(call.settled, i) \/ OkIn(call.round, i)
  BY <1>1, <1>2, RoundSplits
<1>6. Again \in SUBSET DOMAIN call.round /\ Names(Rest(Again)) = left
  <2>1. Again \in SUBSET DOMAIN call.round BY DEF Again
  <2> QED BY <1>0, <1>2, <2>1, RestIs
<1>7. CASE call' = [call EXCEPT !.state = "returned", !.settled = all, !.round = <<>>]
  <2>1. /\ call'.state = "returned" /\ call'.settled = all /\ call'.round = <<>> /\ call'.op = call.op
        /\ call'.items = call.items /\ call'.unasked = {} /\ call'.spent = call.spent /\ call'.reasks = call.reasks
        /\ call'.past = call.past
    BY <1>0, <1>1, <1>7 DEF CallShape, CallFields
  <2> QED BY <1>1, <1>5, <2>1, ReturnOutcome
<1>8. CASE Again = {} /\ call' = [call EXCEPT !.state = "returned", !.settled = final, !.round = <<>>]
  <2>1. /\ call'.state = "returned" /\ call'.settled = final /\ call'.round = <<>> /\ call'.op = call.op
        /\ call'.items = call.items /\ call'.unasked = {} /\ call'.spent = call.spent /\ call'.reasks = call.reasks
        /\ call'.past = call.past
    BY <1>0, <1>1, <1>8 DEF CallShape, CallFields
  <2>2. Names(Rest(Again)) = {} BY <1>2, <1>6, <1>8
  <2>3. Names(call.settled) \cup Names(call.round) = Names(final) BY <1>5, <2>2
  <2> QED BY <1>1, <1>5, <2>1, <2>3, ReturnOutcome
<1>9. CASE /\ Again # {}
           /\ call' = [call EXCEPT !.settled = final, !.round = <<>>, !.reasks = @ + 1,
                                   !.unasked = left, !.spent = spent, !.past.waits = waits]
  <2>1. /\ call'.state = "ask" /\ call'.settled = final /\ call'.round = <<>> /\ call'.op = call.op
        /\ call'.items = call.items /\ call'.unasked = left /\ call'.spent = spent
        /\ call'.reasks = call.reasks + 1 /\ call'.past.waits = waits /\ call'.past.did = call.past.did
        /\ call'.past.doubt = call.past.doubt /\ call'.past.repeated = call.past.repeated
    BY <1>0, <1>1, <1>9 DEF CallShape, CallFields, PastFields
  <2>2. Names(final) \subseteq call.items /\ left \subseteq call.items BY <1>0, <1>1, <1>5, <1>6 DEF Rounds
  <2>3. spent \in BOOLEAN /\ waits \in Nat BY <1>0, <1>2, <1>3 DEF CallTypes
  <2>4. CallTypes' BY <1>0, <1>5, <2>1, <2>2, <2>3 DEF CallTypes
  <2>5. StepsOK' /\ NotAsked' BY <1>0, <1>1, <2>1 DEF StepsOK, NotAsked
  <2>6. Rounds'
    <3>1. "named" \in call.op.how => call.items = left \cup Names(final) BY <1>0, <1>1, <1>5, <1>6 DEF Rounds
    <3>2. left \cap Names(final) = {} BY <1>5, <1>6
    <3> QED BY <1>5, <2>1, <2>2, <3>1, <3>2, NothingListed DEF Rounds
  <2>7. Told' BY <1>0, <1>1, <1>5, <2>1, NothingListed DEF Told
  <2>8. Rationed'
    <3>1. PICK k \in Again : TRUE BY <1>9
    <3>2. call.spent \in BOOLEAN /\ call.reasks \in Nat /\ call.past.waits \in Nat BY <1>0 DEF CallTypes
    <3>3. CASE retriable_for_named_resource(call.round[k][2])
      <4>1. waits = call.past.waits + 1 BY <1>2, <1>3, <3>1, <3>3
      <4>2. call.spent => spent BY <1>2
      <4> QED BY <1>0, <2>1, <2>3, <3>2, <4>1, <4>2 DEF Rationed
    <3>4. CASE ~retriable_for_named_resource(call.round[k][2])
      <4>1. ~call.spent /\ Judged[k] = "RefreshOnce" BY <3>1, <3>2, <3>4, JudgedIs
      <4>2. spent /\ waits >= call.past.waits
        <5>1. spent BY <1>2, <3>1, <4>1, Zenon
        <5>2. waits >= call.past.waits BY <1>3, <3>2
        <5> QED BY <5>1, <5>2
      <4> QED BY <1>0, <2>1, <2>3, <3>2, <4>1, <4>2 DEF Rationed
    <3> QED BY <3>3, <3>4
  <2> QED BY <2>4, <2>5, <2>6, <2>7, <2>8 DEF OutcomeInv
<1> QED BY <1>4, <1>7, <1>8, <1>9

-----------------------------------------------------------------------------
(* The other steps.                                                        *)

(* A step of an operation before its round of requests.                    *)
LEMMA EarlyOutcome ==
  ASSUME OutcomeInv, ScopeInv', Kept1, call.state \notin {"idle", "ask", "returned", "failed", "page"},
         call'.round = call.round, call'.past.did = call.past.did, call'.past.doubt = call.past.doubt,
         call'.past.repeated = call.past.repeated,
         \/ call'.state = "failed" /\ call'.unasked = {}
         \/ call'.state = "returned" /\ call'.unasked = {} /\ "named" \notin call.op.how
         \/ /\ call'.unasked = call.unasked
            /\ \/ call'.state = call.state
               \/ call.op = reset_offsets /\ call'.state \in {"describe", "ask"}
               \/ call.op = topic_offset_range /\ call'.state = "second"
               \/ call.op = topic_size /\ call'.state = "dirs"
  PROVE  OutcomeInv'
<1>0. CallTypes /\ StepsOK /\ NotAsked /\ Told /\ Rationed BY DEF OutcomeInv
<1>1. /\ call.past.did = {} /\ call.past.doubt = {} /\ call.settled = <<>> /\ call.round = <<>>
      /\ call.unasked = call.items
  BY <1>0 DEF NotAsked
<1>2. reset_offsets # topic_offset_range /\ reset_offsets # topic_size /\ topic_size # topic_offset_range
  BY DEF reset_offsets, topic_offset_range, topic_size, Asks
<1>3. call.op # describe_topics BY <1>0 DEF StepsOK
<1>4. CallTypes' BY <1>0 DEF CallTypes, Kept1
<1>5. StepsOK' BY <1>0, <1>2, <1>3 DEF StepsOK, Kept1
<1>6. NotAsked' BY <1>1 DEF NotAsked, Kept1
<1>7. Rounds' BY <1>1, NothingListed DEF Rounds, Kept1
<1>8. Told' BY <1>1, NothingListed DEF Told, Kept1
<1>9. Rationed' BY <1>0 DEF Rationed, Kept1
<1> QED BY <1>4, <1>5, <1>6, <1>7, <1>8, <1>9 DEF OutcomeInv

LEMMA BeginOutcome ==
  ASSUME OutcomeInv, ScopeInv', BeginAny
  PROVE  OutcomeInv'
<1>1. PICK op, I, first :
        /\ I \in SUBSET Items /\ Begin(op, I, first)
        /\ \/ op \in Operations /\ first = "ask"
           \/ op = reset_offsets /\ first = "list"
           \/ op = topic_offset_range /\ first = "first"
           \/ op = topic_size /\ first = "leaders"
           \/ op = describe_topics /\ first = "page"
  <2>1. \A i \in Items : {i} \in SUBSET Items OBVIOUS
  <2> QED BY <2>1 DEF BeginAny
<1>2. PICK state : state = IF I = {} THEN "returned" ELSE first OBVIOUS
<1>3. call' = [NoCall EXCEPT !.op = op, !.items = I, !.unasked = I, !.state = state] BY <1>1, <1>2 DEF Begin
<1>4. /\ call'.op = op /\ call'.items = I /\ call'.unasked = I /\ call'.state = state /\ call'.round = <<>>
      /\ call'.settled = <<>> /\ call'.spent = FALSE /\ call'.reasks = 0 /\ call'.past = History
  BY <1>3 DEF NoCall
<1>5. /\ call'.past.did = {} /\ call'.past.doubt = {} /\ call'.past.repeated = {} /\ call'.past.waits = 0
      /\ call'.past.lost = FALSE
  BY <1>4 DEF History
<1>6. <<>> \in Seq(Items \X Codes) OBVIOUS
<1>7. CallTypes'
  <2>1. call'.spent \in BOOLEAN BY <1>4
  <2>2. call'.reasks \in Nat /\ call'.past.waits \in Nat BY <1>4, <1>5
  <2>3. call'.items \subseteq Items /\ call'.unasked \subseteq call'.items BY <1>1, <1>4
  <2>4. call'.round \in Seq(Items \X Codes) /\ call'.settled \in Seq(Items \X Codes) BY <1>4, <1>6
  <2> QED BY <2>1, <2>2, <2>3, <2>4 DEF CallTypes
<1>8. StepsOK'
  <2>1. op = describe_topics => state \in {"page", "returned"}
    <3>1. describe_topics \notin Operations \cup {reset_offsets, topic_offset_range, topic_size}
      BY DEF Operations, Asks,
         create_topics, validate_topics, delete_topics, create_partitions, describe_topics, delete_records,
         describe_configs, alter_configs, alter_partition_reassignments, list_partition_reassignments, elect_leaders,
         list_offsets, topic_offset_range, list_transactions, describe_transactions, describe_producers,
         describe_cluster, describe_log_dirs, topic_size, describe_consumer_groups, describe_share_groups,
         fetch_offsets, reset_offsets, delete_offsets, delete_groups, describe_acls, create_acls, delete_acls,
         describe_client_quotas, alter_client_quotas, describe_scram_credentials, upsert_scram_credentials,
         delete_scram_credentials, create_delegation_token, renew_delegation_token, expire_delegation_token,
         describe_delegation_tokens
    <3> QED BY <1>1, <1>2, <3>1
  <2> QED BY <1>1, <1>2, <1>4, <2>1 DEF StepsOK
<1>9. NotAsked' BY <1>4, <1>5 DEF NotAsked
<1>10. Rounds' BY <1>2, <1>1, <1>4, NothingListed DEF Rounds
<1>11. Told' BY <1>1, <1>2, <1>4, <1>5, NothingListed DEF Told
<1>12. Rationed' BY <1>4, <1>5 DEF Rationed
<1> QED BY <1>7, <1>8, <1>9, <1>10, <1>11, <1>12 DEF OutcomeInv

(* A set of numbers has a least one, and a set of positions a first one.    *)
LEMMA LeastNumber ==
  ASSUME NEW T \in SUBSET Nat, T # {}
  PROVE  \E x \in T : \A y \in T : x <= y
<1> DEFINE R == OpToRel(<, Nat)
<1>0. IsWellFoundedOn(R, Nat) BY NatLessThanWellFounded
<1>2. \A x, y \in Nat : y < x => <<y, x>> \in R BY Zenon DEF OpToRel
<1>4. PICK Q : Q = R OBVIOUS
<1>5. IsWellFoundedOn(Q, Nat) /\ \A x, y \in Nat : y < x => <<y, x>> \in Q BY <1>0, <1>2, <1>4, Zenon
<1> HIDE DEF R
<1>1. PICK x \in T : \A y \in T : ~(<<y, x>> \in Q) BY <1>5, WFMin
<1>6. \A y \in T : ~(y < x) BY <1>1, <1>5
<1>7. \A y \in T : x <= y
  <2> SUFFICES ASSUME NEW y \in T PROVE x <= y OBVIOUS
  <2>1. x \in Nat /\ y \in Nat /\ ~(y < x) BY <1>6
  <2> QED BY <2>1
<1> QED BY <1>7, Zenon

LEMMA LeastPosition ==
  ASSUME NEW P \in SUBSET (Nat \X Nat), P # {}
  PROVE  \E pos \in P : \A q \in P : AtOrAfter(q, pos)
<1> DEFINE F == {p[1] : p \in P}
<1>0. \A p \in P : p[1] \in Nat /\ p[2] \in Nat /\ p = <<p[1], p[2]>> OBVIOUS
<1>1. F \in SUBSET Nat /\ F # {} BY <1>0
<1>2. PICK a \in F : \A y \in F : a <= y BY <1>1, LeastNumber
<1> DEFINE G == {p[2] : p \in {q \in P : q[1] = a}}
<1>3. G \in SUBSET Nat /\ G # {} BY <1>0, <1>2
<1>4. PICK b \in G : \A y \in G : b <= y BY <1>3, LeastNumber
<1>5. PICK pos \in P : pos[1] = a /\ pos[2] = b BY <1>4
<1>6. ASSUME NEW q \in P PROVE AtOrAfter(q, pos)
  <2>1. a \in Nat /\ b \in Nat /\ q[1] \in Nat /\ q[2] \in Nat /\ a <= q[1] BY <1>0, <1>1, <1>2, <1>3
  <2>2. q[1] = a => b <= q[2] BY <1>4
  <2> QED BY <1>5, <2>1, <2>2 DEF AtOrAfter
<1> QED BY <1>6

(* The cursor the next page starts from.                                   *)
NextCursor == CHOOSE pos \in Left \ NextPage : \A q \in Left \ NextPage : AtOrAfter(q, pos)

LEMMA NextIs ==
  ASSUME CallTypes, Left # NextPage
  PROVE  NextCursor \in Left \ NextPage /\ \A q \in Left \ NextPage : AtOrAfter(q, NextCursor)
<1>1. NextPage \subseteq Left BY DEF NextPage
<1>2. Left \subseteq Items \X (1..Parts) BY DEF Left, CallTypes
<1>3. Left \subseteq Nat \X Nat
  <2>1. Items \subseteq Nat /\ 1..Parts \subseteq Nat BY AdminAssumption
  <2> QED BY <1>2, <2>1
<1>4. \E pos \in Left \ NextPage : \A q \in Left \ NextPage : AtOrAfter(q, pos)
  <2> DEFINE P == Left \ NextPage
  <2>1. P \in SUBSET (Nat \X Nat) /\ P # {} BY <1>1, <1>3
  <2> HIDE DEF P
  <2>2. \E pos \in P : \A q \in P : AtOrAfter(q, pos) BY <2>1, LeastPosition
  <2> QED BY <2>2 DEF P
<1> QED BY <1>4, Zenon DEF NextCursor

(* What describe_topics returns.                                           *)
Known(partial, gone) == {i \in call.items : partial[i] > 0 \/ i \in gone}

LEMMA DescribedIs ==
  ASSUME CallTypes, NEW partial, NEW gone
  PROVE  /\ Described(partial, gone) \in Seq(Items \X Codes)
         /\ Once(Described(partial, gone))
         /\ Entries(Described(partial, gone)) =
              {<<i, IF partial[i] > 0 THEN "Ok" ELSE "UnknownTopic">> : i \in Known(partial, gone)}
<1> DEFINE K == Known(partial, gone)
           f == [i \in K |-> <<i, IF partial[i] > 0 THEN "Ok" ELSE "UnknownTopic">>]
           c == Cardinality(K)
           T == Items \X Codes
           s == Described(partial, gone)
<1>1. K \in SUBSET Items BY DEF Known, CallTypes
<1>2. K \in SUBSET Nat /\ IsFiniteSet(K) BY <1>1, ItemsAre
<1>3. f \in [K -> T] BY <1>1 DEF Codes
<1>4. \A k \in 1..c : Nth(K, k) \in K BY <1>2, NthIs
<1>5. s = [k \in 1..c |-> <<Nth(K, k), IF partial[Nth(K, k)] > 0 THEN "Ok" ELSE "UnknownTopic">>]
  BY DEF Described, Known
<1>6. s = Listing(K, f) BY <1>4, <1>5 DEF Listing
<1>7. \A i \in K : f[i][1] = i OBVIOUS
<1>8. {f[i] : i \in K} = {<<i, IF partial[i] > 0 THEN "Ok" ELSE "UnknownTopic">> : i \in K} OBVIOUS
<1> HIDE DEF f, s, T, c, K
<1>9. /\ s \in Seq(T) /\ Entries(s) = {f[i] : i \in K}
      /\ (\A i, j \in K : f[i][1] = f[j][1] => i = j) => Once(s)
  BY <1>2, <1>3, <1>6, ListingIs
<1>10. Once(s) BY <1>7, <1>9
<1>11. Entries(s) = {<<i, IF partial[i] > 0 THEN "Ok" ELSE "UnknownTopic">> : i \in K} BY <1>8, <1>9
<1> QED BY <1>9, <1>10, <1>11 DEF s, T, K

(* describe_topics: only the result is an outcome.                         *)
LEMMA PagesOutcome ==
  ASSUME OutcomeInv, ScopeInv', call.state = "page", call'.op = call.op, call'.items = call.items,
         call'.spent = call.spent, call'.reasks = call.reasks, call'.past = call.past,
         \/ /\ call'.state = "returned" /\ call'.unasked = {} /\ call'.round = <<>>
            /\ call'.settled \in Seq(Items \X Codes) /\ Once(call'.settled)
         \/ /\ call'.state = "page" /\ call'.unasked = call.unasked /\ call'.settled = call.settled
            /\ call'.round \in Seq(Items \X Codes) /\ call'.cursor # <<0, 0>>
  PROVE  OutcomeInv'
<1>0. CallTypes /\ StepsOK /\ NotAsked /\ Told /\ Rationed BY DEF OutcomeInv
<1>1. call.op = describe_topics /\ call.past.did = {} /\ call.past.doubt = {} BY <1>0 DEF StepsOK, NotAsked
<1>2. "named" \notin call.op.how /\ call.op.verb = "read" BY <1>1 DEF describe_topics, Asks
<1>3. CallTypes'
  <2>1. call'.spent \in BOOLEAN /\ call'.reasks \in Nat /\ call'.past.waits \in Nat BY <1>0 DEF CallTypes
  <2>2. call'.items \subseteq Items /\ call'.unasked \subseteq call'.items BY <1>0 DEF CallTypes
  <2>3. <<>> \in Seq(Items \X Codes) OBVIOUS
  <2>4. call'.round \in Seq(Items \X Codes) /\ call'.settled \in Seq(Items \X Codes)
    BY <1>0, <2>3, Zenon DEF CallTypes
  <2> QED BY <2>1, <2>2, <2>4 DEF CallTypes
<1>4. StepsOK' BY <1>0, <1>1 DEF StepsOK
<1>5. NotAsked' /\ Rounds' /\ Told' /\ Rationed' BY <1>0, <1>1, <1>2 DEF NotAsked, Rounds, Told, Rationed
<1> QED BY <1>3, <1>4, <1>5 DEF OutcomeInv

LEMMA PageOutcome ==
  ASSUME OutcomeInv, ScopeInv', DescribePage \/ DescribeViaMetadata
  PROVE  OutcomeInv'
<1>0. CallShape(call) /\ CallTypes /\ call.state = "page"
  BY DEF OutcomeInv, ScopeInv, DescribePage, DescribeViaMetadata
<1>1. CASE DescribePage
  <2> DEFINE over == Left = NextPage
             next == NextCursor
             partial == [i \in Items |-> call.partial[i] + Cardinality({pos \in NextPage : pos[1] = i})]
             gone == {i \in call.items \ store : i >= call.cursor[1] /\ (over \/ i < next[1])}
                     \cup {i \in Items : \E k \in DOMAIN call.round : call.round[k][1] = i}
  <2>1. call' = IF over
                THEN [call EXCEPT !.state = "returned", !.partial = partial, !.unasked = {},
                                  !.round = <<>>, !.settled = Described(partial, gone)]
                ELSE [call EXCEPT !.partial = partial, !.cursor = next,
                                  !.round = InRound(gone, [i \in gone |-> "UnknownTopic"])]
    BY <1>1, Zenon DEF DescribePage, NextCursor
  <2>10. gone \in SUBSET Items
    <3> HIDE DEF over, next
    <3> QED BY <1>0 DEF CallTypes
  <2>11. ~over => next # <<0, 0>>
    <3>1. ~over => next \in Left BY <1>0, NextIs
    <3>2. \A pos \in Left : pos[2] \in 1..Parts BY DEF Left
    <3> QED BY <3>1, <3>2
  <2> HIDE DEF gone, partial, next, over
  <2>2. PICK s, r, code : /\ s = Described(partial, gone) /\ code = [i \in gone |-> "UnknownTopic"]
                          /\ r = InRound(gone, code)
    OBVIOUS
  <2>3. s \in Seq(Items \X Codes) /\ Once(s) BY <1>0, <2>2, DescribedIs
  <2>4. code \in [gone -> Codes] BY <2>2 DEF Codes
  <2>5. r \in Seq(Items \X Codes) BY <1>0, <2>2, <2>4, <2>10, InRoundIs
  <2>6. CASE over /\ call' = [call EXCEPT !.state = "returned", !.partial = partial, !.unasked = {},
                                  !.round = <<>>, !.settled = s]
    <3>1. /\ call'.op = call.op /\ call'.items = call.items /\ call'.spent = call.spent
          /\ call'.reasks = call.reasks /\ call'.past = call.past
          /\ call'.state = "returned" /\ call'.unasked = {} /\ call'.round = <<>> /\ call'.settled = s
      BY <1>0, <2>6 DEF CallShape, CallFields
    <3> QED BY <1>0, <2>3, <3>1, PagesOutcome
  <2>7. CASE ~over /\ call' = [call EXCEPT !.partial = partial, !.cursor = next, !.round = r]
    <3>1. /\ call'.op = call.op /\ call'.items = call.items /\ call'.spent = call.spent
          /\ call'.reasks = call.reasks /\ call'.past = call.past
          /\ call'.state = "page" /\ call'.unasked = call.unasked /\ call'.round = r /\ call'.settled = call.settled
          /\ call'.cursor = next
      BY <1>0, <2>7 DEF CallShape, CallFields
    <3> QED BY <1>0, <2>5, <2>7, <2>11, <3>1, PagesOutcome
  <2> QED BY <2>1, <2>2, <2>6, <2>7
<1>2. CASE DescribeViaMetadata
  <2>0. call.round = <<>> BY <1>0, <1>2 DEF DescribeViaMetadata, OutcomeInv, NotAsked
  <2>1. PICK partial : call' = [call EXCEPT !.state = "returned", !.unasked = {}, !.partial = partial,
                                            !.settled = Described(partial, call.items \ store)]
    BY <1>2 DEF DescribeViaMetadata
  <2>2. PICK s : s = Described(partial, call.items \ store) OBVIOUS
  <2>3. s \in Seq(Items \X Codes) /\ Once(s) BY <1>0, <2>2, DescribedIs
  <2>4. call' = [call EXCEPT !.state = "returned", !.unasked = {}, !.partial = partial, !.settled = s]
    BY <2>1, <2>2
  <2>5. /\ call'.op = call.op /\ call'.items = call.items /\ call'.spent = call.spent
        /\ call'.reasks = call.reasks /\ call'.past = call.past
        /\ call'.state = "returned" /\ call'.unasked = {} /\ call'.round = call.round /\ call'.settled = s
    BY <1>0, <2>4 DEF CallShape, CallFields
  <2> QED BY <1>0, <2>0, <2>3, <2>5, PagesOutcome
<1> QED BY <1>1, <1>2

LEMMA WorldOutcome ==
  ASSUME OutcomeInv, ScopeInv',
         (\E i \in Items : OtherClient(i) \/ MemberCommits(i)) \/ RoleMoves \/ MemberComes \/ MemberLeaves \/ LogMoves \/ ReplicaMoves
  PROVE  OutcomeInv'
<1>0. CallShape(call) BY DEF OutcomeInv, ScopeInv
<1>1. \/ call' = call
      \/ call' = [call EXCEPT !.past.disturbed = TRUE]
  BY DEF OtherClient, MemberCommits, RoleMoves, MemberComes, MemberLeaves, LogMoves, ReplicaMoves, World, Disturbs
<1>2. /\ Kept1 /\ call'.state = call.state /\ call'.unasked = call.unasked
      /\ call'.round = call.round /\ call'.past.did = call.past.did /\ call'.past.doubt = call.past.doubt
      /\ call'.past.repeated = call.past.repeated /\ call'.past.lost = call.past.lost
  BY <1>0, <1>1 DEF Kept1, CallShape, CallFields, PastFields
<1> QED BY <1>2, Unmoved

LEMMA StepsOutcome ==
  ASSUME OutcomeInv, ScopeInv', ListGroups \/ DescribeGroup \/ OffsetRange \/ ReadLeaders \/ finish
                                 \/ \E b \in Brokers : ReadDirs(b)
  PROVE  OutcomeInv'
<1>0. CallShape(call) /\ StepsOK BY DEF OutcomeInv, ScopeInv
<1>1. "named" \notin topic_offset_range.how /\ "named" \notin topic_size.how
  BY DEF topic_offset_range, topic_size, Asks
<1>2. CASE ListGroups
  <2>1. PICK kind : call.state = "list" /\ call' = [call EXCEPT !.state = "describe", !.kind = kind]
    BY <1>2 DEF ListGroups
  <2>2. /\ Kept1 /\ call'.round = call.round /\ call'.past = call.past /\ call'.state = "describe"
        /\ call'.unasked = call.unasked
    BY <1>0, <2>1 DEF Kept1, CallShape, CallFields
  <2> QED BY <1>0, <2>1, <2>2, EarlyOutcome DEF StepsOK
<1>3. CASE DescribeGroup
  <2>1. PICK blind : \/ call' = [[call EXCEPT !.past.blind = blind] EXCEPT !.state = "ask"]
                     \/ call' = [[call EXCEPT !.past.blind = blind] EXCEPT !.state = "failed", !.unasked = {}]
                     \/ call' = [call EXCEPT !.state = "failed", !.unasked = {}]
    BY <1>3 DEF DescribeGroup
  <2>2. call.state = "describe" BY <1>3 DEF DescribeGroup
  <2> DEFINE seen == [call EXCEPT !.past.blind = blind]
             Looks(c) == /\ DOMAIN c = CallFields /\ c.op = call.op /\ c.items = call.items /\ c.settled = call.settled
                         /\ c.spent = call.spent /\ c.reasks = call.reasks /\ c.past.waits = call.past.waits
                         /\ c.cursor = call.cursor /\ c.round = call.round /\ c.past.did = call.past.did
                         /\ c.past.doubt = call.past.doubt /\ c.past.repeated = call.past.repeated
                         /\ c.unasked = call.unasked
  <2>3. Looks(seen) BY <1>0 DEF CallShape, CallFields, PastFields
  <2>4. Looks(call) BY <1>0 DEF CallShape
  <2>5. \/ call' = [seen EXCEPT !.state = "ask"]
        \/ call' = [seen EXCEPT !.state = "failed", !.unasked = {}]
        \/ call' = [call EXCEPT !.state = "failed", !.unasked = {}]
    BY <2>1
  <2> HIDE DEF seen
  <2>6. /\ Kept1 /\ call'.round = call.round /\ call'.past.did = call.past.did /\ call'.past.doubt = call.past.doubt
        /\ call'.past.repeated = call.past.repeated
        /\ \/ call'.state = "failed" /\ call'.unasked = {}
           \/ call'.state = "ask" /\ call'.unasked = call.unasked
    BY <2>3, <2>4, <2>5 DEF Kept1, CallFields
  <2> QED BY <1>0, <2>2, <2>6, EarlyOutcome DEF StepsOK
<1>4. CASE OffsetRange
  <2>1. PICK x : \/ call.state = "first" /\ call' = [call EXCEPT !.state = "second", !.low = x]
                 \/ call.state = "second" /\ call' = [call EXCEPT !.state = "returned", !.high = x, !.unasked = {}]
                 \/ /\ call.state \in {"first", "second"}
                    /\ call' = [call EXCEPT !.state = "failed", !.unasked = {}, !.low = 0, !.high = 0]
    BY <1>4 DEF OffsetRange, NoRange
  <2>2. /\ Kept1 /\ call'.round = call.round /\ call'.past = call.past
        /\ \/ call'.state = "second" /\ call'.unasked = call.unasked
           \/ call'.state = "failed" /\ call'.unasked = {}
           \/ call'.state = "returned" /\ call'.unasked = {}
    BY <1>0, <2>1 DEF Kept1, CallShape, CallFields
  <2> QED BY <1>0, <1>1, <2>1, <2>2, EarlyOutcome DEF StepsOK
<1>5. CASE ReadLeaders \/ finish
  <2>1. PICK x, y : \/ call.state = "leaders" /\ call' = [call EXCEPT !.state = "dirs", !.leader = x, !.unread = y]
                    \/ call.state = "dirs" /\ call' = [call EXCEPT !.state = "failed", !.unasked = {}]
                    \/ call.state = "dirs" /\ call' = [call EXCEPT !.state = "returned", !.unasked = {}]
    BY <1>5 DEF ReadLeaders, leader_map, finish
  <2>2. /\ Kept1 /\ call'.round = call.round /\ call'.past = call.past
        /\ \/ call'.state = "dirs" /\ call'.unasked = call.unasked
           \/ call'.state = "returned" /\ call'.unasked = {}
           \/ call'.state = "failed" /\ call'.unasked = {}
    BY <1>0, <2>1 DEF Kept1, CallShape, CallFields
  <2> QED BY <1>0, <1>1, <2>1, <2>2, EarlyOutcome DEF StepsOK
<1>6. CASE \E b \in Brokers : ReadDirs(b)
  <2>1. PICK b \in Brokers : ReadDirs(b) BY <1>6
  <2> DEFINE y == call.replicated + SizeAt(b)
             z == IF b = call.leader THEN SizeAt(b) ELSE call.logical
             x == call.unread \ {b}
  <2>3. add(b) = [call EXCEPT !.unread = x, !.heard = TRUE, !.replicated = y, !.logical = z] BY Zenon DEF add
  <2>4. /\ call.state = "dirs"
        /\ \/ call' = [call EXCEPT !.unread = x, !.heard = TRUE, !.replicated = y, !.logical = z]
           \/ call' = [call EXCEPT !.unread = x, !.past.disturbed = TRUE]
    BY <2>1, <2>3, Zenon DEF ReadDirs
  <2> HIDE DEF x, y, z
  <2>5. CASE call' = [call EXCEPT !.unread = x, !.heard = TRUE, !.replicated = y, !.logical = z]
    <3>1. /\ Kept1 /\ call'.round = call.round /\ call'.state = call.state /\ call'.unasked = call.unasked
          /\ call'.past = call.past
      BY <1>0, <2>5 DEF Kept1, CallShape, CallFields
    <3> QED BY <2>4, <3>1, EarlyOutcome
  <2>6. CASE call' = [call EXCEPT !.unread = x, !.past.disturbed = TRUE]
    <3>1. /\ Kept1 /\ call'.round = call.round /\ call'.state = call.state /\ call'.unasked = call.unasked
          /\ call'.past.did = call.past.did /\ call'.past.doubt = call.past.doubt
          /\ call'.past.repeated = call.past.repeated
      BY <1>0, <2>6 DEF Kept1, CallShape, CallFields, PastFields
    <3> QED BY <2>4, <3>1, EarlyOutcome
  <2> QED BY <2>4, <2>5, <2>6
<1> QED BY <1>2, <1>3, <1>4, <1>5, <1>6

LEMMA OutcomeStep == OutcomeInv /\ [AdminNext]_vars => OutcomeInv'
<1> SUFFICES ASSUME OutcomeInv, [AdminNext]_vars
             PROVE  OutcomeInv'
  OBVIOUS
<1>0. ScopeInv' BY ScopeStep DEF OutcomeInv
<1>1. CASE UNCHANGED vars
  BY <1>1 DEF vars, OutcomeInv, ScopeInv, ScopeHolds, CallTypes, StepsOK, NotAsked, Rounds, Told, Rationed
<1>2. CASE \E S \in SUBSET Items : Refused(S) \/ Answered(S) \/ Fail(S)
  BY <1>0, <1>2, RefusedOutcome, AnsweredOutcome, FailOutcome
<1>3. CASE BeginAny \/ RoundEnds \/ DescribePage \/ DescribeViaMetadata
  BY <1>0, <1>3, BeginOutcome, RoundEndsOutcome, PageOutcome
<1>4. CASE ListGroups \/ DescribeGroup \/ OffsetRange \/ ReadLeaders \/ finish \/ \E b \in Brokers : ReadDirs(b)
  BY <1>0, <1>4, StepsOutcome
<1>5. CASE (\E i \in Items : OtherClient(i) \/ MemberCommits(i)) \/ RoleMoves \/ MemberComes \/ MemberLeaves \/ LogMoves \/ ReplicaMoves
  BY <1>0, <1>5, WorldOutcome
<1> QED BY <1>1, <1>2, <1>3, <1>4, <1>5, Zenon DEF AdminNext

LEMMA OutcomeInit == AdminInit => OutcomeInv
<1> SUFFICES ASSUME AdminInit PROVE OutcomeInv OBVIOUS
<1>1. /\ call.op = describe_cluster /\ call.items = {} /\ call.unasked = {} /\ call.state = "idle" /\ call.round = <<>>
      /\ call.settled = <<>> /\ call.spent = FALSE /\ call.reasks = 0 /\ call.past = History
  BY DEF AdminInit, NoCall
<1>2. /\ call.past.did = {} /\ call.past.doubt = {} /\ call.past.repeated = {} /\ call.past.waits = 0
  BY <1>1 DEF History
<1>3. <<>> \in Seq(Items \X Codes) OBVIOUS
<1>4. describe_cluster # describe_topics BY DEF describe_cluster, describe_topics, Asks
<1>5. CallTypes
  <2>1. call.spent \in BOOLEAN BY <1>1
  <2> QED BY <1>1, <1>2, <1>3, <2>1 DEF CallTypes
<1>6. StepsOK /\ NotAsked /\ Rounds /\ Told /\ Rationed
  BY <1>1, <1>2, <1>4 DEF StepsOK, NotAsked, Rounds, Told, Rationed
<1> QED BY <1>5, <1>6, ScopeInit DEF OutcomeInv

(* The outcomes a call returns tell what it did, whatever is late, lost,   *)
(* repeated or left out: what is reported Ok was executed, what was        *)
(* executed and is not reported is one of those whose answer did not say,  *)
(* no item is reported twice or asked for once it was settled, and a name  *)
(* that does not exist costs one more round (per_item_retrying).           *)
THEOREM OutcomesAreSound == AdminSpecification => []OutcomesSound
<1>1. OutcomeInv => OutcomesSound
  <2> SUFFICES ASSUME OutcomeInv PROVE OutcomesSound OBVIOUS
  <2>0. CallTypes /\ Rounds /\ Told /\ Rationed BY DEF OutcomeInv
  <2>1. \A i : (OkOf(i) <=> OkIn(call.settled, i)) /\ (Outcomes(call.settled, i) # {} <=> i \in Names(call.settled))
    BY <2>0, OutcomesAre DEF OkOf, CallTypes
  <2>2. ASSUME Returned, call.op.verb # "read", NEW i \in call.items
        PROVE  /\ OkOf(i) => i \in call.past.did
               /\ ~OkOf(i) /\ i \in call.past.did => i \in call.past.doubt
    <3>1. i \in Items /\ call.round = <<>> /\ call.state = "returned"
      BY <2>0, <2>2 DEF CallTypes, Rounds, Returned
    <3> QED BY <2>0, <2>1, <2>2, <3>1, NothingListed DEF Told
  <2>3. AsReported BY <2>0, <2>2 DEF AsReported, Told
  <2>4. Returned => \A j, k \in DOMAIN call.settled : call.settled[j][1] = call.settled[k][1] => j = k
    BY <2>0 DEF Rounds, Returned, Once
  <2>5. Returned /\ "named" \in call.op.how => \A i \in call.items : Outcomes(call.settled, i) # {}
    BY <2>0, <2>1 DEF Rounds, Returned
  <2>6. call.reasks <= call.past.waits + 1 BY <2>0 DEF Rationed, CallTypes
  <2>7. AskedOnce BY <2>0, <2>4, <2>5, <2>6 DEF AskedOnce, Rationed
  <2> QED BY <2>3, <2>7 DEF OutcomesSound
<1> QED BY <1>1, OutcomeInit, OutcomeStep, PTL DEF AdminSpecification

-----------------------------------------------------------------------------
(* reset_offsets.                                                          *)

(* A call that ResetOK sees as it was.                                     *)
Alike(c) == /\ c.op = call.op /\ c.past.did = call.past.did /\ c.past.raced = call.past.raced
            /\ c.past.blind = call.past.blind /\ (c.state = "ask" => call.state = "ask")
            /\ c.op = reset_offsets /\ c.state = "returned" => call.state \in {"ask", "returned"}

LEMMA ResetQuiet ==
  ASSUME ResetOK, group' = group, Alike(call')
  PROVE  ResetOK'
BY DEF ResetOK, Alike

(* What is executed is written.                                            *)
LEMMA ResetExecutes ==
  ASSUME ResetOK, call.state = "ask", NEW D, D \subseteq Items, Execute(call.op, D), call'.op = call.op,
         IF call.op.verb = "read" THEN call'.past.did = call.past.did ELSE call'.past.did = call.past.did \cup D,
         \/ call'.state = "failed"
         \/ call.op.verb = "read"
         \/ call'.past.raced = call.past.raced \cup (IF group.late THEN D ELSE {}),
         call'.state \in {"ask", "failed"}, call'.past.blind = call.past.blind
  PROVE  ResetOK'
<1> USE DEF Groups
<1>0. group \in Groups BY DEF ResetOK
<1>1. CASE call.op # reset_offsets BY <1>0, <1>1 DEF Execute, ResetOK
<1>2. CASE call.op = reset_offsets
  <2>1. call.op.verb # "read" BY <1>2 DEF reset_offsets, Asks
  <2>2. group' = [group EXCEPT !.written = @ \cup D] BY <1>2 DEF Execute
  <2>3. /\ group' \in Groups /\ group'.members = group.members /\ group'.written = group.written \cup D
        /\ group'.holds = group.holds /\ group'.late = group.late
    BY <1>0, <2>2
  <2>4. call'.past.did = call.past.did \cup D BY <2>1
  <2>5. ASSUME call'.state = "ask", ~call'.past.blind
        PROVE  call'.past.did \ call'.past.raced \subseteq group'.written \ group'.holds
    <3>1. ~group.late => group.holds = {} BY <1>2, <2>5 DEF ResetOK
    <3>2. call.past.did \ call.past.raced \subseteq group.written \ group.holds BY <1>2, <2>5 DEF ResetOK
    <3>3. call'.past.raced = call.past.raced \cup (IF group.late THEN D ELSE {}) BY <2>1, <2>5
    <3>4. CASE group.late BY <2>3, <2>4, <3>2, <3>3, <3>4
    <3>5. CASE ~group.late BY <2>3, <2>4, <3>1, <3>2, <3>3, <3>5
    <3> QED BY <3>4, <3>5
  <2> QED BY <1>2, <2>3, <2>5 DEF ResetOK
<1> QED BY <1>1, <1>2

LEMMA ResetStep == ResetInv /\ [AdminNext]_vars => ResetInv'
<1> SUFFICES ASSUME ResetInv, [AdminNext]_vars
             PROVE  ResetOK'
  BY OutcomeStep DEF ResetInv
<1>0. CallShape(call) /\ ResetOK /\ StepsOK /\ NotAsked BY DEF ResetInv, OutcomeInv, ScopeInv
<1> USE DEF CallShape
<1>1. CASE UNCHANGED vars BY <1>0, <1>1 DEF vars, ResetOK
<1>2. CASE BeginAny
  <2>1. PICK op, I, first :
          /\ Begin(op, I, first)
          /\ \/ op \in Operations /\ first = "ask"
             \/ op = reset_offsets /\ first = "list"
             \/ op \in {topic_offset_range, topic_size, describe_topics}
    BY <1>2 DEF BeginAny
  <2>2. PICK state : state = IF I = {} THEN "returned" ELSE first OBVIOUS
  <2>3. call' = [NoCall EXCEPT !.op = op, !.items = I, !.unasked = I, !.state = state] BY <2>1, <2>2 DEF Begin
  <2>4. call'.op = op /\ call'.state = state /\ call'.past.did = {} /\ group' = group
    <3>1. call'.op = op /\ call'.state = state /\ call'.past = History BY <2>3 DEF NoCall
    <3> QED BY <2>1, <3>1 DEF History, Begin
  <2>5. reset_offsets \notin Operations \cup {topic_offset_range, topic_size, describe_topics}
    BY DEF Operations, Asks,
       create_topics, validate_topics, delete_topics, create_partitions, describe_topics, delete_records,
       describe_configs, alter_configs, alter_partition_reassignments, list_partition_reassignments, elect_leaders,
       list_offsets, topic_offset_range, list_transactions, describe_transactions, describe_producers,
       describe_cluster, describe_log_dirs, topic_size, describe_consumer_groups, describe_share_groups,
       fetch_offsets, reset_offsets, delete_offsets, delete_groups, describe_acls, create_acls, delete_acls,
       describe_client_quotas, alter_client_quotas, describe_scram_credentials, upsert_scram_credentials,
       delete_scram_credentials, create_delegation_token, renew_delegation_token, expire_delegation_token,
       describe_delegation_tokens
  <2> QED BY <1>0, <2>1, <2>2, <2>4, <2>5 DEF ResetOK
<1>3. ASSUME NEW S \in SUBSET Items, Refused(S) PROVE ResetOK'
  <2>1. PICK r : r = InRound(S, [i \in S |-> "ReadOnly"]) OBVIOUS
  <2>2. \/ call' = [call EXCEPT !.unasked = @ \ S, !.round = r]
        \/ call' = Fails
    BY <1>3, <2>1 DEF Refused
  <2>3. Alike(call')
    <3>1. Alike([call EXCEPT !.unasked = @ \ S, !.round = r]) BY <1>0 DEF Alike, CallFields
    <3>2. Alike(Fails) BY <1>0 DEF Alike, Fails, CallFields, PastFields
    <3> QED BY <2>2, <3>1, <3>2, Zenon
  <2>4. group' = group BY <1>3 DEF Refused
  <2> QED BY <1>0, <2>3, <2>4, ResetQuiet
<1>4. ASSUME NEW S \in SUBSET Items, Answered(S) PROVE ResetOK'
  <2>1. PICK D, U, left, round :
           /\ D \subseteq S /\ Execute(call.op, D)
           /\ call' = [call EXCEPT !.unasked = left, !.round = round, !.past = Past(call.op, D, U)]
    <3>1. PICK a : /\ Execute(call.op, {i \in S : a[i].done})
                   /\ call' = [call EXCEPT !.unasked = @ \ S,
                               !.round = InRound(DOMAIN ByName(call.op, S, a), ByName(call.op, S, a)),
                               !.past = Past(call.op, {i \in S : a[i].done},
                                             {i \in {j \in S : a[j].done} : a[i].code # "Ok"})]
      BY <1>4, Zenon DEF Answered
    <3>2. {i \in S : a[i].done} \subseteq S OBVIOUS
    <3> QED BY <3>1, <3>2, Zenon
  <2>2. PICK past : past = Past(call.op, D, U) OBVIOUS
  <2>3. /\ past.blind = call.past.blind
        /\ IF call.op.verb = "read" THEN past.did = call.past.did ELSE past.did = call.past.did \cup D
        /\ call.op.verb = "read" \/ past.raced = call.past.raced \cup (IF group.late THEN D ELSE {})
    BY <1>0, <2>2 DEF Past, PastFields
  <2>4. call'.op = call.op /\ call'.past = past /\ call'.state = call.state BY <1>0, <2>1, <2>2 DEF CallFields
  <2>5. D \subseteq Items /\ call.state = "ask" BY <1>4, <2>1 DEF Answered
  <2> QED BY <1>0, <2>1, <2>3, <2>4, <2>5, ResetExecutes
<1>5. ASSUME NEW S \in SUBSET Items, Fail(S) PROVE ResetOK'
  <2>1. PICK D \in SUBSET S :
          /\ Execute(call.op, D)
          /\ call' = IF "split" \in call.op.how
                     THEN [call EXCEPT !.unasked = @ \ S, !.round = InRound(S, [i \in S |-> "Failed"]),
                                       !.past = Past(call.op, D, D)]
                     ELSE [Fails EXCEPT !.past.did = Past(call.op, D, D).did,
                                        !.past.doubt = Past(call.op, D, D).doubt]
    BY <1>5 DEF Fail
  <2>2. PICK past, round : past = Past(call.op, D, D) /\ round = InRound(S, [i \in S |-> "Failed"]) OBVIOUS
  <2>3. /\ past.blind = call.past.blind
        /\ IF call.op.verb = "read" THEN past.did = call.past.did ELSE past.did = call.past.did \cup D
        /\ call.op.verb = "read" \/ past.raced = call.past.raced \cup (IF group.late THEN D ELSE {})
    BY <1>0, <2>2 DEF Past, PastFields
  <2>4. \/ call' = [call EXCEPT !.unasked = @ \ S, !.round = round, !.past = past]
        \/ call' = [Fails EXCEPT !.past.did = past.did, !.past.doubt = past.doubt]
    BY <2>1, <2>2
  <2>5. /\ call'.op = call.op /\ call'.past.did = past.did /\ call'.past.blind = call.past.blind
        /\ call'.state = "failed" \/ (call'.state = call.state /\ call'.past.raced = past.raced)
    <3>1. CASE call' = [call EXCEPT !.unasked = @ \ S, !.round = round, !.past = past]
      <4>1. call'.op = call.op /\ call'.past = past /\ call'.state = call.state BY <1>0, <3>1 DEF CallFields
      <4> QED BY <2>3, <4>1
    <3>2. PICK did, doubt : did = past.did /\ doubt = past.doubt OBVIOUS
    <3>3. CASE call' = [Fails EXCEPT !.past.did = did, !.past.doubt = doubt]
      <4>1. /\ call'.op = call.op /\ call'.past.did = did /\ call'.state = "failed"
            /\ call'.past.blind = call.past.blind
        BY <1>0, <3>3 DEF Fails, CallFields, PastFields
      <4> QED BY <3>2, <4>1
    <3> QED BY <2>4, <3>1, <3>2, <3>3
  <2>6. D \subseteq Items /\ call.state = "ask" BY <1>5 DEF Fail
  <2> QED BY <1>0, <2>1, <2>3, <2>5, <2>6, ResetExecutes
<1>6. CASE RoundEnds
  <2>1. PICK codes, final, left : /\ codes = {call.round[k][2] : k \in Again} /\ final = call.settled \o Rest(Final)
                                  /\ left = {call.round[k][1] : k \in Again}
    OBVIOUS
  <2>2. PICK all, spent, waits :
          /\ all = final \o Rest(Again)
          /\ spent = (call.spent \/ \E k \in Again : Judged[k] = "RefreshOnce")
          /\ waits = call.past.waits + IF \E c \in codes : retriable_for_named_resource(c) THEN 1 ELSE 0
    OBVIOUS
  <2>4. \/ call' = [call EXCEPT !.state = "returned", !.settled = final, !.round = <<>>]
        \/ call' = [call EXCEPT !.state = "returned", !.settled = all, !.round = <<>>]
        \/ call' = [call EXCEPT !.settled = final, !.round = <<>>, !.reasks = @ + 1,
                                !.unasked = left, !.spent = spent, !.past.waits = waits]
    BY <1>6, <2>1, <2>2, Zenon DEF RoundEnds, Kept, Judged, Final, Again, Rest
  <2>6. call.state = "ask" BY <1>6 DEF RoundEnds
  <2>5. Alike(call')
    <3>1. \A x : Alike([call EXCEPT !.state = "returned", !.settled = x, !.round = <<>>])
      BY <1>0, <2>6 DEF Alike, CallFields
    <3>2. Alike([call EXCEPT !.settled = final, !.round = <<>>, !.reasks = @ + 1,
                             !.unasked = left, !.spent = spent, !.past.waits = waits])
      BY <1>0 DEF Alike, CallFields, PastFields
    <3> QED BY <2>4, <3>1, <3>2, Zenon
  <2>3. group' = group BY <1>6 DEF RoundEnds
  <2> QED BY <1>0, <2>3, <2>5, ResetQuiet
<1>7. CASE DescribeGroup
  <2> DEFINE as == IF call.kind = "none" THEN "classic" ELSE call.kind
             members == group.members /\ as = group.kind
             seen == [call EXCEPT !.past.blind = as # group.kind]
  <2>1. \/ is_empty(members) /\ call' = [seen EXCEPT !.state = "ask"]
        \/ call' = [seen EXCEPT !.state = "failed", !.unasked = {}]
        \/ call' = [call EXCEPT !.state = "failed", !.unasked = {}]
    BY <1>7, Zenon DEF DescribeGroup
  <2>2. group' = group /\ call.state = "describe" BY <1>7 DEF DescribeGroup
  <2>3. call.past.did = {} BY <1>0, <2>2 DEF NotAsked
  <2>4. /\ DOMAIN seen = CallFields /\ seen.past.did = {} /\ seen.past.blind = (as # group.kind) /\ seen.op = call.op
    BY <1>0, <2>3 DEF CallFields, PastFields
  <2>5. is_empty(members) => ~group.members \/ as # group.kind BY DEF is_empty
  <2> HIDE DEF seen, members, as
  <2>6. /\ call'.past.did = {}
        /\ call'.state # "ask" \/ (call'.past.blind = (as # group.kind) /\ is_empty(members))
    BY <1>0, <2>1, <2>3, <2>4 DEF CallFields
  <2>7. group' \in Groups /\ (~group'.members => group'.holds = {}) BY <1>0, <2>2 DEF ResetOK
  <2>8. call'.state = "ask" /\ ~call'.past.blind => ~group.members BY <2>5, <2>6
  <2> QED BY <2>2, <2>6, <2>7, <2>8 DEF ResetOK
<1>8. CASE ListGroups \/ OffsetRange \/ ReadLeaders \/ finish \/ DescribeViaMetadata
  <2>1. /\ call'.op = call.op /\ call'.past = call.past /\ call'.state # "ask" /\ group' = group
    BY <1>0, <1>8 DEF ListGroups, OffsetRange, NoRange, ReadLeaders, leader_map, finish, DescribeViaMetadata, CallFields
  <2>2. call'.state # "returned" \/ call.op \in {topic_offset_range, topic_size, describe_topics}
    BY <1>0, <1>8 DEF ListGroups, OffsetRange, NoRange, ReadLeaders, leader_map, finish, DescribeViaMetadata,
                      CallFields, StepsOK
  <2>3. reset_offsets \notin {topic_offset_range, topic_size, describe_topics}
    BY DEF topic_offset_range, topic_size, describe_topics, reset_offsets, Asks
  <2> QED BY <1>0, <2>1, <2>2, <2>3, ResetQuiet DEF Alike
<1>9. CASE DescribePage
  <2>1. PICK partial, next, settled, round :
          \/ call' = [call EXCEPT !.state = "returned", !.partial = partial, !.unasked = {},
                                  !.round = <<>>, !.settled = settled]
          \/ call' = [call EXCEPT !.partial = partial, !.cursor = next, !.round = round]
    <3> DEFINE next == NextCursor
               partial == [i \in Items |-> call.partial[i] + Cardinality({pos \in NextPage : pos[1] = i})]
               gone == {i \in call.items \ store : i >= call.cursor[1] /\ (Left = NextPage \/ i < next[1])}
                       \cup {i \in Items : \E k \in DOMAIN call.round : call.round[k][1] = i}
               settled == Described(partial, gone)
               round == InRound(gone, [i \in gone |-> "UnknownTopic"])
    <3>1. \/ call' = [call EXCEPT !.state = "returned", !.partial = partial, !.unasked = {},
                                  !.round = <<>>, !.settled = settled]
          \/ call' = [call EXCEPT !.partial = partial, !.cursor = next, !.round = round]
      BY <1>9, Zenon DEF DescribePage, NextCursor
    <3> HIDE DEF next, partial, settled, round
    <3> QED BY <3>1
  <2>2. /\ call'.op = call.op /\ call'.past = call.past /\ (call'.state = "ask" => call.state = "ask")
    BY <1>0, <2>1 DEF CallFields
  <2>3. group' = group /\ call.op # reset_offsets
    BY <1>0, <1>9 DEF DescribePage, StepsOK, describe_topics, reset_offsets, Asks
  <2> QED BY <1>0, <2>2, <2>3, ResetQuiet DEF Alike
<1>10. CASE \E b \in Brokers : ReadDirs(b)
  <2>1. PICK b \in Brokers : ReadDirs(b) BY <1>10
  <2>2. add(b).op = call.op /\ add(b).past = call.past /\ add(b).state = call.state
    BY <1>0 DEF add, CallFields
  <2>3. call' = add(b) \/ call' = [call EXCEPT !.unread = @ \ {b}, !.past.disturbed = TRUE]
    BY <2>1 DEF ReadDirs
  <2>4. Alike(call')
    <3>1. Alike(add(b)) BY <2>2 DEF Alike
    <3>2. Alike([call EXCEPT !.unread = @ \ {b}, !.past.disturbed = TRUE])
      BY <1>0 DEF Alike, CallFields, PastFields
    <3> QED BY <2>3, <3>1, <3>2, Zenon
  <2>5. group' = group BY <2>1 DEF ReadDirs
  <2> QED BY <1>0, <2>4, <2>5, ResetQuiet
<1>11. CASE (\E i \in Items : OtherClient(i)) \/ RoleMoves \/ LogMoves \/ ReplicaMoves
  <2>1. /\ call'.op = call.op /\ call'.past.did = call.past.did /\ call'.past.raced = call.past.raced
        /\ call'.past.blind = call.past.blind /\ call'.state = call.state /\ group' = group
    BY <1>0, <1>11 DEF OtherClient, RoleMoves, LogMoves, ReplicaMoves, World, Disturbs, CallFields, PastFields
  <2> QED BY <1>0, <2>1, ResetQuiet DEF Alike
<1>12. CASE MemberComes \/ MemberLeaves
  <2>1. call' = call /\ call.state \notin {"idle", "returned", "failed"} /\ group \in Groups
    BY <1>0, <1>12 DEF MemberComes, MemberLeaves, World, ResetOK
  <2>2. CASE MemberComes
    <3>1. /\ group' \in Groups /\ group'.written = group.written /\ group'.holds = Items \ group.written
          /\ group'.members = TRUE /\ group'.late = (call.state = "ask")
      BY <2>1, <2>2 DEF MemberComes, Groups
    <3>2. group'.written \ group'.holds = group.written BY <2>1, <3>1 DEF Groups
    <3> QED BY <1>0, <2>1, <3>1, <3>2 DEF ResetOK
  <2>3. CASE MemberLeaves
    <3>1. /\ group' \in Groups /\ group'.written = group.written /\ group'.holds = {} /\ group'.members = FALSE
      BY <2>1, <2>3 DEF MemberLeaves, Groups
    <3> QED BY <1>0, <2>1, <3>1 DEF ResetOK
  <2> QED BY <1>12, <2>2, <2>3
<1>13. ASSUME NEW i \in Items, MemberCommits(i) PROVE ResetOK'
  <2>1. call' = call /\ i \in group.holds /\ group' = [group EXCEPT !.written = @ \ {i}]
    BY <1>13 DEF MemberCommits
  <2>2. /\ group' \in Groups /\ group'.members = group.members /\ group'.holds = group.holds
        /\ group'.late = group.late /\ group'.written = group.written \ {i}
    BY <1>0, <2>1 DEF ResetOK, Groups
  <2>3. group'.written \ group'.holds = group.written \ group.holds BY <2>1, <2>2
  <2> QED BY <1>0, <2>1, <2>2, <2>3 DEF ResetOK
<1>14. CASE \E S \in SUBSET Items : Refused(S) \/ Answered(S) \/ Fail(S) BY <1>3, <1>4, <1>5, <1>14
<1>15. CASE \E i \in Items : OtherClient(i) \/ MemberCommits(i) BY <1>11, <1>13, <1>15
<1> QED BY <1>1, <1>2, <1>6, <1>7, <1>8, <1>9, <1>10, <1>11, <1>12, <1>14, <1>15, Zenon DEF AdminNext

(* A reset that is reported stands, whatever members join, leave and       *)
(* commit before, between and after the requests: a partition that is      *)
(* taken back was committed while a member was there that joined after the *)
(* check (reset_offsets).                                                  *)
THEOREM ResetsStick == AdminSpecification => []ResetSticks
<1>1. AdminInit => ResetInv
  <2> SUFFICES ASSUME AdminInit PROVE ResetOK BY OutcomeInit DEF ResetInv
  <2>1. call.past.did = {} /\ call.state # "ask" BY DEF AdminInit, NoCall, History
  <2>2. group \in Groups /\ (~group.members => group.holds = {}) BY DEF AdminInit, Groups
  <2> QED BY <2>1, <2>2 DEF ResetOK
<1>2. ResetInv => ResetSticks
  <2> SUFFICES ASSUME ResetInv, Returned, call.op = reset_offsets, ~call.past.blind,
                      NEW i \in call.items, OkOf(i)
               PROVE  i \in group.written \cup call.past.raced
    BY DEF ResetSticks
  <2>0. CallTypes /\ Told /\ ResetOK BY DEF ResetInv, OutcomeInv
  <2>1. OkIn(call.settled, i) /\ i \in Items BY <2>0, OutcomesAre DEF OkOf, CallTypes
  <2>2. call.op.verb # "read" BY DEF reset_offsets, Asks
  <2>3. i \in call.past.did BY <2>0, <2>1, <2>2 DEF Told, Returned
  <2> QED BY <2>0, <2>3 DEF ResetOK, Returned
<1> QED BY <1>1, <1>2, ResetStep, PTL DEF AdminSpecification

-----------------------------------------------------------------------------
(* What several requests put together.                                     *)

(* topic_offset_range: the log's start only grows.                         *)
LogOK ==
  /\ DOMAIN log = {"start", "end"} /\ log.start \in Nat /\ log.end \in Nat /\ log.start <= log.end
  /\ call.low \in Nat /\ call.high \in Nat
  /\ IF call.state = "second" THEN call.low <= log.start ELSE call.low <= call.high

(* topic_size: what has been added up are the brokers that have been read. *)
Whole == [size |-> 2, future |-> FALSE]
Copy == [size |-> 1, future |-> TRUE]
Dirs == [leader : Brokers, at : [Brokers -> {{}, {Whole}, {Whole, Copy}}]]
Held == {b \in Brokers : dirs.at[b] # {}}
SizeOK ==
  /\ dirs \in Dirs /\ dirs.leader \in Held
  /\ call.logical \in Nat /\ call.replicated \in Nat /\ call.logical <= call.replicated
  /\ call.unread \subseteq Brokers
  /\ call.op = topic_size => call.state \in {"leaders", "dirs", "returned", "failed"}
  /\ call.state \notin {"dirs", "returned", "failed"} => call.logical = 0 /\ call.replicated = 0
  /\ call.op = topic_size /\ ~call.past.disturbed =>
       /\ call.state = "dirs" =>
            /\ call.leader \in Held
            /\ call.replicated = 2 * Cardinality(Held \ call.unread)
            /\ call.leader \notin call.unread => call.logical = 2
       /\ call.state = "returned" => call.logical = 2 /\ call.replicated = 2 * Cardinality(Held)

(* describe_topics: what has been counted is what is before the cursor, and *)
(* the topics before it that are not there have been told.                 *)
Positions == (call.items \cap store) \X (1..Parts)
Listed(i) == {pos \in Positions : pos[1] = i /\ ~AtOrAfter(pos, call.cursor)}
PagesOK ==
  call.op = describe_topics /\ ~call.past.disturbed =>
    /\ call.state = "page" =>
         /\ call.cursor \in Nat \X Nat
         /\ DOMAIN call.partial = Items
         /\ \A i \in Items : call.partial[i] = Cardinality(Listed(i))
         /\ \A i \in call.items \ store : i < call.cursor[1] => i \in Names(call.round)
    /\ call.state = "returned" =>
         \A i \in call.items : /\ i \in Names(call.settled)
                               /\ OkIn(call.settled, i) <=> i \in store
                               /\ i \in store => call.partial[i] = Parts

PictureInv == OutcomeInv /\ LogOK /\ SizeOK /\ PagesOK

(* Positions are ordered.                                                  *)
LEMMA OrderIs ==
  ASSUME NEW x \in Nat \X Nat, NEW y \in Nat \X Nat, NEW z \in Nat \X Nat
  PROVE  /\ AtOrAfter(x, y) /\ AtOrAfter(y, z) => AtOrAfter(x, z)
         /\ AtOrAfter(x, y) \/ AtOrAfter(y, x)
         /\ AtOrAfter(x, x)
<1>1. x[1] \in Nat /\ x[2] \in Nat /\ y[1] \in Nat /\ y[2] \in Nat /\ z[1] \in Nat /\ z[2] \in Nat OBVIOUS
<1> QED BY <1>1 DEF AtOrAfter

LEMMA PositionsAre ==
  ASSUME CallTypes
  PROVE  Positions \subseteq Nat \X Nat /\ IsFiniteSet(Positions) /\ Left \subseteq Positions /\ NextPage \subseteq Left
<1>1. Items \subseteq Nat /\ 1..Parts \subseteq Nat /\ Parts \in Nat BY AdminAssumption
<1>2. call.items \cap store \in SUBSET Items BY DEF CallTypes
<1>3. IsFiniteSet(call.items \cap store) BY <1>2, ItemsAre
<1>4. IsFiniteSet(1..Parts) BY <1>1, FS_Interval
<1>5. IsFiniteSet(Positions) BY <1>3, <1>4, FS_Product DEF Positions
<1>6. Positions \subseteq Nat \X Nat BY <1>1, <1>2 DEF Positions
<1> QED BY <1>5, <1>6 DEF Left, NextPage, Positions

(* A page that is not the last ends where the next one starts.             *)
LEMMA PageIs ==
  ASSUME CallTypes, call.cursor \in Nat \X Nat, Left # NextPage
  PROVE  /\ NextCursor \in Positions
         /\ \A pos \in Positions : ~AtOrAfter(pos, NextCursor) <=> ~AtOrAfter(pos, call.cursor) \/ pos \in NextPage
<1> DEFINE next == NextCursor
           below(x) == {q \in Left : ~AtOrAfter(q, x)}
<1>0. Positions \subseteq Nat \X Nat /\ IsFiniteSet(Positions) /\ Left \subseteq Positions /\ NextPage \subseteq Left
  BY PositionsAre
<1>1. next \in Left \ NextPage /\ \A q \in Left \ NextPage : AtOrAfter(q, next) BY NextIs
<1>2. \A pos \in Positions : pos \in Left <=> AtOrAfter(pos, call.cursor) BY DEF Left, Positions
<1>3. \A pos \in Left : pos \in NextPage <=> Cardinality(below(pos)) < PageLimit BY DEF NextPage
<1> HIDE DEF next
<1>4. ASSUME NEW pos \in Positions, ~AtOrAfter(pos, call.cursor) PROVE ~AtOrAfter(pos, next)
  <2>1. AtOrAfter(next, call.cursor) /\ next \in Nat \X Nat /\ pos \in Nat \X Nat BY <1>0, <1>1, <1>2
  <2> QED BY <1>4, <2>1, OrderIs
<1>5. ASSUME NEW pos \in NextPage, AtOrAfter(pos, next) PROVE FALSE
  <2>1. pos \in Nat \X Nat /\ next \in Nat \X Nat /\ pos \in Left /\ next \in Left /\ Left \subseteq Nat \X Nat
    BY <1>0, <1>1
  <2>2. \A q \in Left : ~AtOrAfter(q, next) => ~AtOrAfter(q, pos) BY <1>5, <2>1, OrderIs
  <2>3. PICK a, b : a = below(next) /\ b = below(pos) OBVIOUS
  <2>4. a \in SUBSET b /\ b \in SUBSET Positions BY <1>0, <2>2, <2>3
  <2>5. IsFiniteSet(b) /\ Cardinality(b) \in Nat BY <1>0, <2>4, FS_Subset, FS_CardinalityType
  <2>6. Cardinality(a) <= Cardinality(b) /\ Cardinality(a) \in Nat
    BY <2>4, <2>5, FS_Subset, FS_CardinalityType
  <2>7. Cardinality(b) < PageLimit /\ ~(Cardinality(a) < PageLimit) /\ PageLimit \in Nat
    BY <1>1, <1>3, <2>1, <2>3, AdminAssumption
  <2> QED BY <2>5, <2>6, <2>7
<1>6. ASSUME NEW pos \in Positions, ~AtOrAfter(pos, next), AtOrAfter(pos, call.cursor) PROVE pos \in NextPage
  BY <1>1, <1>2, <1>6
<1> QED BY <1>0, <1>1, <1>4, <1>5, <1>6 DEF next

(* The partitions of one topic.                                            *)
LEMMA TopicIs ==
  ASSUME CallTypes, NEW i \in Items
  PROVE  Cardinality({pos \in Positions : pos[1] = i}) = IF i \in call.items \cap store THEN Parts ELSE 0
<1> DEFINE P == {pos \in Positions : pos[1] = i}
<1>1. CASE i \notin call.items \cap store
  <2>1. P = {} BY <1>1 DEF Positions
  <2> QED BY <1>1, <2>1, FS_EmptySet
<1>2. CASE i \in call.items \cap store
  <2> DEFINE f == [k \in 1..Parts |-> <<i, k>>]
  <2>0. Parts \in Nat BY AdminAssumption
  <2>1. \A k \in 1..Parts : <<i, k>> \in P BY <1>2 DEF Positions
  <2>2. \A pos \in P : pos[2] \in 1..Parts /\ pos = <<i, pos[2]>> BY DEF Positions
  <2>3. f \in Bijection(1..Parts, P)
    <3>1. f \in [1..Parts -> P] BY <2>1
    <3>2. \A j, k \in 1..Parts : f[j] = f[k] => j = k OBVIOUS
    <3>3. \A pos \in P : \E k \in 1..Parts : f[k] = pos BY <2>2
    <3> HIDE DEF f, P
    <3> QED BY <3>1, <3>2, <3>3 DEF Bijection, Injection, Surjection, IsInjective
  <2>4. IsFiniteSet(1..Parts) /\ Cardinality(1..Parts) = Parts BY <2>0, FS_Interval
  <2> HIDE DEF f, P
  <2>5. ExistsBijection(1..Parts, P) BY <2>3 DEF ExistsBijection
  <2>6. Cardinality(P) = Parts BY <2>4, <2>5, FS_Bijection
  <2> QED BY <1>2, <2>6 DEF P
<1> QED BY <1>1, <1>2

(* What a page adds to the count of a topic.                               *)
LEMMA CountIs ==
  ASSUME CallTypes, NEW i, NEW A, NEW B, A \subseteq Positions, B \subseteq Positions, A \cap B = {}
  PROVE  Cardinality(A) + Cardinality(B) = Cardinality(A \cup B)
<1>1. IsFiniteSet(A) /\ IsFiniteSet(B) BY PositionsAre, FS_Subset
<1>2. Cardinality(A \cup B) = Cardinality(A) + Cardinality(B) - Cardinality(A \cap B) BY <1>1, FS_Union
<1>3. Cardinality(A \cap B) = 0 /\ Cardinality(A) \in Nat /\ Cardinality(B) \in Nat
  BY <1>1, FS_EmptySet, FS_CardinalityType
<1> QED BY <1>2, <1>3

(* The part of a call that a picture is put together in.                   *)
SamePicture(c) ==
  /\ c.op = call.op /\ c.low = call.low /\ c.high = call.high /\ c.logical = call.logical
  /\ c.replicated = call.replicated /\ c.unread = call.unread /\ c.leader = call.leader

(* A round of requests puts nothing together.                              *)
LEMMA AskPicture ==
  ASSUME PictureInv, OutcomeInv', log' = log, dirs' = dirs, SamePicture(call'),
         call.state \in {"ask", "list", "describe"}, call'.state \in {"ask", "describe", "returned", "failed"}
  PROVE  PictureInv'
<1>0. StepsOK /\ LogOK /\ SizeOK BY DEF PictureInv, OutcomeInv
<1>1. call.op # describe_topics /\ call.op # topic_size BY <1>0 DEF StepsOK, SizeOK
<1>2. LogOK' BY <1>0 DEF LogOK, SamePicture
<1>3. SizeOK'
  <2>1. call.logical = 0 /\ call.replicated = 0 BY <1>0 DEF SizeOK
  <2> QED BY <1>0, <1>1, <2>1 DEF SizeOK, Held, SamePicture
<1>4. PagesOK' BY <1>1 DEF PagesOK, SamePicture
<1> QED BY <1>2, <1>3, <1>4 DEF PictureInv

LEMMA AsksPicture ==
  ASSUME PictureInv, OutcomeInv',
         (\E S \in SUBSET Items : Refused(S) \/ Answered(S) \/ Fail(S)) \/ RoundEnds \/ ListGroups \/ DescribeGroup
  PROVE  PictureInv'
<1> USE DEF CallShape
<1>0. CallShape(call) BY DEF PictureInv, OutcomeInv, ScopeInv
<1> DEFINE Fits(c) == SamePicture(c) /\ c.state \in {"ask", "describe", "returned", "failed"}
<1>1. log' = log /\ dirs' = dirs /\ call.state \in {"ask", "list", "describe"}
  BY DEF Refused, Answered, Fail, RoundEnds, ListGroups, DescribeGroup
<1>2. \A u, r, p : call.state = "ask" => Fits([call EXCEPT !.unasked = u, !.round = r, !.past = p])
  BY <1>0 DEF SamePicture, CallFields
<1>3. Fits(Fails) /\ DOMAIN Fails = CallFields /\ DOMAIN Fails.past = PastFields
  BY <1>0 DEF Fails, SamePicture, CallFields, PastFields
<1>4. ASSUME NEW S, Refused(S) PROVE Fits(call')
  <2>1. PICK r : r = InRound(S, [i \in S |-> "ReadOnly"]) OBVIOUS
  <2>2. call' = [call EXCEPT !.unasked = @ \ S, !.round = r] \/ call' = Fails BY <1>4, <2>1 DEF Refused
  <2>3. Fits([call EXCEPT !.unasked = @ \ S, !.round = r]) BY <1>0, <1>4 DEF SamePicture, CallFields, Refused
  <2> HIDE DEF Fits
  <2> QED BY <1>3, <2>2, <2>3, Zenon
<1>5. ASSUME NEW S, Answered(S) PROVE Fits(call')
  <2>1. PICK u, r, p : call' = [call EXCEPT !.unasked = u, !.round = r, !.past = p]
    BY <1>5, Zenon DEF Answered
  <2>2. call.state = "ask" BY <1>5 DEF Answered
  <2> HIDE DEF Fits
  <2> QED BY <1>2, <2>1, <2>2
<1>6. ASSUME NEW S, Fail(S) PROVE Fits(call')
  <2>1. PICK D : call' = IF "split" \in call.op.how
                    THEN [call EXCEPT !.unasked = @ \ S, !.round = InRound(S, [i \in S |-> "Failed"]),
                                      !.past = Past(call.op, D, D)]
                    ELSE [Fails EXCEPT !.past.did = Past(call.op, D, D).did,
                                       !.past.doubt = Past(call.op, D, D).doubt]
    BY <1>6 DEF Fail
  <2>2. PICK p, r, did, doubt : /\ p = Past(call.op, D, D) /\ r = InRound(S, [i \in S |-> "Failed"])
                                /\ did = Past(call.op, D, D).did /\ doubt = Past(call.op, D, D).doubt
    OBVIOUS
  <2>3. call' = [call EXCEPT !.unasked = @ \ S, !.round = r, !.past = p]
        \/ call' = [Fails EXCEPT !.past.did = did, !.past.doubt = doubt]
    BY <2>1, <2>2
  <2>4. Fits([Fails EXCEPT !.past.did = did, !.past.doubt = doubt]) BY <1>3 DEF SamePicture, CallFields
  <2>5. call.state = "ask" BY <1>6 DEF Fail
  <2>6. Fits([call EXCEPT !.unasked = @ \ S, !.round = r, !.past = p])
    BY <1>0, <2>5 DEF SamePicture, CallFields
  <2> HIDE DEF Fits
  <2> QED BY <2>3, <2>4, <2>6, Zenon
<1>7. ASSUME RoundEnds PROVE Fits(call')
  <2>1. PICK codes, final, left : /\ codes = {call.round[k][2] : k \in Again} /\ final = call.settled \o Rest(Final)
                                  /\ left = {call.round[k][1] : k \in Again}
    OBVIOUS
  <2>2. PICK all, spent, waits :
          /\ all = final \o Rest(Again)
          /\ spent = (call.spent \/ \E k \in Again : Judged[k] = "RefreshOnce")
          /\ waits = call.past.waits + IF \E c \in codes : retriable_for_named_resource(c) THEN 1 ELSE 0
    OBVIOUS
  <2>4. \/ call' = [call EXCEPT !.state = "returned", !.settled = final, !.round = <<>>]
        \/ call' = [call EXCEPT !.state = "returned", !.settled = all, !.round = <<>>]
        \/ call' = [call EXCEPT !.settled = final, !.round = <<>>, !.reasks = @ + 1,
                                !.unasked = left, !.spent = spent, !.past.waits = waits]
    BY <1>7, <2>1, <2>2, Zenon DEF RoundEnds, Kept, Judged, Final, Again, Rest
  <2>5. Fits(call')
    <3>0. call.state = "ask" BY <1>7 DEF RoundEnds
    <3>1. \A x : Fits([call EXCEPT !.state = "returned", !.settled = x, !.round = <<>>])
      BY <1>0 DEF SamePicture, CallFields
    <3>2. Fits([call EXCEPT !.settled = final, !.round = <<>>, !.reasks = @ + 1,
                            !.unasked = left, !.spent = spent, !.past.waits = waits])
      BY <1>0, <3>0 DEF SamePicture, CallFields, PastFields
    <3> HIDE DEF Fits
    <3> QED BY <2>4, <3>1, <3>2, Zenon
  <2> QED BY <2>5
<1>8. ASSUME ListGroups PROVE Fits(call') BY <1>0, <1>8 DEF ListGroups, SamePicture, CallFields
<1>9. ASSUME DescribeGroup PROVE Fits(call')
  <2>1. PICK blind : \/ call' = [[call EXCEPT !.past.blind = blind] EXCEPT !.state = "ask"]
                     \/ call' = [[call EXCEPT !.past.blind = blind] EXCEPT !.state = "failed", !.unasked = {}]
                     \/ call' = [call EXCEPT !.state = "failed", !.unasked = {}]
    BY <1>9 DEF DescribeGroup
  <2> DEFINE seen == [call EXCEPT !.past.blind = blind]
  <2>2. DOMAIN seen = CallFields /\ SamePicture(seen) BY <1>0 DEF SamePicture, CallFields
  <2> HIDE DEF seen
  <2>3. Fits([seen EXCEPT !.state = "ask"]) /\ Fits([seen EXCEPT !.state = "failed", !.unasked = {}])
    BY <2>2 DEF SamePicture, CallFields
  <2>4. Fits([call EXCEPT !.state = "failed", !.unasked = {}]) BY <1>0 DEF SamePicture, CallFields
  <2> HIDE DEF Fits
  <2> QED BY <2>1, <2>3, <2>4, Zenon DEF seen
<1>10. Fits(call')
  <2> HIDE DEF Fits
  <2> QED BY <1>4, <1>5, <1>6, <1>7, <1>8, <1>9
<1> QED BY <1>1, <1>10, AskPicture

LEMMA BeginPicture ==
  ASSUME PictureInv, OutcomeInv', BeginAny
  PROVE  PictureInv'
<1>1. PICK op, I, first :
        /\ Begin(op, I, first)
        /\ \/ op \in Operations /\ first = "ask"
           \/ op = reset_offsets /\ first = "list"
           \/ op = topic_offset_range /\ first = "first"
           \/ op = topic_size /\ first = "leaders" /\ I # {}
           \/ op = describe_topics /\ first = "page"
  BY DEF BeginAny
<1>2. PICK state : state = IF I = {} THEN "returned" ELSE first OBVIOUS
<1>3. call' = [NoCall EXCEPT !.op = op, !.items = I, !.unasked = I, !.state = state] BY <1>1, <1>2 DEF Begin
<1>4. /\ call'.op = op /\ call'.items = I /\ call'.state = state /\ call'.low = 0 /\ call'.high = 0
      /\ call'.unread = {} /\ call'.logical = 0 /\ call'.replicated = 0 /\ call'.cursor = <<0, 0>>
      /\ call'.partial = [i \in Items |-> 0]
  BY <1>3 DEF NoCall
<1>5. log' = log /\ dirs' = dirs /\ store' = store BY <1>1 DEF Begin
<1>6. LogOK' BY <1>1, <1>2, <1>4, <1>5 DEF PictureInv, LogOK
<1>7. SizeOK'
  <2>1. topic_size \notin Operations \cup {reset_offsets, topic_offset_range, describe_topics}
    <3>1. \A o \in Operations \cup {reset_offsets, topic_offset_range, describe_topics} : "sizes" \notin o.how
      BY DEF Operations, Asks,
         create_topics, validate_topics, delete_topics, create_partitions, describe_topics, delete_records,
         describe_configs, alter_configs, alter_partition_reassignments, list_partition_reassignments, elect_leaders,
         list_offsets, topic_offset_range, list_transactions, describe_transactions, describe_producers,
         describe_cluster, describe_log_dirs, topic_size, describe_consumer_groups, describe_share_groups,
         fetch_offsets, reset_offsets, delete_offsets, delete_groups, describe_acls, create_acls, delete_acls,
         describe_client_quotas, alter_client_quotas, describe_scram_credentials, upsert_scram_credentials,
         delete_scram_credentials, create_delegation_token, renew_delegation_token, expire_delegation_token,
         describe_delegation_tokens
    <3>2. "sizes" \in topic_size.how BY DEF topic_size, Asks
    <3> QED BY <3>1, <3>2
  <2>2. op = topic_size => state = "leaders" BY <1>1, <1>2, <2>1
  <2> QED BY <1>1, <1>2, <1>4, <1>5, <2>2 DEF PictureInv, SizeOK, Held
<1>8. PagesOK'
  <2> SUFFICES ASSUME op = describe_topics
               PROVE  /\ call'.cursor \in Nat \X Nat
                      /\ DOMAIN call'.partial = Items
                      /\ \A i \in Items : call'.partial[i] = Cardinality(Listed(i)')
                      /\ \A i \in call'.items \ store' : ~(i < call'.cursor[1])
                      /\ state = "returned" => call'.items = {}
    BY <1>4 DEF PagesOK
  <2>0. Positions' \subseteq Nat \X Nat
    <3>1. CallTypes' BY DEF OutcomeInv
    <3>2. Items \subseteq Nat /\ 1..Parts \subseteq Nat BY AdminAssumption
    <3>3. call'.items \cap store' \in SUBSET Items BY <3>1 DEF CallTypes
    <3> QED BY <3>2, <3>3 DEF Positions
  <2>1. \A i : Listed(i)' = {}
    <3>1. \A pos \in Nat \X Nat : AtOrAfter(pos, <<0, 0>>)
      <4>1. \A pos \in Nat \X Nat : pos[1] \in Nat /\ pos[2] \in Nat OBVIOUS
      <4> QED BY <4>1 DEF AtOrAfter
    <3> QED BY <1>4, <2>0, <3>1 DEF Listed
  <2>2. state = "returned" => I = {} BY <1>1, <1>2
  <2>3. \A i \in call'.items : i \in Nat BY AdminAssumption DEF OutcomeInv, CallTypes
  <2>4. \A i \in Items : call'.partial[i] = 0 /\ Cardinality(Listed(i)') = 0 BY <1>4, <2>1, FS_EmptySet
  <2> QED BY <1>4, <2>2, <2>3, <2>4
<1> QED BY <1>6, <1>7, <1>8 DEF PictureInv

(* The pages of a call that is not describe_topics, or whose topics changed. *)
LEMMA NoPages ==
  ASSUME PagesOK, call'.op = call.op, call.op # describe_topics \/ call'.past.disturbed
  PROVE  PagesOK'
BY DEF PagesOK

LEMMA RangePicture ==
  ASSUME PictureInv, OutcomeInv', OffsetRange
  PROVE  PictureInv'
<1>0. CallShape(call) /\ StepsOK /\ LogOK /\ SizeOK /\ PagesOK BY DEF PictureInv, OutcomeInv, ScopeInv
<1>1. log' = log /\ dirs' = dirs /\ call.op # topic_size /\ call.op # describe_topics
  BY <1>0 DEF OffsetRange, NoRange, StepsOK, SizeOK
<1>2. /\ call'.op = call.op /\ call'.logical = call.logical /\ call'.replicated = call.replicated
      /\ call'.unread = call.unread
      /\ \/ call.state = "first" /\ call'.state = "second" /\ call'.low = log.start /\ call'.high = call.high
         \/ call.state = "second" /\ call'.state = "returned" /\ call'.low = call.low /\ call'.high = log.end
         \/ call'.state = "failed" /\ call'.low = 0 /\ call'.high = 0
  BY <1>0 DEF OffsetRange, NoRange, CallShape, CallFields
<1>3. LogOK' BY <1>0, <1>1, <1>2 DEF LogOK
<1>4. SizeOK' BY <1>0, <1>1, <1>2 DEF SizeOK, Held
<1>5. PagesOK' BY <1>0, <1>1, <1>2, NoPages
<1> QED BY <1>3, <1>4, <1>5 DEF PictureInv

(* The replica that counts, and how many of those that have one have been read. *)
LEMMA KeptIs ==
  ASSUME SizeOK, NEW b \in Brokers
  PROVE  SizeAt(b) = IF b \in Held THEN 2 ELSE 0
<1>1. dirs.at[b] \in {{}, {Whole}, {Whole, Copy}} BY DEF SizeOK, Dirs
<1>2. ~Whole.future /\ Copy.future /\ Whole.size = 2 BY DEF Whole, Copy
<1>3. \A r \in dirs.at[b] : ~r.future <=> r = Whole BY <1>1, <1>2
<1>4. CASE dirs.at[b] = {} BY <1>4 DEF SizeAt, Held
<1>5. CASE dirs.at[b] # {}
  <2>1. Whole \in dirs.at[b] BY <1>1, <1>5
  <2>2. (CHOOSE r \in dirs.at[b] : ~r.future) = Whole BY <1>3, <2>1
  <2> QED BY <1>2, <1>5, <2>2 DEF SizeAt, Held
<1> QED BY <1>4, <1>5

LEMMA ReadIs ==
  ASSUME NEW U \in SUBSET Brokers, NEW b \in U
  PROVE  /\ Cardinality(Held \ U) \in Nat
         /\ Cardinality(Held \ (U \ {b})) = Cardinality(Held \ U) + IF b \in Held THEN 1 ELSE 0
<1>1. IsFiniteSet(Held \ U) BY AdminAssumption, FS_Subset DEF Held
<1>2. CASE b \in Held
  <2>1. b \notin Held \ U /\ Held \ (U \ {b}) = (Held \ U) \cup {b} BY <1>2
  <2>2. Cardinality((Held \ U) \cup {b}) = Cardinality(Held \ U) + 1 /\ Cardinality(Held \ U) \in Nat
    BY <1>1, <2>1, FS_AddElement, FS_CardinalityType
  <2> QED BY <1>2, <2>1, <2>2
<1>3. CASE b \notin Held
  <2>1. Held \ (U \ {b}) = Held \ U BY <1>3
  <2>2. Cardinality(Held \ U) \in Nat BY <1>1, FS_CardinalityType
  <2> QED BY <1>3, <2>1, <2>2
<1> QED BY <1>2, <1>3

LEMMA SizePicture ==
  ASSUME PictureInv, OutcomeInv', ReadLeaders \/ finish \/ \E b \in Brokers : ReadDirs(b)
  PROVE  PictureInv'
<1>0. CallShape(call) /\ StepsOK /\ LogOK /\ SizeOK /\ PagesOK BY DEF PictureInv, OutcomeInv, ScopeInv
<1>1. log' = log /\ dirs' = dirs BY DEF ReadLeaders, finish, ReadDirs
<1>2. call.state \in {"leaders", "dirs"} BY DEF ReadLeaders, finish, ReadDirs
<1>3. call.op = topic_size /\ call.op # describe_topics BY <1>0, <1>2 DEF StepsOK
<1>4. SUFFICES /\ call'.op = call.op /\ call'.low = call.low /\ call'.high = call.high /\ call'.state # "second"
               /\ SizeOK'
  <2>1. LogOK' BY <1>0, <1>1, <1>2, <1>4 DEF LogOK
  <2>2. PagesOK' BY <1>0, <1>3, <1>4, NoPages
  <2> QED BY <1>4, <2>1, <2>2 DEF PictureInv
<1>5. CASE ReadLeaders
  <2>1. /\ call.state = "leaders" /\ call'.op = call.op /\ call'.low = call.low /\ call'.high = call.high
        /\ call'.state = "dirs" /\ call'.leader = dirs.leader /\ call'.unread = Brokers
        /\ call'.logical = call.logical /\ call'.replicated = call.replicated
    BY <1>0, <1>5 DEF ReadLeaders, leader_map, CallShape, CallFields
  <2>2. dirs.leader \in Held /\ Held \subseteq Brokers /\ Held' = Held BY <1>0, <1>1 DEF SizeOK, Held
  <2>3. call.logical = 0 /\ call.replicated = 0 BY <1>0, <2>1 DEF SizeOK
  <2>4. Cardinality(Held \ Brokers) = 0
    <3>1. Held \ Brokers = {} BY <2>2
    <3> QED BY <3>1, FS_EmptySet
  <2> QED BY <1>0, <1>1, <1>3, <2>1, <2>2, <2>3, <2>4 DEF SizeOK
<1>6. CASE finish
  <2>1. /\ call.state = "dirs" /\ call'.op = call.op /\ call'.low = call.low /\ call'.high = call.high
        /\ call.unread = {} /\ call'.unread = {} /\ call'.past = call.past
        /\ call'.state \in {"failed", "returned"}
        /\ call'.logical = call.logical /\ call'.replicated = call.replicated
    BY <1>0, <1>6 DEF finish, CallShape, CallFields
  <2>2. Held \ call.unread = Held /\ Held' = Held BY <1>1, <2>1 DEF Held
  <2>3. call.state = "dirs" /\ ~call.past.disturbed => call.logical = 2 /\ call.replicated = 2 * Cardinality(Held)
    BY <1>0, <1>3, <2>1, <2>2 DEF SizeOK
  <2> QED BY <1>0, <1>1, <1>3, <2>1, <2>2, <2>3 DEF SizeOK
<1>7. CASE \E b \in Brokers : ReadDirs(b)
  <2>1. PICK b \in Brokers : ReadDirs(b) BY <1>7
  <2>2. call.state = "dirs" /\ b \in call.unread BY <2>1 DEF ReadDirs
  <2>3. CASE call' = add(b)
    <3>1. /\ call'.op = call.op /\ call'.low = call.low /\ call'.high = call.high /\ call'.state = "dirs"
          /\ call'.past = call.past /\ call'.leader = call.leader /\ call'.unread = call.unread \ {b}
          /\ call'.replicated = call.replicated + (IF b \in Held THEN 2 ELSE 0)
          /\ call'.logical = IF b = call.leader THEN (IF b \in Held THEN 2 ELSE 0) ELSE call.logical
      <4>1. PICK n : n = SizeAt(b) OBVIOUS
      <4>2. n = IF b \in Held THEN 2 ELSE 0 BY <1>0, <4>1, KeptIs
      <4>3. call' = [call EXCEPT !.unread = @ \ {b}, !.heard = TRUE, !.replicated = @ + n,
                                 !.logical = IF b = call.leader THEN n ELSE @]
        BY <2>3, <4>1, Zenon DEF add
      <4> QED BY <1>0, <2>2, <4>2, <4>3 DEF CallShape, CallFields
    <3>2. /\ Cardinality(Held \ call.unread) \in Nat /\ Held' = Held
          /\ Cardinality(Held \ call'.unread) = Cardinality(Held \ call.unread) + IF b \in Held THEN 1 ELSE 0
      <4>1. Held' = Held BY <1>1 DEF Held
      <4> QED BY <1>0, <2>2, <3>1, <4>1, ReadIs DEF SizeOK
    <3>3. call'.logical \in Nat /\ call'.replicated \in Nat /\ call'.logical <= call'.replicated
      BY <1>0, <3>1 DEF SizeOK
    <3>4. ASSUME ~call.past.disturbed
          PROVE  /\ call'.leader \in Held
                 /\ call'.replicated = 2 * Cardinality(Held \ call'.unread)
                 /\ call'.leader \notin call'.unread => call'.logical = 2
      <4>1. /\ call.leader \in Held
            /\ call.replicated = 2 * Cardinality(Held \ call.unread)
            /\ call.leader \notin call.unread => call.logical = 2
        BY <1>0, <1>3, <2>2, <3>4 DEF SizeOK
      <4> QED BY <3>1, <3>2, <4>1
    <3>5. call'.unread \subseteq Brokers BY <1>0, <3>1 DEF SizeOK
    <3>6. SizeOK'
      <4> HIDE DEF add
      <4> QED BY <1>0, <1>1, <3>1, <3>2, <3>3, <3>4, <3>5 DEF SizeOK
    <3> QED BY <3>1, <3>6
  <2>4. CASE call' = [call EXCEPT !.unread = @ \ {b}, !.past.disturbed = TRUE]
    <3>1. /\ call'.op = call.op /\ call'.low = call.low /\ call'.high = call.high /\ call'.state = "dirs"
          /\ call'.past.disturbed /\ call'.unread = call.unread \ {b}
          /\ call'.replicated = call.replicated /\ call'.logical = call.logical
      BY <1>0, <2>2, <2>4 DEF CallShape, CallFields, PastFields
    <3>2. Held' = Held BY <1>1 DEF Held
    <3> QED BY <1>0, <1>1, <3>1, <3>2 DEF SizeOK
  <2> QED BY <2>1, <2>3, <2>4 DEF ReadDirs
<1> QED BY <1>5, <1>6, <1>7

(* A page that is not the last: the count goes on where the cursor is.     *)
LEMMA PageCounts ==
  ASSUME CallTypes, call.cursor \in Nat \X Nat, NEW i \in Items
  PROVE  Cardinality(Listed(i)) + Cardinality({pos \in NextPage : pos[1] = i}) =
           IF Left = NextPage THEN Cardinality({pos \in Positions : pos[1] = i})
                              ELSE Cardinality({pos \in Positions : pos[1] = i /\ ~AtOrAfter(pos, NextCursor)})
<1> DEFINE A == Listed(i)
           B == {pos \in NextPage : pos[1] = i}
<1>0. Left \subseteq Positions /\ NextPage \subseteq Left BY PositionsAre
<1>1. \A pos \in Positions : pos \in Left <=> AtOrAfter(pos, call.cursor) BY DEF Left, Positions
<1>2. A \subseteq Positions /\ B \subseteq Positions /\ A \cap B = {} BY <1>0, <1>1 DEF Listed
<1>3. Cardinality(A) + Cardinality(B) = Cardinality(A \cup B) BY <1>2, CountIs
<1>4. CASE Left = NextPage
  <2>1. A \cup B = {pos \in Positions : pos[1] = i} BY <1>0, <1>1, <1>4 DEF Listed
  <2> QED BY <1>3, <1>4, <2>1
<1>5. CASE Left # NextPage
  <2>1. \A pos \in Positions : ~AtOrAfter(pos, NextCursor) <=> ~AtOrAfter(pos, call.cursor) \/ pos \in NextPage
    BY <1>5, PageIs
  <2>2. A \cup B = {pos \in Positions : pos[1] = i /\ ~AtOrAfter(pos, NextCursor)} BY <1>0, <2>1 DEF Listed
  <2> QED BY <1>3, <1>5, <2>2
<1> QED BY <1>4, <1>5

(* What describe_topics returns, when every topic is counted or told.      *)
LEMMA AllDescribed ==
  ASSUME CallTypes, NEW partial, NEW gone,
         \A i \in Items : partial[i] = IF i \in call.items \cap store THEN Parts ELSE 0,
         call.items \ store \subseteq gone, NEW s, s = Described(partial, gone)
  PROVE  \A i \in call.items : i \in Names(s) /\ (OkIn(s, i) <=> i \in store) /\ (i \in store => partial[i] = Parts)
<1>1. Entries(s) = {<<i, IF partial[i] > 0 THEN "Ok" ELSE "UnknownTopic">> : i \in Known(partial, gone)}
  BY DescribedIs
<1>2. call.items \subseteq Items /\ Parts \in Nat /\ Parts > 0 BY AdminAssumption DEF CallTypes
<1>3. \A i \in call.items : i \in Known(partial, gone) /\ (partial[i] > 0 <=> i \in store) BY <1>2 DEF Known
<1> SUFFICES ASSUME NEW i \in call.items
             PROVE  i \in Names(s) /\ (OkIn(s, i) <=> i \in store) /\ (i \in store => partial[i] = Parts)
  OBVIOUS
<1>4. PICK e : e = <<i, IF partial[i] > 0 THEN "Ok" ELSE "UnknownTopic">> OBVIOUS
<1>5. e \in Entries(s) /\ e[1] = i BY <1>1, <1>3, <1>4
<1>6. i \in Names(s) BY <1>5, Zenon DEF Names
<1>7. i \in store => OkIn(s, i) BY <1>3, <1>4, <1>5 DEF OkIn
<1>8. ASSUME OkIn(s, i) PROVE i \in store
  <2>1. PICK j \in Known(partial, gone) : <<i, "Ok">> = <<j, IF partial[j] > 0 THEN "Ok" ELSE "UnknownTopic">>
    BY <1>1, <1>8 DEF OkIn
  <2>2. i = j /\ partial[j] > 0 BY <2>1
  <2> QED BY <1>3, <2>2
<1> QED BY <1>2, <1>6, <1>7, <1>8

LEMMA PagePicture ==
  ASSUME PictureInv, OutcomeInv', DescribePage \/ DescribeViaMetadata
  PROVE  PictureInv'
<1>0. CallShape(call) /\ CallTypes /\ StepsOK /\ LogOK /\ SizeOK /\ PagesOK
  BY DEF PictureInv, OutcomeInv, ScopeInv
<1>1. call.state = "page" /\ log' = log /\ dirs' = dirs /\ store' = store
  BY DEF DescribePage, DescribeViaMetadata
<1>2. call.op = describe_topics /\ call.op # topic_size BY <1>0, <1>1 DEF StepsOK, SizeOK
<1> DEFINE Same == /\ SamePicture(call') /\ call'.past = call.past /\ call'.items = call.items
                   /\ call'.state \in {"page", "returned"}
<1>3. SUFFICES /\ Same
               /\ ~call.past.disturbed => PagesOK'
  <2>1. LogOK' BY <1>0, <1>1, <1>3 DEF LogOK, SamePicture
  <2>2. SizeOK' BY <1>0, <1>1, <1>2, <1>3 DEF SizeOK, Held, SamePicture
  <2>3. PagesOK' BY <1>0, <1>3, NoPages DEF SamePicture
  <2> QED BY <1>3, <2>1, <2>2, <2>3 DEF PictureInv
<1>4. ~call.past.disturbed =>
        /\ call.cursor \in Nat \X Nat
        /\ \A i \in Items : call.partial[i] = Cardinality(Listed(i))
        /\ \A i \in call.items \ store : i < call.cursor[1] => i \in Names(call.round)
  BY <1>0, <1>1, <1>2 DEF PagesOK
<1>5. CASE DescribePage
  <2> DEFINE over == Left = NextPage
             next == NextCursor
             partial == [i \in Items |-> call.partial[i] + Cardinality({pos \in NextPage : pos[1] = i})]
             gone == {i \in call.items \ store : i >= call.cursor[1] /\ (over \/ i < next[1])}
                     \cup {i \in Items : \E k \in DOMAIN call.round : call.round[k][1] = i}
  <2>1. call' = IF over
                THEN [call EXCEPT !.state = "returned", !.partial = partial, !.unasked = {},
                                  !.round = <<>>, !.settled = Described(partial, gone)]
                ELSE [call EXCEPT !.partial = partial, !.cursor = next,
                                  !.round = InRound(gone, [i \in gone |-> "UnknownTopic"])]
    BY <1>5, Zenon DEF DescribePage, NextCursor
  <2>2. gone \in SUBSET Items
    <3> HIDE DEF over, next
    <3> QED BY <1>0 DEF CallTypes
  <2>3. ~over => next \in Nat \X Nat BY <1>0, NextIs, PositionsAre DEF next
  <2>4. ASSUME ~call.past.disturbed, NEW i \in Items
        PROVE  partial[i] = IF over THEN Cardinality({pos \in Positions : pos[1] = i})
                                    ELSE Cardinality({pos \in Positions : pos[1] = i /\ ~AtOrAfter(pos, next)})
    <3>1. partial[i] = Cardinality(Listed(i)) + Cardinality({pos \in NextPage : pos[1] = i}) BY <1>4, <2>4
    <3> QED BY <1>0, <1>4, <2>4, <3>1, PageCounts
  <2>5. \A i \in Items : (\E k \in DOMAIN call.round : call.round[k][1] = i) <=> i \in Names(call.round)
    BY DEF Names, Entries
  <2>6. ASSUME ~call.past.disturbed, NEW i \in call.items \ store, over \/ i < next[1] PROVE i \in gone
    <3>1. i \in Items /\ i \in Nat /\ call.cursor[1] \in Nat
      BY <1>0, <1>4, <2>6, AdminAssumption DEF CallTypes
    <3>2. CASE i < call.cursor[1] BY <1>4, <2>5, <2>6, <3>1, <3>2
    <3>3. CASE i >= call.cursor[1]
      <4> HIDE DEF over, next
      <4> QED BY <2>6, <3>3
    <3> QED BY <3>1, <3>2, <3>3
  <2> DEFINE code == [i \in gone |-> "UnknownTopic"]
  <2> HIDE DEF gone, next
  <2>7. PICK s : s = Described(partial, gone) OBVIOUS
  <2>8. PICK r : r = InRound(gone, code) OBVIOUS
  <2>9. code \in [gone -> Codes] BY DEF Codes
  <2> HIDE DEF code, partial
  <2>10. Names(r) = Names(call.round) \cup gone BY <1>0, <2>2, <2>8, <2>9, InRoundIs
  <2>11. CASE over
    <3>1. call' = [call EXCEPT !.state = "returned", !.partial = partial, !.unasked = {},
                               !.round = <<>>, !.settled = s]
      BY <2>1, <2>7, <2>11
    <3>2. /\ Same /\ call'.state = "returned" /\ call'.partial = partial /\ call'.settled = s
      BY <1>0, <3>1 DEF SamePicture, CallShape, CallFields
    <3>3. ASSUME ~call.past.disturbed
          PROVE  \A i \in call.items : i \in Names(s) /\ (OkIn(s, i) <=> i \in store) /\ (i \in store => partial[i] = Parts)
      <4>1. \A i \in Items : partial[i] = IF i \in call.items \cap store THEN Parts ELSE 0
        BY <1>0, <2>4, <2>11, <3>3, TopicIs
      <4>2. call.items \ store \subseteq gone BY <2>6, <2>11, <3>3
      <4> QED BY <1>0, <2>7, <4>1, <4>2, AllDescribed
    <3>4. ~call.past.disturbed => PagesOK'
      <4> HIDE DEF over
      <4> QED BY <1>1, <3>2, <3>3 DEF PagesOK
    <3> QED BY <3>2, <3>4
  <2>12. CASE ~over
    <3>1. call' = [call EXCEPT !.partial = partial, !.cursor = next, !.round = r]
      BY <2>1, <2>8, <2>12 DEF code
    <3>2. /\ Same /\ call'.state = "page" /\ call'.partial = partial /\ call'.cursor = next /\ call'.round = r
      BY <1>0, <1>1, <3>1 DEF SamePicture, CallShape, CallFields
    <3>3. \A i : Listed(i)' = {pos \in Positions : pos[1] = i /\ ~AtOrAfter(pos, next)}
      BY <1>1, <3>2 DEF Listed, Positions
    <3>4. DOMAIN partial = Items BY DEF partial
    <3>5. ASSUME ~call.past.disturbed PROVE \A i \in Items : call'.partial[i] = Cardinality(Listed(i)')
      BY <2>4, <2>12, <3>2, <3>3, <3>5
    <3>6. ASSUME ~call.past.disturbed PROVE \A i \in call'.items \ store' : i < call'.cursor[1] => i \in Names(call'.round)
      BY <1>1, <2>6, <2>10, <3>2, <3>6
    <3>7. ~call.past.disturbed => PagesOK'
      <4> HIDE DEF over
      <4> QED BY <2>3, <2>12, <3>2, <3>4, <3>5, <3>6 DEF PagesOK
    <3> QED BY <3>2, <3>7
  <2> QED BY <2>11, <2>12
<1>6. CASE DescribeViaMetadata
  <2> DEFINE partial == [i \in Items |-> IF i \in call.items \cap store THEN Parts ELSE 0]
  <2>1. PICK s : s = Described(partial, call.items \ store) OBVIOUS
  <2>2. call' = [call EXCEPT !.state = "returned", !.unasked = {}, !.partial = partial, !.settled = s]
    BY <1>6, <2>1 DEF DescribeViaMetadata
  <2>3. \A i \in Items : partial[i] = IF i \in call.items \cap store THEN Parts ELSE 0 OBVIOUS
  <2> HIDE DEF partial
  <2>4. \A i \in call.items : i \in Names(s) /\ (OkIn(s, i) <=> i \in store) /\ (i \in store => partial[i] = Parts)
    BY <1>0, <2>1, <2>3, AllDescribed
  <2>5. /\ Same /\ call'.state = "returned" /\ call'.partial = partial /\ call'.settled = s
    BY <1>0, <2>2 DEF SamePicture, CallShape, CallFields
  <2> QED BY <1>1, <2>4, <2>5 DEF PagesOK
<1> QED BY <1>5, <1>6

LEMMA WorldPicture ==
  ASSUME PictureInv, OutcomeInv',
         (\E i \in Items : OtherClient(i) \/ MemberCommits(i)) \/ RoleMoves \/ MemberComes \/ MemberLeaves \/ LogMoves \/ ReplicaMoves
  PROVE  PictureInv'
<1>0. CallShape(call) /\ StepsOK /\ LogOK /\ SizeOK /\ PagesOK BY DEF PictureInv, OutcomeInv, ScopeInv
<1>1. ASSUME NEW i, OtherClient(i) PROVE PictureInv'
  <2>1. /\ log' = log /\ dirs' = dirs /\ call.op # topic_size /\ call' = [call EXCEPT !.past.disturbed = TRUE]
    BY <1>1 DEF OtherClient, World, Disturbs
  <2>2. SamePicture(call') /\ call'.state = call.state /\ call'.past.disturbed
    BY <1>0, <2>1 DEF SamePicture, CallShape, CallFields, PastFields
  <2>3. PagesOK' BY <1>0, <2>2, NoPages DEF SamePicture
  <2>4. LogOK' /\ SizeOK' BY <1>0, <2>1, <2>2 DEF LogOK, SizeOK, Held, SamePicture
  <2> QED BY <2>3, <2>4 DEF PictureInv
<1>2. ASSUME UNCHANGED <<store, log, dirs, call>> PROVE PictureInv'
  <2>1. LogOK' /\ SizeOK' BY <1>0, <1>2 DEF LogOK, SizeOK, Held
  <2>2. PagesOK' BY <1>0, <1>2 DEF PagesOK, Listed, Positions
  <2> QED BY <2>1, <2>2 DEF PictureInv
<1>4. CASE LogMoves
  <2>1. store' = store /\ dirs' = dirs /\ call' = call BY <1>4 DEF LogMoves
  <2>2. SizeOK' BY <1>0, <2>1 DEF SizeOK, Held
  <2>3. PagesOK' BY <1>0, <2>1 DEF PagesOK, Listed, Positions
  <2>4. /\ DOMAIN log' = {"start", "end"}
        /\ \/ log'.start = log.start /\ log'.end = log.end + 1
           \/ log'.start = log.start + 1 /\ log'.end = log.end /\ log.start < log.end
    BY <1>0, <1>4 DEF LogMoves, LogOK
  <2>5. LogOK' BY <1>0, <2>1, <2>4 DEF LogOK
  <2> QED BY <2>2, <2>3, <2>5 DEF PictureInv
<1>5. CASE ReplicaMoves
  <2>1. store' = store /\ log' = log /\ call' = call BY <1>5 DEF ReplicaMoves
  <2>2. LogOK' BY <1>0, <2>1 DEF LogOK
  <2>3. PagesOK' BY <1>0, <2>1 DEF PagesOK, Listed, Positions
  <2>4. dirs' \in Dirs /\ Held' = Held /\ dirs'.leader \in Held
    <3>0. dirs \in Dirs /\ dirs.leader \in Held BY <1>0 DEF SizeOK
    <3>1. PICK b \in Brokers : \/ Cardinality(dirs.at[b]) = 1 /\ dirs' = [dirs EXCEPT !.at[b] = @ \cup {Copy}]
                               \/ Cardinality(dirs.at[b]) = 2 /\ dirs' = [dirs EXCEPT !.at[b] = {Whole}]
                               \/ dirs.at[b] # {} /\ dirs' = [dirs EXCEPT !.leader = b]
      BY <1>5 DEF ReplicaMoves, Whole, Copy
    <3>2. dirs.at[b] \in {{Whole}, {Whole, Copy}} BY <3>0, <3>1, FS_EmptySet DEF Dirs
    <3>3. dirs.at[b] \cup {Copy} = {Whole, Copy} BY <3>2
    <3>4. PICK n, w, wc : n = {} /\ w = {Whole} /\ wc = {Whole, Copy} OBVIOUS
    <3>5. w # n /\ wc # n /\ dirs.at[b] # n BY <3>2, <3>4
    <3>6. \/ dirs' = [dirs EXCEPT !.at[b] = wc]
          \/ dirs' = [dirs EXCEPT !.at[b] = w]
          \/ dirs' = [dirs EXCEPT !.leader = b]
      BY <3>1, <3>3, <3>4
    <3>7. dirs \in [leader : Brokers, at : [Brokers -> {n, w, wc}]] BY <3>0, <3>4 DEF Dirs
    <3>8. /\ dirs' \in [leader : Brokers, at : [Brokers -> {n, w, wc}]]
          /\ dirs'.leader \in {dirs.leader, b}
          /\ \A c \in Brokers : dirs'.at[c] # n <=> dirs.at[c] # n
      BY <3>5, <3>6, <3>7
    <3>9. Held' = Held /\ b \in Held BY <3>4, <3>5, <3>8 DEF Held
    <3> QED BY <3>0, <3>4, <3>8, <3>9 DEF Dirs
  <2>5. SizeOK' BY <1>0, <2>1, <2>4 DEF SizeOK
  <2> QED BY <2>2, <2>3, <2>5 DEF PictureInv
<1>6. (\E i \in Items : MemberCommits(i)) \/ RoleMoves \/ MemberComes \/ MemberLeaves
        => UNCHANGED <<store, log, dirs, call>>
  BY DEF MemberCommits, RoleMoves, MemberComes, MemberLeaves
<1> QED BY <1>1, <1>2, <1>4, <1>5, <1>6

LEMMA PictureStep == PictureInv /\ [AdminNext]_vars => PictureInv'
<1> SUFFICES ASSUME PictureInv, [AdminNext]_vars
             PROVE  PictureInv'
  OBVIOUS
<1>0. OutcomeInv' BY OutcomeStep DEF PictureInv
<1>1. CASE UNCHANGED vars BY <1>0, <1>1 DEF vars, PictureInv, LogOK, SizeOK, Held, PagesOK, Listed, Positions
<1>2. CASE (\E S \in SUBSET Items : Refused(S) \/ Answered(S) \/ Fail(S)) \/ RoundEnds \/ ListGroups \/ DescribeGroup
  BY <1>0, <1>2, AsksPicture
<1>3. CASE BeginAny \/ OffsetRange \/ DescribePage \/ DescribeViaMetadata
  BY <1>0, <1>3, BeginPicture, RangePicture, PagePicture
<1>4. CASE ReadLeaders \/ finish \/ \E b \in Brokers : ReadDirs(b) BY <1>0, <1>4, SizePicture
<1>5. CASE (\E i \in Items : OtherClient(i) \/ MemberCommits(i)) \/ RoleMoves \/ MemberComes \/ MemberLeaves \/ LogMoves \/ ReplicaMoves
  BY <1>0, <1>5, WorldPicture
<1> QED BY <1>1, <1>2, <1>3, <1>4, <1>5, Zenon DEF AdminNext

LEMMA PictureInit == AdminInit => PictureInv
<1> SUFFICES ASSUME AdminInit PROVE PictureInv OBVIOUS
<1>1. /\ call.op = describe_cluster /\ call.state = "idle" /\ call.low = 0 /\ call.high = 0 /\ call.logical = 0
      /\ call.replicated = 0 /\ call.unread = {}
  BY DEF AdminInit, NoCall
<1>2. LogOK BY <1>1 DEF AdminInit, LogOK
<1>3. describe_cluster # describe_topics /\ describe_cluster # topic_size
  BY DEF describe_cluster, describe_topics, topic_size, Asks
<1>4. SizeOK
  <2>1. PICK R \in (SUBSET Brokers) \ {{}} :
          dirs = [leader |-> CHOOSE b \in R : TRUE, at |-> [b \in Brokers |-> IF b \in R THEN {Whole} ELSE {}]]
    BY DEF AdminInit, Whole
  <2>2. PICK b \in R : b = CHOOSE x \in R : TRUE
    <3>1. \E x \in R : TRUE OBVIOUS
    <3>2. (CHOOSE x \in R : TRUE) \in R BY <3>1
    <3> QED BY <3>2
  <2>3. dirs = [leader |-> b, at |-> [x \in Brokers |-> IF x \in R THEN {Whole} ELSE {}]] BY <2>1, <2>2
  <2>4. dirs \in Dirs /\ dirs.leader \in Held BY <2>1, <2>2, <2>3 DEF Dirs, Held
  <2> QED BY <1>1, <1>3, <2>4 DEF SizeOK
<1>5. PagesOK BY <1>1, <1>3 DEF PagesOK
<1> QED BY <1>2, <1>4, <1>5, OutcomeInit DEF PictureInv

(* What several requests put together is one picture: an offset range does *)
(* not end before it begins though the log moves between its two requests  *)
(* (topic_offset_range), a size counts every broker's replica once and the *)
(* leader's as the topic's though replicas are copied and the leadership   *)
(* moves (topic_size), and a topic is described whole, or told to be gone, *)
(* wherever the pages end (describe_topics).                               *)
THEOREM PicturesAreWhole == AdminSpecification => []OnePicture
<1>1. PictureInv => OnePicture
  <2> SUFFICES ASSUME PictureInv, Returned PROVE OnePicture BY DEF OnePicture
  <2>0. CallTypes /\ LogOK /\ SizeOK /\ PagesOK /\ call.state = "returned"
    BY DEF PictureInv, OutcomeInv, Returned
  <2>1. \A i : (OkOf(i) <=> OkIn(call.settled, i)) /\ (Outcomes(call.settled, i) # {} <=> i \in Names(call.settled))
    BY <2>0, OutcomesAre DEF OkOf, CallTypes
  <2>2. call.low <= call.high BY <2>0 DEF LogOK
  <2>3. /\ call.logical <= call.replicated
        /\ call.op = topic_size /\ ~call.past.disturbed =>
             call.logical = 2 /\ call.replicated = 2 * Cardinality({b \in Brokers : dirs.at[b] # {}})
    BY <2>0 DEF SizeOK, Held
  <2>4. ASSUME call.op = describe_topics, ~call.past.disturbed, NEW i \in call.items
        PROVE  /\ Outcomes(call.settled, i) # {}
               /\ OkOf(i) <=> i \in store
               /\ OkOf(i) => call.partial[i] = Parts
    <3>1. /\ i \in Names(call.settled)
          /\ OkIn(call.settled, i) <=> i \in store
          /\ i \in store => call.partial[i] = Parts
      BY <2>0, <2>4 DEF PagesOK
    <3> QED BY <2>1, <3>1
  <2> QED BY <2>2, <2>3, <2>4 DEF OnePicture
<1> QED BY <1>1, PictureInit, PictureStep, PTL DEF AdminSpecification

-----------------------------------------------------------------------------
(* The description of a principal.                                         *)

AnswersOf(s) ==
  CASE s = "scram"  -> principal_scram
    [] s = "tokens" -> principal_tokens
    [] s = "acls"   -> principal_acls
    [] s = "quotas" -> principal_quotas

(* What was heard is what the source had to say.                           *)
HeardInv ==
  /\ \E w \in Worlds : config = w.config /\ person = w.person
  /\ DOMAIN heard = Sources
  /\ \A s \in Sources : heard[s] \in {"unasked"} \cup AnswersOf(s)

LEMMA HeardStep == HeardInv /\ [PrincipalNext]_pvars => HeardInv'
<1> SUFFICES ASSUME HeardInv, [PrincipalNext]_pvars PROVE HeardInv' OBVIOUS
<1>1. CASE UNCHANGED pvars
  BY <1>1 DEF HeardInv, pvars, AnswersOf, principal_scram, principal_tokens, principal_acls, principal_quotas
<1>2. CASE describe_principal
  <2>1. config' = config /\ person' = person BY <1>2 DEF describe_principal
  <2>2. \A s \in Sources : AnswersOf(s)' = AnswersOf(s)
    BY <2>1 DEF AnswersOf, principal_scram, principal_tokens, principal_acls, principal_quotas
  <2>3. \E s \in Sources : \E a \in AnswersOf(s) : heard' = [heard EXCEPT ![s] = a]
    <3>1. /\ AnswersOf("scram") = principal_scram /\ AnswersOf("tokens") = principal_tokens
          /\ AnswersOf("acls") = principal_acls /\ AnswersOf("quotas") = principal_quotas
      BY DEF AnswersOf
    <3>2. "scram" \in Sources /\ "tokens" \in Sources /\ "acls" \in Sources /\ "quotas" \in Sources
      BY DEF Sources
    <3> QED BY <1>2, <3>1, <3>2 DEF describe_principal
  <2> QED BY <2>1, <2>2, <2>3 DEF HeardInv
<1> QED BY <1>1, <1>2 DEF PrincipalNext

(* A source that reports nothing, or answered otherwise, has nothing.      *)
LEMMA NothingThere ==
  ASSUME HeardInv, \A s \in Sources : heard[s] # "unasked"
  PROVE  /\ store_answered(heard["scram"]) /\ heard["scram"] # "some" => person.scram = {}
         /\ store_answered(heard["tokens"]) /\ heard["tokens"] # "some" => ~person.token
         /\ heard["scram"] = "some" => person.scram # {}
         /\ heard["tokens"] = "some" => person.token
         /\ is_unrecorded => ~(person.scram # {} \/ person.token \/ person.acl \/ person.quota)
<1>1. /\ heard["scram"] \in principal_scram /\ heard["tokens"] \in principal_tokens
      /\ heard["acls"] \in principal_acls /\ heard["quotas"] \in principal_quotas
  BY DEF HeardInv, Sources, AnswersOf
<1>2. PICK w \in Worlds : config = w.config /\ person = w.person BY DEF HeardInv
<1>3. /\ person.scram # {} => person.type = "User"
      /\ person.token => config.token_key
      /\ person.acl => config.authorizer
  BY <1>2, PrincipalAssumption
<1> QED BY <1>1, <1>3 DEF store_answered, is_unrecorded, reports_nothing, Sources,
      principal_scram, principal_tokens, principal_acls, principal_quotas

LEMMA NamesApart ==
  ASSUME HeardInv
  PROVE  /\ person.scram \subseteq ScramMechanisms /\ "token" \notin client_mechanisms
         /\ "mTLS" \notin ScramMechanisms /\ "token" \notin ScramMechanisms
<1>1. PICK w \in Worlds : config = w.config /\ person = w.person BY DEF HeardInv
<1>2. ASSUME NEW l \in Listeners PROVE "token" \notin mechanisms(l)
  <2>1. (config.sasl[l] \cup config.sasl_default) \cap OtherWays = {} BY <1>1, PrincipalAssumption
  <2> QED BY <2>1 DEF mechanisms, sasl_mechanisms, OtherWays
<1>3. person.scram \subseteq ScramMechanisms BY <1>1, PrincipalAssumption
<1> QED BY <1>2, <1>3 DEF client_mechanisms, client_listeners, ScramMechanisms

(* The inference is sound.                                                 *)
(* When likely_mechanism eliminates, every way the principal has into a    *)
(* client listener is among the candidates, for every configuration of     *)
(* listeners and whichever store refuses to answer; the stored credentials *)
(* it names are there and enabled; a principal that is_unrecorded is in    *)
(* none of the stores.                                                     *)
THEOREM VerdictIsSound == PrincipalSpecification => []VerdictSound
<1>1. PrincipalInit => HeardInv BY DEF PrincipalInit, HeardInv, Unheard
<1>2. HeardInv => VerdictSound
  <2> SUFFICES ASSUME HeardInv, \A s \in Sources : heard[s] # "unasked"
               PROVE  VerdictSound
    BY DEF VerdictSound
  <2> DEFINE offered == client_mechanisms
             stored == (IF heard["scram"] = "some" THEN person.scram \cap offered ELSE {})
                \cup (IF heard["tokens"] = "some" /\ offered \cap ScramMechanisms # {} THEN {"token"} ELSE {})
             struck == ScramMechanisms \cup {"token"}
                \cup (IF ~person.dn /\ maps_certificates_to_subjects THEN {"mTLS"} ELSE {})
             v == likely_mechanism
  <2>1. v = (IF offered = {} THEN Verdict({}, "Unknown")
     ELSE IF stored # {} THEN Verdict(stored, "StoredCredential")
     ELSE IF "mTLS" \in offered /\ person.dn THEN Verdict({"mTLS"}, "CertificateSubject")
     ELSE IF ~store_answered(heard["scram"]) \/ ~store_answered(heard["tokens"]) THEN Verdict({}, "Unknown")
     ELSE Verdict(offered \ struck, "Elimination"))
    BY DEF likely_mechanism
  <2>2. /\ v.basis = "Elimination" =>
             /\ v.candidates = offered \ struck /\ stored = {}
             /\ ~("mTLS" \in offered /\ person.dn)
             /\ store_answered(heard["scram"]) /\ store_answered(heard["tokens"])
        /\ v.basis = "StoredCredential" => v.candidates = stored
    <3> HIDE DEF stored, offered, struck, v
    <3> QED BY <2>1 DEF Verdict
  <2>3. ASSUME v.basis = "Elimination", NEW m \in client_mechanisms \cup {"token"}, CanLogIn(m)
        PROVE  m \in v.candidates
    <3>1. CASE m \in ScramMechanisms
      <4>1. m \in person.scram /\ m \in offered BY <2>3, <3>1, NamesApart DEF CanLogIn
      <4>2. heard["scram"] = "some" BY <4>1, <2>2, <2>3, NothingThere
      <4> QED BY <4>1, <4>2, <2>2, <2>3
    <3>2. CASE m = "token"
      <4>1. person.token /\ ScramMechanisms \cap offered # {} BY <2>3, <3>2, NamesApart DEF CanLogIn
      <4>2. heard["tokens"] = "some" BY <4>1, <2>2, <2>3, NothingThere
      <4> QED BY <4>1, <4>2, <2>2, <2>3
    <3>3. CASE m = "mTLS"
      <4>1. m \in offered /\ (person.dn \/ ~config.default_rules) BY <2>3, <3>3, NamesApart DEF CanLogIn
      <4> QED BY <4>1, <3>3, <2>2, <2>3, NamesApart DEF maps_certificates_to_subjects
    <3>4. CASE m \notin ScramMechanisms \cup {"token", "mTLS"} BY <3>4, <2>2, <2>3
    <3> QED BY <3>1, <3>2, <3>3, <3>4
  <2>4. ASSUME v.basis = "StoredCredential", NEW m \in v.candidates PROVE CanLogIn(m)
    <3>1. m \in stored BY <2>2, <2>4
    <3>2. CASE m = "token" /\ heard["tokens"] = "some" /\ offered \cap ScramMechanisms # {}
      BY <3>2, NothingThere, NamesApart DEF CanLogIn
    <3>3. CASE m \in person.scram \cap offered BY <3>3, NamesApart DEF CanLogIn
    <3> QED BY <3>1, <3>2, <3>3
  <2> QED BY <2>3, <2>4, NothingThere DEF VerdictSound
<1> QED BY <1>1, <1>2, HeardStep, PTL DEF PrincipalSpecification
=============================================================================

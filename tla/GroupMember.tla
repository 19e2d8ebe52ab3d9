---------------------------- MODULE GroupMember ----------------------------
(***************************************************************************)
(* What the members of a group have in common, whichever protocol they     *)
(* speak (kafka-consume/src/consumer.rs, rebalance.rs, offsets.rs): the    *)
(* partitions they hold and how far they have read them, the listener, the *)
(* commits under a membership, and how an assignment is replaced.          *)
(***************************************************************************)
EXTENDS Assignors

CONSTANTS
  Members,       \* the consumers: 1..n
  Sizes,         \* partitions of each topic
  Subscribed,    \* topics of each consumer
  Records,       \* records in each partition
  Assignor,      \* the assignors the group may settle on
  MaxRemovals,   \* bound on members the coordinator removes
  MaxLost,       \* bound on responses that are lost
  MaxCuts,       \* bound on polls dropped or failing in the middle
  MaxLeaves,     \* bound on consumers that leave
  MaxMishaps     \* bound on all of these together

ASSUME GroupAssumption ==
  /\ IsFiniteSet(Members) /\ Members = 1..Cardinality(Members) /\ Records \in Nat
  /\ \A c \in Members : Subscribed[c] \subseteq DOMAIN Sizes

VARIABLES
  member,     \* each consumer; see NewMember
  coord,      \* the coordinator, external
  groupOffsets, \* per partition: the offset committed for the group, or Unset
  buffer,     \* per consumer: records fetched and not handed out
  seen,       \* history: records handed out; a record is <<partition, offset>>
  again,      \* history: records handed out twice
  stranded,   \* history: records that were in a buffer when their partition went
  told,       \* history: per consumer, what on_revoke named since it was gained
  forgotten,  \* history: per consumer, what it held when its membership was reset
  untold,     \* history: consumers that lost a partition without on_revoke
  bereft,     \* history: consumers whose listener a failed handoff took
  excused,    \* history: consumers that may hold what is another's, see OneOwner
  spent       \* bounded events so far

readVars == <<buffer, seen, again, stranded>>
toldVars == <<told, forgotten, untold, bereft>>
memberHistory == <<readVars, toldVars, excused>>
groupVars == <<member, coord, groupOffsets, memberHistory, spent>>

Unset == -1
NoId == 0
Parts == AllOf(Sizes)
Spend(what, bound) ==
  /\ spent[what] < bound /\ spent.evictions + spent.lost + spent.cuts + spent.leaves < MaxMishaps
  /\ spent' = [spent EXCEPT ![what] = @ + 1]
Unused == [evictions |-> 0, lost |-> 0, cuts |-> 0, leaves |-> 0]

(* A consumer.  epoch is the member epoch of KIP-848 and the generation of   *)
(* the classic protocol; pending what a computed rebalance takes away; todo  *)
(* the assignment to move to once that is done; each empty, or a singleton.  *)
NewMember(protocol) ==
  [protocol |-> protocol, id |-> NoId, epoch |-> Unset, rejoin |-> TRUE, owned |-> {}, ack |-> FALSE,
   ever |-> FALSE, pending |-> {}, todo |-> {}, held |-> <<>>, listener |-> TRUE, pc |-> "out"]

Sole(S) == CHOOSE x \in S : TRUE
Held(c) == DOMAIN member[c].held
Become(c, m) == member' = [member EXCEPT ![c] = m]

-----------------------------------------------------------------------------
(* committed_or_earliest *)
StartAt(p) == IF groupOffsets[p] = Unset THEN 0 ELSE groupOffsets[p]

(* reassign: partitions that stay keep their position, and what is buffered  *)
(* of one that goes is not handed out any more.                              *)
reassign(held, parts) == [p \in parts |-> IF p \in DOMAIN held THEN held[p] ELSE StartAt(p)]

KeepBuffered(c, parts) ==
  LET gone == { r \in buffer[c] : r[1] \notin parts }
  IN /\ buffer' = [buffer EXCEPT ![c] = @ \ gone]
     /\ stranded' = stranded \cup gone
     /\ UNCHANGED <<seen, again>>

(* A consumer moves to an assignment; a partition it loses should have been  *)
(* announced before.                                                         *)
Moves(c, parts) ==
  /\ untold' = IF Held(c) \ parts \subseteq told[c] THEN untold ELSE untold \cup {c}
  /\ told' = [told EXCEPT ![c] = {}] /\ UNCHANGED <<forgotten, bereft>>
  /\ KeepBuffered(c, parts)

CommitAs_End(c, accepted) ==
  groupOffsets' = [p \in Parts |-> IF accepted /\ p \in Held(c) THEN Records ELSE groupOffsets[p]]

(* commit_as: the coordinator refuses a member it does not know by this id   *)
(* and epoch; the result of an automatic commit is ignored.                  *)
CommitAs(c, accepted) ==
  groupOffsets' = [p \in Parts |->
    IF accepted /\ p \in Held(c) THEN member[c].held[p] ELSE groupOffsets[p]]

(* rebalance::revoke *)
TellRevoked(c, parts) ==
  told' = IF member[c].listener THEN [told EXCEPT ![c] = @ \cup parts] ELSE told

(* fetch_once: a round over the leaders brings the next record of some of    *)
(* the partitions.                                                           *)
Rounds(c) == SUBSET { p \in Held(c) : member[c].held[p] < Records } \ {{}}
Brought(c, parts) == { <<p, member[c].held[p]>> : p \in parts }
Advanced(c, parts) ==
  [member[c] EXCEPT !.pc = "out",
     !.held = [p \in Held(c) |-> member[c].held[p] + (IF p \in parts THEN 1 ELSE 0)]]

Deliver(c, records) ==
  /\ again' = again \cup (records \cap seen) /\ seen' = seen \cup records
  /\ buffer' = [buffer EXCEPT ![c] = {}] /\ UNCHANGED stranded

(* inner.poll: what is buffered; or what a round brings, or nothing.         *)
ReadRecords(c) ==
  /\ member[c].pc = "read"
  /\ \/ /\ buffer[c] # {}
        /\ Become(c, Advanced(c, {})) /\ Deliver(c, buffer[c])
     \/ /\ buffer[c] = {}
        /\ \E parts \in Rounds(c) : Become(c, Advanced(c, parts)) /\ Deliver(c, Brought(c, parts))
     \/ /\ buffer[c] = {} /\ Rounds(c) = {}
        /\ Become(c, Advanced(c, {})) /\ UNCHANGED readVars
  /\ UNCHANGED <<coord, groupOffsets, toldVars, excused, spent>>

(* The poll is dropped, or fails, between two leaders: the positions have    *)
(* moved, and the records wait in the buffer for the next poll.              *)
ReadCut(c) ==
  /\ member[c].pc = "read" /\ buffer[c] = {} /\ Spend("cuts", MaxCuts)
  /\ \E parts \in Rounds(c) :
       /\ Become(c, Advanced(c, parts))
       /\ buffer' = [buffer EXCEPT ![c] = Brought(c, parts)]
  /\ UNCHANGED <<coord, groupOffsets, seen, again, stranded, toldVars, excused>>

PollBegins(c) ==
  /\ member[c].pc = "out"
  /\ Become(c, [member[c] EXCEPT !.pc = "run"])
  /\ UNCHANGED <<coord, groupOffsets, memberHistory, spent>>

-----------------------------------------------------------------------------
GroupInit ==
  /\ groupOffsets = [p \in Parts |-> Unset]
  /\ buffer = [c \in Members |-> {}] /\ seen = {} /\ again = {} /\ stranded = {}
  /\ told = [c \in Members |-> {}] /\ forgotten = [c \in Members |-> {}]
  /\ untold = {} /\ bereft = {} /\ excused = {} /\ spent = Unused

(* A commit never runs ahead of what is handed out: every record below a     *)
(* committed offset was handed to some member of the group, or waits in the  *)
(* buffer of one for its next poll, through rebalances, evictions, lost      *)
(* answers and polls that are dropped or fail.  Excepted are records that    *)
(* such a poll left in the buffer of a member that lost their partition      *)
(* before it polled again: reassign drops them (consumer.rs:440-443) after   *)
(* the automatic commit has passed them, and nobody is handed them.          *)
CommitsDelivered ==
  \A p \in Parts : \A o \in 0..(groupOffsets[p] - 1) :
    <<p, o>> \in seen \cup stranded \cup UNION { buffer[c] : c \in Members }

(* Whoever loses a partition was told so by on_revoke first, while it still  *)
(* held it (rebalance.rs), in both protocols: through evictions, rounds that *)
(* are interrupted, lost answers and however often the poll that does it is  *)
(* dropped.  Excepted are the partitions that a KIP-848 member held when a   *)
(* heartbeat was refused and its membership reset (`forgotten`: they are in  *)
(* no later reconcile), and a member whose listener was lost in a handoff    *)
(* that failed (see NegotiatedConsumer).                                     *)
RevokedFirst == untold \subseteq bereft
=============================================================================

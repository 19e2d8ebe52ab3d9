------------------------- MODULE NegotiatedConsumer -------------------------
(***************************************************************************)
(* NegotiatedConsumer of kafka-consume/src/consumer.rs: members that ask   *)
(* the broker which protocol it serves, and fall back to the classic one   *)
(* when a broker that advertises KIP-848 refuses it at the first           *)
(* heartbeat.  Composes ConsumerGroup and ClassicGroup.                    *)
(***************************************************************************)
EXTENDS ClassicGroup, ConsumerGroup

Advertised == {TRUE, FALSE}

(* subscribe: require_ga_heartbeat decides; a broker of the classic protocol *)
(* may advertise the other one all the same.                                 *)
choice(advertises) == IF advertises THEN "consumer" ELSE "classic"
Subscribe(protocol, id) ==
  IF protocol = "consumer" THEN FreshMembership(NewMember(protocol), id) ELSE NewMember(protocol)

NegotiatedInit ==
  /\ GroupInit
  /\ \/ coord = [NoConsumerGroup EXCEPT !.next = Cardinality(Members) + 1]
        /\ member = [c \in Members |-> Subscribe(choice(TRUE), c)]
     \/ \E protocol \in Assignor, advertises \in Advertised :
          /\ coord = [NoGroup(protocol) EXCEPT !.next = Cardinality(Members) + 1]
          /\ member = [c \in Members |-> Subscribe(choice(advertises), c)]

(* refuses_consumer_protocol, for a member the coordinator never admitted.   *)
downgradable(m) == ~m.ever /\ ~has_joined(m)
Refused(c) ==
  /\ Kip848(c) /\ coord.kind = "classic" /\ member[c].pc = "run" /\ member[c].pending = {}
  /\ downgradable(member[c])

(* handoff: the classic member takes over the settings of the other.         *)
handoff(m) == [NewMember("classic") EXCEPT !.listener = m.listener]

Downgrade(c) ==
  /\ Refused(c) /\ Become(c, handoff(member[c]))
  /\ UNCHANGED <<coord, groupOffsets, memberHistory, spent>>

(* The classic subscribe fails: the listener was taken out already.          *)
DowngradeFails(c) ==
  /\ Refused(c) /\ Spend("cuts", MaxCuts)
  /\ Become(c, [member[c] EXCEPT !.listener = FALSE, !.pc = "out"])
  /\ bereft' = bereft \cup {c}
  /\ UNCHANGED <<coord, groupOffsets, readVars, told, forgotten, untold, excused>>

(* commit: the application's own, between two polls.                         *)
GroupCommit(c) ==
  /\ member[c].pc = "out"
  /\ CommitAs(c, IF Classic(c) THEN Admitted(c) ELSE coord.kind = "consumer" /\ Member848(c))
  /\ UNCHANGED <<member, coord, memberHistory, spent>>

-----------------------------------------------------------------------------
PollStep(c) ==
  \/ (Classic(c) /\ PollBegins(c)) \/ PollBegins848(c) \/ ReadRecords(c)
  \/ ClassicStep(c) \/ ConsumerStep(c) \/ Downgrade(c)

NegotiatedNext ==
  \/ \E c \in Members :
       \/ PollStep(c) \/ SkipBeat(c) \/ GroupCommit(c)
       \/ ReadCut(c) \/ ClassicFault(c) \/ ConsumerFault(c) \/ DowngradeFails(c)
  \/ CompleteJoin

(* Every member is polled in a task of its own for as long as it has not     *)
(* left, its heartbeats are not put off forever, and the coordinator answers *)
(* when everyone has joined.                                                 *)
Waiting(c) == member[c].pc \in {"gone", "joining", "syncing"}
NegotiatedSpecification ==
  /\ NegotiatedInit /\ [][NegotiatedNext]_groupVars
  /\ WF_groupVars(CompleteJoin)
  /\ \A c \in Members :
       /\ []<>Waiting(c) \/ []<><<PollStep(c)>>_groupVars
       /\ []<>(~Kip848(c) \/ member[c].pc = "gone" \/ coord.kind # "consumer") \/ []<><<Beat(c)>>_groupVars

-----------------------------------------------------------------------------
(* A member that reads: admitted, and not about to join again. *)
Reads(c) ==
  IF Classic(c) THEN Admitted(c) /\ ~member[c].rejoin /\ member[c].todo = {}
  ELSE coord.kind = "consumer" /\ Member848(c)

(* A member that owns what it holds: under a cooperative assignor also while *)
(* a rebalance goes on.                                                      *)
Owns(c) == Reads(c) \/ (Classic(c) /\ is_cooperative /\ Admitted(c))

(* At no time do two members that the coordinator both considers current     *)
(* hold the same partition: what moves is revoked before it is given, in     *)
(* both protocols.  Excepted is who was once removed by the coordinator (or  *)
(* had a heartbeat refused), and in the classic protocol a member that held  *)
(* on while a round went by: its poll was dropped while it waited to join or *)
(* to sync, or its sync was answered by the next round; and in KIP-848 one   *)
(* whose answer was lost: a heartbeat that owes no acknowledgement sends an  *)
(* empty list, which the coordinator takes for one.                          *)
OneOwner ==
  \A c, d \in Members \ excused :
    c # d /\ Owns(c) /\ Owns(d) => Held(c) \cap Held(d) = {}

(* As long as none of these exceptions happens to anybody, no record is      *)
(* delivered twice: whoever gains a partition starts where the last one      *)
(* stopped.                                                                  *)
NoRedelivery == excused = {} => again = {}

(* Once the faults end, every partition that is wanted is held by a current  *)
(* member, and all its records are handed out but those that were stranded   *)
(* (see CommitsDelivered).  Wanted is what somebody subscribed to; in a      *)
(* classic group the leader must have as well, because it sizes only its own *)
(* subscription (partition_counts).  Excepted are KIP-848 groups that lost   *)
(* an answer: a heartbeat after it does not ask for the assignment again,    *)
(* and a member whose join was lost leaves in silence.                       *)
Present(c) == member[c].pc # "gone"
Leads(c) == Classic(c) /\ coord.kind = "classic" /\ member[c].id = coord.leader
Wanted == { p \in Parts : /\ \E c \in Members : Present(c) /\ p[1] \in Subscribed[c]
                          /\ \A c \in Members : Leads(c) => p[1] \in Subscribed[c] }
NeverTold == coord.kind = "consumer" /\ spent.lost > 0
Settles ==
  <>[](NeverTold \/ \A p \in Wanted :
         /\ \E c \in Members : Present(c) /\ p \in Held(c) /\ Reads(c)
         /\ \A o \in 0..(Records - 1) : <<p, o>> \in seen \cup stranded)

(* What a member knows of its progress outlives a rebalance: it commits what  *)
(* it handed out, and a partition it keeps is not read again.                 *)
ProgressKept == CommitsDelivered /\ NoRedelivery
=============================================================================

--------------------------- MODULE ConsumerGroup ---------------------------
(***************************************************************************)
(* The KIP-848 protocol: GroupConsumer of kafka-consume/src/consumer.rs    *)
(* and Membership of group.rs, against the coordinator, external.  The     *)
(* coordinator computes the target and moves a member towards it: first it *)
(* takes away, and once the member's heartbeat no longer claims what was   *)
(* taken, it gives that to others.                                         *)
(***************************************************************************)
EXTENDS GroupMember

Kip848(c) == member[c].protocol = "consumer"
EPOCH_JOIN == 0
has_joined(m) == m.epoch > EPOCH_JOIN

(* Membership::new, and reset: a fresh id, and nothing owned. *)
FreshMembership(m, id) ==
  [m EXCEPT !.id = id, !.epoch = EPOCH_JOIN, !.owned = {}, !.ack = FALSE]

NoConsumerGroup == [kind |-> "consumer", protocol |-> "uniform", epoch |-> 0, members |-> <<>>, next |-> 1]

-----------------------------------------------------------------------------
(* The coordinator.  Of a member it knows the epoch, the one before it, what *)
(* it was given, and what it was told to give up and has not yet.            *)

Ids848 == DOMAIN coord.members
TargetOf(group, id) ==
  assign_round_robin({ [id |-> i, topics |-> group.members[i].topics] :
                       i \in DOMAIN group.members }, Sizes)[id]

Taken(group, id) ==
  UNION { group.members[i].given \cup group.members[i].revoking : i \in DOMAIN group.members \ {id} }

(* One heartbeat of a known member that claims to own `claimed`. *)
Reconciled(group, id, claimed) ==
  LET was    == group.members[id]
      acked  == [was EXCEPT !.revoking = @ \cap claimed]
      target == TargetOf(group, id)
      free   == target \ Taken(group, id)
  IN CASE acked.revoking # {} -> acked
       [] acked.revoking = {} /\ was.given \ target # {} ->
            [acked EXCEPT !.given = @ \cap target, !.revoking = was.given \ target]
       [] OTHER ->
            [acked EXCEPT !.given = was.given \cup free, !.epoch = group.epoch, !.before = was.epoch]

(* The epoch it expects, or the one before if the answer may have been lost. *)
Accepts(me, epoch, claimed) ==
  epoch = me.epoch \/ (epoch = me.before /\ claimed \subseteq me.given)

-----------------------------------------------------------------------------
(* The client *)

(* build: what a heartbeat claims to own.  An empty list, unless an          *)
(* acknowledgement is owed.                                                  *)
build(m) == IF m.ack /\ m.epoch # EPOCH_JOIN THEN m.owned ELSE {}

(* An owed acknowledgement is always due; otherwise the interval decides.    *)
beat_due(m) == m.ack \/ m.rejoin

(* reconcile, and what beat makes of an answer.  `revoked` is what poll      *)
(* holds as pending.                                                         *)
reconcile(owned, target) == [revoked |-> owned \ target, gained |-> target \ owned]
Answered(m, epoch, target) ==
  LET r == reconcile(m.owned, target)
      changed == r.revoked # {} \/ r.gained # {}
  IN [m EXCEPT !.epoch = epoch, !.owned = target, !.ack = changed,
               !.pending = IF changed THEN {r.revoked} ELSE {}, !.pc = "after"]

(* beat.  The rejoin flag of the record stands for last_beat being unset.    *)
Beat(c) ==
  LET m == member[c]
      joins == m.epoch = EPOCH_JOIN /\ m.id \notin Ids848
      group == IF joins
               THEN [coord EXCEPT !.epoch = @ + 1,
                       !.members = [i \in Ids848 \cup {m.id} |->
                          IF i = m.id THEN [epoch |-> 0, before |-> 0, given |-> {}, revoking |-> {},
                                            topics |-> Subscribed[c]]
                          ELSE coord.members[i]]]
               ELSE coord
      claimed == build(m)
      known == m.id \in DOMAIN group.members /\ Accepts(group.members[m.id], m.epoch, claimed)
      me == Reconciled(group, m.id, claimed)
      tells == m.epoch = EPOCH_JOIN \/ me.given # group.members[m.id].given
      beaten == [m EXCEPT !.rejoin = FALSE]
  IN /\ Kip848(c) /\ coord.kind = "consumer" /\ m.pc = "run" /\ m.pending = {}
     /\ \/ /\ ~known
           /\ Become(c, [FreshMembership(beaten, coord.next) EXCEPT !.pc = "after"])
           /\ coord' = [coord EXCEPT !.next = @ + 1]
           /\ forgotten' = [forgotten EXCEPT ![c] = Held(c)]
           /\ excused' = excused \cup {c} /\ UNCHANGED spent
        \/ /\ known
           /\ coord' = [group EXCEPT !.members[m.id] = me]
           /\ Become(c, IF tells THEN Answered(beaten, me.epoch, me.given)
                        ELSE [beaten EXCEPT !.epoch = me.epoch, !.ack = FALSE, !.pc = "after"])
           /\ UNCHANGED <<forgotten, excused, spent>>
        \/ /\ known /\ Spend("lost", MaxLost)
           /\ coord' = [group EXCEPT !.members[m.id] = me]
           /\ Become(c, [m EXCEPT !.pc = "out"])
           /\ excused' = excused \cup {c} /\ UNCHANGED forgotten
     /\ UNCHANGED <<groupOffsets, readVars, told, untold, bereft>>

(* No heartbeat is due yet. *)
SkipBeat(c) ==
  /\ Kip848(c) /\ member[c].pc = "run" /\ member[c].pending = {}
  /\ ~beat_due(member[c])
  /\ Become(c, [member[c] EXCEPT !.pc = "after"])
  /\ UNCHANGED <<coord, groupOffsets, memberHistory, spent>>

(* settle: the listener, the commit, the move; then a poll that has beaten   *)
(* reads.                                                                    *)
Member848(c) == member[c].id \in Ids848 /\ coord.members[member[c].id].epoch = member[c].epoch
AfterSettle(m) == IF m.pc = "after" THEN "read" ELSE m.pc

Settle(c) ==
  LET m == member[c]
      revoked == Sole(m.pending)
  IN /\ Kip848(c) /\ m.pc \in {"run", "after"} /\ m.pending # {}
     /\ untold' = IF Held(c) \ m.owned
                     \subseteq told[c] \cup forgotten[c] \cup (IF m.listener THEN revoked ELSE {})
                  THEN untold ELSE untold \cup {c}
     /\ told' = [told EXCEPT ![c] = {}] /\ forgotten' = [forgotten EXCEPT ![c] = {}]
     /\ KeepBuffered(c, m.owned)
     /\ IF revoked = {} THEN UNCHANGED groupOffsets ELSE CommitAs(c, Member848(c))
     /\ Become(c, [m EXCEPT !.pending = {}, !.pc = AfterSettle(m),
          !.held = [p \in m.owned |-> IF p \in Held(c) THEN m.held[p]
                                      ELSE IF groupOffsets'[p] = Unset THEN 0 ELSE groupOffsets'[p]]])
     /\ UNCHANGED <<coord, bereft, excused, spent>>

(* The poll is dropped after the listener ran, or the offsets cannot be read *)
(* once the lost partitions are dropped: the rebalance stays pending.        *)
SettleFails(c) ==
  LET m == member[c]
      revoked == Sole(m.pending)
  IN /\ Kip848(c) /\ m.pc \in {"run", "after"} /\ m.pending # {}
     /\ Spend("cuts", MaxCuts)
     /\ TellRevoked(c, revoked)
     /\ \/ /\ Become(c, [m EXCEPT !.pc = "out"]) /\ UNCHANGED <<groupOffsets, untold>>
        \/ /\ m.owned \ Held(c) # {}
           /\ IF revoked = {} THEN UNCHANGED groupOffsets ELSE CommitAs(c, Member848(c))
           /\ untold' = IF Held(c) \ m.owned \subseteq told'[c] \cup forgotten[c] THEN untold ELSE untold \cup {c}
           /\ Become(c, [m EXCEPT !.pc = "out",
                !.held = [p \in Held(c) \cap m.owned |-> m.held[p]]])
     /\ UNCHANGED <<coord, readVars, forgotten, bereft, excused>>

GoRead(c) ==
  /\ Kip848(c) /\ member[c].pc = "after" /\ member[c].pending = {}
  /\ Become(c, [member[c] EXCEPT !.pc = "read"])
  /\ UNCHANGED <<coord, groupOffsets, memberHistory, spent>>

(* The latch at the head of poll. *)
PollBegins848(c) ==
  /\ Kip848(c) /\ member[c].pc = "out"
  /\ Become(c, [member[c] EXCEPT !.pc = "run", !.ever = @ \/ has_joined(member[c])])
  /\ UNCHANGED <<coord, groupOffsets, memberHistory, spent>>

Without(id) ==
  [coord EXCEPT !.epoch = @ + 1, !.members = [i \in Ids848 \ {id} |-> coord.members[i]]]

Leave848(c) ==
  LET m == member[c]
  IN /\ Kip848(c) /\ coord.kind = "consumer" /\ m.pc = "out"
     /\ Spend("leaves", MaxLeaves)
     /\ TellRevoked(c, Held(c)) /\ CommitAs(c, Member848(c))
     /\ coord' = IF m.id \in Ids848 /\ has_joined(m) THEN Without(m.id) ELSE coord
     /\ Become(c, [FreshMembership(m, NoId) EXCEPT !.pc = "gone", !.held = <<>>])
     /\ KeepBuffered(c, {})
     /\ UNCHANGED <<forgotten, untold, bereft, excused>>

(* The session of a member expires. *)
Expire848(c) ==
  /\ Kip848(c) /\ coord.kind = "consumer" /\ member[c].id \in Ids848
  /\ Spend("evictions", MaxRemovals)
  /\ coord' = Without(member[c].id) /\ excused' = excused \cup {c}
  /\ UNCHANGED <<member, groupOffsets, readVars, toldVars>>

-----------------------------------------------------------------------------
ConsumerStep(c) == Beat(c) \/ Settle(c) \/ GoRead(c)
ConsumerFault(c) == SettleFails(c) \/ Leave848(c) \/ Expire848(c)
=============================================================================

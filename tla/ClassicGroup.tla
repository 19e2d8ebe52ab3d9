---------------------------- MODULE ClassicGroup ----------------------------
(***************************************************************************)
(* The classic protocol: ClassicConsumer of kafka-consume/src/consumer.rs  *)
(* and ClassicMembership of classic.rs, against the coordinator, external. *)
(* A poll drives the protocol until a heartbeat is answered without error; *)
(* it may be dropped wherever it waits.  The rounds a poll is given are    *)
(* not counted: when they run out, the next poll goes on where it stopped. *)
(* The group settled on one assignor that all members advertise.           *)
(***************************************************************************)
EXTENDS GroupMember

is_cooperative == coord.protocol = "cooperative-sticky"
Classic(c) == member[c].protocol = "classic"

(* The coordinator: its members, those that joined the round in preparation, *)
(* what they said when they joined, and the plan of the generation.          *)
NoGroup(protocol) ==
  [kind |-> "classic", protocol |-> protocol, state |-> "empty", generation |-> 0, members |-> {},
   granted |-> {}, joined |-> {}, subs |-> <<>>, leader |-> NoId, plan |-> <<>>, next |-> 1]

Admitted(c) == member[c].id \in coord.members /\ member[c].epoch = coord.generation

(* Where the loop of poll stands: nothing pending and nothing to move to. *)
Driving(c) ==
  Classic(c) /\ member[c].pc = "run" /\ member[c].pending = {} /\ member[c].todo = {}

-----------------------------------------------------------------------------
(* settle *)
SettleClassic(c) ==
  LET parts == Sole(member[c].pending)
  IN /\ Classic(c) /\ member[c].pc = "run" /\ member[c].pending # {}
     /\ Become(c, [member[c] EXCEPT !.pending = {}])
     /\ TellRevoked(c, parts)
     /\ IF parts = {} THEN UNCHANGED groupOffsets ELSE CommitAs(c, Admitted(c))
     /\ UNCHANGED <<coord, readVars, forgotten, untold, bereft, excused, spent>>

(* The poll is dropped after the listener ran. *)
SettleCut(c) ==
  LET parts == Sole(member[c].pending)
  IN /\ Classic(c) /\ member[c].pc = "run" /\ member[c].pending # {} /\ parts # {}
     /\ Spend("cuts", MaxCuts)
     /\ Become(c, [member[c] EXCEPT !.todo = {}, !.pc = "out"])
     /\ TellRevoked(c, parts)
     /\ UNCHANGED <<coord, groupOffsets, readVars, forgotten, untold, bereft, excused>>

(* reassign, with the second round of a cooperative rebalance to come.       *)
MoveClassic(c) ==
  LET m == member[c]
      todo == Sole(m.todo)
  IN /\ Classic(c) /\ m.pc = "run" /\ m.pending = {} /\ m.todo # {}
     /\ Moves(c, todo.parts)
     /\ Become(c, [m EXCEPT !.held = reassign(m.held, todo.parts), !.rejoin = todo.rejoin,
                            !.todo = {}])
     /\ UNCHANGED <<coord, groupOffsets, excused, spent>>

(* The committed offsets cannot be read: what is lost is dropped already,    *)
(* but not what is buffered of it.                                           *)
MoveFails(c) ==
  LET m == member[c]
      wanted == Sole(m.todo).parts
      stay == Held(c) \cap wanted
  IN /\ Classic(c) /\ m.pc = "run" /\ m.pending = {} /\ m.todo # {}
     /\ Spend("cuts", MaxCuts) /\ wanted \ Held(c) # {}
     /\ untold' = IF Held(c) \ stay \subseteq told[c] THEN untold ELSE untold \cup {c}
     /\ Become(c, [m EXCEPT !.held = [p \in stay |-> m.held[p]], !.todo = {}, !.pc = "out"])
     /\ UNCHANGED <<coord, groupOffsets, readVars, told, forgotten, bereft, excused>>

-----------------------------------------------------------------------------
(* heartbeat *)
BeatSaysRejoin(c) == member[c].epoch = Unset \/ ~Admitted(c) \/ coord.state = "preparing"

(* An eager member gives everything up before it joins again.                *)
RevokedByBeat(c) == IF is_cooperative THEN {} ELSE {Held(c)}

HeartbeatClassic(c) ==
  /\ Driving(c) /\ ~member[c].rejoin
  /\ IF BeatSaysRejoin(c)
     THEN Become(c, [member[c] EXCEPT !.rejoin = TRUE, !.pending = RevokedByBeat(c)])
     ELSE Become(c, [member[c] EXCEPT !.pc = "read"])
  /\ UNCHANGED <<coord, groupOffsets, memberHistory, spent>>

Evicted_Silent(m) ==
  [m EXCEPT !.id = NoId, !.epoch = Unset, !.pc = "run", !.pending = {},
            !.todo = {[parts |-> {}, rejoin |-> TRUE]}]

(* UNKNOWN_MEMBER_ID or ILLEGAL_GENERATION: forget, let go of everything.    *)
Evicted(m) ==
  [m EXCEPT !.id = NoId, !.epoch = Unset, !.pc = "run",
            !.pending = IF DOMAIN m.held = {} THEN {} ELSE {DOMAIN m.held},
            !.todo = {[parts |-> {}, rejoin |-> TRUE]}]

(* join_request: what a member says it holds, under a cooperative assignor.  *)
Saying(c) ==
  [topics |-> Subscribed[c], owned |-> IF is_cooperative THEN Held(c) ELSE {},
   generation |-> member[c].epoch]

(* A new round begins: followers that wait for the plan are told to rejoin.  *)
Interrupted(c) ==
  [d \in Members |-> IF d # c /\ Classic(d) /\ member[d].pc = "syncing"
                     THEN [member[d] EXCEPT !.pc = "run"] ELSE member[d]]

(* join_group, up to where it waits.  A first join is refused with the id to *)
(* use (KIP-394).  A follower with nothing new to say is answered at once.   *)
JoinGroup(c) ==
  LET id == member[c].id
      known == id \in coord.members \cup coord.granted
      same == /\ coord.state \in {"completing", "stable"} /\ id \in coord.members
              /\ id # coord.leader /\ [coord.subs[id] EXCEPT !.generation = 0]
                                      = [Saying(c) EXCEPT !.generation = 0]
  IN /\ Driving(c) /\ member[c].rejoin
     /\ \/ /\ id = NoId
           /\ Become(c, [member[c] EXCEPT !.id = coord.next])
           /\ coord' = [coord EXCEPT !.granted = @ \cup {coord.next}, !.next = @ + 1]
        \/ /\ id # NoId /\ ~known
           /\ Become(c, Evicted(member[c])) /\ UNCHANGED coord
        \/ /\ known /\ same
           /\ Become(c, [member[c] EXCEPT !.epoch = coord.generation, !.pc = "joined"])
           /\ UNCHANGED coord
        \/ /\ known /\ ~same
           /\ member' = [Interrupted(c) EXCEPT ![c].pc = "joining"]
           /\ coord' = [coord EXCEPT
                !.state = "preparing", !.members = @ \cup {id}, !.granted = @ \ {id},
                !.joined = (IF coord.state = "preparing" THEN @ ELSE {}) \cup {id},
                !.subs = [i \in DOMAIN @ \cup {id} |-> IF i = id THEN Saying(c) ELSE @[i]]]
     /\ UNCHANGED <<groupOffsets, memberHistory, spent>>

(* Everyone joined: the coordinator starts a generation and answers those    *)
(* that still wait.                                                          *)
CompleteJoin ==
  /\ coord.kind = "classic" /\ coord.state = "preparing" /\ coord.joined = coord.members
  /\ coord.members # {}
  /\ coord' = [coord EXCEPT !.state = "completing", !.generation = @ + 1, !.plan = <<>>,
       !.leader = IF @ \in coord.members THEN @ ELSE CHOOSE i \in coord.members : TRUE]
  /\ member' = [c \in Members |->
       IF Classic(c) /\ member[c].pc = "joining" /\ member[c].id \in coord.members
       THEN [member[c] EXCEPT !.epoch = coord.generation + 1, !.pc = "joined"]
       ELSE member[c]]
  /\ UNCHANGED <<groupOffsets, memberHistory, spent>>

Planned_OneRound(m, parts) ==
  LET lost == IF is_cooperative THEN DOMAIN m.held \ parts ELSE {}
  IN [m EXCEPT !.pc = "run", !.pending = IF lost = {} THEN {} ELSE {lost},
               !.todo = {[parts |-> parts, rejoin |-> FALSE]}]

(* What a plan means to a member: a cooperative one revokes what it holds    *)
(* and was not given, and joins once more when that is something.            *)
Planned(m, parts) ==
  LET lost == IF is_cooperative THEN DOMAIN m.held \ parts ELSE {}
  IN [m EXCEPT !.pc = "run", !.pending = IF lost = {} THEN {} ELSE {lost},
               !.todo = {[parts |-> parts, rejoin |-> lost # {}]}]

(* partition_counts: the leader knows the sizes of the topics it subscribes  *)
(* to itself, and hands out the partitions of no other.                      *)
partition_counts(c) == [t \in Subscribed[c] |-> Sizes[t]]

(* sync_group: the leader sends the plan it computed; followers wait for it. *)
(* A member that learns here that the next round began keeps what it held,   *)
(* and where it had read to, though others had it for a generation.          *)
SyncGroup(c) ==
  LET id == member[c].id
      roster == { [id |-> i, topics |-> coord.subs[i].topics, owned |-> coord.subs[i].owned,
                   generation |-> coord.subs[i].generation] : i \in coord.members }
      plan == assign_all(coord.protocol, roster, partition_counts(c))
      refused == id \notin coord.members \/ member[c].epoch # coord.generation
  IN /\ Classic(c) /\ member[c].pc = "joined"
     /\ \/ /\ refused
           /\ Become(c, Evicted(member[c])) /\ UNCHANGED coord
        \/ /\ ~refused /\ coord.state = "preparing"
           /\ Become(c, [member[c] EXCEPT !.pc = "run"]) /\ UNCHANGED coord
        \/ /\ ~refused /\ coord.state = "completing" /\ id = coord.leader
           /\ coord' = [coord EXCEPT !.state = "stable", !.plan = plan]
           /\ member' = [d \in Members |->
                IF d = c \/ (Classic(d) /\ member[d].pc = "syncing")
                THEN Planned(member[d], plan[member[d].id]) ELSE member[d]]
        \/ /\ ~refused /\ coord.state = "completing" /\ id # coord.leader
           /\ Become(c, [member[c] EXCEPT !.pc = "syncing"]) /\ UNCHANGED coord
        \/ /\ ~refused /\ coord.state = "stable"
           /\ Become(c, Planned(member[c], coord.plan[id])) /\ UNCHANGED coord
     /\ excused' = IF ~refused /\ coord.state = "preparing" THEN excused \cup {c} ELSE excused
     /\ UNCHANGED <<groupOffsets, readVars, toldVars, spent>>

(* The poll is dropped, or fails, while it waits to join or to sync.  What   *)
(* the coordinator made of the request stands.                               *)
WaitCut(c) ==
  /\ Classic(c) /\ member[c].pc \in {"joining", "joined", "syncing"}
  /\ Spend("cuts", MaxCuts)
  /\ Become(c, [member[c] EXCEPT !.pc = "out"])
  /\ excused' = excused \cup {c}
  /\ UNCHANGED <<coord, groupOffsets, readVars, toldVars>>

(* leave *)
LeaveClassic(c) ==
  LET m == member[c]
  IN /\ Classic(c) /\ m.pc = "out" /\ Spend("leaves", MaxLeaves)
     /\ TellRevoked(c, Held(c)) /\ CommitAs(c, Admitted(c))
     /\ coord' = IF m.id = NoId THEN coord
                 ELSE [coord EXCEPT !.members = @ \ {m.id}, !.granted = @ \ {m.id},
                        !.joined = IF coord.state = "preparing" THEN @ \ {m.id} ELSE {},
                        !.state = IF coord.members \ {m.id} = {} THEN "empty" ELSE "preparing"]
     /\ member' = [Interrupted(c) EXCEPT ![c].id = NoId, ![c].epoch = Unset, ![c].pc = "gone",
                                         ![c].held = <<>>]
     /\ KeepBuffered(c, {})
     /\ UNCHANGED <<forgotten, untold, bereft, excused>>

(* The coordinator removes a member it has not heard from in time, or that   *)
(* has not joined the round.                                                 *)
EvictClassic(c) ==
  LET id == member[c].id
  IN /\ Classic(c) /\ id \in coord.members /\ member[c].pc \notin {"joining", "syncing"}
     /\ Spend("evictions", MaxRemovals)
     /\ coord' = [coord EXCEPT !.members = @ \ {id},
          !.joined = IF coord.state = "preparing" THEN @ \ {id} ELSE {},
          !.state = IF coord.members = {id} THEN "empty" ELSE "preparing"]
     /\ member' = Interrupted(c)
     /\ excused' = excused \cup {c}
     /\ UNCHANGED <<groupOffsets, readVars, toldVars>>

-----------------------------------------------------------------------------
ClassicStep(c) ==
  \/ SettleClassic(c) \/ MoveClassic(c) \/ HeartbeatClassic(c) \/ JoinGroup(c) \/ SyncGroup(c)
ClassicFault(c) ==
  SettleCut(c) \/ MoveFails(c) \/ WaitCut(c) \/ LeaveClassic(c) \/ EvictClassic(c)
=============================================================================

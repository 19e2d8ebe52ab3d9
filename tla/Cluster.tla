------------------------------ MODULE Cluster ------------------------------
(***************************************************************************)
(* kafka-meta: the metadata snapshot and who may replace it, the pool of   *)
(* connections, the coordinator cache and the dispatch loop (cluster.rs,   *)
(* pool.rs, retry.rs, snapshot.rs), with the re-ask loop that the crates   *)
(* above run when a broker answers that it is not the one to ask.          *)
(*                                                                         *)
(* Every call is a task of its own and so is the background refresh; they  *)
(* share the snapshot, the addresses, the connections and the cache.  An   *)
(* answer is computed by a broker at one moment and installed at a later   *)
(* one.  A connection leads to an address: nobody answers over it once the *)
(* node is elsewhere.  A node at address 0 is down.  One topic, and one    *)
(* coordinator.                                                            *)
(***************************************************************************)
EXTENDS Integers, FiniteSets, TLC

CONSTANTS
  Nodes,         \* broker ids: positive integers
  Bootstrap,     \* the nodes whose first address is a bootstrap address
  Callers,       \* the calls, by every user of the cluster
  TargetsOf,     \* of each call: of "any", "node", "leader", "controller", "coordinator"
  max_attempts,  \* RetryPolicy::max_attempts
  MaxReasks,     \* re-asks within coordinator_timeout
  COORDINATOR_CACHE_CAP,
  Cached,        \* the group id the cache holds at first
  MaxMoves,      \* bound on changes of the cluster
  MaxLost,       \* bound on answers lost, evictions and invalidations
  MaxEvents      \* bound on both together

ASSUME ClusterAssumption ==
  /\ Nodes \subseteq Nat \ {0} /\ IsFiniteSet(Nodes) /\ IsFiniteSet(Callers) /\ Bootstrap \subseteq Nodes
  /\ max_attempts \in Nat \ {0} /\ COORDINATOR_CACHE_CAP \in Nat \ {0}

VARIABLES
  world,         \* the cluster: addresses, leader, controller, coordinator
  snapshot,      \* the metadata snapshot
  addresses,     \* BrokerPool::addresses
  slots,         \* BrokerPool::slots, one per node
  coordinators,  \* the coordinator cache
  task,          \* each call, and the background refresh
  sockets,       \* history: per node, [open, dropped] since it came up
  used           \* bounded events so far

clusterVars == <<world, snapshot, addresses, slots, coordinators, task, sockets, used>>

NoNode == 0
Background == "background"
Tasks == Callers \cup {Background}
Alive == { n \in Nodes : world.at[n] # 0 }
Use(what, bound) ==
  /\ used[what] < bound /\ used.moves + used.lost < MaxEvents
  /\ used' = [used EXCEPT ![what] = @ + 1]

-----------------------------------------------------------------------------
(* snapshot.rs *)
Empty == [brokers |-> <<>>, leader |-> NoNode, controller |-> NoNode]

(* decode_metadata of an answer given now. *)
decode_metadata ==
  [brokers |-> [n \in Alive |-> world.at[n]], leader |-> world.leader, controller |-> world.controller]

(* A targeted refresh replaces the topics it asked for and nothing else:     *)
(* also the brokers stay those of the old snapshot.                          *)
with_topics_merged(base, fresh) == [base EXCEPT !.leader = fresh.leader]

(* pool.rs *)
FreshSlot == [conn |-> 0, backoff |-> FALSE, holder |-> {}]

learn_addresses_Insert(fresh) ==
  /\ addresses' = fresh @@ addresses /\ UNCHANGED <<slots, sockets>>

(* A non-empty set replaces the addresses, and drops the slots of the nodes  *)
(* that left, a slot somebody is dialling with included.                     *)
learn_addresses(fresh) ==
  LET gone == Nodes \ DOMAIN fresh
  IN IF fresh = <<>> THEN UNCHANGED <<addresses, slots, sockets>>
     ELSE /\ addresses' = fresh
          /\ slots' = [n \in Nodes |-> IF n \in gone THEN FreshSlot ELSE slots[n]]
          /\ sockets' = [n \in Nodes |->
               IF n \in gone /\ slots[n] # FreshSlot THEN [sockets[n] EXCEPT !.dropped = @ + 1]
               ELSE sockets[n]]

install(s) == learn_addresses(s.brokers) /\ snapshot' = s

-----------------------------------------------------------------------------
(* A task.  `then` is what it wants a connection for: "send" its request,    *)
(* "ask_all" or "ask_topics" for metadata, "find" its coordinator; `known`   *)
(* the addresses any() has left to try; `node` and `at` the node its         *)
(* connection is to and the address, 0 when it is closed; `next` where it    *)
(* goes on after a refresh; `got` the answer it holds, empty or a singleton; *)
(* `calm` whether the cluster was quiet so far, and "out" when it was but    *)
(* the call met something OutOfReach describes.                              *)
Idle == [pc |-> "idle", target |-> "any", attempt |-> 1, finds |-> 1, reasks |-> 0, node |-> NoNode,
         at |-> 0, then |-> "send", known |-> <<>>, next |-> "idle", got |-> {}, calm |-> "calm",
         result |-> "none"]

(* The call returns; it goes back to resolve; a task goes on after a refresh. *)
Done(c) == [Idle EXCEPT !.pc = "done", !.target = c.target, !.calm = c.calm, !.result = c.result]
Again(c) == [Idle EXCEPT !.pc = "resolve", !.target = c.target, !.calm = c.calm, !.attempt = c.attempt,
                         !.finds = c.finds, !.reasks = c.reasks]
GoOn(c) == CASE c.next = "idle" -> Idle [] c.next = "done" -> Done(c) [] OTHER -> Again(c)

(* The group id of the calls, another, and the node that leads at first. *)
Key == 1
OtherKey == 2
FirstLeader == CHOOSE n \in Nodes : TRUE

Sole(S) == CHOOSE x \in S : TRUE
Goto(t, record) == task' = [task EXCEPT ![t] = record]
At(t, pc) == task[t].pc = pc
shared == <<snapshot, addresses, slots, coordinators, sockets>>

(* A call begins. *)
BeginCall(t) ==
  /\ At(t, "idle") /\ t \in Callers
  /\ \E target \in TargetsOf[t] :
       Goto(t, [Idle EXCEPT !.target = target, !.pc = "resolve",
                 !.calm = IF NoNode \in {world.leader, world.controller, world.coordinator}
                          THEN "no" ELSE "calm"])
  /\ UNCHANGED <<world, shared, used>>

(* pool.any() for what the task wants; refresh begins with it. *)
any(c, then) == [c EXCEPT !.pc = "any", !.then = then, !.known = addresses, !.node = NoNode, !.at = 0]
refresh(c, then, next) == [any(c, then) EXCEPT !.next = next]

-----------------------------------------------------------------------------
(* The error branch of the loop in dispatch. *)
needs_metadata_refresh(result) == result \in {"closed", "stale"}
needs_coordinator_refresh(result) == result = "moved"

Retry(c) == IF c.attempt < max_attempts THEN Again([c EXCEPT !.attempt = @ + 1]) ELSE Done(c)

(* on_stale_metadata: a targeted refresh for a leader, a full one otherwise. *)
on_stale_metadata_Skipped(c) == Retry(c)
on_stale_metadata(c) ==
  refresh([c EXCEPT !.attempt = Retry(c).attempt, !.finds = 1],
          IF c.target = "leader" THEN "ask_topics" ELSE "ask_all", Retry(c).pc)
OnError(c, why) ==
  LET failed == [c EXCEPT !.got = {}, !.known = <<>>, !.result = why, !.finds = 1]
  IN IF needs_metadata_refresh(why) THEN on_stale_metadata(failed) ELSE Retry(failed)

(* What a task does when it has no connection or no answer: the call's       *)
(* attempt has failed, a refresh is left undone, or FindCoordinator is asked *)
(* again, as often as a call is.                                             *)
Broken(c, why) ==
  CASE c.then = "find" /\ c.finds < max_attempts -> Again([c EXCEPT !.finds = @ + 1])
    [] c.then \in {"ask_all", "ask_topics"} /\ c.next # "resolved" -> GoOn(c)
    [] OTHER -> OnError(c, why)

-----------------------------------------------------------------------------
(* resolve: the snapshot or the cache names the broker, or something has to  *)
(* be asked first.                                                           *)
Resolve(t) ==
  LET c == task[t]
      named == CASE c.target = "leader" -> snapshot.leader
                 [] c.target = "controller" -> snapshot.controller
                 [] c.target = "coordinator" ->
                      IF Key \in DOMAIN coordinators THEN coordinators[Key] ELSE NoNode
                 [] c.target = "node" -> FirstLeader
                 [] OTHER -> NoNode
  IN /\ At(t, "resolve")
     /\ \/ /\ named # NoNode /\ Goto(t, [c EXCEPT !.node = named, !.finds = 1, !.pc = "get"])
        \/ /\ named = NoNode /\ c.target = "any" /\ Goto(t, any(c, "send"))
        \/ /\ named = NoNode /\ c.target = "leader" /\ Goto(t, refresh(c, "ask_topics", "resolved"))
        \/ /\ named = NoNode /\ c.target = "controller" /\ Goto(t, refresh(c, "ask_all", "resolved"))
        \/ /\ named = NoNode /\ c.target = "coordinator" /\ Goto(t, any(c, "find"))
     /\ UNCHANGED <<world, shared, used>>

(* What the refresh just done says, not what another task installed since.   *)
Resolved(c) ==
  LET s == Sole(c.got)
      named == IF c.target = "leader" THEN s.leader ELSE s.controller
  IN IF named # NoNode THEN [c EXCEPT !.node = named, !.next = "idle", !.got = {}, !.pc = "get"]
     ELSE [c EXCEPT !.next = "idle", !.got = {}, !.pc = "failed"]
Failed(t) ==
  /\ At(t, "failed") /\ Goto(t, OnError(task[t], "stale"))
  /\ UNCHANGED <<world, shared, used>>

-----------------------------------------------------------------------------
(* refresh and refresh_topics *)

(* What comes of a request on the task's connection when it is not answered: *)
(* nobody is there any more, and the connection is closed, or it takes too   *)
(* long.                                                                     *)
Reached(c) == c.at # 0 /\ world.at[c.node] = c.at
NoAnswer(t) ==
  LET c == task[t]
  IN \/ /\ ~Reached(c) /\ Goto(t, Broken(c, "closed"))
        /\ slots' = [slots EXCEPT ![c.node].conn = IF @ = c.at THEN 0 ELSE @] /\ UNCHANGED used
     \/ /\ Reached(c) /\ Use("lost", MaxLost)
        /\ Goto(t, [Broken(c, "timeout") EXCEPT !.calm = "no"]) /\ UNCHANGED slots

(* A broker answers. *)
Ask(t) ==
  LET c == task[t]
  IN /\ c.pc \in {"ask_all", "ask_topics"}
     /\ \/ /\ Reached(c)
           /\ Goto(t, [c EXCEPT !.got = {decode_metadata}, !.node = NoNode, !.at = 0, !.then = "send",
                                !.pc = IF @ = "ask_all" THEN "store" ELSE "merge"])
           /\ UNCHANGED <<slots, used>>
        \/ NoAnswer(t)
     /\ UNCHANGED <<world, snapshot, addresses, coordinators, sockets>>

(* The snapshot to merge into is read; another may be stored before the      *)
(* merged one is.                                                            *)
Merge(t) ==
  /\ At(t, "merge")
  /\ Goto(t, [task[t] EXCEPT !.got = {with_topics_merged(snapshot, Sole(@))}, !.pc = "store"])
  /\ UNCHANGED <<world, shared, used>>

Store(t) ==
  /\ At(t, "store")
  /\ install(Sole(task[t].got))
  /\ Goto(t, IF task[t].next = "resolved" THEN Resolved(task[t]) ELSE GoOn(task[t]))
  /\ UNCHANGED <<world, coordinators, used>>

(* spawn_refresh_task *)
Tick ==
  /\ At(Background, "idle")
  /\ Goto(Background, refresh(Idle, "ask_all", "idle"))
  /\ UNCHANGED <<world, shared, used>>

-----------------------------------------------------------------------------
(* coordinator, coordinator_once *)

(* The cache is flushed whole when it is full. *)
cache_coordinator(map, key, node) ==
  (key :> node) @@
  (IF Cardinality(DOMAIN map) >= COORDINATOR_CACHE_CAP /\ key \notin DOMAIN map THEN <<>> ELSE map)

(* FindCoordinator.  A coordinator that is not available is waited for by    *)
(* time, not by attempts.                                                    *)
invalidate_coordinator(key) ==
  coordinators' = [k \in DOMAIN coordinators \ {key} |-> coordinators[k]]

Find(t) ==
  LET c == task[t]
      moved == [c EXCEPT !.finds = 1, !.result = "moved"]
  IN /\ At(t, "find")
     /\ \/ /\ Reached(c) /\ world.coordinator # NoNode
           /\ Goto(t, [c EXCEPT !.finds = 1, !.at = 0, !.then = "send", !.node = world.coordinator,
                                !.pc = "found"])
           /\ UNCHANGED <<slots, used, coordinators>>
        \/ /\ Reached(c) /\ world.coordinator = NoNode /\ needs_coordinator_refresh(moved.result)
           /\ invalidate_coordinator(Key)
           /\ Goto(t, IF c.reasks < MaxReasks THEN Again([moved EXCEPT !.reasks = @ + 1]) ELSE Done(moved))
           /\ UNCHANGED <<slots, used>>
        \/ NoAnswer(t) /\ UNCHANGED coordinators
     /\ UNCHANGED <<world, snapshot, addresses, sockets>>

Found(t) ==
  /\ At(t, "found")
  /\ coordinators' = cache_coordinator(coordinators, Key, task[t].node)
  /\ Goto(t, [task[t] EXCEPT !.pc = "get"])
  /\ UNCHANGED <<world, snapshot, addresses, slots, sockets, used>>

-----------------------------------------------------------------------------
(* The pool: get and connect. *)

(* The broker a call is meant for. *)
Owner(target) ==
  CASE target = "leader" -> world.leader [] target = "controller" -> world.controller
    [] target = "coordinator" -> world.coordinator [] OTHER -> NoNode

(* An address any() would try is one that a node is at. *)
InTouch ==
  \/ \E n \in Bootstrap : world.at[n] = 1
  \/ \E n \in DOMAIN addresses : world.at[n] # 0 /\ world.at[n] \in {addresses[n], slots[n].conn}

(* What the retries of a call do not repair: the address of a leader that is *)
(* not current (a targeted refresh keeps the brokers of the snapshot it      *)
(* merges into); a dead node that the caller named, or that the cache names, *)
(* which only an answer clears.                                              *)
OutOfReach(c) ==
  \/ /\ c.target = "leader" /\ c.node \in Alive
     /\ c.node \notin DOMAIN addresses \/ addresses[c.node] # world.at[c.node]
  \/ c.target \in {"coordinator", "node"} /\ c.node \notin Alive

Locked_Never(n) == FALSE

(* The slot's own mutex is held for the length of a dial. *)
Locked(n) == slots[n].holder # {}

(* connect, for the address of a node: the slot's connection, unless it is   *)
(* closed, or a dial, unless an earlier one failed a moment ago.             *)
Connect(t, c, n, address, refused) ==
  /\ ~Locked(n)
  /\ \/ /\ slots[n].conn # 0
        /\ Goto(t, [c EXCEPT !.node = n, !.at = slots[n].conn, !.known = <<>>, !.pc = c.then])
        /\ UNCHANGED slots
     \/ /\ slots[n].conn = 0 /\ slots[n].backoff
        /\ Goto(t, refused) /\ UNCHANGED slots
     \/ /\ slots[n].conn = 0 /\ ~slots[n].backoff
        /\ slots' = [slots EXCEPT ![n].holder = {t}]
        /\ Goto(t, [c EXCEPT !.node = n, !.got = {address}, !.pc = "dial"])

Get(t) ==
  LET c == [task[t] EXCEPT !.calm = IF @ = "calm" /\ OutOfReach(task[t]) THEN "out" ELSE @]
      n == c.node
  IN /\ At(t, "get")
     /\ \/ /\ n \notin DOMAIN addresses
           /\ Goto(t, OnError(c, "stale")) /\ UNCHANGED slots
        \/ /\ n \in DOMAIN addresses
           /\ Connect(t, c, n, addresses[n], [OnError(c, "closed") EXCEPT !.calm = "no"])
     /\ UNCHANGED <<world, snapshot, addresses, coordinators, sockets, used>>

(* any: the known nodes one after the other, and then the bootstrap          *)
(* addresses, which have slots of their own; a bootstrap address that its    *)
(* node left stays empty.                                                    *)
Without(c, n) == [c EXCEPT !.node = NoNode, !.got = {}, !.known = [m \in DOMAIN @ \ {n} |-> @[m]], !.pc = "any"]
Reach(t) ==
  LET c == task[t]
      there == {n \in Bootstrap : world.at[n] = 1}
  IN /\ At(t, "any")
     /\ \/ \E n \in DOMAIN c.known : Connect(t, c, n, c.known[n], Without(c, n))
        \/ /\ DOMAIN c.known = {} /\ UNCHANGED slots
           /\ \/ \E n \in there : Goto(t, [c EXCEPT !.node = n, !.at = 1, !.pc = c.then])
              \/ /\ there = {}
                 /\ Goto(t, Broken([c EXCEPT !.calm = IF @ = "calm" /\ ~InTouch THEN "out" ELSE @], "closed"))
     /\ UNCHANGED <<world, snapshot, addresses, coordinators, sockets, used>>

(* connect: what a dial does to its slot, unless the slot was dropped.       *)
Dialled(n, t, slot) == IF slots[n].holder = {t} THEN [slots EXCEPT ![n] = slot] ELSE slots

Dial(t) ==
  LET c == task[t]
      n == c.node
      up == Sole(c.got) = world.at[n]
  IN /\ At(t, "dial")
     /\ \/ /\ up
           /\ slots' = Dialled(n, t, [conn |-> world.at[n], backoff |-> FALSE, holder |-> {}])
           /\ sockets' = [sockets EXCEPT ![n].open = @ + 1]
           /\ Goto(t, [c EXCEPT !.got = {}, !.at = world.at[n], !.known = <<>>, !.pc = c.then])
        \/ /\ ~up
           /\ slots' = Dialled(n, t, [conn |-> 0, backoff |-> TRUE, holder |-> {}])
           /\ Goto(t, IF n \in DOMAIN c.known THEN Without(c, n) ELSE OnError(c, "closed"))
           /\ UNCHANGED sockets
     /\ UNCHANGED <<world, snapshot, addresses, coordinators, used>>

BackoffEnds(n) ==
  /\ slots[n].backoff /\ ~Locked(n)
  /\ slots' = [slots EXCEPT ![n].backoff = FALSE]
  /\ UNCHANGED <<world, snapshot, addresses, coordinators, task, sockets, used>>

(* The pool's connection closes when its node goes.                          *)
ConnectionCloses(n) ==
  /\ slots[n].conn # 0 /\ slots[n].conn # world.at[n] /\ ~Locked(n)
  /\ slots' = [slots EXCEPT ![n].conn = 0]
  /\ UNCHANGED <<world, snapshot, addresses, coordinators, task, sockets, used>>

(* evict, or a stream that breaks: for those who send over it, too. *)
evict(n) ==
  /\ slots[n].conn # 0 /\ ~Locked(n) /\ Use("lost", MaxLost)
  /\ slots' = [slots EXCEPT ![n].conn = 0]
  /\ sockets' = [sockets EXCEPT ![n].open = IF slots[n].conn = world.at[n] THEN @ - 1 ELSE @]
  /\ task' = [t \in Tasks |-> IF task[t].node = n /\ task[t].at = slots[n].conn
                               THEN [task[t] EXCEPT !.at = 0, !.calm = IF t = Background THEN @ ELSE "no"] ELSE task[t]]
  /\ UNCHANGED <<world, snapshot, addresses, coordinators>>

-----------------------------------------------------------------------------
(* attempt, dispatch *)

(* reask: as long as the budget lasts. *)
reask(c) == c.reasks < MaxReasks

(* A broker that is not the one to ask says so inside its answer.            *)
(* send_retrying_until and its like in the crates above drop the cache the   *)
(* answer proves stale and ask again; when the budget is spent the answer    *)
(* stands as it is.                                                          *)
Send(t) ==
  LET c == task[t]
      right == c.target \in {"any", "node"} \/ c.node = Owner(c.target)
      again == [c EXCEPT !.reasks = @ + 1, !.attempt = 1]
  IN /\ At(t, "send")
     /\ \/ /\ Reached(c)
           /\ IF right THEN Goto(t, Done([c EXCEPT !.result = "ok"])) /\ UNCHANGED coordinators
              ELSE IF ~reask(c) THEN Goto(t, Done([c EXCEPT !.result = "wrong"])) /\ UNCHANGED coordinators
              ELSE IF c.target = "coordinator" THEN Goto(t, Again(again)) /\ invalidate_coordinator(Key)
              ELSE Goto(t, refresh(again, "ask_all", "resolve")) /\ UNCHANGED coordinators
           /\ UNCHANGED <<slots, used>>
        \/ NoAnswer(t) /\ UNCHANGED coordinators
     /\ UNCHANGED <<world, snapshot, addresses, sockets>>

(* invalidate: the consumer and the producer throw the whole view away.      *)
invalidate ==
  /\ Use("lost", MaxLost)
  /\ coordinators' = <<>> /\ install(Empty)
  /\ UNCHANGED <<world, task>>

-----------------------------------------------------------------------------
(* The cluster, external. *)
Disturbed(calls) == [t \in Tasks |-> IF t = Background \/ calls[t].pc \in {"idle", "done"} THEN calls[t]
                                     ELSE [calls[t] EXCEPT !.calm = "no"]]

Crash(n) ==
  /\ n \in Alive /\ Cardinality(Alive) > 1 /\ Use("moves", MaxMoves)
  /\ LET off(role) == IF role = n THEN NoNode ELSE role
     IN world' = [world EXCEPT !.at[n] = 0, !.leader = off(@), !.controller = off(@),
                               !.coordinator = off(@)]
  /\ sockets' = [sockets EXCEPT ![n] = [open |-> 0, dropped |-> 0]]
  /\ task' = Disturbed(task)
  /\ UNCHANGED <<snapshot, addresses, slots, coordinators>>

(* A node comes up, or comes back at once under another address. *)
Start(n) ==
  /\ Use("moves", MaxMoves)
  /\ world' = [world EXCEPT !.at[n] = 2 + used.moves] /\ task' = Disturbed(task)
  /\ sockets' = [sockets EXCEPT ![n] = [open |-> 0, dropped |-> 0]]
  /\ UNCHANGED <<snapshot, addresses, slots, coordinators>>

(* The cluster hands every role that a node lost, or one of them, to a node. *)
Elect ==
  /\ NoNode \in {world.leader, world.controller, world.coordinator}
  /\ \E n \in Alive :
       LET on(role) == IF role = NoNode THEN n ELSE role
       IN world' = [world EXCEPT !.leader = on(@), !.controller = on(@), !.coordinator = on(@)]
  /\ task' = Disturbed(task) /\ UNCHANGED <<shared, used>>

MoveRole ==
  /\ Use("moves", MaxMoves)
  /\ \E n \in Alive : \/ n # world.leader /\ world' = [world EXCEPT !.leader = n]
                      \/ n # world.coordinator /\ world' = [world EXCEPT !.coordinator = n]
  /\ task' = Disturbed(task) /\ UNCHANGED shared

-----------------------------------------------------------------------------
(* connect: the first refresh has been installed, and the cache in use. *)
ClusterInit ==
  \E up \in SUBSET Nodes :
    /\ FirstLeader \in up
    /\ world = [at |-> [m \in Nodes |-> IF m \in up THEN 1 ELSE 0], leader |-> FirstLeader,
                controller |-> FirstLeader, coordinator |-> FirstLeader]
    /\ snapshot = decode_metadata
    /\ addresses = [m \in up |-> 1]
    /\ slots = [m \in Nodes |-> FreshSlot]
    /\ coordinators = (Cached :> FirstLeader)
    /\ task = [t \in Tasks |-> Idle]
    /\ sockets = [m \in Nodes |-> [open |-> 0, dropped |-> 0]]
    /\ used = [moves |-> 0, lost |-> 0]

TaskStep(t) ==
  \/ Resolve(t) \/ Failed(t) \/ Ask(t) \/ Merge(t) \/ Store(t) \/ Find(t) \/ Found(t)
  \/ Get(t) \/ Reach(t) \/ Dial(t) \/ Send(t)
NodeStep(n) == BackoffEnds(n) \/ ConnectionCloses(n)

ClusterNext ==
  \/ \E t \in Callers : BeginCall(t)
  \/ \E t \in Tasks : TaskStep(t)
  \/ Tick \/ invalidate \/ Elect \/ MoveRole
  \/ \E n \in Nodes : NodeStep(n) \/ evict(n) \/ Crash(n) \/ Start(n)

(* Tasks run, timers fire, the refresh comes round, and elections end.  The  *)
(* mutex of a slot is tokio's, which serves those who wait in their order.   *)
ClusterSpecification ==
  /\ ClusterInit /\ [][ClusterNext]_clusterVars
  /\ \A t \in Tasks : WF_clusterVars(TaskStep(t)) /\ SF_clusterVars(Get(t) \/ Reach(t))
  /\ WF_clusterVars(Tick) /\ WF_clusterVars(Elect)
  /\ \A n \in Nodes : WF_clusterVars(NodeStep(n))

-----------------------------------------------------------------------------
(* Callers that want the same broker at the same time open one socket (the   *)
(* module comment of pool.rs), except that a slot dropped with its node from *)
(* the metadata, while in use or being dialled, leaves its socket behind.    *)
OneSocket == \A n \in Nodes : sockets[n].open <= 1 + sockets[n].dropped

(* A call that ran while the cluster was quiet is answered by the broker it  *)
(* was meant for, however stale the view it began with and whatever older    *)
(* answers other tasks install meanwhile: each failure repairs the view the  *)
(* next attempt uses.  Excepted are calls refused by the backoff of the slot *)
(* they asked for, that met what OutOfReach describes, or that found nobody  *)
(* at any address the client knows.                                          *)
Lands == \A t \in Callers : At(t, "done") /\ task[t].calm = "calm" => task[t].result = "ok"

(* When the cluster comes to rest every call has returned, and the snapshot  *)
(* and the addresses are those of the cluster, for good: an old answer that  *)
(* was installed over a newer one does not stay.  A client that is left with *)
(* nothing but addresses nobody is at, its bootstrap addresses included,     *)
(* cannot learn better ones.                                                 *)
ComesToRest ==
  <>[](/\ \A t \in Callers : task[t].pc \in {"idle", "done"}
       /\ InTouch => snapshot = decode_metadata /\ addresses = decode_metadata.brokers)
=============================================================================

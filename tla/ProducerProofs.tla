--------------------------- MODULE ProducerProofs ---------------------------
(***************************************************************************)
(* What the producer guarantees for every set of partitions and records,   *)
(* every configuration and every pattern of faults: at most one batch per  *)
(* partition on the wire (InFlightRule), a flush that covers what was      *)
(* accepted before it (FlushRule), a record accepted is always somewhere   *)
(* or settled (NoneLost), and with an idempotent producer no record twice  *)
(* in a log (WrittenOnce). With no two partitions of one index, by which   *)
(* answers are read, and without idempotence: a failure means not written  *)
(* (FailureIsCertain), an acknowledgement names the record's offset        *)
(* (AckIsCertain), and records are acknowledged at offsets in the order in *)
(* which they were accepted (AcksKeepOrder).                               *)
(* The permits and the sequence numbers are in ProducerAccountProofs.      *)
(***************************************************************************)
EXTENDS Producer, FiniteSetTheorems, WellFoundedInduction, TLAPS

(* The fields the proof reads exist, and what is responsible for partitions *)
(* is responsible for partitions of the producer.                           *)
Fields == {"open", "pending", "inflight", "next", "identity"}

TaskFields == {"batch", "live", "res", "attempt"}

Shape ==
  /\ DOMAIN actor = Fields
  /\ \A t \in tasks : DOMAIN t = TaskFields

(* The inductive invariant. *)
InFlightInv == Shape /\ OneBatchPerPartition

-----------------------------------------------------------------------------
(* What the steps of a turn do to in_flight. *)

(* Closing batches leaves in_flight alone (close_expired, close_all). *)
LEMMA CloseKeepsInFlight ==
  ASSUME NEW A, NEW S, DOMAIN A = Fields
  PROVE  DOMAIN Close(A, S) = Fields /\ Close(A, S).inflight = A.inflight
BY DEF Close, Fields

(* Appending a record, and the closing it may cause, leaves in_flight      *)
(* alone (Actor::append).                                                  *)
LEMMA AppendKeepsInFlight ==
  ASSUME NEW A, NEW r, DOMAIN A = Fields
  PROVE  DOMAIN append(A, r) = Fields /\ append(A, r).inflight = A.inflight
<1> DEFINE p == PartitionOf[r]
           wouldBe == Bytes(A.open[p]) + Size[r]
           overflow == A.open[p] # <<>> /\ (wouldBe > BatchSize \/ wouldBe > MaxRequest)
           B == IF overflow THEN Close(A, {p}) ELSE A
           C == [B EXCEPT !.open[p] = Append(@, r)]
<1>1. DOMAIN B = Fields /\ B.inflight = A.inflight BY CloseKeepsInFlight
<1> HIDE DEF B
<1>2. DOMAIN C = Fields /\ C.inflight = A.inflight BY <1>1 DEF Fields
<1>3. append(A, r) = IF Bytes(C.open[p]) >= BatchSize THEN Close(C, {p}) ELSE C BY DEF append, B
<1> HIDE DEF C
<1> QED BY <1>2, <1>3, CloseKeepsInFlight

(* Expiring records, open or pending, leaves in_flight alone               *)
(* (expire_overdue).                                                       *)
LEMMA ExpireKeepsInFlight ==
  ASSUME NEW A, NEW k, DOMAIN A = Fields
  PROVE  /\ DOMAIN expire_overdue(A, k) = Fields
         /\ expire_overdue(A, k).inflight = A.inflight
<1> DEFINE B == ExpireKeepingEmpty(A, k)
<1>1. DOMAIN B = Fields /\ B.inflight = A.inflight BY DEF ExpireKeepingEmpty, Fields
<1> HIDE DEF B
<1> DEFINE left(p) == {i \in DOMAIN B.pending[p] : B.pending[p][i] # <<>>}
           C == [B EXCEPT !.pending = [p \in Partitions |-> Retain(B.pending[p], left(p))]]
<1>2. expire_overdue(A, k) = A \/ expire_overdue(A, k) = C BY DEF expire_overdue, B
<1>3. DOMAIN C = Fields /\ C.inflight = A.inflight BY <1>1 DEF Fields
<1> HIDE DEF C
<1> QED BY <1>2, <1>3

(* Failing what is buffered leaves in_flight alone (fail_buffered). *)
LEMMA FailBufferedKeepsInFlight ==
  ASSUME NEW A, DOMAIN A = Fields
  PROVE  DOMAIN fail_buffered(A) = Fields /\ fail_buffered(A).inflight = A.inflight
BY DEF fail_buffered, Fields

(* Settling a completion clears in_flight for its partitions and no other  *)
(* (Actor::settle).                                                        *)
LEMMA SettleClearsInFlight ==
  ASSUME NEW A, NEW c, DOMAIN A = Fields
  PROVE  /\ DOMAIN settle(A, c) = Fields
         /\ settle(A, c).inflight = A.inflight \ c.parts
BY DEF settle, Fields

(* Dispatching sets in_flight for the ready partitions, none of which had  *)
(* it set (dispatch_ready).                                                *)
LEMMA DispatchSetsInFlight ==
  ASSUME NEW A, DOMAIN A = Fields
  PROVE  /\ DOMAIN dispatch_ready(A) = Fields
         /\ Ready(A) \cap A.inflight = {}
         /\ dispatch_ready(A).inflight = A.inflight \cup Ready(A)
<1>1. Ready(A) \cap A.inflight = {} BY DEF Ready
<1>2. /\ DOMAIN dispatch_ready(A) = Fields
      /\ dispatch_ready(A).inflight = A.inflight \cup Ready(A)
  BY DEF dispatch_ready, Fields
<1> QED BY <1>1, <1>2

-----------------------------------------------------------------------------
(* Responsibility for partitions, apart from the state it is read from: T   *)
(* is a set of tasks, C a set of completions, I the partitions in flight.   *)

Exclusive(T, C, I) ==
  /\ \A t, u \in T : t # u => DOMAIN t.batch \cap DOMAIN u.batch = {}
  /\ \A c, d \in C : c # d => c.parts \cap d.parts = {}
  /\ \A t \in T, c \in C : DOMAIN t.batch \cap c.parts = {}
  /\ \A p : p \in I <=> \/ \E t \in T : p \in DOMAIN t.batch
                       \/ \E c \in C : p \in c.parts

(* The partitions in flight, as a union of sets and pointwise. *)
LEMMA ExclusiveUnion ==
  ASSUME NEW T, NEW C, NEW I
  PROVE  I = (UNION {DOMAIN t.batch : t \in T}) \cup (UNION {c.parts : c \in C})
         <=> \A p : p \in I <=> \/ \E t \in T : p \in DOMAIN t.batch
                              \/ \E c \in C : p \in c.parts
<1> DEFINE V == UNION {DOMAIN t.batch : t \in T}
           W == UNION {c.parts : c \in C}
<1>1. \A p : p \in V <=> \E t \in T : p \in DOMAIN t.batch BY Zenon
<1>2. \A p : p \in W <=> \E c \in C : p \in c.parts BY Zenon
<1> HIDE DEF V, W
<1>3. I = V \cup W <=> \A p : p \in I <=> p \in V \/ p \in W OBVIOUS
<1> QED BY <1>1, <1>2, <1>3 DEF V, W

(* OneBatchPerPartition says that tasks, completions and in_flight are     *)
(* exclusive, before a step and after it.                                  *)
LEMMA ExclusiveIsProperty ==
  /\ OneBatchPerPartition <=> Exclusive(tasks, completions, actor.inflight)
  /\ OneBatchPerPartition' <=> Exclusive(tasks', completions', actor'.inflight)
<1> DEFINE U(T, C) == (UNION {DOMAIN t.batch : t \in T}) \cup (UNION {c.parts : c \in C})
           Apart(T, C) ==
             /\ \A t, u \in T : t # u => DOMAIN t.batch \cap DOMAIN u.batch = {}
             /\ \A c, d \in C : c # d => c.parts \cap d.parts = {}
             /\ \A t \in T, c \in C : DOMAIN t.batch \cap c.parts = {}
<1>1. ASSUME NEW T, NEW C, NEW I
      PROVE  Exclusive(T, C, I) <=> Apart(T, C) /\ I = U(T, C)
  <2>1. I = U(T, C) <=> \A p : p \in I <=> \/ \E t \in T : p \in DOMAIN t.batch
                                         \/ \E c \in C : p \in c.parts
    BY ExclusiveUnion
  <2>2. Exclusive(T, C, I) <=>
          /\ Apart(T, C)
          /\ \A p : p \in I <=> \/ \E t \in T : p \in DOMAIN t.batch
                               \/ \E c \in C : p \in c.parts
    BY Zenon DEF Exclusive
  <2> QED BY Zenon, <2>1, <2>2
<1>2. OneBatchPerPartition <=>
        Apart(tasks, completions) /\ actor.inflight = U(tasks, completions)
  BY Zenon DEF OneBatchPerPartition
<1>3. OneBatchPerPartition' <=>
        Apart(tasks', completions') /\ actor'.inflight = U(tasks', completions')
  BY Zenon DEF OneBatchPerPartition
<1> HIDE DEF U, Apart
<1> QED BY <1>1, <1>2, <1>3

(* Tasks started for partitions that were not in flight keep               *)
(* responsibility exclusive.                                               *)
LEMMA StartTasks ==
  ASSUME NEW T, NEW C, NEW I, NEW S, NEW R,
         Exclusive(T, C, I), R \cap I = {},
         \A t, u \in S : t # u => DOMAIN t.batch \cap DOMAIN u.batch = {},
         \A p : p \in R <=> \E t \in S : p \in DOMAIN t.batch
  PROVE  Exclusive(T \cup S, C, I \cup R)
<1>1. \A t \in S : DOMAIN t.batch \subseteq R OBVIOUS
<1>2. \A t \in T : DOMAIN t.batch \subseteq I BY DEF Exclusive
<1>3. \A c \in C : c.parts \subseteq I BY DEF Exclusive
<1>4. \A t, u \in T \cup S : t # u => DOMAIN t.batch \cap DOMAIN u.batch = {} BY <1>1, <1>2 DEF Exclusive
<1>5. \A t \in T \cup S, c \in C : DOMAIN t.batch \cap c.parts = {} BY <1>1, <1>3 DEF Exclusive
<1>6. \A p : p \in I \cup R <=> \/ \E t \in T \cup S : p \in DOMAIN t.batch
                              \/ \E c \in C : p \in c.parts
  BY DEF Exclusive
<1> QED BY <1>4, <1>5, <1>6 DEF Exclusive

(* A task that changes but keeps its partitions keeps responsibility       *)
(* exclusive.                                                              *)
LEMMA ChangeTask ==
  ASSUME NEW T, NEW C, NEW I, NEW t \in T, NEW u,
         Exclusive(T, C, I), DOMAIN u.batch = DOMAIN t.batch
  PROVE  Exclusive((T \ {t}) \cup {u}, C, I)
<1> DEFINE N == (T \ {t}) \cup {u}
<1>1. \A v \in T \ {t} : DOMAIN v.batch \cap DOMAIN u.batch = {} BY DEF Exclusive
<1>2. \A v, w \in N : v # w => DOMAIN v.batch \cap DOMAIN w.batch = {} BY <1>1 DEF Exclusive
<1>3. \A v \in N, c \in C : DOMAIN v.batch \cap c.parts = {} BY DEF Exclusive
<1>4. \A p : (\E v \in N : p \in DOMAIN v.batch) <=> (\E v \in T : p \in DOMAIN v.batch) OBVIOUS
<1> QED BY <1>2, <1>3, <1>4 DEF Exclusive

(* A task that hands its partitions to a completion keeps responsibility   *)
(* exclusive.                                                              *)
LEMMA FinishTask ==
  ASSUME NEW T, NEW C, NEW I, NEW t \in T, NEW c,
         Exclusive(T, C, I), c.parts = DOMAIN t.batch
  PROVE  Exclusive(T \ {t}, C \cup {c}, I)
<1> DEFINE N == T \ {t}  D == C \cup {c}
<1>1. \A v, w \in N : v # w => DOMAIN v.batch \cap DOMAIN w.batch = {} BY DEF Exclusive
<1>2. \A d, e \in D : d # e => d.parts \cap e.parts = {} BY DEF Exclusive
<1>3. \A v \in N, d \in D : DOMAIN v.batch \cap d.parts = {} BY DEF Exclusive
<1>4. \A p : p \in I <=> \/ \E v \in N : p \in DOMAIN v.batch
                        \/ \E d \in D : p \in d.parts
  BY DEF Exclusive
<1> QED BY <1>1, <1>2, <1>3, <1>4 DEF Exclusive

(* A completion that is settled takes its partitions out of flight. *)
LEMMA SettleCompletion ==
  ASSUME NEW T, NEW C, NEW I, NEW c \in C, Exclusive(T, C, I)
  PROVE  Exclusive(T, C \ {c}, I \ c.parts)
<1>1. \A p : p \in I \ c.parts <=> \/ \E t \in T : p \in DOMAIN t.batch
                                 \/ \E d \in C \ {c} : p \in d.parts
  BY DEF Exclusive
<1> QED BY <1>1 DEF Exclusive

(* The tasks one dispatch spawns, one per leader, share out the ready      *)
(* partitions (dispatch_ready).                                            *)
LEMMA SpawnedShareReady ==
  ASSUME NEW A, NEW leader
  PROVE  /\ \A t \in Spawned(A, leader) : DOMAIN t = TaskFields
         /\ \A t, u \in Spawned(A, leader) :
              t # u => DOMAIN t.batch \cap DOMAIN u.batch = {}
         /\ \A p : p \in Ready(A) <=>
                    \E t \in Spawned(A, leader) : p \in DOMAIN t.batch
<1> DEFINE R == Ready(A)
           Group(p) == {q \in R : leader[q] = leader[p]}
           Groups == {Group(p) : p \in R}
           Task(G) == [batch   |-> [p \in G |-> Stamped(A, p)],
                       live    |-> G,
                       res     |-> [p \in G |-> Due],
                       attempt |-> 0]
<1>1. Spawned(A, leader) = {Task(G) : G \in Groups} BY DEF Spawned
<1>2. \A G : DOMAIN Task(G) = TaskFields /\ DOMAIN Task(G).batch = G BY DEF TaskFields
<1>3. \A G, H \in Groups : G # H => G \cap H = {} OBVIOUS
<1>4. \A p : p \in R <=> \E G \in Groups : p \in G
  <2>1. \A p \in R : p \in Group(p) /\ Group(p) \in Groups OBVIOUS
  <2>2. \A G \in Groups : G \subseteq R OBVIOUS
  <2> HIDE DEF Group, Groups
  <2> QED BY <2>1, <2>2
<1> HIDE DEF Task, Groups
<1> QED BY <1>1, <1>2, <1>3, <1>4

-----------------------------------------------------------------------------
(* The steps of the producer. *)

(* The second half of a turn, from the identity to the dispatch, preserves *)
(* the invariant (Actor::run).                                             *)
LEMMA ProceedKeepsInv ==
  ASSUME NEW A, NEW F, NEW C,
         DOMAIN A = Fields,
         \A t \in tasks : DOMAIN t = TaskFields,
         Exclusive(tasks, completions', A.inflight),
         Proceed(A, F, C)
  PROVE  InFlightInv'
<1>1. PICK leader \in [Ready(A) -> Leaders] :
        /\ actor' = dispatch_ready(A)
        /\ tasks' = tasks \cup Spawned(A, leader)
  BY DEF Proceed
<1>2. Shape' BY <1>1, DispatchSetsInFlight, SpawnedShareReady DEF Shape
<1>3. Exclusive(tasks', completions', actor'.inflight)
  <2>1. /\ Ready(A) \cap A.inflight = {}
        /\ actor'.inflight = A.inflight \cup Ready(A)
    BY <1>1, DispatchSetsInFlight
  <2>2. Exclusive(tasks \cup Spawned(A, leader), completions', A.inflight \cup Ready(A))
    <3> DEFINE S == Spawned(A, leader)
    <3>1. /\ \A t, u \in S : t # u => DOMAIN t.batch \cap DOMAIN u.batch = {}
          /\ \A p : p \in Ready(A) <=> \E t \in S : p \in DOMAIN t.batch
      BY SpawnedShareReady
    <3> HIDE DEF S
    <3>2. Exclusive(tasks \cup S, completions', A.inflight \cup Ready(A)) BY <2>1, <3>1, StartTasks
    <3> QED BY <3>2 DEF S
  <2> QED BY <1>1, <2>1, <2>2
<1> QED BY <1>2, <1>3, ExclusiveIsProperty DEF InFlightInv

(* A turn of the actor preserves the invariant, whichever way it goes on   *)
(* (Actor::run).                                                           *)
LEMMA TurnKeepsInv ==
  ASSUME NEW A, NEW F, NEW C,
         DOMAIN A = Fields,
         \A t \in tasks : DOMAIN t = TaskFields,
         Exclusive(tasks, completions', A.inflight),
         Turn(A, F, C)
  PROVE  InFlightInv'
<1> DEFINE B == expire_overdue(A, overdue)
<1>1. DOMAIN B = Fields /\ B.inflight = A.inflight BY ExpireKeepsInFlight
<1>2. \/ actor' = B /\ tasks' = tasks
      \/ Proceed(B, F, C)
  BY DEF Turn
<1> HIDE DEF B
<1>3. CASE actor' = B /\ tasks' = tasks BY <1>1, <1>3, ExclusiveIsProperty DEF InFlightInv, Shape
<1>4. CASE Proceed(B, F, C) BY <1>1, <1>4, ProceedKeepsInv
<1> QED BY <1>2, <1>3, <1>4

(* Every action of the actor preserves the invariant. *)
LEMMA ActorKeepsInv ==
  ASSUME InFlightInv, ActorNext
  PROVE  InFlightInv'
<1> USE DEF InFlightInv
<1>0. /\ DOMAIN actor = Fields
      /\ \A t \in tasks : DOMAIN t = TaskFields
      /\ Exclusive(tasks, completions, actor.inflight)
  BY ExclusiveIsProperty DEF Shape
<1>1. CASE HandleAppend BY <1>0, <1>1, AppendKeepsInFlight, TurnKeepsInv DEF HandleAppend
<1>2. CASE HandleFlush BY <1>0, <1>2, CloseKeepsInFlight, TurnKeepsInv DEF HandleFlush, close_all
<1>3. CASE HandleClosed BY <1>0, <1>3, CloseKeepsInFlight, TurnKeepsInv DEF HandleClosed, close_all
<1>4. ASSUME NEW c \in completions, HandleCompleted(c)
      PROVE  InFlightInv'
  <2>1. completions' = completions \ {c} /\ Turn(settle(actor, c), flush, closing) BY <1>4 DEF HandleCompleted
  <2>2. Exclusive(tasks, completions', actor.inflight \ c.parts) BY <1>0, <2>1, SettleCompletion
  <2> QED BY <1>0, <2>1, <2>2, SettleClearsInFlight, TurnKeepsInv
<1>5. ASSUME NEW lingered \in SUBSET Partitions, Wake(lingered)
      PROVE  InFlightInv'
  BY <1>0, <1>5, CloseKeepsInFlight, TurnKeepsInv DEF Wake, close_expired
<1>6. CASE ClaimOk
  <2> DEFINE A == [actor EXCEPT !.identity = issued + 1]
  <2>1. DOMAIN A = Fields /\ A.inflight = actor.inflight BY <1>0 DEF Fields
  <2>2. completions' = completions /\ Proceed(A, flush, closing) BY <1>6 DEF ClaimOk
  <2> HIDE DEF A
  <2> QED BY <1>0, <2>1, <2>2, ProceedKeepsInv
<1>7. CASE ClaimRetriable BY <1>0, <1>7, ProceedKeepsInv DEF ClaimRetriable
<1>8. CASE ClaimTerminal BY <1>0, <1>8, FailBufferedKeepsInFlight, ProceedKeepsInv DEF ClaimTerminal
<1> QED BY <1>1, <1>2, <1>3, <1>4, <1>5, <1>6, <1>7, <1>8 DEF ActorNext

(* A task step that keeps the batch of the task preserves the invariant. *)
LEMMA ChangeKeepsInv ==
  ASSUME InFlightInv, NEW t \in tasks, NEW u,
         DOMAIN u = TaskFields, u.batch = t.batch,
         tasks' = (tasks \ {t}) \cup {u},
         completions' = completions, actor' = actor
  PROVE  InFlightInv'
<1>1. Exclusive(tasks, completions, actor.inflight) BY ExclusiveIsProperty DEF InFlightInv
<1>2. Exclusive(tasks', completions', actor'.inflight) BY <1>1, ChangeTask
<1>3. Shape' BY DEF InFlightInv, Shape
<1> QED BY <1>2, <1>3, ExclusiveIsProperty DEF InFlightInv

(* A task step that completes the task preserves the invariant. *)
LEMMA FinishKeepsInv ==
  ASSUME InFlightInv, NEW t \in tasks, NEW c, c.parts = DOMAIN t.batch,
         tasks' = tasks \ {t},
         completions' = completions \cup {c}, actor' = actor
  PROVE  InFlightInv'
<1>1. Exclusive(tasks, completions, actor.inflight) BY ExclusiveIsProperty DEF InFlightInv
<1>2. Exclusive(tasks', completions', actor'.inflight) BY <1>1, FinishTask
<1>3. Shape' BY DEF InFlightInv, Shape
<1> QED BY <1>2, <1>3, ExclusiveIsProperty DEF InFlightInv

(* Recording results for some partitions of a task preserves the invariant *)
(* (dispatch_group).                                                       *)
LEMMA WithResultsKeepsInv ==
  ASSUME InFlightInv, NEW t \in tasks, NEW G, NEW result,
         tasks' = WithResults(t, G, result),
         completions' = completions, actor' = actor
  PROVE  InFlightInv'
<1> DEFINE u == [t EXCEPT !.res = [p \in DOMAIN @ |->
                                     IF p \in G THEN result[p] ELSE @[p]]]
<1>1. DOMAIN u = TaskFields /\ u.batch = t.batch BY DEF InFlightInv, Shape, TaskFields
<1>2. tasks' = (tasks \ {t}) \cup {u} BY DEF WithResults
<1> HIDE DEF u
<1> QED BY <1>1, <1>2, ChangeKeepsInv

(* Encoding preserves the invariant: the batches it refuses stay with the  *)
(* task (encode).                                                          *)
LEMMA EncodeKeepsInv ==
  ASSUME InFlightInv, NEW t \in tasks, Encode(t)
  PROVE  InFlightInv'
<1> DEFINE bad == {p \in t.live : ToSet(t.batch[p].recs) \cap Unencodable # {}}
           u   == [t EXCEPT !.live = @ \ bad, !.attempt = 1,
                            !.res = [p \in DOMAIN @ |->
                               IF p \in bad
                               THEN [kind |-> "unencodable", err |-> "none", off |-> -1]
                               ELSE Due]]
<1>1. DOMAIN u = TaskFields /\ u.batch = t.batch BY DEF InFlightInv, Shape, TaskFields
<1>2. /\ tasks' = (tasks \ {t}) \cup (IF u.live = {} THEN {} ELSE {u})
      /\ completions' = IF u.live = {} THEN completions \cup {Completed(u)}
                                       ELSE completions
      /\ actor' = actor
  BY DEF Encode, actorVars
<1>3. Completed(u).parts = DOMAIN u.batch BY DEF Completed
<1> HIDE DEF u
<1>4. CASE u.live = {}
  <2>1. tasks' = tasks \ {t} /\ completions' = completions \cup {Completed(u)} BY <1>2, <1>4
  <2> QED BY <1>1, <1>2, <1>3, <2>1, FinishKeepsInv
<1>5. CASE u.live # {} BY <1>1, <1>2, <1>5, ChangeKeepsInv
<1> QED BY <1>4, <1>5

(* Judging an attempt preserves the invariant: the task retries or         *)
(* completes with all its partitions (dispatch).                           *)
LEMMA JudgeKeepsInv ==
  ASSUME InFlightInv, NEW t \in tasks, Judge(t)
  PROVE  InFlightInv'
<1> DEFINE again(retry) ==
             [t EXCEPT !.live = retry,
                       !.res = [p \in DOMAIN @ |->
                                  IF p \in retry THEN Due ELSE @[p]],
                       !.attempt = Min({@ + 1, MaxAttempts})]
<1>1. \A retry : DOMAIN again(retry) = TaskFields /\ again(retry).batch = t.batch
  BY DEF InFlightInv, Shape, TaskFields
<1>2. Completed(t).parts = DOMAIN t.batch BY DEF Completed
<1>3. /\ actor' = actor
      /\ \/ /\ \E retry : tasks' = (tasks \ {t}) \cup {again(retry)}
            /\ completions' = completions
         \/ tasks' = tasks \ {t} /\ completions' = completions \cup {Completed(t)}
  BY DEF Judge, actorVars
<1> HIDE DEF again
<1>4. CASE (\E retry : tasks' = (tasks \ {t}) \cup {again(retry)})
           /\ completions' = completions
  BY <1>1, <1>3, <1>4, ChangeKeepsInv
<1>5. CASE tasks' = tasks \ {t} /\ completions' = completions \cup {Completed(t)}
  BY <1>2, <1>3, <1>5, FinishKeepsInv
<1> QED BY <1>3, <1>4, <1>5

(* Every action of a send task preserves the invariant. *)
LEMMA TaskKeepsInv ==
  ASSUME InFlightInv, TaskNext
  PROVE  InFlightInv'
<1>1. PICK t \in tasks : TaskStep(t) BY DEF TaskNext
<1>2. CASE Encode(t) BY <1>2, EncodeKeepsInv
<1>3. CASE Judge(t) BY <1>3, JudgeKeepsInv
<1>4. ASSUME NEW G \in SUBSET t.live,
             RouteFails(t, G) \/ Respond(t, G) \/ LoseRequest(t, G)
      PROVE  InFlightInv'
  <2>1. /\ completions' = completions /\ actor' = actor
        /\ \E result : tasks' = WithResults(t, G, result)
    <3>1. CASE RouteFails(t, G) BY <3>1 DEF RouteFails, actorVars
    <3>2. CASE Respond(t, G) BY <3>2 DEF Respond, actorVars
    <3>3. CASE LoseRequest(t, G) BY <3>3 DEF LoseRequest, actorVars
    <3> QED BY <1>4, <3>1, <3>2, <3>3
  <2> QED BY <2>1, WithResultsKeepsInv
<1> QED BY <1>1, <1>2, <1>3, <1>4 DEF TaskStep

-----------------------------------------------------------------------------
(* The theorem. *)

(* The invariant holds when the producer starts. *)
LEMMA InitEstablishesInv == Init => InFlightInv
BY DEF Init, InFlightInv, Shape, OneBatchPerPartition, NewActor, Fields

(* The invariant is inductive. *)
LEMMA NextKeepsInv == InFlightInv /\ [Next]_vars => InFlightInv'
<1> SUFFICES ASSUME InFlightInv, [Next]_vars PROVE InFlightInv' OBVIOUS
<1> DEFINE Idle == /\ actor' = actor /\ tasks' = tasks /\ completions' = completions
<1>1. Idle => InFlightInv' BY DEF InFlightInv, Shape, OneBatchPerPartition
<1>2. CASE CallerNext
  <2>1. Idle
    BY <1>2 DEF CallerNext, Submit, AcquirePermit, DropHandles, PermitTimeout,
       Enqueue, CancelAppend, CallFlush, actorVars
  <2> QED BY <1>1, <2>1
<1>3. CASE ActorNext BY <1>3, ActorKeepsInv
<1>4. CASE TaskNext BY <1>4, TaskKeepsInv
<1>5. CASE ClusterNext
  <2>1. Idle BY <1>5 DEF ClusterNext, GhostArrives, Forget, actorVars
  <2> QED BY <1>1, <2>1
<1>6. CASE DeadlinePasses
  <2>1. Idle BY <1>6 DEF DeadlinePasses, actorVars
  <2> QED BY <1>1, <2>1
<1>7. CASE Stopped
  <2>1. Idle BY <1>7 DEF Stopped, vars, actorVars
  <2> QED BY <1>1, <2>1
<1>8. CASE UNCHANGED vars
  <2>1. Idle BY <1>8 DEF vars, actorVars
  <2> QED BY <1>1, <2>1
<1> QED BY <1>2, <1>3, <1>4, <1>5, <1>6, <1>7, <1>8 DEF Next

\* The accumulator's in-flight rule, "at most one batch per partition is on
\* the wire at a time", holds in every behaviour of the producer: whatever
\* fails, expires, is cancelled or is re-sent, a partition is the business of
\* at most one send task or unsettled completion, and in_flight says so.
THEOREM InFlightRule == Spec => []OneBatchPerPartition
<1>1. InFlightInv => OneBatchPerPartition BY DEF InFlightInv
<1> QED BY InitEstablishesInv, NextKeepsInv, <1>1, PTL DEF Spec

-----------------------------------------------------------------------------
(* Where the records are.                                                  *)

(* The buffer of a partition p is an open batch o and the closed batches q. *)
In(o, q, r) == r \in ToSet(o) \/ \E i \in DOMAIN q : r \in ToSet(q[i])

(* It holds records of that partition, none of them in two batches.        *)
BufferOK(o, q, p) ==
  /\ o \in Seq(Records) /\ q \in Seq(Seq(Records))
  /\ \A r \in Records : In(o, q, r) => PartitionOf[r] = p
  /\ \A i \in DOMAIN q : ToSet(q[i]) \cap ToSet(o) = {}
  /\ \A i, j \in DOMAIN q : i # j => ToSet(q[i]) \cap ToSet(q[j]) = {}

ActorOK(A) ==
  /\ DOMAIN A = Fields
  /\ DOMAIN A.open = Partitions /\ DOMAIN A.pending = Partitions
  /\ \A p \in Partitions : BufferOK(A.open[p], A.pending[p], p)

(* A batch of the partition p, as it is stamped.                           *)
BatchOK(b, p) ==
  /\ DOMAIN b = {"recs", "pid", "base"} /\ b.recs \in Seq(Records)
  /\ \A r \in ToSet(b.recs) : PartitionOf[r] = p

ResultKinds == {"due", "ack", "rejected", "ambiguous", "unencodable"}

TaskOK(t) ==
  /\ DOMAIN t = TaskFields
  /\ DOMAIN t.batch \subseteq Partitions /\ DOMAIN t.res = DOMAIN t.batch
  /\ t.live \subseteq DOMAIN t.batch
  /\ \A p \in DOMAIN t.batch : BatchOK(t.batch[p], p) /\ t.res[p].kind \in ResultKinds
  /\ \A p \in t.live : t.res[p].kind # "unencodable"
  /\ t.attempt \in Nat
  /\ t.attempt = 0 => t.live = DOMAIN t.batch /\ \A p \in DOMAIN t.batch : t.res[p] = Due

GhostOK(g) == DOMAIN g = {"part", "batch"} /\ g.part \in Partitions /\ BatchOK(g.batch, g.part)

EntryOK(e, p) ==
  /\ DOMAIN e = {"recs", "pid", "base", "off"} /\ e.recs \in Seq(Records) /\ e.off \in Nat
  /\ \A r \in ToSet(e.recs) : PartitionOf[r] = p

Listing(s) == s \in Seq({s[i] : i \in DOMAIN s})

LogsOK ==
  /\ DOMAIN log = Partitions
  /\ \A p \in Partitions : /\ Listing(log[p])
                           /\ \A i \in DOMAIN log[p] : EntryOK(log[p][i], p)

(* Records with a send task, on the wire, or in a log.                     *)
Tasked(r) == \E t \in tasks : \E p \in DOMAIN t.batch : r \in ToSet(t.batch[p].recs)
Ghostly(r) == \E g \in ghosts : r \in ToSet(g.batch.recs)
Written(r) == \E p \in Partitions : \E i \in DOMAIN log[p] : r \in ToSet(log[p][i].recs)
Away(r) == Tasked(r) \/ Ghostly(r) \/ Written(r)

(* Records in the command channel.                                         *)
InChannel(r) == \E i \in DOMAIN commands : commands[i] = AppendCommand(r)

Commands == {AppendCommand(r) : r \in Records} \cup {FlushCommand(f) : f \in Flushes}

Shapes ==
  /\ ActorOK(actor)
  /\ \A t \in tasks : TaskOK(t)
  /\ \A g \in ghosts : GhostOK(g)
  /\ LogsOK
  /\ outcome = [r \in Records |-> outcome[r]]

(* A record is handed over once: it waits, or holds a permit, or has been  *)
(* accepted.                                                               *)
HandedOver ==
  /\ submitted \in 0..NumRecords /\ overdue \in Nat
  /\ waiters \in Seq(Records) /\ accepted \in Seq(Records)
  /\ \A i, j \in DOMAIN waiters : waiters[i] = waiters[j] => i = j
  /\ ToSet(waiters) \cup holding \cup ToSet(accepted) \subseteq 1..submitted
  /\ ToSet(waiters) \cap holding = {}
  /\ ToSet(accepted) \cap (ToSet(waiters) \cup holding) = {}

(* And from then on it is in the channel once, or buffered, or away.       *)
Placed ==
  /\ commands \in Seq(Commands)
  /\ \A i, j \in DOMAIN commands :
       commands[i] = commands[j] /\ commands[i].type = "append" => i = j
  /\ \A r \in Records :
       /\ InChannel(r) \/ r \in Buffered(actor) \/ Away(r) => r \in ToSet(accepted)
       /\ ~(InChannel(r) /\ r \in Buffered(actor))
       /\ ~(InChannel(r) /\ Away(r))
       /\ ~(r \in Buffered(actor) /\ Away(r))

CustodyInv == InFlightInv /\ Shapes /\ HandedOver /\ Placed

-----------------------------------------------------------------------------
(* What a flush waits for.                                                 *)

(* In the hands of the actor or of a task, not resolved yet.               *)
InHand(r) == r \in Buffered(actor) \/ r \in OnTask

(* In the channel before its k-th command.                                 *)
Before(k, r) == \E i \in DOMAIN commands : i < k /\ commands[i] = AppendCommand(r)

(* What one flush call may rely on.                                        *)
Covered(f) ==
  /\ covers[f] \subseteq ToSet(accepted)
  /\ flush[f] = "idle" => \A k \in DOMAIN commands : commands[k] # FlushCommand(f)
  /\ \A k \in DOMAIN commands : commands[k] = FlushCommand(f) =>
       \A r \in covers[f] : outcome[r] = Pending => Before(k, r) \/ InHand(r)
  /\ flush[f] = "waiting" => \A r \in covers[f] : outcome[r] = Pending => InHand(r)
  /\ flush[f] = "done" => \A r \in covers[f] : outcome[r] # Pending

FlushInv ==
  /\ CustodyInv
  /\ flush \in [Flushes -> {"idle", "queued", "waiting", "done"}]
  /\ covers \in [Flushes -> SUBSET Records]
  /\ \A r \in ToSet(accepted) : outcome[r] = Pending => InChannel(r) \/ InHand(r)
  /\ \A f \in Flushes : Covered(f)

-----------------------------------------------------------------------------
(* Sequences.                                                              *)

(* What is retained of a sequence are the elements at the positions K,     *)
(* each once and in their order: f numbers the positions.                  *)
Picks(s, K, f) ==
  /\ f \in [1..Cardinality(K) -> K]
  /\ \A k \in 1..Cardinality(K) : Retain(s, K)[k] = s[f[k]]
  /\ \A k, l \in 1..Cardinality(K) : k < l => f[k] < f[l]
  /\ \A i \in K : \E k \in 1..Cardinality(K) : f[k] = i

LEMMA RetainPicks ==
  ASSUME NEW S, NEW s \in Seq(S), NEW K \in SUBSET DOMAIN s
  PROVE  Cardinality(K) \in Nat /\ \E f : Picks(s, K, f)
<1> DEFINE upto(i) == {j \in K : j <= i}
           rank == [i \in K |-> Cardinality(upto(i))]
           c == Cardinality(K)
<1>0. \A i \in K : i \in Nat OBVIOUS
<1>1. IsFiniteSet(K) /\ c \in Nat
  <2>1. Len(s) \in Nat /\ K \in SUBSET (1..Len(s)) /\ IsFiniteSet(1..Len(s)) BY FS_Interval
  <2>2. IsFiniteSet(K) BY <2>1, FS_Subset
  <2> QED BY <2>2, FS_CardinalityType
<1>2. ASSUME NEW i \in K
      PROVE  IsFiniteSet(upto(i)) /\ rank[i] \in 1..c
  <2>1. upto(i) \in SUBSET K /\ i \in upto(i) OBVIOUS
  <2>2. IsFiniteSet(upto(i)) /\ Cardinality(upto(i)) <= c /\ Cardinality(upto(i)) \in Nat
    BY <1>1, <2>1, FS_Subset, FS_CardinalityType
  <2>3. Cardinality(upto(i)) # 0 BY <2>1, <2>2, FS_EmptySet
  <2> QED BY <1>1, <2>2, <2>3
<1>3. ASSUME NEW i \in K, NEW j \in K, i < j
      PROVE  rank[i] < rank[j]
  <2>1. upto(i) \in SUBSET upto(j) /\ j \in upto(j) /\ j \notin upto(i)
    <3>1. \A k \in K : k <= i => k <= j BY <1>0, <1>3
    <3>2. j <= j /\ ~(j <= i) BY <1>0, <1>3
    <3> QED BY <3>1, <3>2
  <2> DEFINE x == upto(i)
             y == upto(j)
  <2>2. IsFiniteSet(y) /\ x # y /\ x \in SUBSET y /\ Cardinality(x) \in Nat /\ Cardinality(y) \in Nat
    BY <1>2, <2>1, FS_CardinalityType
  <2>3. rank[i] = Cardinality(x) /\ rank[j] = Cardinality(y) OBVIOUS
  <2> HIDE DEF x, y, rank
  <2>4. Cardinality(x) <= Cardinality(y) /\ Cardinality(x) # Cardinality(y) BY <2>2, FS_Subset
  <2> QED BY <2>2, <2>3, <2>4
<1>4. rank \in [K -> 1..c] BY <1>2
<1> DEFINE f == [k \in 1..c |-> CHOOSE i \in K : Cardinality({j \in K : j <= i}) = k]
<1>41. \A k \in 1..c : Retain(s, K)[k] = s[f[k]] BY DEF Retain
<1>42. \A k \in 1..c : (\E i \in K : rank[i] = k) => f[k] \in K /\ rank[f[k]] = k
  <2> SUFFICES ASSUME NEW k \in 1..c, NEW i \in K, Cardinality(upto(i)) = k
               PROVE  f[k] \in K /\ Cardinality(upto(f[k])) = k
    OBVIOUS
  <2> QED BY Zenon
<1> HIDE DEF rank, f
<1>5. rank \in Injection(K, 1..c) BY <1>3, <1>4 DEF Injection, IsInjective
<1>6. IsFiniteSet(1..c) /\ Cardinality(1..c) = c BY <1>1, FS_Interval
<1>7. rank \in Surjection(K, 1..c) BY <1>5, <1>6, FS_Injection
<1>8. \A k \in 1..c : \E i \in K : rank[i] = k BY <1>7 DEF Surjection
<1>9. \A k \in 1..c : f[k] \in K /\ rank[f[k]] = k BY <1>8, <1>42
<1>11. \A k, l \in 1..c : k < l => f[k] < f[l]
  <2> SUFFICES ASSUME NEW k \in 1..c, NEW l \in 1..c, k < l, ~(f[k] < f[l])
               PROVE  FALSE
    OBVIOUS
  <2>1. f[k] \in K /\ f[l] \in K /\ rank[f[k]] = k /\ rank[f[l]] = l BY <1>9
  <2>2. PICK x, y : x = f[k] /\ y = f[l] OBVIOUS
  <2>3. x \in Nat /\ y \in Nat /\ x \in K /\ y \in K /\ ~(x < y) BY <1>0, <2>1, <2>2
  <2>4. y < x \/ y = x BY <2>3
  <2>5. y < x => rank[y] < rank[x] BY <1>3, <2>3
  <2>6. rank[x] = k /\ rank[y] = l /\ k \in Nat /\ l \in Nat BY <1>1, <2>1, <2>2
  <2> QED BY <2>4, <2>5, <2>6
<1>12. \A i \in K : \E k \in 1..c : f[k] = i
  <2> SUFFICES ASSUME NEW i \in K
               PROVE  f[rank[i]] = i /\ rank[i] \in 1..c
    OBVIOUS
  <2>1. rank[i] \in 1..c /\ f[rank[i]] \in K /\ rank[f[rank[i]]] = rank[i] BY <1>4, <1>9
  <2>2. PICK x : x = f[rank[i]] OBVIOUS
  <2>3. x \in Nat /\ i \in Nat /\ x \in K /\ rank[x] = rank[i] /\ rank[i] \in Nat
    <3>1. x \in K /\ rank[x] = rank[i] BY <2>1, <2>2
    <3>2. rank[i] \in Nat BY <1>1, <2>1
    <3> QED BY <1>0, <3>1, <3>2
  <2>4. x < i \/ x = i \/ i < x BY <2>3
  <2>5. (x < i => rank[x] < rank[i]) /\ (i < x => rank[i] < rank[x]) BY <1>3, <2>3
  <2>6. x = i BY <2>3, <2>4, <2>5
  <2> QED BY <2>1, <2>2, <2>6
<1>13. f \in [1..c -> K] BY <1>9 DEF f
<1>14. Picks(s, K, f) BY <1>41, <1>11, <1>12, <1>13 DEF Picks
<1> QED BY <1>1, <1>14

(* So it is a sequence of some of the elements.                            *)
LEMMA RetainKeeps ==
  ASSUME NEW S, NEW s \in Seq(S), NEW K \in SUBSET DOMAIN s
  PROVE  /\ Retain(s, K) \in Seq(S)
         /\ \A x : x \in ToSet(Retain(s, K)) <=> \E i \in K : s[i] = x
         /\ \A k, l \in DOMAIN Retain(s, K) : k # l =>
              \E i, j \in K : i # j /\ Retain(s, K)[k] = s[i] /\ Retain(s, K)[l] = s[j]
<1>1. Len(s) \in Nat /\ DOMAIN s = 1..Len(s) /\ \A i \in K : s[i] \in S OBVIOUS
<1>2. Cardinality(K) \in Nat BY RetainPicks, Zenon
<1>3. PICK f : Picks(s, K, f) BY RetainPicks, Zenon
<1> DEFINE c == Cardinality(K)
           t == Retain(s, K)
<1>31. c \in Nat /\ f \in [1..c -> K] /\ \A k, l \in 1..c : k < l => f[k] < f[l] BY <1>2, <1>3 DEF Picks
<1>33. DOMAIN t = 1..c /\ t = [k \in 1..c |-> t[k]] /\ \A k \in 1..c : t[k] = s[f[k]]
  <2>1. t = [k \in 1..c |-> t[k]] BY DEF Retain
  <2> QED BY <1>3, <2>1 DEF Picks
<1>32. \A i \in K : \E k \in 1..c : f[k] = i BY <1>3 DEF Picks
<1> HIDE DEF c, t
<1>4. t \in Seq(S)
  <2>1. \A k \in 1..c : t[k] \in S BY <1>1, <1>31, <1>33
  <2>2. t \in [1..c -> S] BY <1>33, <2>1
  <2> QED BY <1>31, <2>2
<1>5. DOMAIN t = 1..c /\ \A k \in 1..c : t[k] = s[f[k]] /\ f[k] \in K BY <1>31, <1>33
<1>6. \A x : x \in ToSet(t) <=> \E i \in K : s[i] = x BY <1>32, <1>5 DEF ToSet
<1>7. \A k, l \in 1..c : k # l => f[k] # f[l]
  <2> SUFFICES ASSUME NEW k \in 1..c, NEW l \in 1..c, k # l
               PROVE  f[k] # f[l]
    OBVIOUS
  <2>1. f[k] \in 1..Len(s) /\ f[l] \in 1..Len(s) BY <1>1, <1>5
  <2>2. k < l \/ l < k BY <1>31
  <2> QED BY <1>31, <2>1, <2>2
<1> QED BY <1>4, <1>5, <1>6, <1>7 DEF t

LEMMA ToSetAppend ==
  ASSUME NEW S, NEW s \in Seq(S), NEW x \in S
  PROVE  /\ Append(s, x) \in Seq(S)
         /\ \A y : y \in ToSet(Append(s, x)) <=> y \in ToSet(s) \/ y = x
<1>1. Append(s, x) \in Seq(S) /\ DOMAIN Append(s, x) = 1..(Len(s) + 1) /\ DOMAIN s = 1..Len(s) /\ Len(s) \in Nat
  OBVIOUS
<1>2. /\ \A i \in 1..Len(s) : Append(s, x)[i] = s[i]
      /\ Append(s, x)[Len(s) + 1] = x
  OBVIOUS
<1>3. \A i \in 1..(Len(s) + 1) : i \in 1..Len(s) \/ i = Len(s) + 1 BY <1>1
<1>4. \A i \in 1..Len(s) : i \in 1..(Len(s) + 1) BY <1>1
<1>5. Len(s) + 1 \in 1..(Len(s) + 1) BY <1>1
<1> QED BY <1>1, <1>2, <1>3, <1>4, <1>5 DEF ToSet

LEMMA ToSetType ==
  ASSUME NEW S, NEW s \in Seq(S)
  PROVE  ToSet(s) \subseteq S
BY DEF ToSet

-----------------------------------------------------------------------------
(* The buffer of one partition, operation by operation.                    *)

LEMMA EmptyBuffer ==
  ASSUME NEW p
  PROVE  BufferOK(<<>>, <<>>, p) /\ \A r : ~In(<<>>, <<>>, r)
BY DEF BufferOK, In, ToSet

(* An open batch that is closed goes behind the others.                    *)
LEMMA CloseBuffer ==
  ASSUME NEW o, NEW q, NEW p, BufferOK(o, q, p)
  PROVE  /\ BufferOK(<<>>, Append(q, o), p)
         /\ \A r : In(<<>>, Append(q, o), r) <=> In(o, q, r)
<1> DEFINE c == Append(q, o)
<1>1. o \in Seq(Records) /\ q \in Seq(Seq(Records)) /\ c \in Seq(Seq(Records)) BY DEF BufferOK
<1>2. /\ DOMAIN q = 1..Len(q) /\ DOMAIN c = 1..(Len(q) + 1) /\ Len(q) \in Nat
      /\ \A i \in 1..Len(q) : c[i] = q[i]
      /\ c[Len(q) + 1] = o
  BY <1>1
<1>3. /\ \A i \in DOMAIN c : i \in DOMAIN q \/ i = Len(q) + 1
      /\ \A i \in DOMAIN q : i \in DOMAIN c /\ i # Len(q) + 1
      /\ Len(q) + 1 \in DOMAIN c
  BY <1>2
<1> HIDE DEF c
<1>4. ToSet(<<>>) = {} BY DEF ToSet
<1>5. \A r : In(<<>>, c, r) <=> In(o, q, r) BY <1>2, <1>3, <1>4 DEF In
<1>6. \A i, j \in DOMAIN c : i # j => ToSet(c[i]) \cap ToSet(c[j]) = {}
  <2> SUFFICES ASSUME NEW i \in DOMAIN c, NEW j \in DOMAIN c, i # j
               PROVE  ToSet(c[i]) \cap ToSet(c[j]) = {}
    OBVIOUS
  <2>1. CASE i \in DOMAIN q /\ j \in DOMAIN q BY <1>2, <2>1 DEF BufferOK
  <2>2. CASE i \in DOMAIN q /\ j = Len(q) + 1
    <3>1. c[i] = q[i] /\ c[j] = o /\ ToSet(q[i]) \cap ToSet(o) = {} BY <1>2, <2>2 DEF BufferOK
    <3> QED BY <3>1
  <2>3. CASE i = Len(q) + 1 /\ j \in DOMAIN q
    <3>1. c[i] = o /\ c[j] = q[j] /\ ToSet(q[j]) \cap ToSet(o) = {} BY <1>2, <2>3 DEF BufferOK
    <3> QED BY <3>1
  <2> QED BY <1>3, <2>1, <2>2, <2>3
<1>7. <<>> \in Seq(Records) OBVIOUS
<1> QED BY <1>1, <1>4, <1>5, <1>6, <1>7 DEF BufferOK, c

(* A record that comes to its partition joins the open batch.              *)
LEMMA AppendBuffer ==
  ASSUME NEW o, NEW q, NEW p, BufferOK(o, q, p),
         NEW r \in Records, PartitionOf[r] = p, ~In(o, q, r)
  PROVE  /\ BufferOK(Append(o, r), q, p)
         /\ \A x : In(Append(o, r), q, x) <=> In(o, q, x) \/ x = r
<1> DEFINE a == Append(o, r)
<1>1. o \in Seq(Records) /\ q \in Seq(Seq(Records)) BY DEF BufferOK
<1>2. a \in Seq(Records) /\ \A x : x \in ToSet(a) <=> x \in ToSet(o) \/ x = r BY <1>1, ToSetAppend
<1> HIDE DEF a
<1>3. \A x : In(a, q, x) <=> In(o, q, x) \/ x = r BY <1>2 DEF In
<1>4. \A i \in DOMAIN q : ToSet(q[i]) \cap ToSet(a) = {} BY <1>2 DEF In, BufferOK
<1> QED BY <1>1, <1>2, <1>3, <1>4 DEF BufferOK, a

(* Expiry takes the records whose deadline has passed and no others, and   *)
(* the batches it has emptied.                                             *)
LEMMA ExpireBuffer ==
  ASSUME NEW o, NEW q, NEW p, BufferOK(o, q, p), NEW k \in Nat
  PROVE  LET e == [i \in DOMAIN q |-> drop_expired(q[i], k)]
             d == drop_expired(o, k)
             left == {i \in DOMAIN e : e[i] # <<>>}
         IN  /\ BufferOK(d, Retain(e, left), p)
             /\ \A r : In(d, Retain(e, left), r) <=> In(o, q, r) /\ r > k
<1> DEFINE e == [i \in DOMAIN q |-> drop_expired(q[i], k)]
           d == drop_expired(o, k)
           left == {i \in DOMAIN e : e[i] # <<>>}
           c == Retain(e, left)
<1>1. ASSUME NEW b \in Seq(Records)
      PROVE  /\ drop_expired(b, k) \in Seq(Records)
             /\ \A r : r \in ToSet(drop_expired(b, k)) <=> r \in ToSet(b) /\ r > k
  <2> DEFINE K == {i \in DOMAIN b : b[i] > k}
  <2>1. K \in SUBSET DOMAIN b OBVIOUS
  <2>2. /\ Retain(b, K) \in Seq(Records)
        /\ \A x : x \in ToSet(Retain(b, K)) <=> \E i \in K : b[i] = x
    BY <2>1, RetainKeeps
  <2>3. drop_expired(b, k) = Retain(b, K) BY DEF drop_expired
  <2>4. \A x : (\E i \in K : b[i] = x) <=> x \in ToSet(b) /\ x > k BY DEF ToSet
  <2> QED BY <2>2, <2>3, <2>4
<1>2. /\ o \in Seq(Records) /\ q \in Seq(Seq(Records))
      /\ \A i \in DOMAIN q : q[i] \in Seq(Records)
      /\ DOMAIN q = 1..Len(q) /\ Len(q) \in Nat
  BY DEF BufferOK
<1>3. d \in Seq(Records) /\ \A r : r \in ToSet(d) <=> r \in ToSet(o) /\ r > k BY <1>1, <1>2
<1>4. /\ DOMAIN e = DOMAIN q
      /\ \A i \in DOMAIN q : /\ e[i] \in Seq(Records)
                             /\ \A r : r \in ToSet(e[i]) <=> r \in ToSet(q[i]) /\ r > k
  BY <1>1, <1>2
<1>5. e \in Seq(Seq(Records))
  <2>1. e \in [1..Len(q) -> Seq(Records)] BY <1>2, <1>4
  <2> QED BY <1>2, <2>1
<1>6. left \in SUBSET DOMAIN e OBVIOUS
<1>7. \A i \in DOMAIN q : i \notin left => ToSet(e[i]) = {} BY <1>4 DEF ToSet
<1> HIDE DEF e, d, left
<1>8. /\ c \in Seq(Seq(Records))
      /\ \A b : b \in ToSet(c) <=> \E i \in left : e[i] = b
      /\ \A j, l \in DOMAIN c : j # l => \E h, i \in left : h # i /\ c[j] = e[h] /\ c[l] = e[i]
  BY <1>5, <1>6, RetainKeeps
<1> HIDE DEF c
<1>9. \A j \in DOMAIN c : \E i \in left : c[j] = e[i] BY <1>8 DEF ToSet
<1>10. \A i \in left : \E j \in DOMAIN c : c[j] = e[i] BY <1>8 DEF ToSet
<1>11. \A r : In(d, c, r) <=> In(o, q, r) /\ r > k
  <2>1. ASSUME NEW r PROVE (\E j \in DOMAIN c : r \in ToSet(c[j])) <=> (\E i \in DOMAIN q : r \in ToSet(q[i])) /\ r > k
    <3>1. (\E j \in DOMAIN c : r \in ToSet(c[j])) => \E i \in DOMAIN q : r \in ToSet(e[i]) BY <1>4, <1>6, <1>9
    <3>2. ASSUME NEW i \in DOMAIN q, r \in ToSet(e[i])
          PROVE  \E j \in DOMAIN c : r \in ToSet(c[j])
      BY <1>7, <1>10, <3>2
    <3> QED BY <1>4, <3>1, <3>2
  <2> QED BY <1>3, <2>1 DEF In
<1>12. \A j \in DOMAIN c : ToSet(c[j]) \cap ToSet(d) = {}
  <2> SUFFICES ASSUME NEW j \in DOMAIN c, NEW r, r \in ToSet(c[j]), r \in ToSet(d)
               PROVE  FALSE
    OBVIOUS
  <2>1. PICK i \in left : c[j] = e[i] BY <1>9
  <2>2. i \in DOMAIN q /\ r \in ToSet(q[i]) /\ r \in ToSet(o) BY <1>3, <1>4, <1>6, <2>1
  <2> QED BY <2>2 DEF BufferOK
<1>13. \A j, l \in DOMAIN c : j # l => ToSet(c[j]) \cap ToSet(c[l]) = {}
  <2> SUFFICES ASSUME NEW j \in DOMAIN c, NEW l \in DOMAIN c, j # l, NEW r, r \in ToSet(c[j]), r \in ToSet(c[l])
               PROVE  FALSE
    OBVIOUS
  <2>1. PICK h \in left, i \in left : h # i /\ c[j] = e[h] /\ c[l] = e[i] BY <1>8
  <2>2. h \in DOMAIN q /\ i \in DOMAIN q /\ r \in ToSet(q[h]) /\ r \in ToSet(q[i]) BY <1>4, <1>6, <2>1
  <2> QED BY <2>1, <2>2 DEF BufferOK
<1>14. BufferOK(d, c, p) BY <1>3, <1>8, <1>11, <1>12, <1>13 DEF BufferOK
<1> QED BY <1>11, <1>14 DEF e, d, left, c

(* A dispatch takes the oldest closed batch.                               *)
LEMMA DispatchBuffer ==
  ASSUME NEW o, NEW q, NEW p, BufferOK(o, q, p), q # <<>>
  PROVE  /\ Head(q) \in Seq(Records)
         /\ \A r : r \in ToSet(Head(q)) => In(o, q, r)
         /\ BufferOK(o, Tail(q), p)
         /\ \A r : In(o, Tail(q), r) <=> In(o, q, r) /\ r \notin ToSet(Head(q))
<1> DEFINE c == Tail(q)
<1>1. o \in Seq(Records) /\ q \in Seq(Seq(Records)) /\ c \in Seq(Seq(Records)) BY DEF BufferOK
<1>2. /\ DOMAIN q = 1..Len(q) /\ Len(q) \in Nat /\ Len(q) # 0 /\ DOMAIN c = 1..(Len(q) - 1)
      /\ Head(q) = q[1]
      /\ \A i \in DOMAIN c : c[i] = q[i + 1] /\ i + 1 \in DOMAIN q /\ i + 1 # 1
  BY <1>1
<1>3. \A i \in DOMAIN q : i = 1 \/ (i - 1 \in DOMAIN c /\ c[i - 1] = q[i]) BY <1>1, <1>2
<1>4. 1 \in DOMAIN q BY <1>2
<1>5. \A i \in DOMAIN c, j \in DOMAIN c : i # j => i + 1 # j + 1 BY <1>2
<1> HIDE DEF c
<1>6. \A i \in DOMAIN c : ToSet(c[i]) \cap ToSet(Head(q)) = {} /\ ToSet(c[i]) \cap ToSet(o) = {}
  BY <1>2, <1>4 DEF BufferOK
<1>7. ToSet(Head(q)) \cap ToSet(o) = {} BY <1>2, <1>4 DEF BufferOK
<1>8. \A r : In(o, c, r) <=> In(o, q, r) /\ r \notin ToSet(Head(q))
  <2>1. ASSUME NEW r, In(o, c, r) PROVE In(o, q, r) /\ r \notin ToSet(Head(q))
    BY <1>2, <1>6, <1>7, <2>1 DEF In
  <2>2. ASSUME NEW r, In(o, q, r), r \notin ToSet(Head(q)) PROVE In(o, c, r) BY <1>2, <1>3, <2>2 DEF In
  <2> QED BY <2>1, <2>2
<1>9. \A i, j \in DOMAIN c : i # j => ToSet(c[i]) \cap ToSet(c[j]) = {}
  <2> SUFFICES ASSUME NEW i \in DOMAIN c, NEW j \in DOMAIN c, i # j
               PROVE  ToSet(c[i]) \cap ToSet(c[j]) = {}
    OBVIOUS
  <2>1. c[i] = q[i + 1] /\ c[j] = q[j + 1] /\ i + 1 \in DOMAIN q /\ j + 1 \in DOMAIN q /\ i + 1 # j + 1
    BY <1>2, <1>5
  <2> QED BY <2>1 DEF BufferOK
<1>10. BufferOK(o, c, p) BY <1>1, <1>6, <1>8, <1>9 DEF BufferOK
<1>11. Head(q) \in Seq(Records) /\ \A r : r \in ToSet(Head(q)) => In(o, q, r) BY <1>1, <1>2, <1>4 DEF In
<1> QED BY <1>8, <1>10, <1>11 DEF c

-----------------------------------------------------------------------------
(* The buffers of the actor, operation by operation.                       *)

LEMMA BufferedIn ==
  ASSUME NEW A, NEW r
  PROVE  r \in Buffered(A) <=> \E p \in Partitions : In(A.open[p], A.pending[p], r)
BY DEF Buffered, In, InBatches

(* A buffered record is one of Records, in the buffer of its partition.    *)
LEMMA BufferedHome ==
  ASSUME NEW A, ActorOK(A), NEW r
  PROVE  /\ \A p \in Partitions : In(A.open[p], A.pending[p], r) => r \in Records /\ PartitionOf[r] = p
         /\ r \in Buffered(A) => r \in Records
<1>1. ASSUME NEW p \in Partitions, In(A.open[p], A.pending[p], r)
      PROVE  r \in Records /\ PartitionOf[r] = p
  <2>1. BufferOK(A.open[p], A.pending[p], p) BY DEF ActorOK
  <2>2. r \in Records
    <3>1. CASE r \in ToSet(A.open[p]) BY <2>1, <3>1, ToSetType DEF BufferOK
    <3>2. CASE \E i \in DOMAIN A.pending[p] : r \in ToSet(A.pending[p][i])
      <4>1. PICK i \in DOMAIN A.pending[p] : r \in ToSet(A.pending[p][i]) BY <3>2
      <4>2. A.pending[p][i] \in Seq(Records) BY <2>1 DEF BufferOK
      <4> QED BY <4>1, <4>2, ToSetType
    <3> QED BY <1>1, <3>1, <3>2 DEF In
  <2> QED BY <1>1, <2>1, <2>2 DEF BufferOK
<1> QED BY <1>1, BufferedIn

(* Only the buffers matter.                                                *)
LEMMA SameBuffers ==
  ASSUME NEW A, ActorOK(A), NEW B, DOMAIN B = Fields, B.open = A.open, B.pending = A.pending
  PROVE  ActorOK(B) /\ \A r : r \in Buffered(B) <=> r \in Buffered(A)
BY BufferedIn DEF ActorOK

LEMMA CloseActor ==
  ASSUME NEW A, ActorOK(A), NEW S
  PROVE  ActorOK(Close(A, S)) /\ \A r : r \in Buffered(Close(A, S)) <=> r \in Buffered(A)
<1> DEFINE pending == [p \in Partitions |->
             IF p \in S /\ A.open[p] # <<>> THEN Append(A.pending[p], A.open[p]) ELSE A.pending[p]]
           open == [p \in Partitions |-> IF p \in S THEN <<>> ELSE A.open[p]]
           B == Close(A, S)
<1>1. DOMAIN B = Fields /\ B.open = open /\ B.pending = pending BY DEF Close, ActorOK, Fields
<1> HIDE DEF B
<1>2. ASSUME NEW p \in Partitions
      PROVE  /\ BufferOK(open[p], pending[p], p)
             /\ \A r : In(open[p], pending[p], r) <=> In(A.open[p], A.pending[p], r)
  <2>1. BufferOK(A.open[p], A.pending[p], p) BY DEF ActorOK
  <2>2. CASE p \notin S BY <2>1, <2>2
  <2>3. CASE p \in S /\ A.open[p] = <<>>
    <3>1. open[p] = A.open[p] /\ pending[p] = A.pending[p] BY <2>3
    <3> QED BY <2>1, <3>1
  <2>4. CASE p \in S /\ A.open[p] # <<>>
    <3>1. open[p] = <<>> /\ pending[p] = Append(A.pending[p], A.open[p]) BY <2>4
    <3> QED BY <2>1, <3>1, CloseBuffer
  <2> QED BY <2>2, <2>3, <2>4
<1>3. DOMAIN open = Partitions /\ DOMAIN pending = Partitions OBVIOUS
<1> HIDE DEF open, pending
<1>4. ActorOK(B) BY <1>1, <1>2, <1>3 DEF ActorOK
<1>5. \A r : r \in Buffered(B) <=> r \in Buffered(A) BY <1>1, <1>2, BufferedIn
<1> QED BY <1>4, <1>5 DEF B

LEMMA AppendActor ==
  ASSUME NEW A, ActorOK(A), NEW r \in Records, r \notin Buffered(A)
  PROVE  /\ ActorOK(append(A, r))
         /\ \A x : x \in Buffered(append(A, r)) <=> x \in Buffered(A) \/ x = r
<1> DEFINE p == PartitionOf[r]
           wouldBe == Bytes(A.open[p]) + Size[r]
           overflow == A.open[p] # <<>> /\ (wouldBe > BatchSize \/ wouldBe > MaxRequest)
           B == IF overflow THEN Close(A, {p}) ELSE A
           C == [B EXCEPT !.open[p] = Append(@, r)]
<1>0. p \in Partitions BY RecordsAssumption
<1>1. ActorOK(B) /\ \A x : x \in Buffered(B) <=> x \in Buffered(A) BY CloseActor
<1>2. append(A, r) = IF Bytes(C.open[p]) >= BatchSize THEN Close(C, {p}) ELSE C BY DEF append
<1> HIDE DEF B
<1>3. /\ DOMAIN C = Fields /\ C.pending = B.pending /\ DOMAIN C.open = Partitions
      /\ C.open[p] = Append(B.open[p], r)
      /\ \A s \in Partitions : s # p => C.open[s] = B.open[s]
  BY <1>0, <1>1 DEF ActorOK, Fields
<1> HIDE DEF C, p
<1>4. BufferOK(B.open[p], B.pending[p], p) /\ ~In(B.open[p], B.pending[p], r)
  BY <1>0, <1>1, BufferedIn DEF ActorOK
<1>5. /\ BufferOK(C.open[p], C.pending[p], p)
      /\ \A x : In(C.open[p], C.pending[p], x) <=> In(B.open[p], B.pending[p], x) \/ x = r
  BY <1>3, <1>4, AppendBuffer DEF p
<1>6. ActorOK(C) BY <1>1, <1>3, <1>5 DEF ActorOK
<1>7. \A x : x \in Buffered(C) <=> x \in Buffered(B) \/ x = r
  <2> SUFFICES ASSUME NEW x PROVE x \in Buffered(C) <=> x \in Buffered(B) \/ x = r OBVIOUS
  <2>1. \A s \in Partitions : s # p => (In(C.open[s], C.pending[s], x) <=> In(B.open[s], B.pending[s], x))
    BY <1>3
  <2> QED BY <1>0, <1>5, <2>1, BufferedIn
<1>8. \A x : x \in Buffered(C) <=> x \in Buffered(A) \/ x = r BY <1>1, <1>7
<1> QED BY <1>2, <1>6, <1>8, CloseActor

LEMMA ExpireActor ==
  ASSUME NEW A, ActorOK(A), NEW k \in Nat
  PROVE  /\ ActorOK(expire_overdue(A, k))
         /\ \A r : r \in Buffered(expire_overdue(A, k)) <=> r \in Buffered(A) /\ r > k
         /\ \A r : r \in Overdue(A, k) <=> r \in Buffered(A) /\ ~(r > k)
<1> DEFINE B == ExpireKeepingEmpty(A, k)
           left(p) == {i \in DOMAIN B.pending[p] : B.pending[p][i] # <<>>}
           C == [B EXCEPT !.pending = [p \in Partitions |-> Retain(B.pending[p], left(p))]]
<1>0. \A r : r \in Overdue(A, k) <=> r \in Buffered(A) /\ ~(r > k)
  <2>1. \A r \in Buffered(A) : r \in Nat BY BufferedHome DEF Records
  <2> QED BY <2>1 DEF Overdue
<1>1. expire_overdue(A, k) = IF Overdue(A, k) = {} THEN A ELSE C BY DEF expire_overdue
<1>2. CASE Overdue(A, k) = {} BY <1>0, <1>1, <1>2
<1>3. CASE Overdue(A, k) # {}
  <2>1. /\ DOMAIN B = Fields
        /\ B.open = [p \in Partitions |-> drop_expired(A.open[p], k)]
        /\ B.pending = [p \in Partitions |-> [i \in DOMAIN A.pending[p] |-> drop_expired(A.pending[p][i], k)]]
    BY DEF ExpireKeepingEmpty, ActorOK, Fields
  <2> HIDE DEF B
  <2>2. /\ DOMAIN C = Fields /\ C.open = B.open
        /\ C.pending = [p \in Partitions |-> Retain(B.pending[p], left(p))]
    BY <2>1 DEF Fields
  <2> HIDE DEF C
  <2>3. ASSUME NEW p \in Partitions
        PROVE  /\ BufferOK(C.open[p], C.pending[p], p)
               /\ \A r : In(C.open[p], C.pending[p], r) <=> In(A.open[p], A.pending[p], r) /\ r > k
    <3> DEFINE o == A.open[p]
               q == A.pending[p]
               e == [i \in DOMAIN q |-> drop_expired(q[i], k)]
               l == {i \in DOMAIN e : e[i] # <<>>}
    <3>1. BufferOK(o, q, p) BY DEF ActorOK
    <3>2. B.pending[p] = e BY <2>1
    <3>3. C.open[p] = drop_expired(o, k) /\ C.pending[p] = Retain(e, l) BY <2>1, <2>2, <3>2
    <3> HIDE DEF o, q
    <3>4. /\ BufferOK(drop_expired(o, k), Retain(e, l), p)
          /\ \A r : In(drop_expired(o, k), Retain(e, l), r) <=> In(o, q, r) /\ r > k
      BY <3>1, ExpireBuffer
    <3> HIDE DEF e, l
    <3> QED BY <3>3, <3>4 DEF o, q
  <2>4. DOMAIN C.open = Partitions /\ DOMAIN C.pending = Partitions BY <2>1, <2>2
  <2>5. ActorOK(C) BY <2>2, <2>3, <2>4 DEF ActorOK
  <2>6. \A r : r \in Buffered(C) <=> r \in Buffered(A) /\ r > k BY <2>3, BufferedIn
  <2> QED BY <1>0, <1>1, <1>3, <2>5, <2>6
<1> QED BY <1>2, <1>3

LEMMA FailActor ==
  ASSUME NEW A, ActorOK(A)
  PROVE  ActorOK(fail_buffered(A)) /\ \A r : r \notin Buffered(fail_buffered(A))
<1> DEFINE B == fail_buffered(A)
<1>1. /\ DOMAIN B = Fields
      /\ B.open = [p \in Partitions |-> <<>>] /\ B.pending = [p \in Partitions |-> <<>>]
  BY DEF fail_buffered, ActorOK, Fields
<1> HIDE DEF B
<1>2. ActorOK(B) BY <1>1, EmptyBuffer DEF ActorOK
<1>3. \A r : r \notin Buffered(B) BY <1>1, EmptyBuffer, BufferedIn
<1> QED BY <1>2, <1>3 DEF B

LEMMA SettleActor ==
  ASSUME NEW A, ActorOK(A), NEW c
  PROVE  ActorOK(settle(A, c)) /\ \A r : r \in Buffered(settle(A, c)) <=> r \in Buffered(A)
<1>1. DOMAIN settle(A, c) = Fields /\ settle(A, c).open = A.open /\ settle(A, c).pending = A.pending
  BY DEF settle, ActorOK, Fields
<1> QED BY <1>1, SameBuffers

(* A dispatch takes the oldest closed batch of each ready partition.       *)
Taken(A, r) == \E p \in Ready(A) : r \in ToSet(Head(A.pending[p]))

LEMMA DispatchActor ==
  ASSUME NEW A, ActorOK(A)
  PROVE  /\ ActorOK(dispatch_ready(A))
         /\ \A r : r \in Buffered(dispatch_ready(A)) <=> r \in Buffered(A) /\ ~Taken(A, r)
         /\ \A r : Taken(A, r) => r \in Buffered(A)
         /\ Ready(A) \subseteq Partitions
         /\ \A p \in Ready(A) : BatchOK(Stamped(A, p), p)
<1> DEFINE B == dispatch_ready(A)
<1>0. Ready(A) \subseteq Partitions /\ \A p \in Ready(A) : A.pending[p] # <<>> BY DEF Ready
<1>1. /\ DOMAIN B = Fields /\ B.open = A.open
      /\ B.pending = [p \in Partitions |-> IF p \in Ready(A) THEN Tail(A.pending[p]) ELSE A.pending[p]]
  BY DEF dispatch_ready, ActorOK, Fields
<1> HIDE DEF B
<1>2. ASSUME NEW p \in Ready(A)
      PROVE  /\ Head(A.pending[p]) \in Seq(Records)
             /\ \A r : r \in ToSet(Head(A.pending[p])) => In(A.open[p], A.pending[p], r)
             /\ BufferOK(B.open[p], B.pending[p], p)
             /\ \A r : In(B.open[p], B.pending[p], r) <=>
                         In(A.open[p], A.pending[p], r) /\ r \notin ToSet(Head(A.pending[p]))
  <2>1. p \in Partitions /\ BufferOK(A.open[p], A.pending[p], p) /\ A.pending[p] # <<>> BY <1>0 DEF ActorOK
  <2>2. B.open[p] = A.open[p] /\ B.pending[p] = Tail(A.pending[p]) BY <1>1, <2>1
  <2> DEFINE o == A.open[p]
             q == A.pending[p]
  <2>3. BufferOK(o, q, p) /\ q # <<>> BY <2>1
  <2> HIDE DEF o, q
  <2>4. /\ Head(q) \in Seq(Records)
        /\ \A r : r \in ToSet(Head(q)) => In(o, q, r)
        /\ BufferOK(o, Tail(q), p)
        /\ \A r : In(o, Tail(q), r) <=> In(o, q, r) /\ r \notin ToSet(Head(q))
    BY <2>3, DispatchBuffer
  <2> QED BY <2>2, <2>4 DEF o, q
<1>3. \A p \in Partitions : p \notin Ready(A) => B.open[p] = A.open[p] /\ B.pending[p] = A.pending[p] BY <1>1
<1>4. ActorOK(B) BY <1>1, <1>2, <1>3 DEF ActorOK
<1>5. ASSUME NEW r, NEW p \in Partitions, In(A.open[p], A.pending[p], r)
      PROVE  Taken(A, r) <=> p \in Ready(A) /\ r \in ToSet(Head(A.pending[p]))
  <2>1. ASSUME NEW s \in Ready(A), r \in ToSet(Head(A.pending[s]))
        PROVE  s = p
    <3>1. s \in Partitions /\ In(A.open[s], A.pending[s], r) BY <1>0, <1>2, <2>1
    <3> QED BY <1>5, <3>1, BufferedHome
  <2> QED BY <2>1 DEF Taken
<1>6. \A r : Taken(A, r) => r \in Buffered(A) BY <1>0, <1>2, BufferedIn DEF Taken
<1>7. \A r : r \in Buffered(B) <=> r \in Buffered(A) /\ ~Taken(A, r)
  <2> SUFFICES ASSUME NEW r PROVE r \in Buffered(B) <=> r \in Buffered(A) /\ ~Taken(A, r) OBVIOUS
  <2>1. ASSUME NEW p \in Partitions
        PROVE  In(B.open[p], B.pending[p], r) <=> In(A.open[p], A.pending[p], r) /\ ~Taken(A, r)
    <3>1. CASE p \in Ready(A) BY <1>2, <1>5, <3>1
    <3>2. CASE p \notin Ready(A) BY <1>3, <1>5, <3>2
    <3> QED BY <3>1, <3>2
  <2> QED BY <2>1, BufferedIn
<1>8. ASSUME NEW p \in Ready(A) PROVE BatchOK(Stamped(A, p), p)
  <2>1. \A r \in ToSet(Head(A.pending[p])) : PartitionOf[r] = p BY <1>0, <1>2, BufferedHome
  <2>2. Head(A.pending[p]) \in Seq(Records) BY <1>2
  <2> DEFINE b == Stamped(A, p)
  <2>3. DOMAIN b = {"recs", "pid", "base"} /\ b.recs = Head(A.pending[p]) BY DEF Stamped
  <2> HIDE DEF b
  <2>4. BatchOK(b, p) BY <2>1, <2>2, <2>3 DEF BatchOK
  <2> QED BY <2>4 DEF b
<1> QED BY <1>0, <1>4, <1>6, <1>7, <1>8 DEF B

-----------------------------------------------------------------------------
(* The callers.                                                            *)

LEMMA ListingAppend ==
  ASSUME NEW s, Listing(s), NEW x
  PROVE  /\ Listing(Append(s, x))
         /\ DOMAIN s = 1..Len(s) /\ Len(s) \in Nat
         /\ DOMAIN Append(s, x) = 1..(Len(s) + 1)
         /\ \A i \in DOMAIN s : Append(s, x)[i] = s[i] /\ i \in DOMAIN Append(s, x)
         /\ Append(s, x)[Len(s) + 1] = x
         /\ \A i \in DOMAIN Append(s, x) : i \in DOMAIN s \/ i = Len(s) + 1
<1> DEFINE T == {s[i] : i \in DOMAIN s}
           U == T \cup {x}
           a == Append(s, x)
<1>1. s \in Seq(T) /\ T \subseteq U BY DEF Listing
<1>2. s \in Seq(U) /\ x \in U
  <2>1. \A i \in 1..Len(s) : s[i] \in U BY <1>1
  <2> QED BY <1>1, <2>1
<1> HIDE DEF T, U
<1>3. /\ a \in Seq(U) /\ DOMAIN s = 1..Len(s) /\ Len(s) \in Nat
      /\ DOMAIN a = 1..(Len(s) + 1)
      /\ \A i \in 1..Len(s) : a[i] = s[i]
      /\ a[Len(s) + 1] = x
  BY <1>2
<1>4. /\ \A i \in 1..Len(s) : i \in 1..(Len(s) + 1)
      /\ \A i \in 1..(Len(s) + 1) : i \in 1..Len(s) \/ i = Len(s) + 1
  BY <1>3
<1> HIDE DEF a
<1>5. Listing(a)
  <2>1. Len(a) \in Nat /\ a = [i \in 1..Len(a) |-> a[i]] /\ DOMAIN a = 1..Len(a) BY <1>3
  <2>2. a \in [1..Len(a) -> {a[i] : i \in DOMAIN a}] BY <2>1
  <2> QED BY <2>1, <2>2 DEF Listing
<1> QED BY <1>3, <1>4, <1>5 DEF a

(* A set of records that is not empty has a smallest member.               *)
LEMMA SmallestRecord ==
  ASSUME NEW K \in SUBSET Records, K # {}
  PROVE  Min(K) \in K /\ \A r \in K : Min(K) <= r
<1> DEFINE s == [i \in Records |-> i]
           c == Cardinality(K)
<1>1. s \in Seq(Nat) /\ DOMAIN s = Records BY RecordsAssumption DEF Records
<1>2. c \in Nat /\ \E f : Picks(s, K, f) BY <1>1, RetainPicks
<1>3. PICK f : Picks(s, K, f) BY <1>2
<1>4. /\ f \in [1..c -> K]
      /\ \A k, l \in 1..c : k < l => f[k] < f[l]
      /\ \A i \in K : \E k \in 1..c : f[k] = i
  BY <1>3 DEF Picks
<1> HIDE DEF c, s
<1>5. 1 \in 1..c /\ f[1] \in K BY <1>2, <1>4
<1>6. \A r \in K : r \in Nat BY DEF Records
<1>7. ASSUME NEW r \in K PROVE f[1] <= r
  <2>1. PICK k \in 1..c : f[k] = r BY <1>4
  <2>2. k = 1 \/ 1 < k BY <1>2
  <2>3. f[1] \in Nat /\ r \in Nat BY <1>5, <1>6
  <2> QED BY <1>4, <1>5, <2>1, <2>2, <2>3
<1>8. \E m \in K : \A r \in K : m <= r BY <1>5, <1>7
<1> QED BY <1>8 DEF Min

(* What StopWaiting leaves.                                                *)
LEMMA WaitersLeft ==
  ASSUME HandedOver, NEW r
  PROVE  LET w == StopWaiting(r)
         IN  /\ w \in Seq(Records)
             /\ \A x : x \in ToSet(w) <=> x \in ToSet(waiters) /\ x # r
             /\ \A i, j \in DOMAIN w : w[i] = w[j] => i = j
<1> DEFINE K == {i \in DOMAIN waiters : waiters[i] # r}
           w == StopWaiting(r)
<1>1. waiters \in Seq(Records) /\ K \in SUBSET DOMAIN waiters BY DEF HandedOver
<1>2. w = Retain(waiters, K) BY DEF StopWaiting
<1>3. /\ w \in Seq(Records)
      /\ \A x : x \in ToSet(w) <=> \E i \in K : waiters[i] = x
      /\ \A k, l \in DOMAIN w : k # l => \E i, j \in K : i # j /\ w[k] = waiters[i] /\ w[l] = waiters[j]
  <2> HIDE DEF K, w
  <2>1. waiters \in Seq(Records) /\ K \in SUBSET DOMAIN waiters BY <1>1
  <2>2. LET t == Retain(waiters, K)
        IN  /\ t \in Seq(Records)
            /\ \A x : x \in ToSet(t) <=> \E i \in K : waiters[i] = x
            /\ \A k, l \in DOMAIN t : k # l => \E i, j \in K : i # j /\ t[k] = waiters[i] /\ t[l] = waiters[j]
    BY <2>1, RetainKeeps
  <2> QED BY <1>2, <2>2
<1>4. \A x : (\E i \in K : waiters[i] = x) <=> x \in ToSet(waiters) /\ x # r BY DEF ToSet
<1> HIDE DEF w
<1>5. \A i, j \in DOMAIN w : w[i] = w[j] => i = j BY <1>3 DEF HandedOver
<1> QED BY <1>3, <1>4, <1>5 DEF w

LEMMA HandedStep == HandedOver /\ [Next]_vars => HandedOver'
<1> SUFFICES ASSUME HandedOver, [Next]_vars PROVE HandedOver' OBVIOUS
<1>0. NumRecords \in Nat BY RecordsAssumption
<1>1. CASE Submit
  <2> DEFINE n == submitted + 1
  <2>1. /\ submitted' = n /\ n \in 0..NumRecords /\ n \in Records
        /\ waiters' = waiters \/ waiters' = Append(waiters, n)
        /\ holding' = holding /\ accepted' = accepted /\ overdue' = overdue
    BY <1>0, <1>1 DEF Submit, HandedOver, Records
  <2>2. n \notin 1..submitted /\ 1..submitted \subseteq 1..n /\ n \in 1..n BY <1>0 DEF HandedOver
  <2>3. waiters' \in Seq(Records) /\ \A x : x \in ToSet(waiters') => x \in ToSet(waiters) \/ x = n
    <3> HIDE DEF n
    <3>0. waiters \in Seq(Records) /\ n \in Records BY <2>1 DEF HandedOver
    <3>1. CASE waiters' = waiters BY <3>0, <3>1
    <3>2. CASE waiters' = Append(waiters, n) BY <3>0, <3>2, ToSetAppend
    <3> QED BY <2>1, <3>1, <3>2
  <2>4. \A i, j \in DOMAIN waiters' : waiters'[i] = waiters'[j] => i = j
    <3>1. CASE waiters' = waiters BY <3>1 DEF HandedOver
    <3>2. CASE waiters' = Append(waiters, n)
      <4>1. /\ DOMAIN waiters' = 1..(Len(waiters) + 1) /\ DOMAIN waiters = 1..Len(waiters) /\ Len(waiters) \in Nat
            /\ \A i \in 1..Len(waiters) : waiters'[i] = waiters[i]
            /\ waiters'[Len(waiters) + 1] = n
        BY <2>1, <3>2 DEF HandedOver
      <4>2. \A i \in 1..Len(waiters) : waiters[i] # n BY <2>2, <4>1 DEF HandedOver, ToSet
      <4>3. \A i \in 1..(Len(waiters) + 1) : i \in 1..Len(waiters) \/ i = Len(waiters) + 1 BY <4>1
      <4>4. \A i, j \in 1..Len(waiters) : waiters[i] = waiters[j] => i = j BY <4>1 DEF HandedOver
      <4> QED BY <4>1, <4>2, <4>3, <4>4
    <3> QED BY <2>1, <3>1, <3>2
  <2> HIDE DEF n
  <2>5. ToSet(waiters') \cup holding' \cup ToSet(accepted') \subseteq 1..submitted'
    BY <2>1, <2>2, <2>3 DEF HandedOver
  <2>6. ToSet(waiters') \cap holding' = {} /\ ToSet(accepted') \cap (ToSet(waiters') \cup holding') = {}
    BY <2>1, <2>2, <2>3 DEF HandedOver
  <2> QED BY <2>1, <2>3, <2>4, <2>5, <2>6 DEF HandedOver
<1>2. CASE AcquirePermit
  <2> DEFINE h == Head(waiters)
  <2>1. /\ waiters # <<>> /\ waiters' = Tail(waiters) /\ holding' = holding \cup {h}
        /\ submitted' = submitted /\ accepted' = accepted /\ overdue' = overdue
    BY <1>2 DEF AcquirePermit
  <2>2. /\ waiters \in Seq(Records) /\ waiters' \in Seq(Records) /\ h = waiters[1]
        /\ DOMAIN waiters = 1..Len(waiters) /\ Len(waiters) \in Nat /\ Len(waiters) # 0
        /\ DOMAIN waiters' = 1..(Len(waiters) - 1)
        /\ \A i \in DOMAIN waiters' : waiters'[i] = waiters[i + 1]
    BY <2>1 DEF HandedOver
  <2>3. /\ 1 \in DOMAIN waiters
        /\ \A i \in DOMAIN waiters' : i + 1 \in DOMAIN waiters /\ i + 1 # 1
        /\ \A i, j \in DOMAIN waiters' : i + 1 = j + 1 => i = j
    BY <2>2
  <2> HIDE DEF h
  <2>4. h \in ToSet(waiters) /\ \A x : x \in ToSet(waiters') => x \in ToSet(waiters) /\ x # h
    BY <2>2, <2>3 DEF HandedOver, ToSet
  <2>5. \A i, j \in DOMAIN waiters' : waiters'[i] = waiters'[j] => i = j BY <2>2, <2>3 DEF HandedOver
  <2>6. ToSet(waiters') \cup holding' \cup ToSet(accepted') \subseteq 1..submitted'
    BY <2>1, <2>4 DEF HandedOver
  <2>7. ToSet(waiters') \cap holding' = {} /\ ToSet(accepted') \cap (ToSet(waiters') \cup holding') = {}
    BY <2>1, <2>4 DEF HandedOver
  <2> QED BY <2>1, <2>2, <2>5, <2>6, <2>7 DEF HandedOver
<1>3. ASSUME NEW r \in Records, PermitTimeout(r) \/ CancelAppend(r)
      PROVE  HandedOver'
  <2>1. /\ waiters' = waiters \/ waiters' = StopWaiting(r)
        /\ holding' \subseteq holding
        /\ submitted' = submitted /\ accepted' = accepted /\ overdue' = overdue
    BY <1>3 DEF PermitTimeout, CancelAppend
  <2>2. /\ waiters' \in Seq(Records)
        /\ \A x : x \in ToSet(waiters') => x \in ToSet(waiters)
        /\ \A i, j \in DOMAIN waiters' : waiters'[i] = waiters'[j] => i = j
    <3>1. CASE waiters' = waiters BY <3>1 DEF HandedOver
    <3>2. CASE waiters' = StopWaiting(r) BY <3>2, WaitersLeft
    <3> QED BY <2>1, <3>1, <3>2
  <2>3. ToSet(waiters') \cup holding' \cup ToSet(accepted') \subseteq 1..submitted'
    BY <2>1, <2>2 DEF HandedOver
  <2>4. ToSet(waiters') \cap holding' = {} /\ ToSet(accepted') \cap (ToSet(waiters') \cup holding') = {}
    BY <2>1, <2>2 DEF HandedOver
  <2> QED BY <2>1, <2>2, <2>3, <2>4 DEF HandedOver
<1>4. ASSUME NEW r \in Records, Enqueue(r)
      PROVE  HandedOver'
  <2>1. /\ r \in holding /\ holding' = holding \ {r} /\ accepted' = Append(accepted, r)
        /\ waiters' = waiters /\ submitted' = submitted /\ overdue' = overdue
    BY <1>4 DEF Enqueue
  <2>2. accepted' \in Seq(Records) /\ \A x : x \in ToSet(accepted') <=> x \in ToSet(accepted) \/ x = r
    BY <2>1, ToSetAppend DEF HandedOver
  <2>3. ToSet(waiters') \cup holding' \cup ToSet(accepted') \subseteq 1..submitted'
    BY <2>1, <2>2 DEF HandedOver
  <2>4. ToSet(waiters') \cap holding' = {} /\ ToSet(accepted') \cap (ToSet(waiters') \cup holding') = {}
    BY <2>1, <2>2 DEF HandedOver
  <2> QED BY <2>1, <2>2, <2>3, <2>4 DEF HandedOver
<1>5. CASE DeadlinePasses
  <2> DEFINE ahead == {r \in (overdue + 1)..submitted : outcome[r] = Pending}
  <2>1. ahead # {} /\ overdue' = Min(ahead) /\ UNCHANGED callerVars BY <1>5 DEF DeadlinePasses
  <2>2. ahead \in SUBSET Records BY <1>0 DEF HandedOver, Records
  <2> HIDE DEF ahead
  <2>3. overdue' \in Nat
    <3>1. Min(ahead) \in ahead BY <2>1, <2>2, SmallestRecord
    <3>2. Min(ahead) \in Records BY <2>2, <3>1
    <3> QED BY <2>1, <3>2 DEF Records
  <2> QED BY <2>1, <2>3 DEF callerVars, HandedOver
<1>6. CASE UNCHANGED <<submitted, waiters, holding, accepted, overdue>> BY <1>6 DEF HandedOver
<1>7. DropHandles \/ (\E f \in Flushes : CallFlush(f)) \/ ActorNext \/ TaskNext \/ ClusterNext \/ Stopped \/ UNCHANGED vars
        => UNCHANGED <<submitted, waiters, holding, accepted, overdue>>
  <2> USE DEF callerVars
  <2>1. DropHandles \/ (\E f \in Flushes : CallFlush(f)) => UNCHANGED <<submitted, waiters, holding, accepted, overdue>>
    BY DEF DropHandles, CallFlush
  <2>2. ActorNext => UNCHANGED <<submitted, waiters, holding, accepted, overdue>>
    BY DEF ActorNext, HandleAppend, HandleFlush, HandleClosed, HandleCompleted, Wake, ClaimOk, ClaimRetriable, ClaimTerminal
  <2>3. TaskNext => UNCHANGED <<submitted, waiters, holding, accepted, overdue>>
    BY DEF TaskNext, TaskStep, Encode, Judge, RouteFails, Respond, LoseRequest
  <2>4. ClusterNext \/ Stopped \/ UNCHANGED vars => UNCHANGED <<submitted, waiters, holding, accepted, overdue>>
    BY DEF ClusterNext, GhostArrives, Forget, Stopped, vars
  <2> QED BY <2>1, <2>2, <2>3, <2>4
<1> QED BY <1>1, <1>2, <1>3, <1>4, <1>5, <1>6, <1>7 DEF Next, CallerNext

-----------------------------------------------------------------------------
(* What a turn of the actor does with the records it has buffered.         *)

(* A task that was just spawned for batches of A.                          *)
Fresh(t, A) ==
  /\ TaskOK(t) /\ t.attempt = 0 /\ t.live = DOMAIN t.batch
  /\ \A p \in DOMAIN t.batch : /\ p \in Ready(A) /\ t.batch[p] = Stamped(A, p)
                               /\ t.res[p] = Due

Within(t, T) == \A p \in DOMAIN t.batch : ToSet(t.batch[p].recs) \subseteq T

(* The records T that were buffered in A have gone to new tasks.           *)
Sent(A, T) ==
  /\ T \subseteq Buffered(A)
  /\ ActorOK(actor)'
  /\ \A r : r \in Buffered(actor)' <=> r \in Buffered(A) /\ r \notin T
  /\ tasks \subseteq tasks' /\ \A t \in tasks' : t \in tasks \/ (Fresh(t, A) /\ Within(t, T))
  /\ \A r : Tasked(r)' <=> Tasked(r) \/ r \in T
  /\ \A r : (r \in OnTask)' <=> r \in OnTask \/ r \in T

LEMMA SpawnedFresh ==
  ASSUME NEW A, ActorOK(A), NEW leader
  PROVE  /\ \A t \in Spawned(A, leader) : Fresh(t, A)
         /\ \A p \in Ready(A) : \E t \in Spawned(A, leader) : p \in DOMAIN t.batch
<1> DEFINE Task(G) == [batch   |-> [p \in G |-> Stamped(A, p)],
                       live    |-> G,
                       res     |-> [p \in G |-> Due],
                       attempt |-> 0]
<1>1. ASSUME NEW t \in Spawned(A, leader) PROVE Fresh(t, A)
  <2>1. PICK G \in SUBSET Ready(A) : t = Task(G) BY DEF Spawned
  <2>2. /\ DOMAIN t = TaskFields /\ t.live = G /\ t.attempt = 0
        /\ DOMAIN t.batch = G /\ DOMAIN t.res = G
        /\ \A p \in G : t.batch[p] = Stamped(A, p) /\ t.res[p] = Due
    BY <2>1 DEF TaskFields
  <2>3. G \subseteq Partitions /\ \A p \in G : BatchOK(Stamped(A, p), p) BY <2>1, DispatchActor
  <2>4. Due.kind \in ResultKinds /\ Due.kind # "unencodable" BY DEF Due, ResultKinds
  <2>5. TaskOK(t) BY <2>2, <2>3, <2>4 DEF TaskOK
  <2> QED BY <2>1, <2>2, <2>5 DEF Fresh
<1>2. \A p \in Ready(A) : \E t \in Spawned(A, leader) : p \in DOMAIN t.batch BY SpawnedShareReady
<1> QED BY <1>1, <1>2

LEMMA OnTaskIs ==
  ASSUME NEW r
  PROVE  r \in OnTask <=> \E t \in tasks : \E p \in DOMAIN t.batch :
                            t.res[p].kind # "unencodable" /\ r \in ToSet(t.batch[p].recs)
BY DEF OnTask, BatchRecords

LEMMA ProceedSends ==
  ASSUME NEW A, ActorOK(A), NEW F, NEW C, Proceed(A, F, C)
  PROVE  /\ \E T : Sent(A, T)
         /\ flush' = settle_flushes(actor', F)
         /\ actor'.identity = A.identity
<1>1. PICK leader \in [Ready(A) -> Leaders] :
        /\ actor' = dispatch_ready(A)
        /\ tasks' = tasks \cup Spawned(A, leader)
        /\ flush' = settle_flushes(actor', F)
  BY DEF Proceed
<1> DEFINE S == Spawned(A, leader)
           T == {r \in Buffered(A) : Taken(A, r)}
<1>2. \A t \in S : Fresh(t, A) BY SpawnedFresh
<1>3. \A p \in Ready(A) : \E t \in S : p \in DOMAIN t.batch BY SpawnedFresh
<1> HIDE DEF S
<1>4. /\ ActorOK(actor')
      /\ \A r : r \in Buffered(actor') <=> r \in Buffered(A) /\ r \notin T
      /\ \A r : r \in T <=> Taken(A, r)
  <2> DEFINE B == dispatch_ready(A)
  <2>1. /\ ActorOK(B)
        /\ \A r : r \in Buffered(B) <=> r \in Buffered(A) /\ ~Taken(A, r)
        /\ \A r : Taken(A, r) => r \in Buffered(A)
    BY DispatchActor
  <2>2. actor' = B BY <1>1
  <2> HIDE DEF B
  <2> QED BY <2>1, <2>2
<1>5. \A r : r \in T <=> \E t \in S : \E p \in DOMAIN t.batch : r \in ToSet(t.batch[p].recs)
  <2>1. \A p : Stamped(A, p).recs = Head(A.pending[p]) BY DEF Stamped
  <2> HIDE DEF T
  <2>2. ASSUME NEW r, r \in T PROVE \E t \in S : \E p \in DOMAIN t.batch : r \in ToSet(t.batch[p].recs)
    <3>1. PICK p \in Ready(A) : r \in ToSet(Head(A.pending[p])) BY <1>4, <2>2 DEF Taken
    <3>2. PICK t \in S : p \in DOMAIN t.batch BY <1>3
    <3>3. t.batch[p] = Stamped(A, p) BY <1>2, <3>2 DEF Fresh
    <3> QED BY <2>1, <3>1, <3>2, <3>3
  <2>3. ASSUME NEW r, NEW t \in S, NEW p \in DOMAIN t.batch, r \in ToSet(t.batch[p].recs) PROVE r \in T
    <3>1. p \in Ready(A) /\ t.batch[p] = Stamped(A, p) BY <1>2 DEF Fresh
    <3> QED BY <1>4, <2>1, <2>3, <3>1 DEF Taken
  <2> QED BY <2>2, <2>3
<1>6. \A t \in S : \A p \in DOMAIN t.batch : t.res[p].kind # "unencodable" BY <1>2 DEF Fresh, Due
<1> HIDE DEF T
<1>7. \A r : Tasked(r)' <=> Tasked(r) \/ r \in T BY <1>1, <1>5 DEF Tasked, S
<1>8. \A r : (r \in OnTask)' <=> r \in OnTask \/ r \in T
  <2>1. tasks' = tasks \cup S BY <1>1 DEF S
  <2>2. \A r : (r \in OnTask)' <=> \E t \in tasks' : \E p \in DOMAIN t.batch :
                            t.res[p].kind # "unencodable" /\ r \in ToSet(t.batch[p].recs)
    BY DEF OnTask, BatchRecords
  <2> QED BY <1>5, <1>6, <2>1, <2>2, OnTaskIs
<1>9. T \subseteq Buffered(A) BY DEF T
<1>10. Sent(A, T)
  <2>1. \A t \in S : Within(t, T) BY <1>5 DEF Within
  <2> QED BY <1>1, <1>2, <1>4, <1>7, <1>8, <1>9, <2>1 DEF Sent, S
<1>11. actor'.identity = A.identity BY <1>1 DEF dispatch_ready, ActorOK, Fields
<1> QED BY <1>1, <1>10, <1>11

(* A turn: what is overdue expires, and the rest stays or goes out.        *)
LEMMA TurnSends ==
  ASSUME NEW A, ActorOK(A), NEW F, NEW C, overdue \in Nat, Turn(A, F, C)
  PROVE  LET B == expire_overdue(A, overdue)
         IN  /\ ActorOK(B)
             /\ \A r : r \in Buffered(B) <=> r \in Buffered(A) /\ r > overdue
             /\ \E T : Sent(B, T)
             /\ flush' = F \/ flush' = settle_flushes(actor', F)
             /\ outcome' = [r \in Records |-> IF r \in Buffered(A) /\ ~(r > overdue)
                                              THEN Told("expired") ELSE outcome[r]]
             /\ actor'.identity = B.identity
<1> DEFINE B == expire_overdue(A, overdue)
<1>1. /\ ActorOK(B)
      /\ \A r : r \in Buffered(B) <=> r \in Buffered(A) /\ r > overdue
      /\ \A r : r \in Overdue(A, overdue) <=> r \in Buffered(A) /\ ~(r > overdue)
  BY ExpireActor
<1>2. \/ actor' = B /\ tasks' = tasks /\ flush' = F
      \/ Proceed(B, F, C)
  BY DEF Turn
<1>3. outcome' = [r \in Records |-> IF r \in Buffered(A) /\ ~(r > overdue)
                                    THEN Told("expired") ELSE outcome[r]]
  BY <1>1 DEF Turn, Resolve
<1> HIDE DEF B
<1>4. CASE actor' = B /\ tasks' = tasks /\ flush' = F
  <2>1. Sent(B, {})
    <3>1. \A r : Tasked(r)' <=> Tasked(r) BY <1>4 DEF Tasked
    <3>2. OnTask' = OnTask BY <1>4 DEF OnTask, BatchRecords
    <3> QED BY <1>1, <1>4, <3>1, <3>2 DEF Sent
  <2> QED BY <1>1, <1>3, <1>4, <2>1 DEF B
<1>5. CASE Proceed(B, F, C) BY <1>1, <1>3, <1>5, ProceedSends DEF B
<1> QED BY <1>2, <1>4, <1>5

(* A step of the actor.  The records N come out of the channel and join    *)
(* the ones it has buffered, X are resolved, T go to new tasks; F is what  *)
(* the event made of the flush calls.                                      *)
Moves(N, X, T) ==
  /\ X \cup T \subseteq Buffered(actor) \cup N /\ X \cap T = {}
  /\ \A r : r \in Buffered(actor)' <=> r \in Buffered(actor) \cup N /\ r \notin X \cup T
  /\ \E k \in {"expired", "unsent"} :
       outcome' = [r \in Records |-> IF r \in X THEN Told(k) ELSE outcome[r]]
  /\ ActorOK(actor)'
  /\ tasks \subseteq tasks'
  /\ \E B : /\ actor'.identity = B.identity
            /\ \A t \in tasks' : t \in tasks \/ (Fresh(t, B) /\ Within(t, T))
  /\ \A r : Tasked(r)' <=> Tasked(r) \/ r \in T
  /\ \A r : (r \in OnTask)' <=> r \in OnTask \/ r \in T

Receives(N, F) ==
  \/ N = {} /\ F = flush /\ commands' = commands
  \/ \E h \in Records :
       /\ N = {h} /\ F = flush
       /\ commands # <<>> /\ Head(commands) = AppendCommand(h) /\ commands' = Tail(commands)
  \/ \E f \in Flushes :
       /\ N = {} /\ F = [flush EXCEPT ![f] = "waiting"]
       /\ commands # <<>> /\ Head(commands) = FlushCommand(f) /\ commands' = Tail(commands)

Steps(N, X, T, F) ==
  /\ Moves(N, X, T) /\ Receives(N, F)
  /\ flush' = F \/ flush' = settle_flushes(actor', F)

LEMMA TurnMoves ==
  ASSUME Shapes, overdue \in Nat, NEW A, ActorOK(A), NEW F, NEW C, Turn(A, F, C), NEW N,
         \A r : r \in Buffered(A) <=> r \in Buffered(actor) \cup N
  PROVE  /\ \E X, T : Moves(N, X, T)
         /\ flush' = F \/ flush' = settle_flushes(actor', F)
<1> DEFINE B == expire_overdue(A, overdue)
           X == {r \in Buffered(A) : ~(r > overdue)}
<1>1. /\ ActorOK(B)
      /\ \A r : r \in Buffered(B) <=> r \in Buffered(A) /\ r > overdue
      /\ \E T : Sent(B, T)
      /\ flush' = F \/ flush' = settle_flushes(actor', F)
      /\ outcome' = [r \in Records |-> IF r \in Buffered(A) /\ ~(r > overdue)
                                       THEN Told("expired") ELSE outcome[r]]
      /\ actor'.identity = B.identity
  BY TurnSends
<1>2. PICK T : Sent(B, T) BY <1>1
<1>3. outcome' = [r \in Records |-> IF r \in X THEN Told("expired") ELSE outcome[r]] BY <1>1
<1>4. \A r : r \in Buffered(B) <=> r \in Buffered(A) /\ r \notin X BY <1>1
<1>5. X \subseteq Buffered(A) OBVIOUS
<1> HIDE DEF B, X
<1>6. X \cup T \subseteq Buffered(actor) \cup N /\ X \cap T = {} BY <1>2, <1>4, <1>5 DEF Sent
<1>7. \A r : r \in Buffered(actor)' <=> r \in Buffered(actor) \cup N /\ r \notin X \cup T
  BY <1>2, <1>4, <1>5 DEF Sent
<1>8. Moves(N, X, T) BY <1>1, <1>2, <1>3, <1>6, <1>7 DEF Sent, Moves
<1> QED BY <1>1, <1>8

LEMMA ProceedMoves ==
  ASSUME Shapes, NEW A, ActorOK(A), NEW F, NEW C, Proceed(A, F, C), NEW X,
         X \subseteq Buffered(actor),
         \A r : r \in Buffered(A) <=> r \in Buffered(actor) /\ r \notin X,
         NEW k \in {"expired", "unsent"},
         outcome' = [r \in Records |-> IF r \in X THEN Told(k) ELSE outcome[r]]
  PROVE  /\ \E T : Moves({}, X, T)
         /\ flush' = F \/ flush' = settle_flushes(actor', F)
<1>1. PICK T : Sent(A, T) BY ProceedSends
<1>2. flush' = settle_flushes(actor', F) /\ actor'.identity = A.identity BY ProceedSends
<1>3. X \cup T \subseteq Buffered(actor) \cup {} /\ X \cap T = {} BY <1>1 DEF Sent
<1>4. \A r : r \in Buffered(actor)' <=> r \in Buffered(actor) \cup {} /\ r \notin X \cup T BY <1>1 DEF Sent
<1>5. Moves({}, X, T) BY <1>1, <1>2, <1>3, <1>4 DEF Sent, Moves
<1> QED BY <1>2, <1>5

(* The first command of the channel.                                       *)
LEMMA HeadCommand ==
  ASSUME Placed, commands # <<>>
  PROVE  /\ 1 \in DOMAIN commands /\ Head(commands) = commands[1]
         /\ Tail(commands) \in Seq(Commands)
         /\ \A i \in DOMAIN Tail(commands) : i + 1 \in DOMAIN commands /\ Tail(commands)[i] = commands[i + 1]
         /\ \A i \in DOMAIN commands : i # 1 => i - 1 \in DOMAIN Tail(commands) /\ (i - 1) + 1 = i
         /\ DOMAIN commands \subseteq Nat
         /\ \/ \E h \in Records : Head(commands) = AppendCommand(h) /\ Head(commands).type = "append"
                                  /\ Head(commands).id = h
            \/ \E f \in Flushes : Head(commands) = FlushCommand(f) /\ Head(commands).type = "flush"
                                  /\ Head(commands).id = f
<1>1. commands \in Seq(Commands) BY DEF Placed
<1>2. /\ DOMAIN commands = 1..Len(commands) /\ Len(commands) \in Nat /\ Len(commands) # 0
      /\ Tail(commands) \in Seq(Commands)
      /\ DOMAIN Tail(commands) = 1..(Len(commands) - 1)
      /\ \A i \in 1..(Len(commands) - 1) : Tail(commands)[i] = commands[i + 1]
      /\ Head(commands) = commands[1] /\ Head(commands) \in Commands
  BY <1>1
<1>3. /\ 1 \in 1..Len(commands) /\ 1..Len(commands) \subseteq Nat
      /\ \A i \in 1..(Len(commands) - 1) : i + 1 \in 1..Len(commands)
      /\ \A i \in 1..Len(commands) : i # 1 => i - 1 \in 1..(Len(commands) - 1) /\ (i - 1) + 1 = i
  BY <1>2
<1>4. \/ \E h \in Records : Head(commands) = AppendCommand(h)
      \/ \E f \in Flushes : Head(commands) = FlushCommand(f)
  BY <1>2 DEF Commands
<1>5. \A h : AppendCommand(h).type = "append" /\ AppendCommand(h).id = h BY DEF AppendCommand
<1>6. \A f : FlushCommand(f).type = "flush" /\ FlushCommand(f).id = f BY DEF FlushCommand
<1>7. \/ \E h \in Records : Head(commands) = AppendCommand(h) /\ Head(commands).type = "append"
                            /\ Head(commands).id = h
      \/ \E f \in Flushes : Head(commands) = FlushCommand(f) /\ Head(commands).type = "flush"
                            /\ Head(commands).id = f
  BY <1>4, <1>5, <1>6
<1> QED BY <1>2, <1>3, <1>7

LEMMA ActorSteps ==
  ASSUME CustodyInv, ActorNext
  PROVE  \E N, X, T, F : Steps(N, X, T, F)
<1>0. ActorOK(actor) /\ Shapes /\ Placed /\ overdue \in Nat BY DEF CustodyInv, Shapes, HandedOver
<1>1. CASE HandleAppend
  <2>1. /\ commands # <<>> /\ Head(commands).type = "append" /\ commands' = Tail(commands)
        /\ Turn(append(actor, Head(commands).id), flush, closing)
    BY <1>1 DEF HandleAppend
  <2>2. PICK h \in Records : Head(commands) = AppendCommand(h) /\ Head(commands).id = h
    BY <1>0, <2>1, HeadCommand
  <2>3. h \notin Buffered(actor)
    <3>1. InChannel(h) BY <1>0, <2>1, <2>2, HeadCommand DEF InChannel
    <3> QED BY <1>0, <3>1 DEF Placed
  <2> DEFINE A == append(actor, h)
  <2>4. ActorOK(A) /\ \A r : r \in Buffered(A) <=> r \in Buffered(actor) \cup {h} BY <1>0, <2>3, AppendActor
  <2>5. Turn(A, flush, closing) BY <2>1, <2>2
  <2> HIDE DEF A
  <2>6. /\ \E X, T : Moves({h}, X, T)
        /\ flush' = flush \/ flush' = settle_flushes(actor', flush)
    BY <1>0, <2>4, <2>5, TurnMoves
  <2>7. Receives({h}, flush) BY <2>1, <2>2 DEF Receives
  <2> QED BY <2>6, <2>7 DEF Steps
<1>2. CASE HandleFlush
  <2>1. /\ commands # <<>> /\ Head(commands).type = "flush" /\ commands' = Tail(commands)
        /\ Turn(Close(actor, Partitions), [flush EXCEPT ![Head(commands).id] = "waiting"], closing)
    BY <1>2 DEF HandleFlush, close_all
  <2>2. PICK f \in Flushes : Head(commands) = FlushCommand(f) /\ Head(commands).id = f
    BY <1>0, <2>1, HeadCommand
  <2> DEFINE A == Close(actor, Partitions)
             F == [flush EXCEPT ![f] = "waiting"]
  <2>4. ActorOK(A) /\ \A r : r \in Buffered(A) <=> r \in Buffered(actor) \cup {} BY <1>0, CloseActor
  <2>5. Turn(A, F, closing) BY <2>1, <2>2
  <2>7. Receives({}, F) BY <2>1, <2>2 DEF Receives
  <2> HIDE DEF A, F
  <2>6. /\ \E X, T : Moves({}, X, T)
        /\ flush' = F \/ flush' = settle_flushes(actor', F)
    BY <1>0, <2>4, <2>5, TurnMoves
  <2> QED BY <2>6, <2>7 DEF Steps
<1>3. ASSUME NEW A, ActorOK(A), \A r : r \in Buffered(A) <=> r \in Buffered(actor),
             NEW C, Turn(A, flush, C), commands' = commands
      PROVE  \E N, X, T, F : Steps(N, X, T, F)
  <2>1. \A r : r \in Buffered(A) <=> r \in Buffered(actor) \cup {} BY <1>3
  <2>2. /\ \E X, T : Moves({}, X, T)
        /\ flush' = flush \/ flush' = settle_flushes(actor', flush)
    BY <1>0, <1>3, <2>1, TurnMoves
  <2>3. Receives({}, flush) BY <1>3 DEF Receives
  <2> QED BY <2>2, <2>3 DEF Steps
<1>4. CASE HandleClosed BY <1>0, <1>3, <1>4, CloseActor DEF HandleClosed, close_all
<1>5. ASSUME NEW c \in completions, HandleCompleted(c)
      PROVE  \E N, X, T, F : Steps(N, X, T, F)
  BY <1>0, <1>3, <1>5, SettleActor DEF HandleCompleted
<1>6. ASSUME NEW lingered \in SUBSET Partitions, Wake(lingered)
      PROVE  \E N, X, T, F : Steps(N, X, T, F)
  BY <1>0, <1>3, <1>6, CloseActor DEF Wake, close_expired
<1>7. ASSUME NEW A, ActorOK(A), NEW X, X \subseteq Buffered(actor),
             \A r : r \in Buffered(A) <=> r \in Buffered(actor) /\ r \notin X,
             Proceed(A, flush, closing), commands' = commands,
             outcome' = [r \in Records |-> IF r \in X THEN Told("unsent") ELSE outcome[r]]
      PROVE  \E N, Y, T, F : Steps(N, Y, T, F)
  <2>1. /\ \E T : Moves({}, X, T)
        /\ flush' = flush \/ flush' = settle_flushes(actor', flush)
    BY <1>0, <1>7, ProceedMoves
  <2>2. Receives({}, flush) BY <1>7 DEF Receives
  <2> QED BY <2>1, <2>2 DEF Steps
<1>8. ASSUME NEW A, ActorOK(A), \A r : r \in Buffered(A) <=> r \in Buffered(actor),
             Proceed(A, flush, closing), commands' = commands, outcome' = outcome
      PROVE  \E N, Y, T, F : Steps(N, Y, T, F)
  <2>1. PICK X : X = {} OBVIOUS
  <2>2. outcome = [r \in Records |-> outcome[r]] BY <1>0 DEF Shapes
  <2>3. outcome' = [r \in Records |-> IF r \in X THEN Told("unsent") ELSE outcome[r]] BY <1>8, <2>1, <2>2
  <2>4. /\ X \subseteq Buffered(actor)
        /\ \A r : r \in Buffered(A) <=> r \in Buffered(actor) /\ r \notin X
    BY <1>8, <2>1
  <2> QED BY <1>7, <1>8, <2>3, <2>4
<1>9. CASE ClaimOk
  <2> DEFINE A == [actor EXCEPT !.identity = issued + 1]
  <2>1. DOMAIN A = Fields /\ A.open = actor.open /\ A.pending = actor.pending BY <1>0 DEF ActorOK, Fields
  <2>2. Proceed(A, flush, closing) /\ commands' = commands /\ outcome' = outcome BY <1>9 DEF ClaimOk
  <2> HIDE DEF A
  <2>3. ActorOK(A) /\ \A r : r \in Buffered(A) <=> r \in Buffered(actor) BY <1>0, <2>1, SameBuffers
  <2> QED BY <1>8, <2>2, <2>3
<1>10. CASE ClaimRetriable
  <2>1. Proceed(actor, flush, closing) /\ commands' = commands /\ outcome' = outcome
    BY <1>10 DEF ClaimRetriable
  <2> QED BY <1>0, <1>8, <2>1
<1>11. CASE ClaimTerminal
  <2> DEFINE X == Buffered(actor)
             A == fail_buffered(actor)
  <2>1. /\ Proceed(A, flush, closing) /\ commands' = commands
        /\ outcome' = [r \in Records |-> IF r \in X THEN Told("unsent") ELSE outcome[r]]
    BY <1>11 DEF ClaimTerminal, Resolve
  <2>2. ActorOK(A) /\ \A r : r \in Buffered(A) <=> r \in Buffered(actor) /\ r \notin X BY <1>0, FailActor
  <2>3. X \subseteq Buffered(actor) OBVIOUS
  <2> HIDE DEF A, X
  <2> QED BY <1>7, <2>1, <2>2, <2>3
<1> QED BY <1>1, <1>2, <1>4, <1>5, <1>6, <1>9, <1>10, <1>11 DEF ActorNext

(* What a step of the actor leaves of the channel.                         *)
LEMMA ChannelStep ==
  ASSUME Placed, NEW N, NEW F, Receives(N, F)
  PROVE  /\ commands' \in Seq(Commands) /\ N \subseteq Records
         /\ (\A i, j \in DOMAIN commands :
               commands[i] = commands[j] /\ commands[i].type = "append" => i = j)'
         /\ \A r : r \in N => InChannel(r)
         /\ \A r : InChannel(r)' => InChannel(r) /\ r \notin N
         /\ \A r : InChannel(r) => InChannel(r)' \/ r \in N
<1>0. /\ commands \in Seq(Commands)
      /\ \A i, j \in DOMAIN commands :
           commands[i] = commands[j] /\ commands[i].type = "append" => i = j
  BY DEF Placed
<1>1. \A r : AppendCommand(r).type = "append" /\ AppendCommand(r).id = r BY DEF AppendCommand
<1>2. CASE N = {} /\ commands' = commands BY <1>0, <1>2 DEF InChannel
<1>3. ASSUME commands # <<>>, commands' = Tail(commands) PROVE
        /\ commands' \in Seq(Commands)
        /\ 1 \in DOMAIN commands /\ Head(commands) = commands[1]
        /\ \A i \in DOMAIN commands' : i + 1 \in DOMAIN commands /\ i + 1 # 1 /\ commands'[i] = commands[i + 1]
        /\ \A i \in DOMAIN commands : i # 1 => i - 1 \in DOMAIN commands' /\ commands'[i - 1] = commands[i]
        /\ \A i, j \in DOMAIN commands' : i + 1 = j + 1 => i = j
  <2>1. /\ commands' \in Seq(Commands)
        /\ 1 \in DOMAIN commands /\ Head(commands) = commands[1]
        /\ \A i \in DOMAIN commands' : i + 1 \in DOMAIN commands /\ commands'[i] = commands[i + 1]
        /\ \A i \in DOMAIN commands : i # 1 => i - 1 \in DOMAIN commands' /\ (i - 1) + 1 = i
    BY <1>3, HeadCommand
  <2>2. \A i \in DOMAIN commands' : i \in Nat /\ i # 0 BY <2>1
  <2>3. \A i \in DOMAIN commands' : i + 1 # 1 BY <2>2
  <2>4. \A i, j \in DOMAIN commands' : i + 1 = j + 1 => i = j BY <2>2
  <2> QED BY <2>1, <2>3, <2>4
<1>4. ASSUME NEW h \in Records, N = {h}, commands # <<>>, Head(commands) = AppendCommand(h), commands' = Tail(commands)
      PROVE  /\ \A r : r \in N => InChannel(r)
             /\ \A r : InChannel(r)' => InChannel(r) /\ r \notin N
             /\ \A r : InChannel(r) => InChannel(r)' \/ r \in N
  <2>1. InChannel(h) BY <1>3, <1>4 DEF InChannel
  <2>2. ASSUME NEW r, InChannel(r)' PROVE InChannel(r) /\ r # h
    <3>1. PICK i \in DOMAIN commands' : commands'[i] = AppendCommand(r) BY <2>2 DEF InChannel
    <3>2. i + 1 \in DOMAIN commands /\ commands[i + 1] = AppendCommand(r) /\ i + 1 # 1 BY <1>3, <1>4, <3>1
    <3>3. r # h BY <1>0, <1>1, <1>3, <1>4, <3>2
    <3> QED BY <3>2, <3>3 DEF InChannel
  <2>3. ASSUME NEW r, InChannel(r), r # h PROVE InChannel(r)'
    <3>1. PICK i \in DOMAIN commands : commands[i] = AppendCommand(r) BY <2>3 DEF InChannel
    <3>2. i # 1 BY <1>1, <1>3, <1>4, <2>3, <3>1
    <3>3. i - 1 \in DOMAIN commands' /\ commands'[i - 1] = AppendCommand(r) BY <1>3, <1>4, <3>1, <3>2
    <3> QED BY <3>3 DEF InChannel
  <2> QED BY <1>4, <2>1, <2>2, <2>3
<1>5. ASSUME NEW f \in Flushes, N = {}, commands # <<>>, Head(commands) = FlushCommand(f), commands' = Tail(commands)
      PROVE  \A r : InChannel(r)' <=> InChannel(r)
  <2>1. \A r : FlushCommand(f) # AppendCommand(r)
    <3>1. FlushCommand(f).type = "flush" BY DEF FlushCommand
    <3> QED BY <1>1, <3>1
  <2>2. ASSUME NEW r, InChannel(r)' PROVE InChannel(r)
    <3>1. PICK i \in DOMAIN commands' : commands'[i] = AppendCommand(r) BY <2>2 DEF InChannel
    <3> QED BY <1>3, <1>5, <3>1 DEF InChannel
  <2>3. ASSUME NEW r, InChannel(r) PROVE InChannel(r)'
    <3>1. PICK i \in DOMAIN commands : commands[i] = AppendCommand(r) BY <2>3 DEF InChannel
    <3>2. i # 1 BY <1>3, <1>5, <2>1, <3>1
    <3>3. i - 1 \in DOMAIN commands' /\ commands'[i - 1] = AppendCommand(r) BY <1>3, <1>5, <3>1, <3>2
    <3> QED BY <3>3 DEF InChannel
  <2> QED BY <2>2, <2>3
<1>6. ASSUME commands # <<>>, commands' = Tail(commands) PROVE
        (\A i, j \in DOMAIN commands : commands[i] = commands[j] /\ commands[i].type = "append" => i = j)'
  BY <1>0, <1>3, <1>6
<1> QED BY <1>2, <1>3, <1>4, <1>5, <1>6 DEF Receives

LEMMA ActorKeepsPlaced ==
  ASSUME Shapes, Placed, UNCHANGED <<accepted, ghosts, log>>,
         NEW N, NEW X, NEW T, NEW F, Steps(N, X, T, F)
  PROVE  Shapes' /\ Placed'
<1>1. /\ commands' \in Seq(Commands) /\ N \subseteq Records
      /\ (\A i, j \in DOMAIN commands :
            commands[i] = commands[j] /\ commands[i].type = "append" => i = j)'
      /\ \A r : r \in N => InChannel(r)
      /\ \A r : InChannel(r)' => InChannel(r) /\ r \notin N
  BY ChannelStep DEF Steps
<1>2. Moves(N, X, T) BY DEF Steps
<1>3. Shapes'
  <2>1. \A t \in tasks' : TaskOK(t) BY <1>2 DEF Shapes, Moves, Fresh
  <2>2. outcome' = [r \in Records |-> outcome'[r]] BY <1>2 DEF Moves
  <2>3. LogsOK' BY DEF Shapes, LogsOK
  <2> QED BY <1>2, <2>1, <2>2, <2>3 DEF Shapes, Moves
<1>4. \A r : Away(r)' => Away(r) \/ r \in T BY <1>2 DEF Moves, Away, Ghostly, Written
<1>5. ASSUME NEW r \in Records
      PROVE  (/\ InChannel(r) \/ r \in Buffered(actor) \/ Away(r) => r \in ToSet(accepted)
              /\ ~(InChannel(r) /\ r \in Buffered(actor))
              /\ ~(InChannel(r) /\ Away(r))
              /\ ~(r \in Buffered(actor) /\ Away(r)))'
  <2>1. /\ InChannel(r) \/ r \in Buffered(actor) \/ Away(r) => r \in ToSet(accepted)
        /\ ~(InChannel(r) /\ r \in Buffered(actor))
        /\ ~(InChannel(r) /\ Away(r))
        /\ ~(r \in Buffered(actor) /\ Away(r))
    BY DEF Placed
  <2>2. /\ (r \in Buffered(actor))' => (r \in Buffered(actor) \/ r \in N) /\ r \notin T
        /\ r \in T => r \in Buffered(actor) \/ r \in N
    BY <1>2 DEF Moves
  <2>3. (r \in ToSet(accepted))' <=> r \in ToSet(accepted) OBVIOUS
  <2> QED BY <1>1, <1>4, <2>1, <2>2, <2>3
<1>6. Placed' BY <1>1, <1>5 DEF Placed
<1> QED BY <1>3, <1>6

(* Steps that leave channel, actor and callers alone, and put no record    *)
(* on the wire or in a log that was not there.                             *)
LEMMA StaysPlaced ==
  ASSUME Placed, UNCHANGED <<commands, actor, accepted>>, \A r \in Records : Away(r)' => Away(r)
  PROVE  Placed'
<1>1. \A r : InChannel(r)' <=> InChannel(r) BY DEF InChannel
<1>2. \A r : (r \in Buffered(actor))' <=> r \in Buffered(actor) OBVIOUS
<1> QED BY <1>1, <1>2 DEF Placed

-----------------------------------------------------------------------------
(* What a step of a send task does.                                        *)

(* The answers of a broker: what it acknowledges or leaves unanswered may  *)
(* have been appended, what it rejects has not been, but for AfterAppend.  *)
LEMMA AnswerKinds ==
  ASSUME NEW p, NEW b, NEW a \in Answers(p, b)
  PROVE  /\ a.append \in BOOLEAN
         /\ a.append => MayAppend(log[p], forgotten[p], b)
         /\ \/ a.res.kind = "rejected" /\ a.res.err # "Unanswered" /\ (a.append => a.res.err = "AfterAppend" /\ "AfterAppend" \in Verdicts)
            \/ /\ a.res.kind = "ack" /\ a.res.err # "Unanswered"
               /\ a.res.off = BaseOffset(log[p], forgotten[p], b)
               /\ a.append \/ IsDuplicate(log[p], forgotten[p], b)
            \/ a.res.kind = "ambiguous" /\ a.res.err = "Unanswered"
<1> DEFINE fresh == MayAppend(log[p], forgotten[p], b)
           dup == IsDuplicate(log[p], forgotten[p], b)
           no(err) == [kind |-> "rejected", err |-> err, off |-> -1]
           base == BaseOffset(log[p], forgotten[p], b)
           refusal == Refusal(log[p], forgotten[p], b)
<1>1. fresh \in BOOLEAN BY DEF MayAppend, IsDuplicate
<1>2. refusal # "Unanswered" BY DEF Refusal
<1>3. \/ \E err \in Verdicts \cap {"Moved", "Busy", "Fatal"} : a = [res |-> no(err), append |-> FALSE]
      \/ \E err \in Verdicts \cap {"AfterAppend"} : a = [res |-> no(err), append |-> fresh]
      \/ a = [res |-> no(refusal), append |-> FALSE]
      \/ /\ a = [res |-> [kind |-> "ack", err |-> "none", off |-> base], append |-> fresh]
         /\ fresh \/ dup
      \/ \E x \in BOOLEAN : /\ a = [res |-> [kind |-> "ambiguous", err |-> "Unanswered", off |-> -1], append |-> x]
                            /\ x => fresh
  BY DEF Answers
<1> HIDE DEF fresh, dup, base, refusal
<1>4. CASE \E err \in Verdicts \cap {"Moved", "Busy", "Fatal"} : a = [res |-> no(err), append |-> FALSE]
  <2>1. a.append = FALSE /\ a.res.kind = "rejected" /\ a.res.err \in {"Moved", "Busy", "Fatal"} BY <1>4
  <2> QED BY <2>1
<1>5. CASE \E err \in Verdicts \cap {"AfterAppend"} : a = [res |-> no(err), append |-> fresh]
  <2>1. a.append = fresh /\ a.res.kind = "rejected" /\ a.res.err = "AfterAppend" /\ "AfterAppend" \in Verdicts
    BY <1>5
  <2> QED BY <1>1, <2>1 DEF fresh
<1>6. CASE a = [res |-> no(refusal), append |-> FALSE]
  <2>1. a.append = FALSE /\ a.res.kind = "rejected" /\ a.res.err = refusal BY <1>6
  <2> QED BY <1>2, <2>1
<1>7. CASE /\ a = [res |-> [kind |-> "ack", err |-> "none", off |-> base], append |-> fresh]
           /\ fresh \/ dup
  <2>1. a.append = fresh /\ a.res.kind = "ack" /\ a.res.err = "none" /\ a.res.off = base BY <1>7
  <2> QED BY <1>1, <1>7, <2>1 DEF fresh, base, dup
<1>8. CASE \E x \in BOOLEAN : /\ a = [res |-> [kind |-> "ambiguous", err |-> "Unanswered", off |-> -1], append |-> x]
                              /\ x => fresh
  <2>1. PICK x \in BOOLEAN : /\ a = [res |-> [kind |-> "ambiguous", err |-> "Unanswered", off |-> -1], append |-> x]
                             /\ x => fresh
    BY <1>8
  <2>2. a.append = x /\ a.res.kind = "ambiguous" /\ a.res.err = "Unanswered" BY <2>1
  <2> QED BY <2>1, <2>2 DEF fresh
<1> QED BY <1>3, <1>4, <1>5, <1>6, <1>7, <1>8

(* A task u that carries on for t.                                         *)
Succeeds(u, t) ==
  TaskOK(u) /\ u.batch = t.batch

LEMMA SuccessorTasks ==
  ASSUME NEW t \in tasks, NEW u, Succeeds(u, t), \A v \in tasks : TaskOK(v),
         tasks' = (tasks \ {t}) \cup {u}
  PROVE  /\ \A v \in tasks' : TaskOK(v)
         /\ \A r : Tasked(r)' <=> Tasked(r)
BY DEF Succeeds, Tasked

(* Results for the batches G of a task.                                    *)
Answered(u, t, G, result) ==
  /\ Succeeds(u, t) /\ u.live = t.live /\ u.attempt = t.attempt
  /\ \A p \in DOMAIN t.batch : u.res[p] = IF p \in G THEN result[p] ELSE t.res[p]

LEMMA ResultsRecorded ==
  ASSUME NEW t \in tasks, TaskOK(t), NEW G, G \subseteq Unanswered(t), NEW result,
         \A p \in G : result[p].kind \in ResultKinds \ {"unencodable"},
         tasks' = WithResults(t, G, result)
  PROVE  \E u : Answered(u, t, G, result) /\ tasks' = (tasks \ {t}) \cup {u}
<1> DEFINE u == [t EXCEPT !.res = [p \in DOMAIN @ |->
                                     IF p \in G THEN result[p] ELSE @[p]]]
<1>1. tasks' = (tasks \ {t}) \cup {u} BY DEF WithResults
<1>2. /\ DOMAIN u = TaskFields /\ u.batch = t.batch /\ u.live = t.live /\ u.attempt = t.attempt
      /\ DOMAIN u.res = DOMAIN t.batch
      /\ \A p \in DOMAIN t.batch : u.res[p] = IF p \in G THEN result[p] ELSE t.res[p]
  BY DEF TaskOK, TaskFields
<1>3. /\ \A p \in DOMAIN t.batch : u.res[p].kind \in ResultKinds
      /\ \A p \in t.live : u.res[p].kind # "unencodable"
  BY <1>2 DEF TaskOK
<1>4. t.attempt = 0 => G = {} BY DEF Unanswered, TaskOK
<1>5. t.attempt = 0 => \A p \in DOMAIN t.batch : u.res[p] = Due BY <1>2, <1>4 DEF TaskOK
<1> HIDE DEF u
<1>6. TaskOK(u) BY <1>2, <1>3, <1>5 DEF TaskOK
<1>7. Answered(u, t, G, result) BY <1>2, <1>6 DEF Answered, Succeeds
<1> QED BY <1>1, <1>7

(* A batch that is appended becomes the last entry of the log.             *)
Extends(l, m, b) ==
  /\ Listing(m) /\ Len(l) \in Nat
  /\ DOMAIN l = 1..Len(l) /\ DOMAIN m = 1..(Len(l) + 1)
  /\ \A i \in DOMAIN l : m[i] = l[i] /\ i \in DOMAIN m
  /\ \A i \in DOMAIN m : i \in DOMAIN l \/ i = Len(l) + 1
  /\ Len(l) + 1 \in DOMAIN m /\ Len(l) + 1 \notin DOMAIN l
  /\ m[Len(l) + 1].recs = b.recs /\ m[Len(l) + 1].pid = b.pid /\ m[Len(l) + 1].base = b.base
  /\ m[Len(l) + 1].off = LogEnd(l)

LEMMA EntryAppended ==
  ASSUME NEW l, NEW p, Listing(l), \A i \in DOMAIN l : EntryOK(l[i], p), NEW b, BatchOK(b, p)
  PROVE  /\ Extends(l, AppendBatch(l, b), b)
         /\ \A i \in DOMAIN AppendBatch(l, b) : EntryOK(AppendBatch(l, b)[i], p)
         /\ LogEnd(l) \in Nat
<1> DEFINE e == [recs |-> b.recs, pid |-> b.pid, base |-> b.base, off |-> LogEnd(l)]
           m == AppendBatch(l, b)
           n == Len(l) + 1
<1>1. /\ Listing(m)
      /\ DOMAIN l = 1..Len(l) /\ Len(l) \in Nat
      /\ DOMAIN m = 1..(Len(l) + 1)
      /\ \A i \in DOMAIN l : m[i] = l[i] /\ i \in DOMAIN m
      /\ m[n] = e
      /\ \A i \in DOMAIN m : i \in DOMAIN l \/ i = n
  <2> HIDE DEF e
  <2>1. m = Append(l, e) BY DEF AppendBatch, e
  <2> QED BY <2>1, ListingAppend
<1>2. n \in DOMAIN m /\ n \notin DOMAIN l BY <1>1
<1>3. LogEnd(l) \in Nat
  <2>1. CASE l = <<>> BY <2>1 DEF LogEnd
  <2>2. CASE l # <<>>
    <3>1. Len(l) \in DOMAIN l
      <4>1. l \in Seq({l[i] : i \in DOMAIN l}) BY DEF Listing
      <4>2. Len(l) # 0 BY <2>2, <4>1
      <4> QED BY <1>1, <4>2
    <3>2. EntryOK(l[Len(l)], p) BY <3>1
    <3>3. l[Len(l)].off \in Nat /\ Len(l[Len(l)].recs) \in Nat BY <3>2 DEF EntryOK
    <3>4. LogEnd(l) = l[Len(l)].off + Len(l[Len(l)].recs) BY <2>2 DEF LogEnd, Last
    <3> QED BY <3>3, <3>4
  <2> QED BY <2>1, <2>2
<1>4. DOMAIN e = {"recs", "pid", "base", "off"} /\ e.recs = b.recs /\ e.pid = b.pid /\ e.base = b.base /\ e.off = LogEnd(l)
  OBVIOUS
<1> HIDE DEF e, m
<1>5. EntryOK(e, p) BY <1>3, <1>4 DEF BatchOK, EntryOK
<1>6. \A i \in DOMAIN m : EntryOK(m[i], p) BY <1>1, <1>5
<1>7. Extends(l, m, b) BY <1>1, <1>2, <1>4 DEF Extends
<1> QED BY <1>3, <1>6, <1>7 DEF m

LEMMA ExtendedHolds ==
  ASSUME NEW l, NEW m, NEW b, Extends(l, m, b)
  PROVE  \A r : (\E i \in DOMAIN m : r \in ToSet(m[i].recs))
                  <=> (\E i \in DOMAIN l : r \in ToSet(l[i].recs)) \/ r \in ToSet(b.recs)
<1> DEFINE n == Len(l) + 1
<1>1. /\ \A i \in DOMAIN l : m[i] = l[i] /\ i \in DOMAIN m
      /\ \A i \in DOMAIN m : i \in DOMAIN l \/ i = n
      /\ n \in DOMAIN m /\ m[n].recs = b.recs
  BY DEF Extends
<1> HIDE DEF n
<1> SUFFICES ASSUME NEW r
             PROVE  (\E i \in DOMAIN m : r \in ToSet(m[i].recs))
                  <=> (\E i \in DOMAIN l : r \in ToSet(l[i].recs)) \/ r \in ToSet(b.recs)
  OBVIOUS
<1>2. ASSUME NEW i \in DOMAIN m, r \in ToSet(m[i].recs)
      PROVE  (\E j \in DOMAIN l : r \in ToSet(l[j].recs)) \/ r \in ToSet(b.recs)
  BY <1>1, <1>2
<1>3. ASSUME NEW i \in DOMAIN l, r \in ToSet(l[i].recs)
      PROVE  \E j \in DOMAIN m : r \in ToSet(m[j].recs)
  BY <1>1, <1>3
<1>4. ASSUME r \in ToSet(b.recs) PROVE \E j \in DOMAIN m : r \in ToSet(m[j].recs) BY <1>1, <1>4
<1> QED BY <1>2, <1>3, <1>4

(* What steps of tasks and brokers have in common.                         *)
Effect ==
  /\ Shapes'
  /\ \A r \in Records : Away(r)' => Away(r)
  /\ \A r : r \in OnTask => (r \in OnTask)' \/ outcome'[r] # Pending
  /\ \A r \in Records : outcome'[r] = Pending => outcome[r] = Pending

(* Logs to which batches were appended that were with tasks or on the wire. *)
LEMMA LogsExtended ==
  ASSUME LogsOK, DOMAIN log' = Partitions, NEW R,
         \A p \in Partitions : \/ log'[p] = log[p]
                               \/ \E b : /\ BatchOK(b, p) /\ log'[p] = AppendBatch(log[p], b)
                                         /\ ToSet(b.recs) \subseteq R
  PROVE  LogsOK' /\ \A r : Written(r)' => Written(r) \/ r \in R
<1>1. ASSUME NEW p \in Partitions
      PROVE  /\ Listing(log'[p]) /\ \A i \in DOMAIN log'[p] : EntryOK(log'[p][i], p)
             /\ \A r : (\E i \in DOMAIN log'[p] : r \in ToSet(log'[p][i].recs))
                         => (\E i \in DOMAIN log[p] : r \in ToSet(log[p][i].recs)) \/ r \in R
  <2>1. CASE log'[p] = log[p] BY <2>1 DEF LogsOK
  <2>2. ASSUME NEW b, BatchOK(b, p), log'[p] = AppendBatch(log[p], b), ToSet(b.recs) \subseteq R
        PROVE  /\ Listing(log'[p]) /\ \A i \in DOMAIN log'[p] : EntryOK(log'[p][i], p)
               /\ \A r : (\E i \in DOMAIN log'[p] : r \in ToSet(log'[p][i].recs))
                           => (\E i \in DOMAIN log[p] : r \in ToSet(log[p][i].recs)) \/ r \in R
    <3>1. Listing(log[p]) /\ \A i \in DOMAIN log[p] : EntryOK(log[p][i], p) BY DEF LogsOK
    <3>2. /\ Extends(log[p], log'[p], b)
          /\ \A i \in DOMAIN log'[p] : EntryOK(log'[p][i], p)
      BY <2>2, <3>1, EntryAppended
    <3> QED BY <2>2, <3>2, ExtendedHolds DEF Extends
  <2> QED BY <2>1, <2>2
<1>2. LogsOK' BY <1>1 DEF LogsOK
<1> QED BY <1>1, <1>2 DEF Written

LEMMA EffectOf ==
  ASSUME Shapes, \A u \in tasks' : TaskOK(u), \A g \in ghosts' : GhostOK(g), LogsOK',
         outcome' = [r \in Records |-> outcome'[r]], actor' = actor,
         \A r : Tasked(r)' => Tasked(r),
         \A r : Ghostly(r)' => Ghostly(r) \/ Tasked(r),
         \A r : Written(r)' => Written(r) \/ Tasked(r) \/ Ghostly(r),
         \A r : r \in OnTask => (r \in OnTask)' \/ outcome'[r] # Pending,
         \A r \in Records : outcome'[r] = Pending => outcome[r] = Pending
  PROVE  Effect
<1>1. Shapes' BY DEF Shapes
<1>2. \A r \in Records : Away(r)' => Away(r) BY DEF Away
<1> QED BY <1>1, <1>2 DEF Effect

(* Answers, or the lack of them, for the batches G of a task.              *)
LEMMA AnsweredEffect ==
  ASSUME Shapes, NEW t \in tasks, NEW G, G \subseteq Unanswered(t), NEW result,
         \A p \in G : result[p].kind \in ResultKinds \ {"unencodable"},
         tasks' = WithResults(t, G, result)
  PROVE  /\ \A u \in tasks' : TaskOK(u)
         /\ \A r : Tasked(r)' <=> Tasked(r)
         /\ \A r : r \in OnTask => (r \in OnTask)'
<1>1. PICK u : Answered(u, t, G, result) /\ tasks' = (tasks \ {t}) \cup {u} BY ResultsRecorded DEF Shapes
<1>2. (\A v \in tasks' : TaskOK(v)) /\ \A r : Tasked(r)' <=> Tasked(r)
  BY <1>1, SuccessorTasks DEF Answered, Shapes
<1>3. ASSUME NEW r, r \in OnTask PROVE (r \in OnTask)'
  <2>1. PICK v \in tasks : \E p \in DOMAIN v.batch : v.res[p].kind # "unencodable" /\ r \in ToSet(v.batch[p].recs)
    BY <1>3, OnTaskIs
  <2>2. PICK p \in DOMAIN v.batch : v.res[p].kind # "unencodable" /\ r \in ToSet(v.batch[p].recs) BY <2>1
  <2>3. \E w \in tasks' : w.batch = v.batch /\ w.res[p].kind # "unencodable"
    <3>1. CASE v = t BY <1>1, <2>2, <3>1 DEF Answered, Succeeds
    <3>2. CASE v # t BY <1>1, <2>2, <3>2
    <3> QED BY <3>1, <3>2
  <2>4. (r \in OnTask)' <=> \E w \in tasks' : \E q \in DOMAIN w.batch :
                            w.res[q].kind # "unencodable" /\ r \in ToSet(w.batch[q].recs)
    BY DEF OnTask, BatchRecords
  <2> QED BY <2>2, <2>3, <2>4
<1> QED BY <1>2, <1>3

LEMMA RouteEffect ==
  ASSUME Shapes, NEW t \in tasks, NEW G, RouteFails(t, G)
  PROVE  Effect
<1>1. /\ G \subseteq Unanswered(t) /\ UNCHANGED <<outcome, actor, log, ghosts>>
      /\ \E err : tasks' = WithResults(t, G, [p \in G |-> [kind |-> "rejected", err |-> err, off |-> -1]])
  BY DEF RouteFails, actorVars, brokerVars
<1>2. PICK err : tasks' = WithResults(t, G, [p \in G |-> [kind |-> "rejected", err |-> err, off |-> -1]])
  BY <1>1
<1> DEFINE result == [p \in G |-> [kind |-> "rejected", err |-> err, off |-> -1]]
<1>3. \A p \in G : result[p].kind \in ResultKinds \ {"unencodable"} BY DEF ResultKinds
<1>4. tasks' = WithResults(t, G, result) BY <1>2
<1> HIDE DEF result
<1>5. /\ \A u \in tasks' : TaskOK(u)
      /\ \A r : Tasked(r)' <=> Tasked(r)
      /\ \A r : r \in OnTask => (r \in OnTask)'
  BY <1>1, <1>3, <1>4, AnsweredEffect
<1>6. (\A r : Ghostly(r)' <=> Ghostly(r)) /\ \A r : Written(r)' <=> Written(r) BY <1>1 DEF Ghostly, Written
<1>7. LogsOK' /\ (\A g \in ghosts' : GhostOK(g)) /\ outcome' = [r \in Records |-> outcome'[r]]
  BY <1>1 DEF Shapes, LogsOK
<1> QED BY <1>1, <1>5, <1>6, <1>7, EffectOf

LEMMA LoseEffect ==
  ASSUME Shapes, NEW t \in tasks, NEW G, LoseRequest(t, G)
  PROVE  Effect
<1>1. /\ G \subseteq Unanswered(t) /\ UNCHANGED <<outcome, actor, log>>
      /\ ghosts' = ghosts \cup {[part |-> p, batch |-> t.batch[p]] : p \in G}
      /\ \E err : tasks' = WithResults(t, G, [p \in G |-> [kind |-> "ambiguous", err |-> err, off |-> -1]])
  BY DEF LoseRequest, actorVars
<1>2. PICK err : tasks' = WithResults(t, G, [p \in G |-> [kind |-> "ambiguous", err |-> err, off |-> -1]])
  BY <1>1
<1> DEFINE result == [p \in G |-> [kind |-> "ambiguous", err |-> err, off |-> -1]]
<1>3. \A p \in G : result[p].kind \in ResultKinds \ {"unencodable"} BY DEF ResultKinds
<1>4. tasks' = WithResults(t, G, result) BY <1>2
<1> HIDE DEF result
<1>5. /\ \A u \in tasks' : TaskOK(u)
      /\ \A r : Tasked(r)' <=> Tasked(r)
      /\ \A r : r \in OnTask => (r \in OnTask)'
  BY <1>1, <1>3, <1>4, AnsweredEffect
<1>6. G \subseteq DOMAIN t.batch /\ \A p \in G : p \in Partitions /\ BatchOK(t.batch[p], p)
  BY <1>1 DEF Shapes, TaskOK, Unanswered
<1>7. \A g \in ghosts' : g \in ghosts \/ (GhostOK(g) /\ \E p \in G : g.batch = t.batch[p])
  <2>1. ASSUME NEW p \in G, NEW g, g = [part |-> p, batch |-> t.batch[p]]
        PROVE  GhostOK(g) /\ g.batch = t.batch[p]
    <3>1. DOMAIN g = {"part", "batch"} /\ g.part = p /\ g.batch = t.batch[p] BY <2>1
    <3> QED BY <1>6, <3>1 DEF GhostOK
  <2> QED BY <1>1, <2>1
<1>8. \A r : Ghostly(r)' => Ghostly(r) \/ Tasked(r) BY <1>6, <1>7 DEF Ghostly, Tasked
<1>9. \A r : Written(r)' <=> Written(r) BY <1>1 DEF Written
<1>10. LogsOK' /\ (\A g \in ghosts' : GhostOK(g)) /\ outcome' = [r \in Records |-> outcome'[r]]
  BY <1>1, <1>7 DEF Shapes, LogsOK
<1> QED BY <1>1, <1>5, <1>8, <1>9, <1>10, EffectOf

(* A response: the results are answers of the broker, and what it appended *)
(* is at the end of the logs.                                              *)
Responded(t, G, result) ==
  /\ tasks' = WithResults(t, G, result)
  /\ \A p \in G : result[p].kind \in {"rejected", "ack", "ambiguous"}
  /\ DOMAIN log' = Partitions
  /\ \A p \in Partitions : \/ log'[p] = log[p]
                           \/ /\ p \in G /\ MayAppend(log[p], forgotten[p], t.batch[p])
                              /\ log'[p] = AppendBatch(log[p], t.batch[p])

LEMMA RespondAnswers ==
  ASSUME NEW t \in tasks, NEW G, Respond(t, G)
  PROVE  \E result : Responded(t, G, result)
<1>1. PICK ans : 
       LET answered == {p \in G : ans[p].res.err # "Unanswered"} IN
       /\ \A p \in G : ans[p] \in Answers(p, t.batch[p])
       /\ \E kept \in [{p[2] : p \in answered} -> answered] :
            /\ \A i \in DOMAIN kept : kept[i][2] = i
            /\ tasks' = WithResults(t, G, read_response(G, ans, kept))
       /\ log' = [p \in Partitions |->
                    IF p \in G /\ ans[p].append
                    THEN AppendBatch(log[p], t.batch[p]) ELSE log[p]]
  BY DEF Respond
<1> DEFINE answered == {p \in G : ans[p].res.err # "Unanswered"}
<1>2. PICK kept \in [{p[2] : p \in answered} -> answered] :
            tasks' = WithResults(t, G, read_response(G, ans, kept))
  BY <1>1
<1> DEFINE result == read_response(G, ans, kept)
<1>3. \A p \in G : ans[p].res.kind \in {"rejected", "ack", "ambiguous"}
                   /\ (ans[p].append => MayAppend(log[p], forgotten[p], t.batch[p]))
  <2>1. \A p \in G : ans[p] \in Answers(p, t.batch[p]) BY <1>1
  <2> QED BY <2>1, AnswerKinds
<1>4. ASSUME NEW p \in G PROVE result[p].kind \in {"rejected", "ack", "ambiguous"}
  <2>1. answered \subseteq G OBVIOUS
  <2> HIDE DEF answered
  <2>2. (\E q \in answered : result[p] = ans[q].res)
        \/ result[p] = [kind |-> "ambiguous", err |-> "Unanswered", off |-> -1]
    <3>1. CASE p[2] \in DOMAIN kept
      <4>1. kept[p[2]] \in answered BY <1>2, <3>1
      <4>2. result[p] = ans[kept[p[2]]].res BY <3>1 DEF read_response
      <4> HIDE DEF result
      <4> QED BY <4>1, <4>2
    <3>2. CASE p[2] \notin DOMAIN kept BY <3>2 DEF read_response
    <3> QED BY <3>1, <3>2
  <2> QED BY <1>3, <2>1, <2>2
<1>5. log' = [p \in Partitions |-> IF p \in G /\ ans[p].append
                                   THEN AppendBatch(log[p], t.batch[p]) ELSE log[p]]
  BY <1>1
<1>6. tasks' = WithResults(t, G, result) BY <1>2
<1> HIDE DEF result
<1>7. Responded(t, G, result) BY <1>3, <1>4, <1>5, <1>6 DEF Responded
<1> QED BY <1>7

LEMMA RespondEffect ==
  ASSUME Shapes, NEW t \in tasks, NEW G, Respond(t, G)
  PROVE  Effect
<1>1. G \subseteq Unanswered(t) /\ UNCHANGED <<outcome, actor, ghosts>> BY DEF Respond, actorVars
<1>2. PICK result : Responded(t, G, result) BY RespondAnswers
<1>3. \A p \in G : result[p].kind \in ResultKinds \ {"unencodable"} BY <1>2 DEF Responded, ResultKinds
<1>4. tasks' = WithResults(t, G, result) BY <1>2 DEF Responded
<1>5. /\ \A u \in tasks' : TaskOK(u)
      /\ \A r : Tasked(r)' <=> Tasked(r)
      /\ \A r : r \in OnTask => (r \in OnTask)'
  BY <1>1, <1>3, <1>4, AnsweredEffect
<1>6. G \subseteq DOMAIN t.batch /\ \A p \in G : p \in Partitions /\ BatchOK(t.batch[p], p)
  BY <1>1 DEF Shapes, TaskOK, Unanswered
<1> DEFINE R == {r \in Records : Tasked(r)}
<1>7. \A p \in G : ToSet(t.batch[p].recs) \subseteq R
  <2>1. \A p \in G : ToSet(t.batch[p].recs) \subseteq Records BY <1>6, ToSetType DEF BatchOK
  <2> QED BY <1>6, <2>1 DEF Tasked
<1>8. \A r \in R : Tasked(r) OBVIOUS
<1> HIDE DEF R
<1>9. \A p \in Partitions : \/ log'[p] = log[p]
                            \/ \E b : /\ BatchOK(b, p) /\ log'[p] = AppendBatch(log[p], b)
                                      /\ ToSet(b.recs) \subseteq R
  BY <1>2, <1>6, <1>7 DEF Responded
<1>10. LogsOK' /\ \A r : Written(r)' => Written(r) \/ r \in R
  <2>1. LogsOK /\ DOMAIN log' = Partitions BY <1>2 DEF Responded, Shapes
  <2> QED BY <1>9, <2>1, LogsExtended
<1>11. (\A r : Ghostly(r)' <=> Ghostly(r)) BY <1>1 DEF Ghostly
<1>12. (\A g \in ghosts' : GhostOK(g)) /\ outcome' = [r \in Records |-> outcome'[r]] BY <1>1 DEF Shapes
<1> QED BY <1>1, <1>5, <1>8, <1>10, <1>11, <1>12, EffectOf

(* What send_group tells the callers of a batch.                           *)
LEMMA VerdictKind ==
  ASSUME NEW t, TaskOK(t), NEW p \in DOMAIN t.batch, NEW r \in ToSet(t.batch[p].recs),
         t.res[p].kind # "unencodable"
  PROVE  /\ Verdict(t, r).kind = IF t.res[p].kind = "ack" THEN "ok" ELSE t.res[p].kind
         /\ Verdict(t, r) # Pending
<1>1. PartitionOf[r] = p /\ t.res[p].kind \in ResultKinds BY DEF TaskOK, BatchOK
<1>2. \A k : Told(k).kind = k /\ Acked(k).kind = "ok" BY DEF Told, Acked
<1>3. Pending.kind = "pending" BY DEF Pending
<1>4. CASE t.res[p].kind = "ack"
  <2>1. \E x : Verdict(t, r) = Acked(x) BY <1>1, <1>4 DEF Verdict
  <2> QED BY <1>2, <1>3, <1>4, <2>1
<1>5. CASE t.res[p].kind # "ack"
  <2>1. Verdict(t, r) = Told(t.res[p].kind) BY <1>1, <1>5 DEF Verdict
  <2> QED BY <1>1, <1>2, <1>3, <1>5, <2>1 DEF ResultKinds
<1> QED BY <1>4, <1>5

LEMMA TaskRecords ==
  ASSUME NEW t, TaskOK(t), NEW p \in DOMAIN t.batch, NEW r \in ToSet(t.batch[p].recs)
  PROVE  r \in Records /\ PartitionOf[r] = p
BY ToSetType DEF TaskOK, BatchOK

(* Encoding: the records of the batches it refuses are resolved.           *)
Encoded(t, u, bad) ==
  /\ bad \subseteq DOMAIN t.batch /\ t.live = DOMAIN t.batch
  /\ Succeeds(u, t) /\ u.live = DOMAIN t.batch \ bad /\ u.attempt = 1
  /\ \A p \in DOMAIN t.batch : u.res[p].kind = IF p \in bad THEN "unencodable" ELSE "due"
  /\ \A p \in DOMAIN t.batch : t.res[p] = Due
  /\ tasks' = (tasks \ {t}) \cup (IF u.live = {} THEN {} ELSE {u})
  /\ outcome' = [r \in Records |-> IF r \in BatchRecords(t, bad) THEN Told("unsent") ELSE outcome[r]]

LEMMA EncodeIs ==
  ASSUME Shapes, NEW t \in tasks, Encode(t)
  PROVE  \E u, bad : Encoded(t, u, bad)
<1> DEFINE bad == {p \in t.live : ToSet(t.batch[p].recs) \cap Unencodable # {}}
           u   == [t EXCEPT !.live = @ \ bad, !.attempt = 1,
                            !.res = [p \in DOMAIN @ |->
                               IF p \in bad
                               THEN [kind |-> "unencodable", err |-> "none", off |-> -1]
                               ELSE Due]]
<1>1. /\ t.attempt = 0
      /\ tasks' = (tasks \ {t}) \cup (IF u.live = {} THEN {} ELSE {u})
      /\ outcome' = [r \in Records |-> IF r \in BatchRecords(t, bad) THEN Told("unsent") ELSE outcome[r]]
  BY DEF Encode, Resolve
<1>2. TaskOK(t) BY DEF Shapes
<1>3. bad \subseteq t.live OBVIOUS
<1> HIDE DEF bad
<1>4. /\ DOMAIN u = TaskFields /\ u.batch = t.batch /\ u.live = t.live \ bad /\ u.attempt = 1
      /\ DOMAIN u.res = DOMAIN t.batch
      /\ \A p \in DOMAIN t.batch : u.res[p].kind = IF p \in bad THEN "unencodable" ELSE "due"
  BY <1>2 DEF TaskOK, TaskFields, Due
<1> HIDE DEF u
<1>5. TaskOK(u)
  <2>1. \A p \in DOMAIN u.batch : u.res[p].kind \in ResultKinds BY <1>4 DEF ResultKinds
  <2>2. u.attempt \in Nat /\ u.attempt # 0 BY <1>4
  <2>3. \A p \in u.live : u.res[p].kind # "unencodable" BY <1>2, <1>4 DEF TaskOK
  <2> QED BY <1>2, <1>4, <2>1, <2>2, <2>3 DEF TaskOK
<1>6. t.live = DOMAIN t.batch /\ \A p \in DOMAIN t.batch : t.res[p] = Due BY <1>1, <1>2 DEF TaskOK
<1>7. Encoded(t, u, bad) BY <1>1, <1>3, <1>4, <1>5, <1>6 DEF Encoded, Succeeds
<1> QED BY <1>7

LEMMA EncodeEffect ==
  ASSUME Shapes, NEW t \in tasks, Encode(t)
  PROVE  Effect
<1>0. TaskOK(t) BY DEF Shapes
<1>1. UNCHANGED <<actor, log, ghosts>> BY DEF Encode, actorVars, brokerVars
<1>2. PICK u, bad : Encoded(t, u, bad) BY EncodeIs
<1>3. tasks' \subseteq (tasks \ {t}) \cup {u} /\ TaskOK(u) /\ u.batch = t.batch BY <1>2 DEF Encoded, Succeeds
<1>4. \A v \in tasks' : TaskOK(v) BY <1>3 DEF Shapes
<1>5. \A r : Tasked(r)' => Tasked(r) BY <1>3 DEF Tasked
<1>6. (\A r : Ghostly(r)' <=> Ghostly(r)) /\ \A r : Written(r)' <=> Written(r) BY <1>1 DEF Ghostly, Written
<1>7. LogsOK' /\ \A g \in ghosts' : GhostOK(g) BY <1>1 DEF Shapes, LogsOK
<1>8. Told("unsent") # Pending BY DEF Told, Pending
<1>9. outcome' = [r \in Records |-> IF r \in BatchRecords(t, bad) THEN Told("unsent") ELSE outcome[r]]
  BY <1>2 DEF Encoded
<1>10. \A r \in Records : outcome'[r] = Pending => outcome[r] = Pending BY <1>8, <1>9
<1>11. ASSUME NEW r, r \in OnTask PROVE (r \in OnTask)' \/ outcome'[r] # Pending
  <2>1. PICK v \in tasks : \E p \in DOMAIN v.batch : v.res[p].kind # "unencodable" /\ r \in ToSet(v.batch[p].recs)
    BY <1>11, OnTaskIs
  <2>2. PICK p \in DOMAIN v.batch : v.res[p].kind # "unencodable" /\ r \in ToSet(v.batch[p].recs) BY <2>1
  <2>3. (r \in OnTask)' <=> \E w \in tasks' : \E q \in DOMAIN w.batch :
                            w.res[q].kind # "unencodable" /\ r \in ToSet(w.batch[q].recs)
    BY DEF OnTask, BatchRecords
  <2>4. CASE v # t
    <3>1. v \in tasks' BY <1>2, <2>4 DEF Encoded
    <3> QED BY <2>2, <2>3, <3>1
  <2>5. CASE v = t /\ p \in bad
    <3>1. r \in BatchRecords(t, bad) BY <2>2, <2>5 DEF BatchRecords
    <3>2. r \in Records BY <1>0, <2>2, <2>5, TaskRecords
    <3> QED BY <1>8, <1>9, <3>1, <3>2
  <2>6. CASE v = t /\ p \notin bad
    <3>1. p \in u.live /\ u.res[p].kind = "due" /\ p \in DOMAIN u.batch /\ u.batch = t.batch
      BY <1>2, <2>2, <2>6 DEF Encoded, Succeeds
    <3>2. u \in tasks' BY <1>2, <3>1 DEF Encoded
    <3> QED BY <2>2, <2>3, <2>6, <3>1, <3>2
  <2> QED BY <2>4, <2>5, <2>6
<1>12. outcome' = [r \in Records |-> outcome'[r]] BY <1>9
<1> QED BY <1>1, <1>4, <1>5, <1>6, <1>7, <1>10, <1>11, <1>12, EffectOf

LEMMA LowerOfTwo ==
  ASSUME NEW a \in Nat, NEW b \in Nat
  PROVE  Min({a, b}) \in {a, b}
<1>1. \E m \in {a, b} : \A x \in {a, b} : m <= x
  <2>1. a <= b \/ b <= a OBVIOUS
  <2> QED BY <2>1
<1> QED BY <1>1 DEF Min

(* Judging: a task goes on with a new round of the batches it retries, or  *)
(* its records are resolved.                                               *)
Retried(t, u, retry) ==
  /\ retry # {} /\ retry \subseteq t.live
  /\ \A p \in retry : Failed(t, p) /\ (t.res[p].kind = "ambiguous" => Idempotent) /\ retriable_error(t.res[p].err)
  /\ Succeeds(u, t) /\ u.live = retry /\ u.attempt # 0
  /\ \A p \in DOMAIN t.batch : u.res[p] = IF p \in retry THEN Due ELSE t.res[p]
  /\ tasks' = (tasks \ {t}) \cup {u} /\ outcome' = outcome /\ completions' = completions

Returned(t) ==
  LET D == {p \in DOMAIN t.batch : t.res[p].kind # "unencodable"} IN
  /\ tasks' = tasks \ {t} /\ completions' = completions \cup {Completed(t)}
  /\ outcome' = [r \in Records |-> IF r \in BatchRecords(t, D) THEN Verdict(t, r) ELSE outcome[r]]

LEMMA JudgeIs ==
  ASSUME Shapes, NEW t \in tasks, Judge(t)
  PROVE  Returned(t) \/ \E u, retry : Retried(t, u, retry)
<1>0. TaskOK(t) BY DEF Shapes
<1> DEFINE D == {p \in DOMAIN t.batch : t.res[p].kind # "unencodable"}
           again(retry) == [t EXCEPT !.live = retry,
                               !.res = [p \in DOMAIN @ |-> IF p \in retry THEN Due ELSE @[p]],
                               !.attempt = Min({@ + 1, MaxAttempts})]
<1>1. \/ \E inTime \in BOOLEAN :
           LET retry == {p \in t.live : Failed(t, p) /\ retriable(t, p, inTime)} IN
           retry # {} /\ tasks' = (tasks \ {t}) \cup {again(retry)} /\ outcome' = outcome /\ completions' = completions
      \/ /\ tasks' = tasks \ {t} /\ completions' = completions \cup {Completed(t)}
         /\ outcome' = [r \in Records |-> IF r \in BatchRecords(t, D) THEN Verdict(t, r) ELSE outcome[r]]
  BY DEF Judge, Resolve
<1>2. ASSUME NEW inTime \in BOOLEAN, NEW retry,
             retry = {p \in t.live : Failed(t, p) /\ retriable(t, p, inTime)},
             retry # {}, tasks' = (tasks \ {t}) \cup {again(retry)}, outcome' = outcome, completions' = completions
      PROVE  \E u, rt : Retried(t, u, rt)
  <2> DEFINE u == again(retry)
  <2>1. retry \subseteq t.live /\ \A p \in retry : Failed(t, p) /\ (t.res[p].kind = "ambiguous" => Idempotent) /\ retriable_error(t.res[p].err)
    BY <1>2 DEF retriable
  <2>2. /\ DOMAIN u = TaskFields /\ u.batch = t.batch /\ u.live = retry
        /\ u.attempt = Min({t.attempt + 1, MaxAttempts})
        /\ DOMAIN u.res = DOMAIN t.batch
        /\ \A p \in DOMAIN t.batch : u.res[p] = IF p \in retry THEN Due ELSE t.res[p]
    BY <1>0 DEF TaskOK, TaskFields
  <2>3. u.attempt \in Nat /\ u.attempt # 0
    <3>1. t.attempt + 1 \in Nat /\ MaxAttempts \in Nat /\ t.attempt + 1 # 0 /\ MaxAttempts # 0
      BY <1>0, FaultsAssumption DEF TaskOK
    <3>2. Min({t.attempt + 1, MaxAttempts}) \in {t.attempt + 1, MaxAttempts} BY <3>1, LowerOfTwo
    <3> QED BY <2>2, <3>1, <3>2
  <2>4. tasks' = (tasks \ {t}) \cup {u} BY <1>2
  <2> HIDE DEF u
  <2>5. TaskOK(u)
    <3>1. \A p \in DOMAIN u.batch : u.res[p].kind \in ResultKinds BY <1>0, <2>2 DEF TaskOK, ResultKinds, Due
    <3>2. \A p \in u.live : u.res[p].kind # "unencodable" BY <1>0, <2>1, <2>2 DEF TaskOK, Due
    <3> QED BY <1>0, <2>1, <2>2, <2>3, <3>1, <3>2 DEF TaskOK
  <2>6. Retried(t, u, retry) BY <1>2, <2>1, <2>2, <2>3, <2>4, <2>5 DEF Retried, Succeeds
  <2> QED BY <2>6
<1> HIDE DEF again
<1>3. CASE \E inTime \in BOOLEAN :
           LET retry == {p \in t.live : Failed(t, p) /\ retriable(t, p, inTime)} IN
           retry # {} /\ tasks' = (tasks \ {t}) \cup {again(retry)} /\ outcome' = outcome /\ completions' = completions
  BY <1>2, <1>3
<1>4. CASE /\ tasks' = tasks \ {t} /\ completions' = completions \cup {Completed(t)}
           /\ outcome' = [r \in Records |-> IF r \in BatchRecords(t, D) THEN Verdict(t, r) ELSE outcome[r]]
  BY <1>4 DEF Returned
<1> QED BY <1>1, <1>3, <1>4

LEMMA JudgeEffect ==
  ASSUME Shapes, NEW t \in tasks, Judge(t)
  PROVE  Effect
<1>0. TaskOK(t) BY DEF Shapes
<1>1. UNCHANGED <<actor, log, ghosts>> BY DEF Judge, actorVars, brokerVars
<1>2. (\A r : Ghostly(r)' <=> Ghostly(r)) /\ \A r : Written(r)' <=> Written(r) BY <1>1 DEF Ghostly, Written
<1>3. LogsOK' /\ \A g \in ghosts' : GhostOK(g) BY <1>1 DEF Shapes, LogsOK
<1>4. \A r : (r \in OnTask)' <=> \E w \in tasks' : \E q \in DOMAIN w.batch :
                            w.res[q].kind # "unencodable" /\ r \in ToSet(w.batch[q].recs)
  BY DEF OnTask, BatchRecords
<1>5. ASSUME NEW u, NEW retry, Retried(t, u, retry) PROVE Effect
  <2>1. tasks' = (tasks \ {t}) \cup {u} /\ Succeeds(u, t) /\ outcome' = outcome BY <1>5 DEF Retried
  <2>2. (\A v \in tasks' : TaskOK(v)) /\ \A r : Tasked(r)' <=> Tasked(r) BY <2>1, SuccessorTasks DEF Shapes
  <2>3. ASSUME NEW r, r \in OnTask PROVE (r \in OnTask)'
    <3>1. PICK v \in tasks : \E p \in DOMAIN v.batch : v.res[p].kind # "unencodable" /\ r \in ToSet(v.batch[p].recs)
      BY <2>3, OnTaskIs
    <3>2. PICK p \in DOMAIN v.batch : v.res[p].kind # "unencodable" /\ r \in ToSet(v.batch[p].recs) BY <3>1
    <3>3. \E w \in tasks' : w.batch = v.batch /\ w.res[p].kind # "unencodable"
      <4>1. CASE v = t BY <1>5, <3>2, <4>1 DEF Retried, Succeeds, Due
      <4>2. CASE v # t BY <2>1, <3>2, <4>2
      <4> QED BY <4>1, <4>2
    <3> QED BY <1>4, <3>2, <3>3
  <2>4. outcome' = [r \in Records |-> outcome'[r]] BY <2>1 DEF Shapes
  <2> QED BY <1>1, <1>2, <1>3, <2>1, <2>2, <2>3, <2>4, EffectOf
<1>6. CASE Returned(t)
  <2> DEFINE D == {p \in DOMAIN t.batch : t.res[p].kind # "unencodable"}
  <2>1. /\ tasks' = tasks \ {t}
        /\ outcome' = [r \in Records |-> IF r \in BatchRecords(t, D) THEN Verdict(t, r) ELSE outcome[r]]
    BY <1>6 DEF Returned
  <2>2. (\A v \in tasks' : TaskOK(v)) /\ \A r : Tasked(r)' => Tasked(r) BY <2>1 DEF Shapes, Tasked
  <2>3. \A r \in BatchRecords(t, D) : Verdict(t, r) # Pending
    <3>1. ASSUME NEW r \in BatchRecords(t, D) PROVE \E p \in D : r \in ToSet(t.batch[p].recs)
      BY DEF BatchRecords
    <3> QED BY <1>0, <3>1, VerdictKind
  <2>4. \A r \in Records : outcome'[r] = Pending => outcome[r] = Pending BY <2>1, <2>3
  <2>5. ASSUME NEW r, r \in OnTask PROVE (r \in OnTask)' \/ outcome'[r] # Pending
    <3>1. PICK v \in tasks : \E p \in DOMAIN v.batch : v.res[p].kind # "unencodable" /\ r \in ToSet(v.batch[p].recs)
      BY <2>5, OnTaskIs
    <3>2. PICK p \in DOMAIN v.batch : v.res[p].kind # "unencodable" /\ r \in ToSet(v.batch[p].recs) BY <3>1
    <3>3. CASE v # t BY <1>4, <2>1, <3>2, <3>3
    <3>4. CASE v = t
      <4>1. r \in BatchRecords(t, D) /\ r \in Records BY <1>0, <3>2, <3>4, TaskRecords DEF BatchRecords
      <4> QED BY <2>1, <2>3, <4>1
    <3> QED BY <3>3, <3>4
  <2>6. outcome' = [r \in Records |-> outcome'[r]] BY <2>1
  <2> QED BY <1>1, <1>2, <1>3, <2>2, <2>4, <2>5, <2>6, EffectOf
<1> QED BY <1>5, <1>6, JudgeIs

(* Every step of a task.                                                   *)
LEMMA TaskEffect ==
  ASSUME Shapes, TaskNext
  PROVE  Effect
BY EncodeEffect, JudgeEffect, RouteEffect, RespondEffect, LoseEffect DEF TaskNext, TaskStep

(* A request that arrives late puts its batch in the log or is dropped.    *)
Arrives(g) ==
  /\ ghosts' = ghosts \ {g} /\ DOMAIN log' = Partitions
  /\ \A p \in Partitions : \/ log'[p] = log[p]
                           \/ /\ p = g.part /\ MayAppend(log[p], forgotten[p], g.batch)
                              /\ log'[p] = AppendBatch(log[p], g.batch)

LEMMA GhostIs ==
  ASSUME Shapes, NEW g \in ghosts, GhostArrives(g)
  PROVE  Arrives(g)
<1>1. DOMAIN log = Partitions /\ g.part \in Partitions BY DEF Shapes, LogsOK, GhostOK
<1>2. ghosts' = ghosts \ {g} BY DEF GhostArrives
<1>3. log' = [log EXCEPT ![g.part] = IF MayAppend(@, forgotten[g.part], g.batch)
                                     THEN AppendBatch(@, g.batch) ELSE @]
  BY DEF GhostArrives
<1>4. DOMAIN log' = Partitions BY <1>1, <1>3
<1>5. ASSUME NEW p \in Partitions
      PROVE  \/ log'[p] = log[p]
             \/ /\ p = g.part /\ MayAppend(log[p], forgotten[p], g.batch)
                /\ log'[p] = AppendBatch(log[p], g.batch)
  BY <1>1, <1>3
<1> QED BY <1>2, <1>4, <1>5 DEF Arrives

LEMMA GhostEffect ==
  ASSUME Shapes, NEW g \in ghosts, GhostArrives(g)
  PROVE  Effect
<1>1. UNCHANGED <<outcome, actor, tasks>> BY DEF GhostArrives, actorVars
<1>2. Arrives(g) BY GhostIs
<1>3. GhostOK(g) BY DEF Shapes
<1> DEFINE R == {r \in Records : Ghostly(r)}
<1>4. ToSet(g.batch.recs) \subseteq R
  <2>1. ToSet(g.batch.recs) \subseteq Records BY <1>3, ToSetType DEF GhostOK, BatchOK
  <2> QED BY <2>1 DEF Ghostly
<1>5. \A r \in R : Ghostly(r) OBVIOUS
<1> HIDE DEF R
<1>6. \A p \in Partitions : \/ log'[p] = log[p]
                            \/ \E b : /\ BatchOK(b, p) /\ log'[p] = AppendBatch(log[p], b)
                                      /\ ToSet(b.recs) \subseteq R
  BY <1>2, <1>3, <1>4 DEF Arrives, GhostOK
<1>7. LogsOK' /\ \A r : Written(r)' => Written(r) \/ r \in R
  <2>1. LogsOK /\ DOMAIN log' = Partitions BY <1>2 DEF Arrives, Shapes
  <2> QED BY <1>6, <2>1, LogsExtended
<1>8. (\A r : Ghostly(r)' => Ghostly(r)) /\ \A h \in ghosts' : GhostOK(h) BY <1>2 DEF Arrives, Ghostly, Shapes
<1>9. (\A r : Tasked(r)' <=> Tasked(r)) /\ OnTask' = OnTask /\ \A u \in tasks' : TaskOK(u)
  BY <1>1 DEF Tasked, OnTask, BatchRecords, Shapes
<1>10. outcome' = [r \in Records |-> outcome'[r]] BY <1>1 DEF Shapes
<1> QED BY <1>1, <1>5, <1>7, <1>8, <1>9, <1>10, EffectOf

LEMMA UnchangedEffect ==
  ASSUME Shapes, UNCHANGED <<outcome, actor, tasks, ghosts, log>>
  PROVE  Effect
<1>1. (\A r : Tasked(r)' <=> Tasked(r)) /\ OnTask' = OnTask /\ \A u \in tasks' : TaskOK(u)
  BY DEF Tasked, OnTask, BatchRecords, Shapes
<1>2. (\A r : Ghostly(r)' <=> Ghostly(r)) /\ \A r : Written(r)' <=> Written(r) BY DEF Ghostly, Written
<1>3. LogsOK' /\ (\A g \in ghosts' : GhostOK(g)) /\ outcome' = [r \in Records |-> outcome'[r]]
  BY DEF Shapes, LogsOK
<1> QED BY <1>1, <1>2, <1>3, EffectOf

(* And every step that is not the actor's or a caller's.                   *)
LEMMA OtherEffect ==
  ASSUME Shapes, TaskNext \/ ClusterNext \/ DeadlinePasses \/ Stopped \/ UNCHANGED vars
  PROVE  Effect /\ UNCHANGED <<commands, actor, accepted, flush, covers>>
<1>1. CASE TaskNext
  <2>1. UNCHANGED <<commands, actor, accepted, flush, covers>>
    BY <1>1 DEF TaskNext, TaskStep, Encode, Judge, RouteFails, Respond, LoseRequest, callerVars, actorVars
  <2> QED BY <1>1, <2>1, TaskEffect
<1>2. ASSUME NEW g \in ghosts, GhostArrives(g) PROVE Effect /\ UNCHANGED <<commands, actor, accepted, flush, covers>>
  <2>1. UNCHANGED <<commands, actor, accepted, flush, covers>> BY <1>2 DEF GhostArrives, callerVars, actorVars
  <2> QED BY <1>2, <2>1, GhostEffect
<1>3. ASSUME NEW p \in Partitions, Forget(p) PROVE Effect /\ UNCHANGED <<commands, actor, accepted, flush, covers>>
  <2>1. UNCHANGED <<commands, actor, accepted, flush, covers, outcome, tasks, ghosts, log>>
    BY <1>3 DEF Forget, callerVars, actorVars
  <2> QED BY <2>1, UnchangedEffect
<1>4. CASE DeadlinePasses \/ Stopped \/ UNCHANGED vars
  <2>1. UNCHANGED <<commands, actor, accepted, flush, covers, outcome, tasks, ghosts, log>>
    BY <1>4 DEF DeadlinePasses, Stopped, vars, callerVars, actorVars, brokerVars
  <2> QED BY <2>1, UnchangedEffect
<1> QED BY <1>1, <1>2, <1>3, <1>4 DEF ClusterNext

-----------------------------------------------------------------------------
(* What a step of a caller does.                                           *)

(* A record that was not accepted is refused, expires or is withdrawn.     *)
Tells(r, k) ==
  /\ r \in Records \ ToSet(accepted) /\ k \in {"refused", "expired", "cancelled"}
  /\ outcome' = [outcome EXCEPT ![r] = Told(k)]
  /\ UNCHANGED <<commands, accepted, flush, covers>>

Accepts(r) ==
  /\ r \in Records \ ToSet(accepted) /\ r \in holding
  /\ commands' = Append(commands, AppendCommand(r)) /\ accepted' = Append(accepted, r)
  /\ UNCHANGED <<outcome, flush, covers>>

Flushing(f) ==
  /\ f \in Flushes /\ flush[f] = "idle"
  /\ flush' = [flush EXCEPT ![f] = "queued"]
  /\ commands' = Append(commands, FlushCommand(f))
  /\ covers' = [covers EXCEPT ![f] = ToSet(accepted)]
  /\ UNCHANGED <<outcome, accepted>>

Quiet == UNCHANGED <<outcome, commands, accepted, flush, covers>>

LEMMA CallerIs ==
  ASSUME HandedOver, CallerNext
  PROVE  /\ UNCHANGED <<actor, tasks, ghosts, log>>
         /\ \/ Quiet
            \/ \E r, k : Tells(r, k)
            \/ \E r : Accepts(r)
            \/ \E f : Flushing(f)
<1>0. UNCHANGED <<actor, tasks, ghosts, log>>
  BY DEF CallerNext, Submit, AcquirePermit, DropHandles, PermitTimeout, Enqueue, CancelAppend,
         CallFlush, actorVars, brokerVars
<1>1. CASE Submit
  <2> DEFINE n == submitted + 1
  <2>1. /\ UNCHANGED <<commands, accepted, flush, covers>> /\ submitted < NumRecords
        /\ outcome' = outcome \/ outcome' = [outcome EXCEPT ![n] = Told("refused")]
    BY <1>1 DEF Submit
  <2>2. n \in Records /\ n \notin 1..submitted BY <2>1, RecordsAssumption DEF HandedOver, Records
  <2> HIDE DEF n
  <2>3. n \notin ToSet(accepted) BY <2>2 DEF HandedOver
  <2> QED BY <1>0, <2>1, <2>2, <2>3 DEF Quiet, Tells
<1>2. CASE AcquirePermit \/ DropHandles BY <1>0, <1>2 DEF AcquirePermit, DropHandles, Quiet
<1>3. ASSUME NEW r \in Records, PermitTimeout(r) \/ CancelAppend(r) PROVE \E x, k : Tells(x, k)
  <2>1. /\ r \in ToSet(waiters) \/ r \in holding
        /\ UNCHANGED <<commands, accepted, flush, covers>>
        /\ \E k \in {"expired", "cancelled"} : outcome' = [outcome EXCEPT ![r] = Told(k)]
    BY <1>3 DEF PermitTimeout, CancelAppend
  <2>2. r \notin ToSet(accepted) BY <2>1 DEF HandedOver
  <2>3. \E k : Tells(r, k) BY <2>1, <2>2 DEF Tells
  <2> QED BY <2>3
<1>4. ASSUME NEW r \in Records, Enqueue(r) PROVE \E x : Accepts(x)
  <2>1. r \in holding /\ r \notin ToSet(accepted) BY <1>4 DEF Enqueue, HandedOver
  <2>2. Accepts(r) BY <1>4, <2>1 DEF Enqueue, Accepts
  <2> QED BY <2>2
<1>5. ASSUME NEW f \in Flushes, CallFlush(f) PROVE \E x : Flushing(x)
  <2>1. Flushing(f) BY <1>5 DEF CallFlush, Flushing
  <2> QED BY <2>1
<1> QED BY <1>0, <1>1, <1>2, <1>3, <1>4, <1>5 DEF CallerNext

(* A command joins the channel.                                            *)
LEMMA ChannelAppend ==
  ASSUME Placed, NEW c \in Commands, commands' = Append(commands, c)
  PROVE  /\ commands' \in Seq(Commands)
         /\ Len(commands) \in Nat /\ DOMAIN commands = 1..Len(commands)
         /\ DOMAIN commands' = 1..(Len(commands) + 1)
         /\ \A i \in DOMAIN commands : commands'[i] = commands[i] /\ i \in DOMAIN commands'
         /\ commands'[Len(commands) + 1] = c
         /\ \A i \in DOMAIN commands' : i \in DOMAIN commands \/ i = Len(commands) + 1
         /\ Len(commands) + 1 \in DOMAIN commands'
         /\ \A i \in DOMAIN commands : i \in Nat /\ i < Len(commands) + 1
         /\ \A r : InChannel(r)' <=> InChannel(r) \/ c = AppendCommand(r)
<1> DEFINE n == Len(commands) + 1
<1>1. commands \in Seq(Commands) BY DEF Placed
<1>2. /\ commands' \in Seq(Commands) /\ Len(commands) \in Nat /\ DOMAIN commands = 1..Len(commands)
      /\ DOMAIN commands' = 1..n
      /\ \A i \in 1..Len(commands) : commands'[i] = commands[i]
      /\ commands'[n] = c
  BY <1>1
<1>3. /\ \A i \in 1..Len(commands) : i \in 1..n /\ i \in Nat /\ i < n
      /\ \A i \in 1..n : i \in 1..Len(commands) \/ i = n
      /\ n \in 1..n
  BY <1>2
<1> HIDE DEF n
<1>4. ASSUME NEW r, InChannel(r)' PROVE InChannel(r) \/ c = AppendCommand(r) BY <1>2, <1>3, <1>4 DEF InChannel
<1>5. ASSUME NEW r, InChannel(r) \/ c = AppendCommand(r) PROVE InChannel(r)'
  <2>1. CASE InChannel(r)
    <3>1. PICK i \in DOMAIN commands : commands[i] = AppendCommand(r) BY <2>1 DEF InChannel
    <3>2. i \in DOMAIN commands' /\ commands'[i] = AppendCommand(r) BY <1>2, <1>3, <3>1
    <3> QED BY <3>2 DEF InChannel
  <2>2. CASE c = AppendCommand(r) BY <1>2, <1>3, <2>2 DEF InChannel
  <2> QED BY <1>5, <2>1, <2>2
<1> QED BY <1>2, <1>3, <1>4, <1>5 DEF n

LEMMA CommandsDiffer ==
  /\ \A r, x : AppendCommand(r) = AppendCommand(x) => r = x
  /\ \A f, x : FlushCommand(f) = FlushCommand(x) => f = x
  /\ \A r, f : AppendCommand(r) # FlushCommand(f)
  /\ \A r : AppendCommand(r).type = "append"
  /\ \A f : FlushCommand(f).type = "flush"
<1>1. \A r : AppendCommand(r).type = "append" /\ AppendCommand(r).id = r BY DEF AppendCommand
<1>2. \A f : FlushCommand(f).type = "flush" /\ FlushCommand(f).id = f BY DEF FlushCommand
<1> HIDE DEF AppendCommand, FlushCommand
<1> QED BY <1>1, <1>2

LEMMA CallerKeepsPlaced ==
  ASSUME Shapes, HandedOver, Placed, CallerNext
  PROVE  Shapes' /\ Placed'
<1>1. /\ UNCHANGED <<actor, tasks, ghosts, log>>
      /\ \/ Quiet
         \/ \E r, k : Tells(r, k)
         \/ \E r : Accepts(r)
         \/ \E f : Flushing(f)
  BY CallerIs
<1>2. Shapes'
  <2>1. outcome' = [r \in Records |-> outcome'[r]]
    <3>1. outcome' = outcome \/ \E r \in Records : \E k : outcome' = [outcome EXCEPT ![r] = Told(k)]
      BY <1>1 DEF Quiet, Tells, Accepts, Flushing
    <3>2. outcome = [r \in Records |-> outcome[r]] BY DEF Shapes
    <3> QED BY <3>1, <3>2
  <2>2. LogsOK' BY <1>1 DEF Shapes, LogsOK
  <2> QED BY <1>1, <2>1, <2>2 DEF Shapes
<1>3. /\ \A r : Away(r)' <=> Away(r)
      /\ \A r : (r \in Buffered(actor))' <=> r \in Buffered(actor)
  BY <1>1 DEF Away, Tasked, Ghostly, Written
<1>4. CASE commands' = commands /\ accepted' = accepted BY <1>1, <1>2, <1>3, <1>4, StaysPlaced
<1>5. ASSUME NEW r, Accepts(r) PROVE Placed'
  <2>1. /\ r \in Records /\ r \notin ToSet(accepted) /\ AppendCommand(r) \in Commands
        /\ commands' = Append(commands, AppendCommand(r)) /\ accepted' = Append(accepted, r)
    BY <1>5 DEF Accepts, Commands
  <2>2. ~InChannel(r) /\ r \notin Buffered(actor) /\ ~Away(r) BY <2>1 DEF Placed
  <2>3. \A x : InChannel(x)' <=> InChannel(x) \/ x = r BY <2>1, ChannelAppend, CommandsDiffer
  <2>4. \A x : x \in ToSet(accepted') <=> x \in ToSet(accepted) \/ x = r BY <2>1, ToSetAppend DEF HandedOver
  <2>5. (\A i, j \in DOMAIN commands : commands[i] = commands[j] /\ commands[i].type = "append" => i = j)'
    <3> DEFINE n == Len(commands) + 1
    <3>1. /\ \A i \in DOMAIN commands' : i \in DOMAIN commands \/ i = n
          /\ \A i \in DOMAIN commands : commands'[i] = commands[i]
          /\ commands'[n] = AppendCommand(r)
      BY <2>1, ChannelAppend
    <3>2. \A i \in DOMAIN commands : commands[i] # AppendCommand(r) BY <2>2 DEF InChannel
    <3>3. \A i, j \in DOMAIN commands : commands[i] = commands[j] /\ commands[i].type = "append" => i = j
      BY DEF Placed
    <3> HIDE DEF n
    <3> QED BY <3>1, <3>2, <3>3
  <2>6. commands' \in Seq(Commands) BY <2>1, ChannelAppend
  <2>7. ASSUME NEW x \in Records
        PROVE  (/\ InChannel(x) \/ x \in Buffered(actor) \/ Away(x) => x \in ToSet(accepted)
                /\ ~(InChannel(x) /\ x \in Buffered(actor))
                /\ ~(InChannel(x) /\ Away(x))
                /\ ~(x \in Buffered(actor) /\ Away(x)))'
    <3>1. /\ InChannel(x) \/ x \in Buffered(actor) \/ Away(x) => x \in ToSet(accepted)
          /\ ~(InChannel(x) /\ x \in Buffered(actor))
          /\ ~(InChannel(x) /\ Away(x))
          /\ ~(x \in Buffered(actor) /\ Away(x))
      BY DEF Placed
    <3> QED BY <1>3, <2>2, <2>3, <2>4, <3>1
  <2> QED BY <2>5, <2>6, <2>7 DEF Placed
<1>6. ASSUME NEW f, Flushing(f) PROVE Placed'
  <2>1. /\ FlushCommand(f) \in Commands /\ commands' = Append(commands, FlushCommand(f)) /\ accepted' = accepted
    BY <1>6 DEF Flushing, Commands
  <2>2. \A x : InChannel(x)' <=> InChannel(x) BY <2>1, ChannelAppend, CommandsDiffer
  <2>3. (\A i, j \in DOMAIN commands : commands[i] = commands[j] /\ commands[i].type = "append" => i = j)'
    <3> DEFINE n == Len(commands) + 1
    <3>1. /\ \A i \in DOMAIN commands' : i \in DOMAIN commands \/ i = n
          /\ \A i \in DOMAIN commands : commands'[i] = commands[i]
          /\ commands'[n] = FlushCommand(f)
      BY <2>1, ChannelAppend
    <3>2. FlushCommand(f).type # "append" BY CommandsDiffer
    <3>3. \A i, j \in DOMAIN commands : commands[i] = commands[j] /\ commands[i].type = "append" => i = j
      BY DEF Placed
    <3> HIDE DEF n
    <3> QED BY <3>1, <3>2, <3>3
  <2>4. commands' \in Seq(Commands) BY <2>1, ChannelAppend
  <2> QED BY <1>3, <2>1, <2>2, <2>3, <2>4 DEF Placed
<1>7. Quiet \/ (\E r, k : Tells(r, k)) => commands' = commands /\ accepted' = accepted BY DEF Quiet, Tells
<1> QED BY <1>1, <1>2, <1>4, <1>5, <1>6, <1>7

(* CustodyInv is inductive.                                                *)
LEMMA CustodyStep == CustodyInv /\ [Next]_vars => CustodyInv'
<1> SUFFICES ASSUME CustodyInv, [Next]_vars PROVE CustodyInv' OBVIOUS
<1>1. InFlightInv' /\ HandedOver' BY NextKeepsInv, HandedStep DEF CustodyInv
<1>2. CASE CallerNext BY <1>1, <1>2, CallerKeepsPlaced DEF CustodyInv
<1>3. CASE ActorNext
  <2>1. UNCHANGED <<accepted, ghosts, log>>
    BY <1>3 DEF ActorNext, HandleAppend, HandleFlush, HandleClosed, HandleCompleted, Wake, ClaimOk,
                ClaimRetriable, ClaimTerminal, callerVars, brokerVars
  <2>2. \E N, X, T, F : Steps(N, X, T, F) BY <1>3, ActorSteps
  <2>3. Shapes' /\ Placed' BY <2>1, <2>2, ActorKeepsPlaced DEF CustodyInv
  <2> QED BY <1>1, <2>3 DEF CustodyInv
<1>4. CASE TaskNext \/ ClusterNext \/ DeadlinePasses \/ Stopped \/ UNCHANGED vars
  <2>1. Effect /\ UNCHANGED <<commands, actor, accepted, flush, covers>> BY <1>4, OtherEffect DEF CustodyInv
  <2>2. Placed' BY <2>1, StaysPlaced DEF Effect, CustodyInv
  <2> QED BY <1>1, <2>1, <2>2 DEF CustodyInv, Effect
<1> QED BY <1>2, <1>3, <1>4 DEF Next

LEMMA CustodyInit == Init => CustodyInv
<1> SUFFICES ASSUME Init PROVE CustodyInv OBVIOUS
<1>1. InFlightInv BY InitEstablishesInv
<1>2. ActorOK(actor) /\ \A r : r \notin Buffered(actor)
  <2>1. /\ DOMAIN actor = Fields
        /\ actor.open = [p \in Partitions |-> <<>>] /\ actor.pending = [p \in Partitions |-> <<>>]
    BY DEF Init, NewActor, Fields
  <2> QED BY <2>1, EmptyBuffer, BufferedIn DEF ActorOK
<1>3. tasks = {} /\ ghosts = {} /\ log = [p \in Partitions |-> <<>>] /\ outcome = [r \in Records |-> Pending]
  BY DEF Init
<1>4. LogsOK
  <2>1. Listing(<<>>) BY DEF Listing
  <2> QED BY <1>3, <2>1 DEF LogsOK
<1>5. Shapes BY <1>2, <1>3, <1>4 DEF Shapes
<1>6. HandedOver BY RecordsAssumption DEF Init, HandedOver, ToSet
<1>7. Placed
  <2>1. \A r : ~Away(r) BY <1>3 DEF Away, Tasked, Ghostly, Written
  <2>2. commands = <<>> BY DEF Init
  <2>3. \A r : ~InChannel(r) BY <2>2 DEF InChannel
  <2> QED BY <1>2, <2>1, <2>2, <2>3 DEF Placed
<1> QED BY <1>1, <1>5, <1>6, <1>7 DEF CustodyInv

-----------------------------------------------------------------------------
(* What a flush waits for, step by step.                                   *)

(* Records in hand stay in hand until they are resolved, and a resolved    *)
(* record stays resolved.                                                  *)
HandKept ==
  /\ \A r \in Records : InHand(r) => InHand(r)' \/ outcome'[r] # Pending
  /\ \A r \in Records : outcome'[r] = Pending => outcome[r] = Pending

LEMMA CoveredStays ==
  ASSUME NEW f \in Flushes, Covered(f), covers[f] \subseteq Records, HandKept,
         UNCHANGED <<commands, flush, covers>>, ToSet(accepted) \subseteq ToSet(accepted')
  PROVE  Covered(f)'
<1>1. \A k, r : Before(k, r)' <=> Before(k, r) BY DEF Before
<1> QED BY <1>1 DEF Covered, HandKept

(* Commands that join the channel leave the ones before them in place.     *)
LEMMA CoveredAppend ==
  ASSUME NEW f \in Flushes, Covered(f), covers[f] \subseteq Records, HandKept,
         Placed, NEW c \in Commands, commands' = Append(commands, c), c # FlushCommand(f),
         covers'[f] = covers[f], flush'[f] = flush[f], ToSet(accepted) \subseteq ToSet(accepted')
  PROVE  Covered(f)'
<1> DEFINE n == Len(commands) + 1
<1>1. /\ \A i \in DOMAIN commands : commands'[i] = commands[i] /\ i \in DOMAIN commands'
      /\ commands'[n] = c
      /\ \A i \in DOMAIN commands' : i \in DOMAIN commands \/ i = n
  BY ChannelAppend
<1> HIDE DEF n
<1>2. \A k, r : Before(k, r) => Before(k, r)' BY <1>1 DEF Before
<1>3. \A k \in DOMAIN commands' : commands'[k] = FlushCommand(f) => k \in DOMAIN commands /\ commands[k] = FlushCommand(f)
  BY <1>1
<1>4. /\ covers'[f] \subseteq ToSet(accepted')
      /\ flush'[f] = "idle" => \A k \in DOMAIN commands' : commands'[k] # FlushCommand(f)
  BY <1>3 DEF Covered
<1>5. ASSUME NEW k \in DOMAIN commands', commands'[k] = FlushCommand(f), NEW r \in covers'[f], outcome'[r] = Pending
      PROVE  Before(k, r)' \/ InHand(r)'
  BY <1>2, <1>3, <1>5 DEF Covered, HandKept
<1>6. flush'[f] = "waiting" => \A r \in covers'[f] : outcome'[r] = Pending => InHand(r)'
  BY DEF Covered, HandKept
<1>7. flush'[f] = "done" => \A r \in covers'[f] : outcome'[r] # Pending BY DEF Covered, HandKept
<1> QED BY <1>4, <1>5, <1>6, <1>7 DEF Covered

(* A flush call covers what was accepted before it.                        *)
LEMMA CoveredCall ==
  ASSUME NEW f, Flushing(f), Covered(f), HandKept, Placed, HandedOver,
         flush \in [Flushes -> {"idle", "queued", "waiting", "done"}],
         covers \in [Flushes -> SUBSET Records],
         \A r \in ToSet(accepted) : outcome[r] = Pending => InChannel(r) \/ InHand(r)
  PROVE  Covered(f)'
<1> PICK n : n = Len(commands) + 1 OBVIOUS
<1>0. /\ f \in Flushes /\ flush'[f] = "queued" /\ covers'[f] = ToSet(accepted) /\ flush[f] = "idle"
      /\ commands' = Append(commands, FlushCommand(f)) /\ outcome' = outcome /\ accepted' = accepted
      /\ FlushCommand(f) \in Commands
  BY DEF Flushing, Commands
<1>1. /\ \A i \in DOMAIN commands : commands'[i] = commands[i] /\ i \in DOMAIN commands' /\ i < n
      /\ \A i \in DOMAIN commands' : i \in DOMAIN commands \/ i = n
  BY <1>0, ChannelAppend
<1>2. ASSUME NEW k \in DOMAIN commands', commands'[k] = FlushCommand(f) PROVE k = n
  BY <1>0, <1>1, <1>2 DEF Covered
<1>3. ASSUME NEW r \in ToSet(accepted), outcome[r] = Pending PROVE Before(n, r)' \/ InHand(r)'
  <2>1. CASE InChannel(r) BY <1>1, <2>1 DEF InChannel, Before
  <2>2. CASE InHand(r)
    <3>1. r \in Records BY ToSetType DEF HandedOver
    <3> QED BY <1>0, <1>3, <2>2, <3>1 DEF HandKept
  <2> QED BY <1>3, <2>1, <2>2
<1>4. \A k \in DOMAIN commands' : commands'[k] = FlushCommand(f) =>
        \A r \in covers'[f] : outcome'[r] = Pending => Before(k, r)' \/ InHand(r)'
  BY <1>0, <1>2, <1>3
<1> QED BY <1>0, <1>4 DEF Covered

(* A step of the actor.                                                    *)
LEMMA MovesKeepHand ==
  ASSUME Shapes, NEW N, NEW X, NEW T, Moves(N, X, T)
  PROVE  /\ HandKept
         /\ \A r \in Records : r \in N => InHand(r)' \/ outcome'[r] # Pending
<1>1. PICK k \in {"expired", "unsent"} :
        outcome' = [r \in Records |-> IF r \in X THEN Told(k) ELSE outcome[r]]
  BY DEF Moves
<1>2. Told(k) # Pending BY DEF Told, Pending
<1>3. \A r \in Records : r \in X => outcome'[r] # Pending BY <1>1, <1>2
<1>4. \A r \in Records : outcome'[r] = Pending => outcome[r] = Pending BY <1>1, <1>2
<1>5. ASSUME NEW r \in Records, r \in Buffered(actor) \/ r \in N
      PROVE  InHand(r)' \/ outcome'[r] # Pending
  <2>1. (r \in Buffered(actor))' \/ r \in X \/ r \in T BY <1>5 DEF Moves
  <2>2. r \in T => (r \in OnTask)' BY DEF Moves
  <2> QED BY <1>3, <2>1, <2>2 DEF InHand
<1>6. ASSUME NEW r \in Records, r \in OnTask PROVE InHand(r)'
  <2>1. (r \in OnTask)' BY <1>6 DEF Moves
  <2> QED BY <2>1 DEF InHand
<1>7. \A r \in Records : InHand(r) => InHand(r)' \/ outcome'[r] # Pending BY <1>5, <1>6 DEF InHand
<1> QED BY <1>4, <1>5, <1>7 DEF HandKept

(* An actor that is idle after a step has nothing in hand.                 *)
LEMMA IdleMeansDone ==
  ASSUME InFlightInv', ActorOK(actor)', is_idle(actor)'
  PROVE  \A r : ~InHand(r)'
<1>1. \A r : r \notin Buffered(actor)' BY EmptyBuffer, BufferedIn DEF is_idle
<1>2. \A t \in tasks' : DOMAIN t.batch = {} BY DEF is_idle, InFlightInv, OneBatchPerPartition
<1>3. \A r : ~(r \in OnTask)' BY <1>2 DEF OnTask, BatchRecords
<1> QED BY <1>1, <1>3 DEF InHand

LEMMA CoveredActor ==
  ASSUME CustodyInv, CustodyInv', flush \in [Flushes -> {"idle", "queued", "waiting", "done"}],
         NEW f \in Flushes, Covered(f), covers[f] \subseteq Records,
         NEW N, NEW X, NEW T, NEW F, Steps(N, X, T, F), UNCHANGED <<accepted, covers>>
  PROVE  Covered(f)'
<1>0. Moves(N, X, T) /\ Receives(N, F) /\ (flush' = F \/ flush' = settle_flushes(actor', F)) /\ Placed
  BY DEF Steps, CustodyInv
<1>1. /\ HandKept
      /\ \A r \in Records : r \in N => InHand(r)' \/ outcome'[r] # Pending
  BY <1>0, MovesKeepHand DEF CustodyInv
<1>2. \/ commands' = commands /\ N = {} /\ F = flush
      \/ /\ commands # <<>> /\ commands' = Tail(commands)
         /\ \/ F = flush /\ \E h : N = {h} /\ Head(commands) = AppendCommand(h)
            \/ \E g \in Flushes : F = [flush EXCEPT ![g] = "waiting"] /\ Head(commands) = FlushCommand(g)
  BY <1>0 DEF Receives
<1>3. ASSUME NEW k \in DOMAIN commands', commands'[k] = FlushCommand(f)
      PROVE  /\ \E i \in DOMAIN commands : commands[i] = FlushCommand(f)
             /\ \A r \in covers[f] : outcome'[r] = Pending => Before(k, r)' \/ InHand(r)'
  <2>1. CASE commands' = commands
    <3>1. \A r : Before(k, r)' <=> Before(k, r) BY <2>1 DEF Before
    <3> QED BY <1>1, <1>3, <2>1, <3>1 DEF Covered, HandKept
  <2>2. CASE /\ commands # <<>> /\ commands' = Tail(commands)
             /\ \/ F = flush /\ \E h : N = {h} /\ Head(commands) = AppendCommand(h)
                \/ \E g \in Flushes : F = [flush EXCEPT ![g] = "waiting"] /\ Head(commands) = FlushCommand(g)
    <3>1. /\ \A i \in DOMAIN commands' : i + 1 \in DOMAIN commands /\ commands'[i] = commands[i + 1]
          /\ \A i \in DOMAIN commands : i # 1 => i - 1 \in DOMAIN commands' /\ (i - 1) + 1 = i
          /\ Head(commands) = commands[1] /\ 1 \in DOMAIN commands
          /\ DOMAIN commands \subseteq Nat /\ commands' \in Seq(Commands)
      BY <1>0, <2>2, HeadCommand
    <3>2. k + 1 \in DOMAIN commands /\ commands[k + 1] = FlushCommand(f) /\ k \in Nat BY <1>3, <3>1
    <3>3. ASSUME NEW r \in covers[f], outcome'[r] = Pending PROVE Before(k, r)' \/ InHand(r)'
      <4>1. r \in Records /\ outcome[r] = Pending BY <1>1, <3>3 DEF HandKept
      <4>2. Before(k + 1, r) \/ InHand(r) BY <3>2, <4>1 DEF Covered
      <4>3. CASE InHand(r) BY <1>1, <3>3, <4>1, <4>3 DEF HandKept
      <4>4. CASE Before(k + 1, r)
        <5>1. PICK i \in DOMAIN commands : i < k + 1 /\ commands[i] = AppendCommand(r) BY <4>4 DEF Before
        <5>2. CASE i = 1
          <6>1. r \in N BY <2>2, <3>1, <5>1, <5>2, CommandsDiffer
          <6> QED BY <1>1, <3>3, <4>1, <6>1
        <5>3. CASE i # 1
          <6>1. i - 1 \in DOMAIN commands' /\ i \in Nat /\ i - 1 < k BY <3>1, <3>2, <5>1, <5>3
          <6>2. commands'[i - 1] = AppendCommand(r) BY <3>1, <5>1, <5>3
          <6> QED BY <6>1, <6>2 DEF Before
        <5> QED BY <5>2, <5>3
      <4> QED BY <4>2, <4>3, <4>4
    <3> QED BY <3>2, <3>3
  <2> QED BY <1>2, <2>1, <2>2
<1>4. F \in [Flushes -> {"idle", "queued", "waiting", "done"}]
      /\ (F[f] = flush[f] \/ (F[f] = "waiting" /\ commands # <<>> /\ Head(commands) = FlushCommand(f)))
  BY <1>2
<1>5. ASSUME F[f] = "waiting", NEW r \in covers[f], outcome'[r] = Pending PROVE InHand(r)'
  <2>1. r \in Records /\ outcome[r] = Pending BY <1>1, <1>5 DEF HandKept
  <2>2. InHand(r)
    <3>1. CASE F[f] = flush[f] BY <1>5, <2>1, <3>1 DEF Covered
    <3>2. CASE commands # <<>> /\ Head(commands) = FlushCommand(f)
      <4>1. 1 \in DOMAIN commands /\ commands[1] = FlushCommand(f) /\ commands \in Seq(Commands)
        BY <1>0, <3>2, HeadCommand DEF Placed
      <4>2. ~Before(1, r) BY <4>1 DEF Before
      <4> QED BY <2>1, <4>1, <4>2 DEF Covered
    <3> QED BY <1>4, <3>1, <3>2
  <2> QED BY <1>1, <1>5, <2>1, <2>2 DEF HandKept
<1>6. \/ flush'[f] = F[f]
      \/ is_idle(actor)' /\ F[f] = "waiting" /\ flush'[f] = "done"
  <2>1. CASE flush' = F BY <2>1
  <2>2. CASE flush' = settle_flushes(actor', F) BY <1>4, <2>2 DEF settle_flushes
  <2> QED BY <1>0, <2>1, <2>2
<1>7. flush'[f] = "idle" => \A k \in DOMAIN commands' : commands'[k] # FlushCommand(f)
  BY <1>3, <1>4, <1>6 DEF Covered
<1>8. flush'[f] = "waiting" => \A r \in covers[f] : outcome'[r] = Pending => InHand(r)' BY <1>5, <1>6
<1>9. ASSUME flush'[f] = "done", NEW r \in covers[f] PROVE outcome'[r] # Pending
  <2>1. CASE F[f] = "done" BY <1>1, <1>4, <2>1 DEF Covered, HandKept
  <2>2. CASE is_idle(actor)' /\ F[f] = "waiting"
    <3>1. ~InHand(r)'
      <4>1. InFlightInv' /\ ActorOK(actor)' BY DEF CustodyInv, Shapes
      <4> QED BY <2>2, <4>1, IdleMeansDone
    <3> QED BY <1>5, <2>2, <3>1
  <2> QED BY <1>6, <1>9, <2>1, <2>2
<1> QED BY <1>3, <1>7, <1>8, <1>9 DEF Covered

LEMMA FlushStep == FlushInv /\ [Next]_vars => FlushInv'
<1> SUFFICES ASSUME FlushInv, [Next]_vars PROVE FlushInv' OBVIOUS
<1>0. CustodyInv /\ CustodyInv' /\ Placed /\ HandedOver /\ Shapes BY CustodyStep DEF FlushInv, CustodyInv
<1>1. /\ flush \in [Flushes -> {"idle", "queued", "waiting", "done"}]
      /\ covers \in [Flushes -> SUBSET Records]
      /\ \A r \in ToSet(accepted) : outcome[r] = Pending => InChannel(r) \/ InHand(r)
      /\ \A f \in Flushes : Covered(f) /\ covers[f] \subseteq Records
  BY DEF FlushInv
<1>2. ToSet(accepted) \subseteq Records BY <1>0, ToSetType DEF HandedOver
<1>3. CASE CallerNext
  <2>1. /\ UNCHANGED <<actor, tasks, ghosts, log>>
        /\ \/ Quiet
           \/ \E r, k : Tells(r, k)
           \/ \E r : Accepts(r)
           \/ \E f : Flushing(f)
    BY <1>0, <1>3, CallerIs
  <2>2. \A r : InHand(r)' <=> InHand(r) BY <2>1 DEF InHand, OnTask, BatchRecords
  <2>3. outcome = [r \in Records |-> outcome[r]] BY <1>0 DEF Shapes
  <2>4. CASE Quiet \/ \E r, k : Tells(r, k)
    <3>1. UNCHANGED <<commands, accepted, flush, covers>> BY <2>4 DEF Quiet, Tells
    <3>2. \A r \in Records : outcome'[r] = Pending => outcome[r] = Pending
      <4>1. \A k \in {"refused", "expired", "cancelled"} : Told(k) # Pending BY DEF Told, Pending
      <4>2. CASE Quiet BY <4>2 DEF Quiet
      <4>3. ASSUME NEW x, NEW k, Tells(x, k) PROVE \A r \in Records : outcome'[r] = Pending => outcome[r] = Pending
        BY <2>3, <4>1, <4>3 DEF Tells
      <4> QED BY <2>4, <4>2, <4>3
    <3>3. HandKept BY <2>2, <3>2 DEF HandKept
    <3>4. \A f \in Flushes : Covered(f)' BY <1>1, <3>1, <3>3, CoveredStays
    <3>5. \A r : InChannel(r)' <=> InChannel(r) BY <3>1 DEF InChannel
    <3>6. \A r \in ToSet(accepted') : outcome'[r] = Pending => InChannel(r)' \/ InHand(r)'
      BY <1>1, <1>2, <2>2, <3>1, <3>2, <3>5
    <3> QED BY <1>0, <1>1, <3>1, <3>4, <3>6 DEF FlushInv
  <2>5. ASSUME NEW r, Accepts(r) PROVE FlushInv'
    <3>1. /\ r \in Records /\ AppendCommand(r) \in Commands
          /\ commands' = Append(commands, AppendCommand(r)) /\ accepted' = Append(accepted, r)
          /\ UNCHANGED <<outcome, flush, covers>>
      BY <2>5 DEF Accepts, Commands
    <3>2. HandKept BY <2>2, <3>1 DEF HandKept
    <3>3. \A x : x \in ToSet(accepted') <=> x \in ToSet(accepted) \/ x = r
      BY <1>0, <3>1, ToSetAppend DEF HandedOver
    <3>4. \A x : InChannel(x)' <=> InChannel(x) \/ x = r BY <1>0, <3>1, ChannelAppend, CommandsDiffer
    <3>5. ASSUME NEW f \in Flushes PROVE Covered(f)'
      <4>1. AppendCommand(r) # FlushCommand(f) /\ ToSet(accepted) \subseteq ToSet(accepted')
        BY <3>3, CommandsDiffer
      <4> QED BY <1>0, <1>1, <3>1, <3>2, <4>1, CoveredAppend
    <3>6. \A x \in ToSet(accepted') : outcome'[x] = Pending => InChannel(x)' \/ InHand(x)'
      BY <1>1, <2>2, <3>1, <3>3, <3>4
    <3> QED BY <1>0, <1>1, <3>1, <3>5, <3>6 DEF FlushInv
  <2>6. ASSUME NEW g, Flushing(g) PROVE FlushInv'
    <3>1. /\ g \in Flushes /\ flush' = [flush EXCEPT ![g] = "queued"] /\ FlushCommand(g) \in Commands
          /\ commands' = Append(commands, FlushCommand(g))
          /\ covers' = [covers EXCEPT ![g] = ToSet(accepted)]
          /\ UNCHANGED <<outcome, accepted>>
      BY <2>6 DEF Flushing, Commands
    <3>2. HandKept BY <2>2, <3>1 DEF HandKept
    <3>3. \A x : InChannel(x)' <=> InChannel(x) BY <1>0, <3>1, ChannelAppend, CommandsDiffer
    <3>4. ASSUME NEW f \in Flushes PROVE Covered(f)'
      <4>1. CASE f = g BY <1>0, <1>1, <2>6, <3>2, <4>1, CoveredCall
      <4>2. CASE f # g
        <5>1. FlushCommand(g) # FlushCommand(f) /\ flush'[f] = flush[f] /\ covers'[f] = covers[f]
          BY <1>1, <3>1, <4>2, CommandsDiffer
        <5> QED BY <1>0, <1>1, <3>1, <3>2, <5>1, CoveredAppend
      <4> QED BY <4>1, <4>2
    <3>5. \A x \in ToSet(accepted') : outcome'[x] = Pending => InChannel(x)' \/ InHand(x)'
      BY <1>1, <2>2, <3>1, <3>3
    <3>6. /\ flush' \in [Flushes -> {"idle", "queued", "waiting", "done"}]
          /\ covers' \in [Flushes -> SUBSET Records]
      BY <1>1, <1>2, <3>1
    <3> QED BY <1>0, <3>4, <3>5, <3>6 DEF FlushInv
  <2> QED BY <2>1, <2>4, <2>5, <2>6
<1>4. CASE ActorNext
  <2>1. UNCHANGED <<accepted, covers>>
    BY <1>4 DEF ActorNext, HandleAppend, HandleFlush, HandleClosed, HandleCompleted, Wake, ClaimOk,
                ClaimRetriable, ClaimTerminal, callerVars
  <2>2. PICK N, X, T, F : Steps(N, X, T, F) BY <1>0, <1>4, ActorSteps
  <2>3. \A f \in Flushes : Covered(f)' BY <1>0, <1>1, <2>1, <2>2, CoveredActor
  <2>4. Moves(N, X, T) /\ Receives(N, F) /\ (flush' = F \/ flush' = settle_flushes(actor', F))
    BY <2>2 DEF Steps
  <2>5. /\ HandKept
        /\ \A r \in Records : r \in N => InHand(r)' \/ outcome'[r] # Pending
    BY <1>0, <2>4, MovesKeepHand
  <2>6. \A r : InChannel(r) => InChannel(r)' \/ r \in N BY <1>0, <2>4, ChannelStep
  <2>7. \A r \in ToSet(accepted') : outcome'[r] = Pending => InChannel(r)' \/ InHand(r)'
    BY <1>1, <1>2, <2>1, <2>5, <2>6 DEF HandKept
  <2>8. flush' \in [Flushes -> {"idle", "queued", "waiting", "done"}]
    <3>1. F \in [Flushes -> {"idle", "queued", "waiting", "done"}] BY <1>1, <2>4 DEF Receives
    <3> QED BY <2>4, <3>1 DEF settle_flushes
  <2> QED BY <1>0, <1>1, <2>1, <2>3, <2>7, <2>8 DEF FlushInv
<1>5. CASE TaskNext \/ ClusterNext \/ DeadlinePasses \/ Stopped \/ UNCHANGED vars
  <2>1. Effect /\ UNCHANGED <<commands, actor, accepted, flush, covers>> BY <1>0, <1>5, OtherEffect
  <2>2. HandKept BY <2>1 DEF HandKept, InHand, Effect
  <2>3. \A f \in Flushes : Covered(f)' BY <1>1, <2>1, <2>2, CoveredStays
  <2>4. \A r : InChannel(r)' <=> InChannel(r) BY <2>1 DEF InChannel
  <2>5. \A r \in ToSet(accepted') : outcome'[r] = Pending => InChannel(r)' \/ InHand(r)'
    BY <1>1, <1>2, <2>1, <2>2, <2>4 DEF HandKept
  <2> QED BY <1>0, <1>1, <2>1, <2>3, <2>5 DEF FlushInv
<1> QED BY <1>3, <1>4, <1>5 DEF Next

LEMMA FlushInit == Init => FlushInv
<1> SUFFICES ASSUME Init PROVE FlushInv OBVIOUS
<1>1. CustodyInv BY CustodyInit
<1>2. /\ flush = [f \in Flushes |-> "idle"] /\ covers = [f \in Flushes |-> {}]
      /\ accepted = <<>> /\ commands = <<>>
  BY DEF Init
<1>3. ToSet(accepted) = {} /\ DOMAIN commands = {} BY <1>2 DEF ToSet
<1>4. \A f \in Flushes : Covered(f) BY <1>2, <1>3 DEF Covered
<1> QED BY <1>1, <1>2, <1>3, <1>4 DEF FlushInv

\* A flush that returns has covered every record that was accepted before it
\* was called: each of them has been acknowledged or failed, whatever was
\* retried, lost, expired or refused meanwhile (Accumulator::flush).
THEOREM FlushRule == Spec => []FlushCovers
<1>1. FlushInv => FlushCovers BY DEF FlushInv, Covered, FlushCovers
<1> QED BY FlushInit, FlushStep, <1>1, PTL DEF Spec

-----------------------------------------------------------------------------
(* No record is written twice by an idempotent producer.                   *)

(* The batches of p that may still reach the broker.                       *)
OnWire(p) ==
  {t.batch[p] : t \in {u \in tasks : p \in DOMAIN u.batch}}
  \cup {g.batch : g \in {h \in ghosts : h.part = p}}

Share(b, c) == ToSet(b.recs) \cap ToSet(c.recs) # {}
Same(b, c) == b.recs = c.recs /\ b.pid = c.pid /\ b.base = c.base

(* Batches with a record in common are one batch, and the log has it once  *)
(* as long as the broker remembers it.                                     *)
OnceInv ==
  /\ CustodyInv
  /\ forgets \in Nat
  /\ forgets = 0 => \A p \in Partitions : forgotten[p] = 0
  /\ \A p \in Partitions :
       /\ \A b \in OnWire(p) : b.pid # NoPid
       /\ \A b, c \in OnWire(p) : Share(b, c) => Same(b, c)
       /\ \A b \in OnWire(p) : \A i \in DOMAIN log[p] : Share(b, log[p][i]) => Same(b, log[p][i])
       /\ forgets = 0 => \A i, j \in DOMAIN log[p] : Share(log[p][i], log[p][j]) => i = j

LEMMA OnWireIs ==
  ASSUME NEW p, NEW b
  PROVE  b \in OnWire(p) <=> \/ \E t \in tasks : p \in DOMAIN t.batch /\ b = t.batch[p]
                             \/ \E g \in ghosts : g.part = p /\ b = g.batch
BY DEF OnWire

(* What every step but the actor's does: what is on the wire was there,    *)
(* and what is appended is on the wire.                                    *)
CarryOn ==
  \A p \in Partitions :
    /\ OnWire(p)' \subseteq OnWire(p)
    /\ \/ log'[p] = log[p]
       \/ \E b \in OnWire(p) : /\ BatchOK(b, p) /\ MayAppend(log[p], forgotten[p], b)
                               /\ log'[p] = AppendBatch(log[p], b)

LEMMA SameBatchesCarryOn ==
  ASSUME log' = log, ghosts' = ghosts,
         \A t \in tasks' : t \in tasks \/ \E u \in tasks : t.batch = u.batch
  PROVE  CarryOn
<1>1. ASSUME NEW p \in Partitions, NEW b \in OnWire(p)' PROVE b \in OnWire(p)
  <2>1. \/ \E t \in tasks' : p \in DOMAIN t.batch /\ b = t.batch[p]
        \/ \E g \in ghosts : g.part = p /\ b = g.batch
    BY <1>1 DEF OnWire
  <2>2. \/ \E t \in tasks : p \in DOMAIN t.batch /\ b = t.batch[p]
        \/ \E g \in ghosts : g.part = p /\ b = g.batch
    BY <2>1
  <2> QED BY <2>2, OnWireIs
<1> QED BY <1>1 DEF CarryOn

LEMMA TasksCarryOn ==
  ASSUME Shapes, TaskNext
  PROVE  CarryOn
<1>1. PICK t \in tasks : TaskStep(t) BY DEF TaskNext
<1>2. TaskOK(t) BY DEF Shapes
<1>3. CASE Encode(t)
  <2>1. PICK u, bad : Encoded(t, u, bad) BY <1>3, EncodeIs
  <2>2. \A v \in tasks' : v \in tasks \/ v.batch = t.batch BY <2>1 DEF Encoded, Succeeds
  <2>3. log' = log /\ ghosts' = ghosts BY <1>3 DEF Encode, brokerVars
  <2> QED BY <2>2, <2>3, SameBatchesCarryOn
<1>4. CASE Judge(t)
  <2>1. \A v \in tasks' : v \in tasks \/ v.batch = t.batch BY <1>4, JudgeIs DEF Retried, Returned, Succeeds
  <2>2. log' = log /\ ghosts' = ghosts BY <1>4 DEF Judge, brokerVars
  <2> QED BY <2>1, <2>2, SameBatchesCarryOn
<1>5. ASSUME NEW G, NEW result, tasks' = WithResults(t, G, result)
      PROVE  \A v \in tasks' : v \in tasks \/ v.batch = t.batch
  <2> DEFINE u == [t EXCEPT !.res = [p \in DOMAIN @ |-> IF p \in G THEN result[p] ELSE @[p]]]
  <2>1. u.batch = t.batch BY <1>2 DEF TaskOK, TaskFields
  <2>2. tasks' = (tasks \ {t}) \cup {u} BY <1>5 DEF WithResults
  <2> HIDE DEF u
  <2> QED BY <2>1, <2>2
<1>6. ASSUME NEW G \in SUBSET t.live, RouteFails(t, G) PROVE CarryOn
  <2>1. (\E result : tasks' = WithResults(t, G, result)) /\ log' = log /\ ghosts' = ghosts
    BY <1>6 DEF RouteFails, brokerVars
  <2>2. \A v \in tasks' : v \in tasks \/ v.batch = t.batch BY <1>5, <2>1
  <2> QED BY <2>1, <2>2, SameBatchesCarryOn
<1>7. ASSUME NEW G \in SUBSET t.live, LoseRequest(t, G) PROVE CarryOn
  <2>1. /\ \E result : tasks' = WithResults(t, G, result)
        /\ log' = log /\ ghosts' = ghosts \cup {[part |-> p, batch |-> t.batch[p]] : p \in G}
        /\ G \subseteq DOMAIN t.batch
    BY <1>2, <1>7 DEF LoseRequest, TaskOK
  <2>2. \A v \in tasks' : v \in tasks \/ v.batch = t.batch BY <1>5, <2>1
  <2>3. ASSUME NEW p \in Partitions, NEW b \in OnWire(p)' PROVE b \in OnWire(p)
    <3>1. \/ \E v \in tasks' : p \in DOMAIN v.batch /\ b = v.batch[p]
          \/ \E g \in ghosts' : g.part = p /\ b = g.batch
      BY <2>3 DEF OnWire
    <3>2. CASE \E v \in tasks' : p \in DOMAIN v.batch /\ b = v.batch[p] BY <2>2, <3>2, OnWireIs
    <3>3. ASSUME NEW g \in ghosts', g.part = p, b = g.batch PROVE b \in OnWire(p)
      <4>1. CASE g \in ghosts BY <3>3, <4>1, OnWireIs
      <4>2. ASSUME NEW q \in G, g = [part |-> q, batch |-> t.batch[q]] PROVE b \in OnWire(p)
        <5>1. q = p /\ b = t.batch[p] BY <3>3, <4>2
        <5> QED BY <2>1, <5>1, OnWireIs
      <4> QED BY <2>1, <4>1, <4>2
    <3> QED BY <3>1, <3>2, <3>3
  <2> QED BY <2>1, <2>3 DEF CarryOn
<1>8. ASSUME NEW G \in SUBSET t.live, Respond(t, G) PROVE CarryOn
  <2>1. PICK result : Responded(t, G, result) BY <1>8, RespondAnswers
  <2>2. \A v \in tasks' : v \in tasks \/ v.batch = t.batch BY <1>5, <2>1 DEF Responded
  <2>3. ghosts' = ghosts /\ G \subseteq DOMAIN t.batch BY <1>2, <1>8 DEF Respond, TaskOK
  <2>4. ASSUME NEW p \in Partitions, NEW b \in OnWire(p)' PROVE b \in OnWire(p)
    <3>1. \/ \E v \in tasks' : p \in DOMAIN v.batch /\ b = v.batch[p]
          \/ \E g \in ghosts : g.part = p /\ b = g.batch
      BY <2>3, <2>4 DEF OnWire
    <3> QED BY <2>2, <3>1, OnWireIs
  <2>5. ASSUME NEW p \in Partitions
        PROVE  \/ log'[p] = log[p]
               \/ \E b \in OnWire(p) : /\ BatchOK(b, p) /\ MayAppend(log[p], forgotten[p], b)
                                       /\ log'[p] = AppendBatch(log[p], b)
    <3>1. p \in G => t.batch[p] \in OnWire(p) /\ BatchOK(t.batch[p], p) BY <1>2, <2>3, OnWireIs DEF TaskOK
    <3> QED BY <2>1, <3>1 DEF Responded
  <2> QED BY <2>4, <2>5 DEF CarryOn
<1> QED BY <1>1, <1>3, <1>4, <1>6, <1>7, <1>8 DEF TaskStep

LEMMA OthersCarryOn ==
  ASSUME Shapes, HandedOver, CallerNext \/ TaskNext \/ ClusterNext \/ DeadlinePasses \/ Stopped \/ UNCHANGED vars
  PROVE  CarryOn
<1>1. CASE CallerNext \/ DeadlinePasses \/ Stopped \/ UNCHANGED vars
  <2>1. UNCHANGED <<tasks, ghosts, log>>
    <3>1. CASE CallerNext BY <3>1, CallerIs
    <3>2. CASE DeadlinePasses \/ Stopped \/ UNCHANGED vars
      BY <3>2 DEF DeadlinePasses, Stopped, vars, brokerVars
    <3> QED BY <1>1, <3>1, <3>2
  <2> QED BY <2>1, SameBatchesCarryOn
<1>2. CASE TaskNext BY <1>2, TasksCarryOn
<1>3. ASSUME NEW g \in ghosts, GhostArrives(g) PROVE CarryOn
  <2>1. Arrives(g) /\ tasks' = tasks /\ GhostOK(g) BY <1>3, GhostIs DEF GhostArrives, Shapes
  <2>2. \A p \in Partitions : OnWire(p)' \subseteq OnWire(p) BY <2>1 DEF Arrives, OnWire
  <2>3. ASSUME NEW p \in Partitions
        PROVE  \/ log'[p] = log[p]
               \/ \E b \in OnWire(p) : /\ BatchOK(b, p) /\ MayAppend(log[p], forgotten[p], b)
                                       /\ log'[p] = AppendBatch(log[p], b)
    <3>1. p = g.part => g.batch \in OnWire(p) /\ BatchOK(g.batch, p) BY <2>1, OnWireIs DEF GhostOK
    <3> QED BY <2>1, <3>1 DEF Arrives
  <2> QED BY <2>2, <2>3 DEF CarryOn
<1>4. ASSUME NEW p \in Partitions, Forget(p) PROVE CarryOn
  <2>1. UNCHANGED <<tasks, ghosts, log>> BY <1>4 DEF Forget
  <2> QED BY <2>1, SameBatchesCarryOn
<1> QED BY <1>1, <1>2, <1>3, <1>4 DEF ClusterNext

LEMMA OnceCarriesOn ==
  ASSUME OnceInv, CarryOn, NEW p \in Partitions, forgets' = 0 => forgets = 0
  PROVE  (/\ \A b \in OnWire(p) : b.pid # NoPid
          /\ \A b, c \in OnWire(p) : Share(b, c) => Same(b, c)
          /\ \A b \in OnWire(p) : \A i \in DOMAIN log[p] : Share(b, log[p][i]) => Same(b, log[p][i])
          /\ forgets = 0 => \A i, j \in DOMAIN log[p] : Share(log[p][i], log[p][j]) => i = j)'
<1>1. /\ OnWire(p)' \subseteq OnWire(p)
      /\ \A b \in OnWire(p) : b.pid # NoPid
      /\ \A b, c \in OnWire(p) : Share(b, c) => Same(b, c)
      /\ \A b \in OnWire(p) : \A i \in DOMAIN log[p] : Share(b, log[p][i]) => Same(b, log[p][i])
      /\ forgets = 0 => \A i, j \in DOMAIN log[p] : Share(log[p][i], log[p][j]) => i = j
  BY DEF OnceInv, CarryOn
<1>2. CASE log'[p] = log[p] BY <1>1, <1>2
<1>3. ASSUME NEW b \in OnWire(p), BatchOK(b, p), MayAppend(log[p], forgotten[p], b),
             log'[p] = AppendBatch(log[p], b)
      PROVE  /\ \A c \in OnWire(p) : \A i \in DOMAIN log'[p] : Share(c, log'[p][i]) => Same(c, log'[p][i])
             /\ forgets = 0 => \A i, j \in DOMAIN log'[p] : Share(log'[p][i], log'[p][j]) => i = j
  <2> PICK l, m, n : l = log[p] /\ m = log'[p] /\ n = Len(log[p]) + 1 OBVIOUS
  <2>1. Listing(l) /\ \A i \in DOMAIN l : EntryOK(l[i], p) BY DEF OnceInv, CustodyInv, Shapes, LogsOK
  <2>2. Extends(l, m, b) BY <1>3, <2>1, EntryAppended
  <2>3. /\ \A i \in DOMAIN l : m[i] = l[i]
        /\ \A i \in DOMAIN m : i \in DOMAIN l \/ i = n
        /\ m[n].recs = b.recs /\ m[n].pid = b.pid /\ m[n].base = b.base
    BY <2>2 DEF Extends
  <2>4. ASSUME NEW c \in OnWire(p), NEW i \in DOMAIN m, Share(c, m[i]) PROVE Same(c, m[i])
    <3>1. CASE i \in DOMAIN l BY <1>1, <2>3, <2>4, <3>1
    <3>2. CASE i = n
      <4>1. Share(c, b) BY <2>3, <2>4, <3>2 DEF Share
      <4> QED BY <1>1, <2>3, <3>2, <4>1 DEF Same
    <3> QED BY <2>3, <3>1, <3>2
  <2>5. ASSUME forgets = 0, NEW i \in DOMAIN l PROVE ~Share(b, l[i])
    <3>1. SUFFICES ASSUME Share(b, l[i]) PROVE FALSE OBVIOUS
    <3>2. Same(b, l[i]) BY <1>1, <3>1
    <3>3. forgotten[p] = 0 /\ b.pid # NoPid BY <1>1, <2>5 DEF OnceInv
    <3>4. DOMAIN l = 1..Len(l) BY <2>2 DEF Extends
    <3>5. l[i] \in Duplicates(l, 0, b)
      <4>1. i \in (0 + 1)..Len(l) BY <3>4
      <4> QED BY <3>2, <4>1 DEF Duplicates, Same
    <3>6. IsDuplicate(log[p], forgotten[p], b) BY <3>3, <3>5 DEF IsDuplicate
    <3> QED BY <1>3, <3>3, <3>6 DEF MayAppend
  <2>6. \A x, y : Share(x, y) => Share(y, x) BY DEF Share
  <2>7. \A x : Share(x, m[n]) => Share(x, b) BY <2>3 DEF Share
  <2>8. ASSUME forgets = 0, NEW i \in DOMAIN m, NEW j \in DOMAIN m, Share(m[i], m[j]) PROVE i = j
    <3>1. CASE i \in DOMAIN l /\ j \in DOMAIN l BY <1>1, <2>3, <2>8, <3>1
    <3>2. CASE i \in DOMAIN l /\ j = n
      <4>1. Share(b, l[i]) BY <2>3, <2>6, <2>7, <2>8, <3>2
      <4> QED BY <2>5, <2>8, <3>2, <4>1
    <3>3. CASE i = n /\ j \in DOMAIN l
      <4>1. Share(b, l[j]) BY <2>3, <2>6, <2>7, <2>8, <3>3
      <4> QED BY <2>5, <2>8, <3>3, <4>1
    <3> QED BY <2>3, <3>1, <3>2, <3>3
  <2> QED BY <2>4, <2>8
<1>4. /\ \A c \in OnWire(p) : \A i \in DOMAIN log'[p] : Share(c, log'[p][i]) => Same(c, log'[p][i])
      /\ forgets = 0 => \A i, j \in DOMAIN log'[p] : Share(log'[p][i], log'[p][j]) => i = j
  BY <1>1, <1>2, <1>3 DEF CarryOn
<1> QED BY <1>1, <1>4

(* A new task takes a batch of records that nobody else has.               *)
LEMMA OnceActor ==
  ASSUME Idempotent, OnceInv, UNCHANGED <<ghosts, log, forgets>>, NEW N, NEW X, NEW T, NEW F, Steps(N, X, T, F),
         NEW p \in Partitions
  PROVE  (/\ \A b \in OnWire(p) : b.pid # NoPid
          /\ \A b, c \in OnWire(p) : Share(b, c) => Same(b, c)
          /\ \A b \in OnWire(p) : \A i \in DOMAIN log[p] : Share(b, log[p][i]) => Same(b, log[p][i])
          /\ forgets = 0 => \A i, j \in DOMAIN log[p] : Share(log[p][i], log[p][j]) => i = j)'
<1>0. Placed /\ Shapes BY DEF OnceInv, CustodyInv
<1>1. PICK B : \A t \in tasks' : t \in tasks \/ (Fresh(t, B) /\ Within(t, T)) BY DEF Steps, Moves
<1>2. \A r \in T : r \in Records => ~Away(r)
  <2>1. \A r \in T : r \in Buffered(actor) \/ r \in N BY DEF Steps, Moves
  <2>2. \A r : r \in N => InChannel(r) BY <1>0, ChannelStep DEF Steps
  <2> QED BY <1>0, <2>1, <2>2 DEF Placed
<1>3. ASSUME NEW b \in OnWire(p), NEW r \in ToSet(b.recs) PROVE Away(r) /\ r \in Records
  <2>1. \/ \E t \in tasks : p \in DOMAIN t.batch /\ b = t.batch[p]
        \/ \E g \in ghosts : g.part = p /\ b = g.batch
    BY OnWireIs
  <2>2. Away(r) BY <2>1 DEF Away, Tasked, Ghostly
  <2>3. BatchOK(b, p) BY <1>0, <2>1 DEF Shapes, TaskOK, GhostOK
  <2> QED BY <2>2, <2>3, ToSetType DEF BatchOK
<1>4. ASSUME NEW i \in DOMAIN log[p], NEW r \in ToSet(log[p][i].recs) PROVE Away(r) /\ r \in Records
  <2>1. EntryOK(log[p][i], p) BY <1>0 DEF Shapes, LogsOK
  <2> QED BY <2>1, ToSetType DEF EntryOK, Away, Written
<1>5. ASSUME NEW b \in OnWire(p)' PROVE b \in OnWire(p) \/ (b = Stamped(B, p) /\ p \in Ready(B) /\ ToSet(b.recs) \subseteq T)
  <2>1. \/ \E t \in tasks' : p \in DOMAIN t.batch /\ b = t.batch[p]
        \/ \E g \in ghosts : g.part = p /\ b = g.batch
    BY <1>5 DEF OnWire
  <2>2. CASE \E g \in ghosts : g.part = p /\ b = g.batch BY <2>2, OnWireIs
  <2>3. ASSUME NEW t \in tasks', p \in DOMAIN t.batch, b = t.batch[p]
        PROVE  b \in OnWire(p) \/ (b = Stamped(B, p) /\ p \in Ready(B) /\ ToSet(b.recs) \subseteq T)
    <3>1. CASE t \in tasks BY <2>3, <3>1, OnWireIs
    <3>2. CASE Fresh(t, B) /\ Within(t, T) BY <2>3, <3>2 DEF Fresh, Within
    <3> QED BY <1>1, <3>1, <3>2
  <2> QED BY <2>1, <2>2, <2>3
<1>6. ASSUME p \in Ready(B) PROVE Stamped(B, p).pid # NoPid BY <1>6 DEF Ready, Stamped, NoPid, NoIdentity
<1>7. \A b, c : ToSet(b.recs) \subseteq T /\ c \in OnWire(p) => ~Share(b, c) /\ ~Share(c, b)
  BY <1>2, <1>3 DEF Share
<1>8. \A b : ToSet(b.recs) \subseteq T => \A i \in DOMAIN log[p] : ~Share(b, log[p][i])
  BY <1>2, <1>4 DEF Share
<1>9. /\ \A b \in OnWire(p) : b.pid # NoPid
      /\ \A b, c \in OnWire(p) : Share(b, c) => Same(b, c)
      /\ \A b \in OnWire(p) : \A i \in DOMAIN log[p] : Share(b, log[p][i]) => Same(b, log[p][i])
      /\ forgets = 0 => \A i, j \in DOMAIN log[p] : Share(log[p][i], log[p][j]) => i = j
  BY DEF OnceInv
<1>10. \A b \in OnWire(p)' : b.pid # NoPid BY <1>5, <1>6, <1>9
<1>11. \A b, c \in OnWire(p)' : Share(b, c) => Same(b, c) BY <1>5, <1>7, <1>9 DEF Same
<1>12. \A b \in OnWire(p)' : \A i \in DOMAIN log[p] : Share(b, log[p][i]) => Same(b, log[p][i])
  BY <1>5, <1>8, <1>9
<1> QED BY <1>9, <1>10, <1>11, <1>12

LEMMA OnceStep ==
  ASSUME Idempotent
  PROVE  OnceInv /\ [Next]_vars => OnceInv'
<1> SUFFICES ASSUME OnceInv, [Next]_vars PROVE OnceInv' OBVIOUS
<1>0. CustodyInv /\ CustodyInv' /\ Shapes /\ HandedOver BY CustodyStep DEF OnceInv, CustodyInv
<1>1. (forgets' = forgets /\ forgotten' = forgotten) \/ \E p \in Partitions : Forget(p)
  <2>1. CASE CallerNext
    BY <2>1 DEF CallerNext, Submit, AcquirePermit, DropHandles, PermitTimeout, Enqueue, CancelAppend, CallFlush, brokerVars
  <2>2. CASE ActorNext
    BY <2>2 DEF ActorNext, HandleAppend, HandleFlush, HandleClosed, HandleCompleted, Wake, ClaimOk,
                ClaimRetriable, ClaimTerminal, brokerVars
  <2>3. CASE TaskNext
    BY <2>3 DEF TaskNext, TaskStep, Encode, Judge, RouteFails, Respond, LoseRequest, brokerVars
  <2>4. CASE ClusterNext \/ DeadlinePasses \/ Stopped \/ UNCHANGED vars
    BY <2>4 DEF ClusterNext, GhostArrives, DeadlinePasses, Stopped, vars, brokerVars
  <2> QED BY <2>1, <2>2, <2>3, <2>4 DEF Next
<1>2. forgets' \in Nat /\ (forgets' = 0 => forgets = 0 /\ forgotten' = forgotten)
  <2>1. forgets \in Nat BY DEF OnceInv
  <2>2. CASE \E p \in Partitions : Forget(p) BY <2>1, <2>2 DEF Forget
  <2> QED BY <1>1, <2>1, <2>2
<1>3. forgets' = 0 => \A p \in Partitions : forgotten'[p] = 0 BY <1>2 DEF OnceInv
<1>4. CASE ActorNext
  <2>1. UNCHANGED <<ghosts, log, forgets>>
    BY <1>4 DEF ActorNext, HandleAppend, HandleFlush, HandleClosed, HandleCompleted, Wake, ClaimOk,
                ClaimRetriable, ClaimTerminal, brokerVars
  <2>2. PICK N, X, T, F : Steps(N, X, T, F) BY <1>0, <1>4, ActorSteps
  <2> QED BY <1>0, <1>2, <1>3, <2>1, <2>2, OnceActor DEF OnceInv
<1>5. CASE CallerNext \/ TaskNext \/ ClusterNext \/ DeadlinePasses \/ Stopped \/ UNCHANGED vars
  <2>1. CarryOn BY <1>0, <1>5, OthersCarryOn
  <2> QED BY <1>0, <1>2, <1>3, <2>1, OnceCarriesOn DEF OnceInv
<1> QED BY <1>4, <1>5 DEF Next

LEMMA OnceInit == Init => OnceInv
<1> SUFFICES ASSUME Init PROVE OnceInv OBVIOUS
<1>1. CustodyInv BY CustodyInit
<1>2. /\ tasks = {} /\ ghosts = {} /\ log = [p \in Partitions |-> <<>>]
      /\ forgotten = [p \in Partitions |-> 0] /\ forgets = 0
  BY DEF Init
<1>3. \A p \in Partitions : OnWire(p) = {} /\ DOMAIN log[p] = {} BY <1>2 DEF OnWire
<1> QED BY <1>1, <1>2, <1>3 DEF OnceInv

\* An idempotent producer writes no record twice, however often its batch is
\* sent again and whenever a lost request arrives after all, as long as the
\* broker has not forgotten the producer id: a batch keeps its producer id and
\* its sequence number through all its attempts, and shares no record with
\* another one (Sequences::reserve, Attempt::retriable).
THEOREM WrittenOnce == Idempotent => (Spec => []NoDuplicate)
<1> SUFFICES ASSUME Idempotent PROVE Spec => []NoDuplicate OBVIOUS
<1>1. OnceInv => NoDuplicate
  <2> SUFFICES ASSUME OnceInv, forgets = 0, NEW r \in Records
               PROVE  Copies(log[PartitionOf[r]], r) <= 1
    BY DEF NoDuplicate
  <2> DEFINE p == PartitionOf[r]
             K == {i \in DOMAIN log[p] : r \in ToSet(log[p][i].recs)}
  <2>1. p \in Partitions BY RecordsAssumption
  <2>2. \A i, j \in K : i = j BY <2>1 DEF OnceInv, Share
  <2>3. Copies(log[p], r) = Cardinality(K) BY DEF Copies
  <2> HIDE DEF K
  <2>4. K = {} \/ \E i : K = {i} BY <2>2
  <2>5. Cardinality(K) \in {0, 1} BY <2>4, FS_EmptySet, FS_Singleton
  <2> QED BY <2>3, <2>5
<1>2. OnceInv /\ [Next]_vars => OnceInv' BY OnceStep
<1> QED BY OnceInit, <1>1, <1>2, PTL DEF Spec

-----------------------------------------------------------------------------
(* Nothing is lost: what the producer still carries is what is not         *)
(* resolved.                                                               *)

Waiting(r) == r > submitted \/ r \in ToSet(waiters) \/ r \in holding
Carried(r) == InChannel(r) \/ InHand(r)

PendingInv ==
  /\ CustodyInv
  /\ \A r \in Records : Waiting(r) \/ Carried(r) => outcome[r] = Pending

\* The outcome of a record that is still to be resolved has not changed.
StillPending ==
  \A r \in Records : (Waiting(r) \/ Carried(r))' =>
                       (Waiting(r) \/ Carried(r)) /\ outcome'[r] = outcome[r]

LEMMA OnTaskTasked ==
  ASSUME NEW r, r \in OnTask
  PROVE  Tasked(r)
BY OnTaskIs DEF Tasked

LEMMA WaitingOrCarried ==
  ASSUME HandedOver, Placed, NEW r \in Records
  PROVE  /\ Waiting(r) => r \notin ToSet(accepted)
         /\ Carried(r) => r \in ToSet(accepted)
<1>1. r > submitted => r \notin 1..submitted BY DEF HandedOver, Records
<1>2. Waiting(r) => r \notin ToSet(accepted) BY <1>1 DEF HandedOver, Waiting
<1>3. Carried(r) => r \in ToSet(accepted) BY OnTaskTasked DEF Carried, InHand, Away, Placed
<1> QED BY <1>2, <1>3

LEMMA CallerStillPending ==
  ASSUME CustodyInv, CallerNext
  PROVE  StillPending
<1>0. /\ HandedOver /\ Placed /\ UNCHANGED <<actor, tasks, ghosts, log>>
      /\ outcome = [r \in Records |-> outcome[r]] /\ NumRecords \in Nat
  BY CallerIs, RecordsAssumption DEF CustodyInv, Shapes
<1>1. \A r : (InHand(r)' <=> InHand(r)) BY <1>0 DEF InHand, OnTask, BatchRecords
<1> SUFFICES ASSUME NEW r \in Records, (Waiting(r) \/ Carried(r))'
             PROVE  (Waiting(r) \/ Carried(r)) /\ outcome'[r] = outcome[r]
  BY DEF StillPending
<1>2. /\ Waiting(r) => r \notin ToSet(accepted)
      /\ Carried(r) => r \in ToSet(accepted)
  BY <1>0, WaitingOrCarried
<1>3. commands' = commands => (Carried(r)' <=> Carried(r)) BY <1>1 DEF Carried, InChannel
<1>4. CASE Submit
  <2> DEFINE n == submitted + 1
  <2>1. /\ submitted' = n /\ holding' = holding /\ commands' = commands /\ n \in Records
        /\ \/ waiters' = Append(waiters, n) /\ outcome' = outcome
           \/ waiters' = waiters /\ outcome' = [outcome EXCEPT ![n] = Told("refused")]
    BY <1>0, <1>4 DEF Submit, HandedOver, Records
  <2>2. /\ n > submitted /\ ~(n > n) /\ n \notin 1..submitted
        /\ (r > n => r > submitted)
    BY <1>0 DEF HandedOver, Records
  <2>3. n \notin ToSet(waiters) /\ n \notin holding /\ n \notin ToSet(accepted)
    BY <2>2 DEF HandedOver, CustodyInv
  <2> HIDE DEF n
  <2>4. CASE waiters' = Append(waiters, n) /\ outcome' = outcome
    <3>1. \A x : x \in ToSet(waiters') <=> x \in ToSet(waiters) \/ x = n
      BY <1>0, <2>1, <2>4, ToSetAppend DEF HandedOver
    <3> QED BY <1>3, <2>1, <2>2, <2>4, <3>1 DEF Waiting
  <2>5. CASE waiters' = waiters /\ outcome' = [outcome EXCEPT ![n] = Told("refused")]
    <3>1. Waiting(r)' => Waiting(r) /\ r # n BY <2>1, <2>2, <2>3, <2>5 DEF Waiting
    <3>2. Carried(r)' => Carried(r) /\ r # n BY <1>2, <1>3, <2>1, <2>3
    <3>3. r # n => outcome'[r] = outcome[r] BY <1>0, <2>5
    <3> QED BY <3>1, <3>2, <3>3
  <2> QED BY <2>1, <2>4, <2>5
<1>5. CASE AcquirePermit
  <2>1. /\ waiters # <<>> /\ waiters' = Tail(waiters) /\ holding' = holding \cup {Head(waiters)}
        /\ UNCHANGED <<submitted, commands, outcome>>
    BY <1>5 DEF AcquirePermit
  <2>2. \A x : x \in ToSet(waiters') => x \in ToSet(waiters)
    <3>1. waiters \in Seq(Records) BY <1>0 DEF HandedOver
    <3>2. DOMAIN waiters' = 1..(Len(waiters) - 1) /\ \A i \in DOMAIN waiters' : waiters'[i] = waiters[i + 1]
      BY <2>1, <3>1
    <3>3. \A i \in 1..(Len(waiters) - 1) : i + 1 \in DOMAIN waiters BY <3>1
    <3> QED BY <3>2, <3>3 DEF ToSet
  <2>3. Head(waiters) \in ToSet(waiters) BY <1>0, <2>1 DEF HandedOver, ToSet
  <2> QED BY <1>3, <2>1, <2>2, <2>3 DEF Waiting
<1>6. CASE DropHandles BY <1>3, <1>6 DEF DropHandles, Waiting
<1>7. ASSUME NEW x \in Records, PermitTimeout(x) \/ CancelAppend(x)
      PROVE  (Waiting(r) \/ Carried(r)) /\ outcome'[r] = outcome[r]
  <2>1. /\ UNCHANGED <<commands, submitted, accepted>>
        /\ \E k : outcome' = [outcome EXCEPT ![x] = Told(k)]
        /\ \/ x \in ToSet(waiters) /\ waiters' = StopWaiting(x) /\ holding' = holding
           \/ x \in holding /\ holding' = holding \ {x} /\ waiters' = waiters
    BY <1>7 DEF PermitTimeout, CancelAppend
  <2>2. /\ \A y : y \in ToSet(waiters') => y \in ToSet(waiters) /\ (y # x \/ x \in holding)
        /\ \A y : y \in holding' => y \in holding /\ (y # x \/ x \in ToSet(waiters))
    BY <1>0, <2>1, WaitersLeft
  <2>3. /\ ~(x \in ToSet(waiters) /\ x \in holding) /\ x \in 1..submitted /\ x \notin ToSet(accepted)
        /\ ~(x > submitted)
    <3>1. x \in 1..submitted BY <1>0, <2>1 DEF HandedOver
    <3> QED BY <1>0, <2>1, <3>1 DEF HandedOver, Records
  <2>4. x \notin ToSet(waiters') /\ x \notin holding' BY <2>1, <2>2, <2>3
  <2>5. Waiting(r)' => Waiting(r) /\ r # x BY <2>1, <2>2, <2>3, <2>4 DEF Waiting
  <2>6. Carried(r)' => Carried(r) /\ r # x BY <1>2, <1>3, <2>1, <2>3
  <2>7. r # x => outcome'[r] = outcome[r] BY <1>0, <2>1
  <2> QED BY <2>5, <2>6, <2>7
<1>8. ASSUME NEW x \in Records, Enqueue(x)
      PROVE  (Waiting(r) \/ Carried(r)) /\ outcome'[r] = outcome[r]
  <2>1. /\ x \in holding /\ holding' = holding \ {x} /\ UNCHANGED <<submitted, waiters, outcome>>
        /\ commands' = Append(commands, AppendCommand(x)) /\ AppendCommand(x) \in Commands
    BY <1>8 DEF Enqueue, Commands
  <2>2. InChannel(r)' => InChannel(r) \/ r = x BY <1>0, <2>1, ChannelAppend, CommandsDiffer
  <2>3. Waiting(r)' => Waiting(r) BY <2>1 DEF Waiting
  <2>4. Waiting(x) BY <2>1 DEF Waiting
  <2> QED BY <1>1, <2>1, <2>2, <2>3, <2>4 DEF Carried
<1>9. ASSUME NEW f \in Flushes, CallFlush(f)
      PROVE  (Waiting(r) \/ Carried(r)) /\ outcome'[r] = outcome[r]
  <2>1. /\ commands' = Append(commands, FlushCommand(f)) /\ FlushCommand(f) \in Commands
        /\ UNCHANGED <<submitted, waiters, holding, outcome>>
    BY <1>9 DEF CallFlush, Commands
  <2>2. InChannel(r)' => InChannel(r) BY <1>0, <2>1, ChannelAppend, CommandsDiffer
  <2> QED BY <1>1, <2>1, <2>2 DEF Carried, Waiting
<1> QED BY <1>4, <1>5, <1>6, <1>7, <1>8, <1>9 DEF CallerNext

LEMMA ActorStillPending ==
  ASSUME CustodyInv, ActorNext
  PROVE  StillPending
<1>0. HandedOver /\ Placed /\ Shapes BY DEF CustodyInv
<1>1. UNCHANGED <<submitted, waiters, holding>>
  BY DEF ActorNext, HandleAppend, HandleFlush, HandleClosed, HandleCompleted, Wake, ClaimOk,
         ClaimRetriable, ClaimTerminal, callerVars
<1>2. PICK N, X, T, F : Steps(N, X, T, F) BY ActorSteps
<1>3. /\ \A r : r \in N => InChannel(r)
      /\ \A r : InChannel(r)' => InChannel(r) /\ r \notin N
  BY <1>0, <1>2, ChannelStep DEF Steps
<1>4. Moves(N, X, T) BY <1>2 DEF Steps
<1> SUFFICES ASSUME NEW r \in Records, (Waiting(r) \/ Carried(r))'
             PROVE  (Waiting(r) \/ Carried(r)) /\ outcome'[r] = outcome[r]
  BY DEF StillPending
<1>5. /\ Waiting(r) => r \notin ToSet(accepted)
      /\ Carried(r) => r \in ToSet(accepted)
  BY <1>0, WaitingOrCarried
<1>6. Waiting(r)' <=> Waiting(r) BY <1>1 DEF Waiting
<1>7. /\ r \in X \/ r \in T => r \in Buffered(actor) \/ r \in N
      /\ ~(r \in X /\ r \in T)
      /\ (r \in Buffered(actor))' => (r \in Buffered(actor) \/ r \in N) /\ r \notin X
      /\ (r \in OnTask)' => r \in OnTask \/ r \in T
      /\ r \notin X => outcome'[r] = outcome[r]
  BY <1>4 DEF Moves
<1>8. r \in Buffered(actor) \/ r \in N => Carried(r) /\ ~(r \in OnTask)
  <2>1. r \in OnTask => Away(r) BY OnTaskTasked DEF Away
  <2> QED BY <1>0, <1>3, <2>1 DEF Placed, Carried, InHand
<1>9. InChannel(r)' => InChannel(r) /\ r \notin X BY <1>0, <1>3, <1>7 DEF Placed
<1>10. Carried(r)' => Carried(r) /\ r \notin X BY <1>7, <1>8, <1>9 DEF Carried, InHand
<1>11. r \in X => Carried(r) BY <1>7, <1>8
<1> QED BY <1>5, <1>6, <1>7, <1>10, <1>11

\* A task resolves records it carried, and carries none of them on.
Resolves ==
  \A r \in Records : /\ (r \in OnTask)' => r \in OnTask /\ outcome'[r] = outcome[r]
                     /\ outcome'[r] = outcome[r] \/ Tasked(r)

\* The batches of a partition are with one task.
LEMMA OneTask ==
  ASSUME InFlightInv, Shapes, NEW t \in tasks, NEW v \in tasks,
         NEW p \in DOMAIN t.batch, NEW q \in DOMAIN v.batch, NEW r,
         r \in ToSet(t.batch[p].recs), r \in ToSet(v.batch[q].recs)
  PROVE  t = v /\ p = q
<1>1. TaskOK(t) /\ TaskOK(v) BY DEF Shapes
<1>2. p = q BY <1>1, TaskRecords
<1>3. t # v => DOMAIN t.batch \cap DOMAIN v.batch = {} BY DEF InFlightInv, OneBatchPerPartition
<1> QED BY <1>2, <1>3

\* A step that changes no outcome and results only of live batches.
LEMMA SameOutcomes ==
  ASSUME Shapes, NEW t \in tasks, NEW u, Succeeds(u, t), outcome' = outcome,
         tasks' = (tasks \ {t}) \cup {u},
         \A p \in DOMAIN t.batch : u.res[p] = t.res[p] \/ p \in t.live
  PROVE  Resolves
<1>1. TaskOK(t) BY DEF Shapes
<1>2. ASSUME NEW r, (r \in OnTask)' PROVE r \in OnTask
  <2>1. (r \in OnTask)' <=> \E w \in tasks' : \E q \in DOMAIN w.batch :
                            w.res[q].kind # "unencodable" /\ r \in ToSet(w.batch[q].recs)
    BY DEF OnTask, BatchRecords
  <2>2. PICK w \in tasks' : \E q \in DOMAIN w.batch :
                            w.res[q].kind # "unencodable" /\ r \in ToSet(w.batch[q].recs)
    BY <1>2, <2>1
  <2>3. PICK q \in DOMAIN w.batch : w.res[q].kind # "unencodable" /\ r \in ToSet(w.batch[q].recs) BY <2>2
  <2>4. CASE w \in tasks BY <2>3, <2>4, OnTaskIs
  <2>5. CASE w = u
    <3>1. q \in DOMAIN t.batch /\ r \in ToSet(t.batch[q].recs) BY <2>3, <2>5 DEF Succeeds
    <3>2. t.res[q].kind # "unencodable" BY <1>1, <2>3, <2>5, <3>1 DEF TaskOK
    <3> QED BY <3>1, <3>2, OnTaskIs
  <2> QED BY <2>4, <2>5
<1> QED BY <1>2 DEF Resolves

LEMMA EncodeResolves ==
  ASSUME CustodyInv, NEW t \in tasks, Encode(t)
  PROVE  Resolves
<1>0. Shapes /\ InFlightInv /\ TaskOK(t) BY DEF CustodyInv, Shapes
<1>1. PICK u, bad : Encoded(t, u, bad) BY <1>0, EncodeIs
<1>2. outcome' = [r \in Records |-> IF r \in BatchRecords(t, bad) THEN Told("unsent") ELSE outcome[r]]
  BY <1>1 DEF Encoded
<1>3. \A r : r \in BatchRecords(t, bad) => \E p \in DOMAIN t.batch : p \in bad /\ r \in ToSet(t.batch[p].recs)
  BY <1>1 DEF BatchRecords, Encoded
<1>4. \A r \in Records : outcome'[r] = outcome[r] \/ Tasked(r) BY <1>2, <1>3 DEF Tasked
<1>5. ASSUME NEW r \in Records, (r \in OnTask)' PROVE r \in OnTask /\ outcome'[r] = outcome[r]
  <2>1. (r \in OnTask)' <=> \E w \in tasks' : \E q \in DOMAIN w.batch :
                            w.res[q].kind # "unencodable" /\ r \in ToSet(w.batch[q].recs)
    BY DEF OnTask, BatchRecords
  <2>2. PICK w \in tasks' : \E q \in DOMAIN w.batch :
                            w.res[q].kind # "unencodable" /\ r \in ToSet(w.batch[q].recs)
    BY <1>5, <2>1
  <2>3. PICK q \in DOMAIN w.batch : w.res[q].kind # "unencodable" /\ r \in ToSet(w.batch[q].recs) BY <2>2
  <2>4. (w \in tasks /\ w # t) \/ w = u BY <1>1 DEF Encoded
  <2>5. CASE w \in tasks /\ w # t
    <3>1. r \notin BatchRecords(t, bad) BY <1>0, <1>3, <2>3, <2>5, OneTask
    <3> QED BY <1>2, <2>3, <2>5, <3>1, OnTaskIs
  <2>6. CASE w = u
    <3>1. q \in DOMAIN t.batch /\ r \in ToSet(t.batch[q].recs) /\ q \notin bad /\ t.res[q] = Due
      BY <1>1, <2>3, <2>6 DEF Encoded, Succeeds
    <3>2. r \notin BatchRecords(t, bad) BY <1>0, <1>3, <3>1, OneTask
    <3>3. Due.kind # "unencodable" BY DEF Due
    <3> QED BY <1>2, <3>1, <3>2, <3>3, OnTaskIs
  <2> QED BY <2>4, <2>5, <2>6
<1> QED BY <1>4, <1>5 DEF Resolves

LEMMA JudgeResolves ==
  ASSUME CustodyInv, NEW t \in tasks, Judge(t)
  PROVE  Resolves
<1>0. Shapes /\ InFlightInv /\ TaskOK(t) BY DEF CustodyInv, Shapes
<1>1. ASSUME NEW u, NEW retry, Retried(t, u, retry) PROVE Resolves
  <2>1. /\ Succeeds(u, t) /\ outcome' = outcome /\ tasks' = (tasks \ {t}) \cup {u}
        /\ \A p \in DOMAIN t.batch : u.res[p] = t.res[p] \/ p \in t.live
    BY <1>1 DEF Retried
  <2> QED BY <1>0, <2>1, SameOutcomes
<1>2. CASE Returned(t)
  <2> DEFINE D == {p \in DOMAIN t.batch : t.res[p].kind # "unencodable"}
             R == BatchRecords(t, D)
  <2>1. /\ tasks' = tasks \ {t}
        /\ outcome' = [r \in Records |-> IF r \in R THEN Verdict(t, r) ELSE outcome[r]]
    BY <1>2 DEF Returned
  <2>2. \A r : r \in R => \E p \in DOMAIN t.batch : r \in ToSet(t.batch[p].recs) BY DEF BatchRecords
  <2> HIDE DEF D, R
  <2>3. \A r \in Records : outcome'[r] = outcome[r] \/ Tasked(r) BY <2>1, <2>2 DEF Tasked
  <2>4. ASSUME NEW r \in Records, (r \in OnTask)' PROVE r \in OnTask /\ outcome'[r] = outcome[r]
    <3>1. (r \in OnTask)' <=> \E w \in tasks' : \E q \in DOMAIN w.batch :
                              w.res[q].kind # "unencodable" /\ r \in ToSet(w.batch[q].recs)
      BY DEF OnTask, BatchRecords
    <3>2. PICK w \in tasks' : \E q \in DOMAIN w.batch :
                              w.res[q].kind # "unencodable" /\ r \in ToSet(w.batch[q].recs)
      BY <2>4, <3>1
    <3>3. w \in tasks /\ w # t BY <2>1
    <3>4. r \notin R BY <1>0, <2>2, <3>2, <3>3, OneTask
    <3>5. r \in OnTask BY <3>2, <3>3, OnTaskIs
    <3> QED BY <2>1, <3>4, <3>5
  <2> QED BY <2>3, <2>4 DEF Resolves
<1> QED BY <1>0, <1>1, <1>2, JudgeIs

LEMMA OtherResolves ==
  ASSUME CustodyInv, TaskNext \/ ClusterNext \/ DeadlinePasses \/ Stopped \/ UNCHANGED vars
  PROVE  Resolves
<1>0. Shapes BY DEF CustodyInv
<1>1. ASSUME NEW t \in tasks, NEW G, NEW result, G \subseteq Unanswered(t), outcome' = outcome,
             \A p \in G : result[p].kind \in ResultKinds \ {"unencodable"},
             tasks' = WithResults(t, G, result)
      PROVE  Resolves
  <2>1. TaskOK(t) /\ G \subseteq t.live BY <1>0, <1>1 DEF Shapes, Unanswered
  <2>2. PICK u : Answered(u, t, G, result) /\ tasks' = (tasks \ {t}) \cup {u} BY <1>1, <2>1, ResultsRecorded
  <2>3. Succeeds(u, t) /\ \A p \in DOMAIN t.batch : u.res[p] = t.res[p] \/ p \in t.live
    BY <2>1, <2>2 DEF Answered
  <2> QED BY <1>0, <1>1, <2>2, <2>3, SameOutcomes
<1>2. ASSUME NEW t \in tasks, NEW G, RouteFails(t, G) \/ LoseRequest(t, G) PROVE Resolves
  <2>1. /\ G \subseteq Unanswered(t) /\ outcome' = outcome
        /\ \E k \in {"rejected", "ambiguous"} : \E err :
             tasks' = WithResults(t, G, [p \in G |-> [kind |-> k, err |-> err, off |-> -1]])
    BY <1>2 DEF RouteFails, LoseRequest
  <2>2. PICK k \in {"rejected", "ambiguous"} : \E err :
             tasks' = WithResults(t, G, [p \in G |-> [kind |-> k, err |-> err, off |-> -1]])
    BY <2>1
  <2>3. PICK err : tasks' = WithResults(t, G, [p \in G |-> [kind |-> k, err |-> err, off |-> -1]]) BY <2>2
  <2> DEFINE result == [p \in G |-> [kind |-> k, err |-> err, off |-> -1]]
  <2>4. \A p \in G : result[p].kind \in ResultKinds \ {"unencodable"} BY DEF ResultKinds
  <2>5. tasks' = WithResults(t, G, result) BY <2>3
  <2> HIDE DEF result
  <2> QED BY <1>1, <2>1, <2>4, <2>5
<1>3. ASSUME NEW t \in tasks, NEW G, Respond(t, G) PROVE Resolves
  <2>1. G \subseteq Unanswered(t) /\ outcome' = outcome BY <1>3 DEF Respond
  <2>2. PICK result : Responded(t, G, result) BY <1>3, RespondAnswers
  <2>3. /\ \A p \in G : result[p].kind \in ResultKinds \ {"unencodable"}
        /\ tasks' = WithResults(t, G, result)
    BY <2>2 DEF Responded, ResultKinds
  <2> QED BY <1>1, <2>1, <2>3
<1>4. TaskNext => Resolves BY <1>2, <1>3, EncodeResolves, JudgeResolves DEF TaskNext, TaskStep
<1>5. ClusterNext \/ DeadlinePasses \/ Stopped \/ UNCHANGED vars => UNCHANGED <<outcome, tasks>>
  BY DEF ClusterNext, GhostArrives, Forget, DeadlinePasses, Stopped, vars
<1>6. UNCHANGED <<outcome, tasks>> => Resolves BY DEF Resolves, OnTask, BatchRecords
<1> QED BY <1>4, <1>5, <1>6

LEMMA PendingStep == PendingInv /\ [Next]_vars => PendingInv'
<1> SUFFICES ASSUME PendingInv, [Next]_vars PROVE PendingInv' OBVIOUS
<1>1. CustodyInv /\ CustodyInv' /\ HandedOver /\ Placed /\ Shapes BY CustodyStep DEF PendingInv, CustodyInv
<1>2. CASE CallerNext BY <1>1, <1>2, CallerStillPending DEF PendingInv, StillPending
<1>3. CASE ActorNext BY <1>1, <1>3, ActorStillPending DEF PendingInv, StillPending
<1>4. CASE TaskNext \/ ClusterNext \/ DeadlinePasses \/ Stopped \/ UNCHANGED vars
  <2>1. UNCHANGED <<submitted, waiters, holding, commands, actor>>
    BY <1>4 DEF TaskNext, TaskStep, Encode, Judge, RouteFails, Respond, LoseRequest, ClusterNext,
                GhostArrives, Forget, DeadlinePasses, Stopped, vars, callerVars, actorVars
  <2>2. Resolves BY <1>1, <1>4, OtherResolves
  <2>3. ASSUME NEW r \in Records, (Waiting(r) \/ Carried(r))'
        PROVE  (Waiting(r) \/ Carried(r)) /\ outcome'[r] = outcome[r]
    <3>1. /\ Waiting(r)' <=> Waiting(r)
          /\ InChannel(r)' <=> InChannel(r)
          /\ (r \in Buffered(actor))' <=> r \in Buffered(actor)
      BY <2>1 DEF Waiting, InChannel
    <3>2. /\ (r \in OnTask)' => r \in OnTask /\ outcome'[r] = outcome[r]
          /\ outcome'[r] = outcome[r] \/ Tasked(r)
      BY <2>2 DEF Resolves
    <3>3. Tasked(r) => ~Waiting(r) /\ ~InChannel(r) /\ r \notin Buffered(actor)
      BY <1>1, WaitingOrCarried DEF Placed, Away
    <3> QED BY <2>3, <3>1, <3>2, <3>3 DEF Carried, InHand
  <2> QED BY <1>1, <2>3 DEF PendingInv
<1> QED BY <1>2, <1>3, <1>4 DEF Next

LEMMA PendingInit == Init => PendingInv
<1> SUFFICES ASSUME Init PROVE PendingInv OBVIOUS
<1>1. CustodyInv BY CustodyInit
<1>2. \A r \in Records : outcome[r] = Pending BY DEF Init
<1> QED BY <1>1, <1>2 DEF PendingInv

LEMMA NothingLostHolds ==
  ASSUME FlushInv, PendingInv
  PROVE  NothingLost
<1>0. CustodyInv /\ Placed /\ HandedOver BY DEF PendingInv, CustodyInv
<1>1. \A r : r \in Queued <=> InChannel(r)
  <2>1. commands \in Seq(Commands) BY <1>0 DEF Placed
  <2>2. \A i \in DOMAIN commands : commands[i] \in Commands BY <2>1
  <2>3. \A r : AppendCommand(r).type = "append" /\ AppendCommand(r).id = r BY DEF AppendCommand
  <2>4. \A f : FlushCommand(f).type = "flush" BY DEF FlushCommand
  <2>5. ASSUME NEW r, r \in Queued PROVE InChannel(r)
    <3>1. PICK i \in DOMAIN commands : commands[i].type = "append" /\ r = commands[i].id BY <2>5 DEF Queued
    <3>2. \E x \in Records : commands[i] = AppendCommand(x) BY <2>2, <2>4, <3>1 DEF Commands
    <3> QED BY <2>3, <3>1, <3>2 DEF InChannel
  <2>6. ASSUME NEW r, InChannel(r) PROVE r \in Queued BY <2>3, <2>6 DEF Queued, InChannel
  <2> QED BY <2>5, <2>6
<1>2. ToSet(accepted) \subseteq Records BY <1>0, ToSetType DEF HandedOver
<1>3. \A r : InChannel(r) \/ r \in Buffered(actor) \/ r \in OnTask => r \in Records
  <2>1. \A r : InChannel(r) => r \in Records
    <3>1. \A i \in DOMAIN commands : commands[i] \in Commands BY <1>0 DEF Placed
    <3>2. \A i \in DOMAIN commands : \A r : commands[i] = AppendCommand(r) => r \in Records
      BY <3>1, CommandsDiffer DEF Commands
    <3> QED BY <3>2 DEF InChannel
  <2>2. \A r : r \in Buffered(actor) => r \in Records BY <1>0, BufferedHome DEF CustodyInv, Shapes
  <2>3. \A r : r \in OnTask => r \in Records BY <1>0, OnTaskIs, TaskRecords DEF CustodyInv, Shapes
  <2> QED BY <2>1, <2>2, <2>3
<1>4. \A r \in Records : r \in OnTask => Away(r) BY OnTaskTasked DEF Away
<1> DEFINE outstanding == {r \in ToSet(accepted) : outcome[r] = Pending}
<1>5. \A r : r \in outstanding <=> InChannel(r) \/ r \in Buffered(actor) \/ r \in OnTask
  <2>1. ASSUME NEW r \in outstanding PROVE InChannel(r) \/ r \in Buffered(actor) \/ r \in OnTask
    BY <2>1 DEF FlushInv, InHand
  <2>2. ASSUME NEW r, InChannel(r) \/ r \in Buffered(actor) \/ r \in OnTask PROVE r \in outstanding
    <3>1. r \in Records /\ Carried(r) BY <1>3, <2>2 DEF Carried, InHand
    <3> QED BY <1>0, <3>1, WaitingOrCarried DEF PendingInv
  <2> QED BY <2>1, <2>2
<1>6. /\ \A r \in Records : ~(InChannel(r) /\ r \in Buffered(actor))
      /\ \A r \in Records : ~(InChannel(r) /\ r \in OnTask)
      /\ \A r \in Records : ~(r \in Buffered(actor) /\ r \in OnTask)
  BY <1>0, <1>4 DEF Placed
<1> HIDE DEF outstanding
<1>7. outstanding = Queued \cup Buffered(actor) \cup OnTask BY <1>1, <1>5
<1>8. Queued \cap (Buffered(actor) \cup OnTask) = {} /\ Buffered(actor) \cap OnTask = {} BY <1>1, <1>3, <1>6
<1> QED BY <1>7, <1>8 DEF NothingLost, outstanding

(* The records that were accepted and not resolved are those in the        *)
(* channel, in the actor's batches and with the send tasks, each of them   *)
(* in one of the three only: however the turns of the actor, encoding,     *)
(* retries, deadlines and a refused producer id interleave, no caller is   *)
(* forgotten and none is told twice.                                       *)
THEOREM NoneLost == Spec => []NothingLost
<1>1. Init => FlushInv /\ PendingInv BY FlushInit, PendingInit
<1>2. (FlushInv /\ PendingInv) /\ [Next]_vars => (FlushInv /\ PendingInv)' BY FlushStep, PendingStep
<1>3. FlushInv /\ PendingInv => NothingLost BY NothingLostHolds
<1> QED BY <1>1, <1>2, <1>3, PTL DEF Spec

-----------------------------------------------------------------------------
(* What the callers are told of a record that may be in a log.             *)

OneIndexEach == \A p, q \in Partitions : p[2] = q[2] => p = q

Tainted(r) == Ghostly(r) \/ Written(r)

Clean ==
  \A r \in Records : Tainted(r) =>
    /\ outcome[r].kind \in {"pending", "ok", "ambiguous"}
    /\ \A t \in tasks : \A p \in DOMAIN t.batch :
         r \in ToSet(t.batch[p].recs) => t.res[p].kind \in {"ack", "ambiguous"}

CleanInv == PendingInv /\ Clean

\* A response that is read right: a batch that was appended is acknowledged
\* or left open, and an acknowledgement is the broker's for that batch.
Faithful(t, G, result) ==
  /\ tasks' = WithResults(t, G, result)
  /\ \A p \in G : result[p].kind \in {"rejected", "ack", "ambiguous"}
  /\ DOMAIN log' = Partitions
  /\ \A p \in Partitions :
       \/ log'[p] = log[p]
       \/ /\ p \in G /\ log'[p] = AppendBatch(log[p], t.batch[p])
          /\ MayAppend(log[p], forgotten[p], t.batch[p])
          /\ result[p].kind \in {"ack", "ambiguous"} \/ "AfterAppend" \in Verdicts
  /\ \A p \in G : result[p].kind = "ack" =>
       /\ result[p].off = BaseOffset(log[p], forgotten[p], t.batch[p])
       /\ \/ log'[p] = AppendBatch(log[p], t.batch[p])
          \/ IsDuplicate(log[p], forgotten[p], t.batch[p])
  /\ \A p \in G : invalidates_producer_state(result[p].err) =>
       MayRefuse(log[p], forgotten[p], t.batch[p])

\* The broker disowns a producer only over a sequence number it may refuse.
LEMMA AnswerRefuses ==
  ASSUME NEW p, NEW b, NEW a \in Answers(p, b), invalidates_producer_state(a.res.err)
  PROVE  MayRefuse(log[p], forgotten[p], b)
<1> DEFINE fresh == MayAppend(log[p], forgotten[p], b)
           no(err) == [kind |-> "rejected", err |-> err, off |-> -1]
           base == BaseOffset(log[p], forgotten[p], b)
           refusal == Refusal(log[p], forgotten[p], b)
<1>1. \/ \E err \in Verdicts \cap {"Moved", "Busy", "Fatal"} : a = [res |-> no(err), append |-> FALSE]
      \/ \E err \in Verdicts \cap {"AfterAppend"} : a = [res |-> no(err), append |-> fresh]
      \/ MayRefuse(log[p], forgotten[p], b)
      \/ a = [res |-> [kind |-> "ack", err |-> "none", off |-> base], append |-> fresh]
      \/ \E x \in BOOLEAN : a = [res |-> [kind |-> "ambiguous", err |-> "Unanswered", off |-> -1], append |-> x]
  BY DEF Answers
<1> HIDE DEF fresh, base, refusal
<1>2. CASE \E err \in Verdicts \cap {"Moved", "Busy", "Fatal"} : a = [res |-> no(err), append |-> FALSE]
  <2>1. a.res.err \in {"Moved", "Busy", "Fatal"} BY <1>2
  <2> QED BY <2>1 DEF invalidates_producer_state
<1>3. CASE \E err \in Verdicts \cap {"AfterAppend"} : a = [res |-> no(err), append |-> fresh]
  <2>1. a.res.err = "AfterAppend" BY <1>3
  <2> QED BY <2>1 DEF invalidates_producer_state
<1>4. CASE a = [res |-> [kind |-> "ack", err |-> "none", off |-> base], append |-> fresh]
  <2>1. a.res.err = "none" BY <1>4
  <2> QED BY <2>1 DEF invalidates_producer_state
<1>5. CASE \E x \in BOOLEAN : a = [res |-> [kind |-> "ambiguous", err |-> "Unanswered", off |-> -1], append |-> x]
  <2>1. a.res.err = "Unanswered" BY <1>5
  <2> QED BY <2>1 DEF invalidates_producer_state
<1> QED BY <1>1, <1>2, <1>3, <1>4, <1>5

LEMMA RespondFaithful ==
  ASSUME OneIndexEach, NEW t \in tasks, NEW G, G \subseteq Partitions, Respond(t, G)
  PROVE  \E result : Faithful(t, G, result)
<1>1. PICK ans :
       LET answered == {p \in G : ans[p].res.err # "Unanswered"} IN
       /\ \A p \in G : ans[p] \in Answers(p, t.batch[p])
       /\ \E kept \in [{p[2] : p \in answered} -> answered] :
            /\ \A i \in DOMAIN kept : kept[i][2] = i
            /\ tasks' = WithResults(t, G, read_response(G, ans, kept))
       /\ log' = [p \in Partitions |->
                    IF p \in G /\ ans[p].append
                    THEN AppendBatch(log[p], t.batch[p]) ELSE log[p]]
  BY DEF Respond
<1> DEFINE answered == {p \in G : ans[p].res.err # "Unanswered"}
           index == {p[2] : p \in answered}
<1>2. PICK kept \in [index -> answered] :
            /\ \A i \in DOMAIN kept : kept[i][2] = i
            /\ tasks' = WithResults(t, G, read_response(G, ans, kept))
  BY <1>1
<1>3. \A p \in G : ans[p] \in Answers(p, t.batch[p]) BY <1>1
<1>4. log' = [p \in Partitions |-> IF p \in G /\ ans[p].append
                                   THEN AppendBatch(log[p], t.batch[p]) ELSE log[p]]
  BY <1>1
<1>5. /\ answered \subseteq G
      /\ \A p \in G : p \in answered <=> ans[p].res.err # "Unanswered"
      /\ \A p \in answered : p[2] \in index
      /\ DOMAIN kept = index /\ \A i \in index : kept[i] \in answered /\ kept[i][2] = i
  BY <1>2
<1> HIDE DEF answered, index
<1> DEFINE result == read_response(G, ans, kept)
<1>6. ASSUME NEW p \in G
      PROVE  /\ result[p].kind = ans[p].res.kind /\ result[p].err = ans[p].res.err
             /\ result[p].kind = "ack" => result[p].off = ans[p].res.off
  <2>1. CASE p \in answered
    <3>1. p[2] \in index /\ kept[p[2]] \in G /\ kept[p[2]][2] = p[2] BY <1>5, <2>1
    <3>2. kept[p[2]] = p BY <3>1 DEF OneIndexEach
    <3>3. result[p] = ans[p].res BY <1>5, <3>1, <3>2 DEF read_response
    <3> QED BY <3>3
  <2>2. CASE p \notin answered
    <3>1. ans[p].res.kind = "ambiguous" /\ ans[p].res.err = "Unanswered"
      <4>1. ans[p] \in Answers(p, t.batch[p]) /\ ans[p].res.err = "Unanswered" BY <1>3, <1>5, <2>2
      <4> QED BY <4>1, AnswerKinds
    <3>2. p[2] \notin index
      <4>1. ASSUME p[2] \in index PROVE FALSE
        <5>1. kept[p[2]] \in answered /\ kept[p[2]] \in G /\ kept[p[2]][2] = p[2] BY <1>5, <4>1
        <5>2. kept[p[2]] = p BY <5>1 DEF OneIndexEach
        <5> QED BY <2>2, <5>1, <5>2
      <4> QED BY <4>1
    <3>3. result[p] = [kind |-> "ambiguous", err |-> "Unanswered", off |-> -1] BY <1>5, <3>2 DEF read_response
    <3> QED BY <3>1, <3>3
  <2> QED BY <2>1, <2>2
<1>7. tasks' = WithResults(t, G, result) BY <1>2
<1> HIDE DEF result
<1>8. ASSUME NEW p \in G
      PROVE  /\ ans[p].append \in BOOLEAN
             /\ ans[p].append => MayAppend(log[p], forgotten[p], t.batch[p])
             /\ ans[p].res.kind \in {"rejected", "ack", "ambiguous"}
             /\ ans[p].append => ans[p].res.kind \in {"ack", "ambiguous"} \/ "AfterAppend" \in Verdicts
             /\ ans[p].res.kind = "ack" =>
                  /\ ans[p].res.off = BaseOffset(log[p], forgotten[p], t.batch[p])
                  /\ ans[p].append \/ IsDuplicate(log[p], forgotten[p], t.batch[p])
  <2>1. ans[p] \in Answers(p, t.batch[p]) BY <1>3
  <2> QED BY <2>1, AnswerKinds
<1>9. \A p \in G : result[p].kind \in {"rejected", "ack", "ambiguous"} BY <1>6, <1>8
<1>10. ASSUME NEW p \in Partitions
       PROVE  \/ log'[p] = log[p]
              \/ /\ p \in G /\ log'[p] = AppendBatch(log[p], t.batch[p])
                 /\ MayAppend(log[p], forgotten[p], t.batch[p])
                 /\ result[p].kind \in {"ack", "ambiguous"} \/ "AfterAppend" \in Verdicts
  BY <1>4, <1>6, <1>8
<1>11. ASSUME NEW p \in G, result[p].kind = "ack"
       PROVE  /\ result[p].off = BaseOffset(log[p], forgotten[p], t.batch[p])
              /\ \/ log'[p] = AppendBatch(log[p], t.batch[p])
                 \/ IsDuplicate(log[p], forgotten[p], t.batch[p])
  <2>1. p \in Partitions /\ ans[p].res.kind = "ack" /\ result[p].off = ans[p].res.off BY <1>6, <1>11
  <2>2. ans[p].append => log'[p] = AppendBatch(log[p], t.batch[p]) BY <1>4, <2>1
  <2> QED BY <1>8, <2>1, <2>2
<1>12. DOMAIN log' = Partitions BY <1>4
<1>13. ASSUME NEW p \in G, invalidates_producer_state(result[p].err)
       PROVE  MayRefuse(log[p], forgotten[p], t.batch[p])
  <2>1. ans[p] \in Answers(p, t.batch[p]) /\ invalidates_producer_state(ans[p].res.err) BY <1>3, <1>6, <1>13
  <2> QED BY <2>1, AnswerRefuses
<1>14. Faithful(t, G, result) BY <1>7, <1>9, <1>10, <1>11, <1>12, <1>13 DEF Faithful
<1> QED BY <1>14

\* Results for batches that have none: a record may become tainted only with
\* a batch that is acknowledged or left open.
LEMMA AnsweredClean ==
  ASSUME CleanInv, NEW t \in tasks, NEW G, G \subseteq Unanswered(t), NEW result,
         \A p \in G : result[p].kind \in {"rejected", "ack", "ambiguous"},
         tasks' = WithResults(t, G, result), outcome' = outcome,
         \A r \in Records : Tainted(r)' => Tainted(r) \/ \E p \in G :
           r \in ToSet(t.batch[p].recs) /\ result[p].kind \in {"ack", "ambiguous"}
  PROVE  Clean'
<1>0. Shapes /\ InFlightInv /\ TaskOK(t) /\ CustodyInv BY DEF CleanInv, PendingInv, CustodyInv, Shapes
<1>1. PICK u : Answered(u, t, G, result) /\ tasks' = (tasks \ {t}) \cup {u}
  <2>1. \A p \in G : result[p].kind \in ResultKinds \ {"unencodable"} BY DEF ResultKinds
  <2> QED BY <1>0, <2>1, ResultsRecorded
<1>2. /\ u.batch = t.batch /\ G \subseteq DOMAIN t.batch
      /\ \A p \in DOMAIN t.batch : u.res[p] = IF p \in G THEN result[p] ELSE t.res[p]
      /\ \A p \in G : t.res[p] = Due
  BY <1>0, <1>1 DEF Answered, Succeeds, Unanswered, TaskOK
<1>3. Due.kind = "due" BY DEF Due
<1>4. ASSUME NEW r \in Records, Tainted(r)
      PROVE  /\ outcome[r].kind \in {"pending", "ok", "ambiguous"}
             /\ \A v \in tasks : \A p \in DOMAIN v.batch :
                  r \in ToSet(v.batch[p].recs) => v.res[p].kind \in {"ack", "ambiguous"}
  BY <1>4 DEF CleanInv, Clean
<1>5. ASSUME NEW r \in Records, Tainted(r)'
      PROVE  /\ outcome'[r].kind \in {"pending", "ok", "ambiguous"}
             /\ \A v \in tasks' : \A p \in DOMAIN v.batch :
                  r \in ToSet(v.batch[p].recs) => v.res[p].kind \in {"ack", "ambiguous"}
  <2>1. CASE Tainted(r)
    <3>1. ASSUME NEW p \in DOMAIN u.batch, r \in ToSet(u.batch[p].recs)
          PROVE  u.res[p].kind \in {"ack", "ambiguous"}
      <4>1. t.res[p].kind \in {"ack", "ambiguous"} BY <1>2, <1>4, <2>1, <3>1
      <4> QED BY <1>2, <1>3, <3>1, <4>1
    <3> QED BY <1>1, <1>4, <2>1, <3>1
  <2>2. ASSUME NEW p \in G, r \in ToSet(t.batch[p].recs), result[p].kind \in {"ack", "ambiguous"}
        PROVE  /\ outcome'[r].kind \in {"pending", "ok", "ambiguous"}
               /\ \A v \in tasks' : \A q \in DOMAIN v.batch :
                    r \in ToSet(v.batch[q].recs) => v.res[q].kind \in {"ack", "ambiguous"}
    <3>1. r \in OnTask BY <1>2, <1>3, <2>2, OnTaskIs
    <3>2. outcome[r] = Pending BY <3>1 DEF CleanInv, PendingInv, Carried, InHand
    <3>3. outcome'[r].kind = "pending" BY <3>2 DEF Pending
    <3>4. ASSUME NEW v \in tasks', NEW q \in DOMAIN v.batch, r \in ToSet(v.batch[q].recs)
          PROVE  v.res[q].kind \in {"ack", "ambiguous"}
      <4>1. CASE v = u
        <5>1. q \in DOMAIN t.batch /\ r \in ToSet(t.batch[q].recs) BY <1>2, <3>4, <4>1
        <5>2. p = q BY <1>0, <1>2, <2>2, <5>1, OneTask
        <5> QED BY <1>2, <2>2, <4>1, <5>1, <5>2
      <4>2. CASE v \in tasks /\ v # t BY <1>0, <1>2, <2>2, <3>4, <4>2, OneTask
      <4> QED BY <1>1, <4>1, <4>2
    <3> QED BY <3>3, <3>4
  <2> QED BY <1>5, <2>1, <2>2
<1> QED BY <1>5 DEF Clean

LEMMA CallerClean ==
  ASSUME CleanInv, CallerNext
  PROVE  Clean'
<1>0. HandedOver /\ Placed /\ Shapes BY DEF CleanInv, PendingInv, CustodyInv
<1>1. /\ UNCHANGED <<actor, tasks, ghosts, log>>
      /\ outcome' = outcome \/ \E r, k : Tells(r, k)
  BY <1>0, CallerIs DEF Quiet, Accepts, Flushing
<1>2. \A r : Tainted(r)' <=> Tainted(r) BY <1>1 DEF Tainted, Ghostly, Written
<1>3. \A r \in Records : Tainted(r) => outcome'[r] = outcome[r]
  <2>1. ASSUME NEW x, NEW k, Tells(x, k) PROVE \A r \in Records : Tainted(r) => outcome'[r] = outcome[r]
    <3>1. /\ x \in Records /\ x \notin ToSet(accepted) /\ outcome' = [outcome EXCEPT ![x] = Told(k)]
      BY <2>1 DEF Tells
    <3>2. ~Tainted(x) BY <1>0, <3>1 DEF Placed, Away, Tainted
    <3>3. \A r \in Records : r # x => outcome'[r] = outcome[r] BY <1>0, <3>1 DEF Shapes
    <3> QED BY <3>2, <3>3
  <2> QED BY <1>1, <2>1
<1> QED BY <1>1, <1>2, <1>3 DEF CleanInv, Clean

LEMMA ActorClean ==
  ASSUME CleanInv, ActorNext
  PROVE  Clean'
<1>0. CustodyInv /\ HandedOver /\ Placed /\ Shapes BY DEF CleanInv, PendingInv, CustodyInv
<1>1. UNCHANGED <<ghosts, log>>
  BY DEF ActorNext, HandleAppend, HandleFlush, HandleClosed, HandleCompleted, Wake, ClaimOk,
         ClaimRetriable, ClaimTerminal, brokerVars
<1>2. PICK N, X, T, F : Steps(N, X, T, F) BY <1>0, ActorSteps
<1>3. \A r : r \in N => InChannel(r) BY <1>0, <1>2, ChannelStep DEF Steps
<1>4. Moves(N, X, T) BY <1>2 DEF Steps
<1>5. \A r \in Records : Tainted(r) => r \notin X /\ r \notin T
  BY <1>0, <1>3, <1>4 DEF Moves, Placed, Away, Tainted
<1>6. \A r : Tainted(r)' <=> Tainted(r) BY <1>1 DEF Tainted, Ghostly, Written
<1>7. \A r \in Records : Tainted(r) => outcome'[r] = outcome[r] BY <1>4, <1>5 DEF Moves
<1>8. \A v \in tasks' : v \in tasks \/ \A p \in DOMAIN v.batch : ToSet(v.batch[p].recs) \subseteq T
  BY <1>4 DEF Moves, Within
<1> QED BY <1>5, <1>6, <1>7, <1>8 DEF CleanInv, Clean

LEMMA EncodeClean ==
  ASSUME CleanInv, NEW t \in tasks, Encode(t)
  PROVE  Clean'
<1>0. Shapes BY DEF CleanInv, PendingInv, CustodyInv
<1>1. PICK u, bad : Encoded(t, u, bad) BY <1>0, EncodeIs
<1>2. UNCHANGED <<ghosts, log>> BY DEF Encode, brokerVars
<1>3. \A r : Tainted(r)' <=> Tainted(r) BY <1>2 DEF Tainted, Ghostly, Written
<1>4. ASSUME NEW r \in Records, Tainted(r) PROVE \A p \in DOMAIN t.batch : r \notin ToSet(t.batch[p].recs)
  <2>1. \A p \in DOMAIN t.batch : t.res[p].kind = "due" BY <1>1 DEF Encoded, Due
  <2> QED BY <1>4, <2>1 DEF CleanInv, Clean
<1>5. \A r \in Records : Tainted(r) => outcome'[r] = outcome[r] BY <1>1, <1>4 DEF Encoded, BatchRecords
<1>6. \A v \in tasks' : v \in tasks \/ v.batch = t.batch BY <1>1 DEF Encoded, Succeeds
<1> QED BY <1>3, <1>4, <1>5, <1>6 DEF CleanInv, Clean

LEMMA JudgeClean ==
  ASSUME ~Idempotent, CleanInv, NEW t \in tasks, Judge(t)
  PROVE  Clean'
<1>0. Shapes /\ TaskOK(t) BY DEF CleanInv, PendingInv, CustodyInv, Shapes
<1>1. UNCHANGED <<ghosts, log>> BY DEF Judge, brokerVars
<1>2. \A r : Tainted(r)' <=> Tainted(r) BY <1>1 DEF Tainted, Ghostly, Written
<1>3. ASSUME NEW u, NEW retry, Retried(t, u, retry) PROVE Clean'
  <2>1. /\ u.batch = t.batch /\ outcome' = outcome /\ tasks' = (tasks \ {t}) \cup {u}
        /\ \A p \in DOMAIN t.batch : u.res[p] = t.res[p] \/ p \in retry
        /\ \A p \in retry : t.res[p].kind \notin {"ack", "ambiguous"}
    BY <1>3 DEF Retried, Succeeds, Failed
  <2>2. ASSUME NEW r \in Records, Tainted(r), NEW p \in DOMAIN u.batch, r \in ToSet(u.batch[p].recs)
        PROVE  u.res[p].kind \in {"ack", "ambiguous"}
    <3>1. t.res[p].kind \in {"ack", "ambiguous"} BY <2>1, <2>2 DEF CleanInv, Clean
    <3> QED BY <2>1, <2>2, <3>1
  <2> QED BY <1>2, <2>1, <2>2 DEF CleanInv, Clean
<1>4. CASE Returned(t)
  <2> DEFINE D == {p \in DOMAIN t.batch : t.res[p].kind # "unencodable"}
             R == BatchRecords(t, D)
  <2>1. /\ tasks' = tasks \ {t}
        /\ outcome' = [r \in Records |-> IF r \in R THEN Verdict(t, r) ELSE outcome[r]]
    BY <1>4 DEF Returned
  <2>2. \A r : r \in R => \E p \in DOMAIN t.batch : t.res[p].kind # "unencodable" /\ r \in ToSet(t.batch[p].recs)
    BY DEF BatchRecords
  <2> HIDE DEF D, R
  <2>3. ASSUME NEW r \in Records, Tainted(r) PROVE outcome'[r].kind \in {"pending", "ok", "ambiguous"}
    <3>1. CASE r \in R
      <4>1. PICK p \in DOMAIN t.batch : t.res[p].kind # "unencodable" /\ r \in ToSet(t.batch[p].recs)
        BY <2>2, <3>1
      <4>2. t.res[p].kind \in {"ack", "ambiguous"} BY <2>3, <4>1 DEF CleanInv, Clean
      <4>3. Verdict(t, r).kind = IF t.res[p].kind = "ack" THEN "ok" ELSE t.res[p].kind
        BY <1>0, <4>1, VerdictKind
      <4>4. outcome'[r] = Verdict(t, r) BY <2>1, <3>1
      <4> QED BY <4>2, <4>3, <4>4
    <3>2. CASE r \notin R BY <2>1, <2>3, <3>2 DEF CleanInv, Clean
    <3> QED BY <3>1, <3>2
  <2> QED BY <1>2, <2>1, <2>3 DEF CleanInv, Clean
<1> QED BY <1>0, <1>3, <1>4, JudgeIs

LEMMA RespondClean ==
  ASSUME OneIndexEach, "AfterAppend" \notin Verdicts, CleanInv, NEW t \in tasks, NEW G, Respond(t, G)
  PROVE  Clean'
<1>0. Shapes /\ TaskOK(t) /\ LogsOK BY DEF CleanInv, PendingInv, CustodyInv, Shapes
<1>1. G \subseteq Unanswered(t) /\ UNCHANGED <<outcome, ghosts>> BY DEF Respond
<1>2. G \subseteq DOMAIN t.batch /\ \A p \in G : p \in Partitions /\ BatchOK(t.batch[p], p)
  BY <1>0, <1>1 DEF TaskOK, Unanswered
<1>3. PICK result : Faithful(t, G, result)
  <2>1. G \subseteq Partitions BY <1>2
  <2> QED BY <2>1, RespondFaithful
<1> DEFINE R == {r \in Records : \E p \in G : r \in ToSet(t.batch[p].recs) /\ result[p].kind \in {"ack", "ambiguous"}}
<1>4. \A p \in G : result[p].kind \in {"ack", "ambiguous"} => ToSet(t.batch[p].recs) \subseteq R
  <2>1. \A p \in G : ToSet(t.batch[p].recs) \subseteq Records BY <1>2, ToSetType DEF BatchOK
  <2> QED BY <2>1
<1>5. \A r \in R : \E p \in G : r \in ToSet(t.batch[p].recs) /\ result[p].kind \in {"ack", "ambiguous"}
  OBVIOUS
<1> HIDE DEF R
<1>6. \A p \in Partitions : \/ log'[p] = log[p]
                            \/ \E b : /\ BatchOK(b, p) /\ log'[p] = AppendBatch(log[p], b)
                                      /\ ToSet(b.recs) \subseteq R
  BY <1>2, <1>3, <1>4 DEF Faithful
<1>7. \A r : Written(r)' => Written(r) \/ r \in R
  <2>1. DOMAIN log' = Partitions BY <1>3 DEF Faithful
  <2> QED BY <1>0, <1>6, <2>1, LogsExtended
<1>8. \A r : Ghostly(r)' <=> Ghostly(r) BY <1>1 DEF Ghostly
<1>9. \A r \in Records : Tainted(r)' => Tainted(r) \/ \E p \in G :
           r \in ToSet(t.batch[p].recs) /\ result[p].kind \in {"ack", "ambiguous"}
  BY <1>5, <1>7, <1>8 DEF Tainted
<1>10. tasks' = WithResults(t, G, result) /\ \A p \in G : result[p].kind \in {"rejected", "ack", "ambiguous"}
  BY <1>3 DEF Faithful
<1> QED BY <1>1, <1>9, <1>10, AnsweredClean

LEMMA RouteOrLoseClean ==
  ASSUME CleanInv, NEW t \in tasks, NEW G, RouteFails(t, G) \/ LoseRequest(t, G)
  PROVE  Clean'
<1>1. /\ G \subseteq Unanswered(t) /\ UNCHANGED <<outcome, log>>
      /\ \E k \in {"rejected", "ambiguous"} : \E err :
           /\ tasks' = WithResults(t, G, [p \in G |-> [kind |-> k, err |-> err, off |-> -1]])
           /\ \/ ghosts' = ghosts
              \/ /\ k = "ambiguous"
                 /\ ghosts' = ghosts \cup {[part |-> p, batch |-> t.batch[p]] : p \in G}
  BY DEF RouteFails, LoseRequest, brokerVars
<1>2. PICK k \in {"rejected", "ambiguous"} : \E err :
           /\ tasks' = WithResults(t, G, [p \in G |-> [kind |-> k, err |-> err, off |-> -1]])
           /\ \/ ghosts' = ghosts
              \/ /\ k = "ambiguous"
                 /\ ghosts' = ghosts \cup {[part |-> p, batch |-> t.batch[p]] : p \in G}
  BY <1>1
<1>3. PICK err :
           /\ tasks' = WithResults(t, G, [p \in G |-> [kind |-> k, err |-> err, off |-> -1]])
           /\ \/ ghosts' = ghosts
              \/ /\ k = "ambiguous"
                 /\ ghosts' = ghosts \cup {[part |-> p, batch |-> t.batch[p]] : p \in G}
  BY <1>2
<1> DEFINE result == [p \in G |-> [kind |-> k, err |-> err, off |-> -1]]
<1>4. (\A p \in G : result[p].kind = k) /\ tasks' = WithResults(t, G, result) BY <1>3
<1> HIDE DEF result
<1>5. \A r : Written(r)' <=> Written(r) BY <1>1 DEF Written
<1>6. ASSUME NEW r, Ghostly(r)' PROVE Ghostly(r) \/ (k = "ambiguous" /\ \E p \in G : r \in ToSet(t.batch[p].recs))
  <2>1. PICK g \in ghosts' : r \in ToSet(g.batch.recs) BY <1>6 DEF Ghostly
  <2>2. g \in ghosts \/ (k = "ambiguous" /\ \E p \in G : g.batch = t.batch[p]) BY <1>3, <2>1
  <2> QED BY <2>1, <2>2 DEF Ghostly
<1>7. \A r \in Records : Tainted(r)' => Tainted(r) \/ \E p \in G :
           r \in ToSet(t.batch[p].recs) /\ result[p].kind \in {"ack", "ambiguous"}
  BY <1>4, <1>5, <1>6 DEF Tainted
<1>8. \A p \in G : result[p].kind \in {"rejected", "ack", "ambiguous"} BY <1>4
<1> QED BY <1>1, <1>4, <1>7, <1>8, AnsweredClean

LEMMA ClusterClean ==
  ASSUME CleanInv, ClusterNext \/ DeadlinePasses \/ Stopped \/ UNCHANGED vars
  PROVE  Clean'
<1>0. Shapes /\ LogsOK BY DEF CleanInv, PendingInv, CustodyInv, Shapes
<1>1. UNCHANGED <<outcome, tasks>> BY DEF ClusterNext, GhostArrives, Forget, DeadlinePasses, Stopped, vars
<1>2. ASSUME \A r \in Records : Tainted(r)' => Tainted(r) PROVE Clean' BY <1>1, <1>2 DEF CleanInv, Clean
<1>3. ASSUME NEW g \in ghosts, GhostArrives(g) PROVE \A r \in Records : Tainted(r)' => Tainted(r)
  <2>1. Arrives(g) /\ GhostOK(g) BY <1>0, <1>3, GhostIs DEF Shapes
  <2> DEFINE R == ToSet(g.batch.recs)
  <2>2. \A r \in R : Ghostly(r) BY DEF Ghostly
  <2> HIDE DEF R
  <2>3. \A p \in Partitions : \/ log'[p] = log[p]
                              \/ \E b : /\ BatchOK(b, p) /\ log'[p] = AppendBatch(log[p], b)
                                        /\ ToSet(b.recs) \subseteq R
    BY <2>1 DEF Arrives, GhostOK, R
  <2>4. \A r : Written(r)' => Written(r) \/ r \in R
    <3>1. DOMAIN log' = Partitions BY <2>1 DEF Arrives
    <3> QED BY <1>0, <2>3, <3>1, LogsExtended
  <2>5. \A r : Ghostly(r)' => Ghostly(r) BY <2>1 DEF Arrives, Ghostly
  <2> QED BY <2>2, <2>4, <2>5 DEF Tainted
<1>4. CASE UNCHANGED <<ghosts, log>>
  <2>1. \A r : Tainted(r)' <=> Tainted(r) BY <1>4 DEF Tainted, Ghostly, Written
  <2> QED BY <1>2, <2>1
<1>5. (\E g \in ghosts : GhostArrives(g)) \/ UNCHANGED <<ghosts, log>>
  BY DEF ClusterNext, Forget, DeadlinePasses, Stopped, vars, brokerVars
<1> QED BY <1>2, <1>3, <1>4, <1>5

LEMMA CleanStep ==
  ASSUME ~Idempotent, OneIndexEach, "AfterAppend" \notin Verdicts
  PROVE  CleanInv /\ [Next]_vars => CleanInv'
<1> SUFFICES ASSUME CleanInv, [Next]_vars PROVE CleanInv' OBVIOUS
<1>1. PendingInv' BY PendingStep DEF CleanInv
<1>2. CallerNext \/ ActorNext => Clean' BY CallerClean, ActorClean
<1>3. TaskNext => Clean' BY EncodeClean, JudgeClean, RespondClean, RouteOrLoseClean DEF TaskNext, TaskStep
<1>4. ClusterNext \/ DeadlinePasses \/ Stopped \/ UNCHANGED vars => Clean' BY ClusterClean
<1> QED BY <1>1, <1>2, <1>3, <1>4 DEF Next, CleanInv

(* What a failure means.  A caller who is told that its record was refused, *)
(* withdrawn, rejected, that it expired or could not be sent, can rely on   *)
(* it: the record is in no log and no request that could put it there is    *)
(* under way.  It holds of a producer that is not idempotent, as it retries *)
(* nothing that may have been written; when the cluster does not answer     *)
(* NOT_ENOUGH_REPLICAS_AFTER_APPEND, which the retry rule takes for a       *)
(* rejection; and when a request has no two partitions of the same index,   *)
(* by which the responses are read.                                         *)
THEOREM FailureIsCertain ==
  ASSUME ~Idempotent, OneIndexEach, "AfterAppend" \notin Verdicts
  PROVE  Spec => []FailedMeansNotWritten
<1>1. Init => CleanInv
  <2> SUFFICES ASSUME Init PROVE CleanInv OBVIOUS
  <2>1. \A r : ~Tainted(r) BY DEF Init, Tainted, Ghostly, Written
  <2> QED BY <2>1, PendingInit DEF CleanInv, Clean
<1>2. CleanInv /\ [Next]_vars => CleanInv' BY CleanStep
<1>3. CleanInv => FailedMeansNotWritten
  <2> SUFFICES ASSUME CleanInv, NEW r \in Records,
                      outcome[r].kind \in {"refused", "cancelled", "expired", "unsent", "rejected"}
               PROVE  r \notin RecordsIn(log[PartitionOf[r]]) /\ \A g \in ghosts : r \notin ToSet(g.batch.recs)
    BY DEF FailedMeansNotWritten
  <2>1. ~Tainted(r) BY DEF CleanInv, Clean
  <2>2. PartitionOf[r] \in Partitions BY RecordsAssumption
  <2> QED BY <2>1, <2>2 DEF Tainted, Ghostly, Written, RecordsIn
<1> QED BY <1>1, <1>2, <1>3, PTL DEF Spec

-----------------------------------------------------------------------------
(* What an acknowledgement means, for a producer that is not idempotent.   *)

(* Its batches carry no producer id.                                       *)
Anonymous ==
  /\ actor.identity = NoIdentity /\ pc # "claim"
  /\ \A t \in tasks : \A p \in DOMAIN t.batch : t.batch[p].pid = NoPid

(* A batch in a log, at its offset.                                        *)
Holds(l, recs, off) == \E i \in DOMAIN l : l[i].recs = recs /\ l[i].off = off

Acknowledged ==
  \A t \in tasks : \A p \in DOMAIN t.batch :
    t.res[p].kind = "ack" => Holds(log[p], t.batch[p].recs, t.res[p].off)

AckInv == CustodyInv /\ Anonymous /\ Acknowledged /\ AckedAtOffset

LEMMA IdentityKept ==
  ASSUME NEW A, ActorOK(A)
  PROVE  /\ \A S : Close(A, S).identity = A.identity
         /\ \A r \in Records : append(A, r).identity = A.identity
         /\ \A k : expire_overdue(A, k).identity = A.identity
         /\ \A c : settle(A, c).identity \in {A.identity, NoIdentity}
<1>0. DOMAIN A = Fields BY DEF ActorOK
<1>1. ASSUME NEW B, DOMAIN B = Fields, NEW S PROVE Close(B, S).identity = B.identity /\ DOMAIN Close(B, S) = Fields
  BY <1>1 DEF Close, Fields
<1>2. ASSUME NEW r \in Records PROVE append(A, r).identity = A.identity
  <2> DEFINE p == PartitionOf[r]
             wouldBe == Bytes(A.open[p]) + Size[r]
             overflow == A.open[p] # <<>> /\ (wouldBe > BatchSize \/ wouldBe > MaxRequest)
             B == IF overflow THEN Close(A, {p}) ELSE A
             C == [B EXCEPT !.open[p] = Append(@, r)]
  <2>1. append(A, r) = IF Bytes(C.open[p]) >= BatchSize THEN Close(C, {p}) ELSE C BY DEF append
  <2>2. DOMAIN B = Fields /\ B.identity = A.identity BY <1>0, <1>1
  <2> HIDE DEF B
  <2>3. DOMAIN C = Fields /\ C.identity = A.identity BY <2>2 DEF Fields
  <2> HIDE DEF C
  <2> QED BY <1>1, <2>1, <2>3
<1>3. ASSUME NEW k PROVE expire_overdue(A, k).identity = A.identity
  <2> DEFINE B == ExpireKeepingEmpty(A, k)
             left(p) == {i \in DOMAIN B.pending[p] : B.pending[p][i] # <<>>}
             C == [B EXCEPT !.pending = [p \in Partitions |-> Retain(B.pending[p], left(p))]]
  <2>1. expire_overdue(A, k) = IF Overdue(A, k) = {} THEN A ELSE C BY DEF expire_overdue
  <2>2. DOMAIN B = Fields /\ B.identity = A.identity BY <1>0 DEF ExpireKeepingEmpty, Fields
  <2> HIDE DEF B
  <2>3. C.identity = A.identity BY <2>2 DEF Fields
  <2> QED BY <2>1, <2>3
<1>4. \A c : settle(A, c).identity \in {A.identity, NoIdentity} BY <1>0 DEF settle, Fields
<1> QED BY <1>0, <1>1, <1>2, <1>3, <1>4

LEMMA AnonymousTurn ==
  ASSUME ~Idempotent, overdue \in Nat, NEW A, ActorOK(A), A.identity = NoIdentity,
         NEW F, NEW C, Turn(A, F, C)
  PROVE  pc' # "claim" /\ actor'.identity = NoIdentity
<1> DEFINE B == expire_overdue(A, overdue)
<1>1. ActorOK(B) /\ B.identity = NoIdentity BY ExpireActor, IdentityKept
<1>2. ~blocked_on_identity(B) BY DEF blocked_on_identity
<1>3. Proceed(B, F, C) BY <1>2 DEF Turn
<1> HIDE DEF B
<1>4. pc' # "claim" BY <1>3 DEF Proceed
<1> QED BY <1>1, <1>3, <1>4, ProceedSends

LEMMA AnonymousActor ==
  ASSUME ~Idempotent, CustodyInv, Anonymous, ActorNext
  PROVE  Anonymous'
<1>0. ActorOK(actor) /\ overdue \in Nat /\ Placed /\ actor.identity = NoIdentity /\ pc # "claim"
  BY DEF CustodyInv, Shapes, HandedOver, Anonymous
<1>1. pc' # "claim" /\ actor'.identity = NoIdentity
  <2>1. CASE HandleAppend
    <3>1. /\ commands # <<>> /\ Head(commands).type = "append"
          /\ Turn(append(actor, Head(commands).id), flush, closing)
      BY <2>1 DEF HandleAppend
    <3>2. PICK h \in Records : Head(commands) = AppendCommand(h) /\ Head(commands).id = h
      BY <1>0, <3>1, HeadCommand
    <3>3. h \notin Buffered(actor)
      <4>1. InChannel(h) BY <1>0, <3>1, <3>2, HeadCommand DEF InChannel
      <4> QED BY <1>0, <4>1 DEF Placed
    <3> DEFINE A == append(actor, h)
    <3>4. ActorOK(A) /\ A.identity = NoIdentity BY <1>0, <3>3, AppendActor, IdentityKept
    <3>5. Turn(A, flush, closing) BY <3>1, <3>2
    <3> HIDE DEF A
    <3> QED BY <1>0, <3>4, <3>5, AnonymousTurn
  <2>2. ASSUME NEW S, NEW F, NEW C, Turn(Close(actor, S), F, C) PROVE pc' # "claim" /\ actor'.identity = NoIdentity
    <3>1. ActorOK(Close(actor, S)) /\ Close(actor, S).identity = NoIdentity BY <1>0, CloseActor, IdentityKept
    <3> QED BY <1>0, <2>2, <3>1, AnonymousTurn
  <2>3. HandleFlush \/ HandleClosed \/ (\E lingered \in SUBSET Partitions : Wake(lingered))
          => \E S, F, C : Turn(Close(actor, S), F, C)
    BY DEF HandleFlush, HandleClosed, Wake, close_all, close_expired
  <2>4. ASSUME NEW c \in completions, HandleCompleted(c) PROVE pc' # "claim" /\ actor'.identity = NoIdentity
    <3>1. Turn(settle(actor, c), flush, closing) BY <2>4 DEF HandleCompleted
    <3>2. ActorOK(settle(actor, c)) /\ settle(actor, c).identity = NoIdentity
      BY <1>0, SettleActor, IdentityKept
    <3> QED BY <1>0, <3>1, <3>2, AnonymousTurn
  <2>5. ~(ClaimOk \/ ClaimRetriable \/ ClaimTerminal) BY <1>0 DEF ClaimOk, ClaimRetriable, ClaimTerminal
  <2> QED BY <2>1, <2>2, <2>3, <2>4, <2>5 DEF ActorNext
<1>2. PICK N, X, T, F : Steps(N, X, T, F) BY ActorSteps
<1>3. PICK B : /\ actor'.identity = B.identity
               /\ \A t \in tasks' : t \in tasks \/ (Fresh(t, B) /\ Within(t, T))
  BY <1>2 DEF Steps, Moves
<1>4. \A t \in tasks' : \A p \in DOMAIN t.batch : t.batch[p].pid = NoPid
  <2>1. \A p : Stamped(B, p).pid = NoPid BY <1>1, <1>3 DEF Stamped, NoPid, NoIdentity
  <2> QED BY <1>3, <2>1 DEF Fresh, Anonymous
<1> QED BY <1>1, <1>4 DEF Anonymous

LEMMA AnonymousStep ==
  ASSUME ~Idempotent, CustodyInv, Anonymous, [Next]_vars
  PROVE  Anonymous'
<1>0. Shapes /\ HandedOver BY DEF CustodyInv
<1>1. CASE CallerNext \/ TaskNext \/ ClusterNext \/ DeadlinePasses \/ Stopped \/ UNCHANGED vars
  <2>1. UNCHANGED <<actor, pc>>
    BY <1>1 DEF CallerNext, Submit, AcquirePermit, DropHandles, PermitTimeout, Enqueue, CancelAppend,
                CallFlush, TaskNext, TaskStep, Encode, Judge, RouteFails, Respond, LoseRequest, ClusterNext,
                GhostArrives, Forget, DeadlinePasses, Stopped, vars, actorVars
  <2>2. ASSUME NEW v \in tasks', NEW p \in DOMAIN v.batch PROVE v.batch[p].pid = NoPid
    <3>1. CASE v \in tasks BY <3>1, <2>2 DEF Anonymous
    <3>2. CASE \E t \in tasks : v.batch = t.batch BY <2>2, <3>2 DEF Anonymous
    <3>3. v \in tasks \/ \E t \in tasks : v.batch = t.batch
      <4>1. CASE TaskNext
        <5>1. PICK t \in tasks : TaskStep(t) BY <4>1 DEF TaskNext
        <5>2. TaskOK(t) BY <1>0 DEF Shapes
        <5>3. CASE Encode(t) BY <1>0, <5>3, EncodeIs DEF Encoded, Succeeds
        <5>4. CASE Judge(t) BY <1>0, <5>4, JudgeIs DEF Returned, Retried, Succeeds
        <5>5. ASSUME NEW G, RouteFails(t, G) \/ Respond(t, G) \/ LoseRequest(t, G)
              PROVE  v \in tasks \/ v.batch = t.batch
          <6>1. \E result : tasks' = WithResults(t, G, result)
            BY <5>5, RespondAnswers DEF RouteFails, LoseRequest, Responded
          <6>2. \E res : tasks' = (tasks \ {t}) \cup {[t EXCEPT !.res = res]} BY <6>1 DEF WithResults
          <6> QED BY <5>2, <6>2 DEF TaskOK, TaskFields
        <5> QED BY <5>1, <5>3, <5>4, <5>5 DEF TaskStep
      <4>2. CASE ~TaskNext
        <5>1. tasks' = tasks
          BY <1>0, <1>1, <4>2, CallerIs DEF ClusterNext, GhostArrives, Forget, DeadlinePasses, Stopped, vars
        <5> QED BY <5>1
      <4> QED BY <4>1, <4>2
    <3> QED BY <3>1, <3>2, <3>3
  <2> QED BY <2>1, <2>2 DEF Anonymous
<1>2. CASE ActorNext BY <1>2, AnonymousActor
<1> QED BY <1>1, <1>2 DEF Next

\* A log only grows.
Grows == \A p \in Partitions : \A i \in DOMAIN log[p] : i \in DOMAIN log'[p] /\ log'[p][i] = log[p][i]

LEMMA LogsGrow ==
  ASSUME CustodyInv, [Next]_vars
  PROVE  Grows
<1>0. Shapes /\ HandedOver /\ LogsOK BY DEF CustodyInv, Shapes
<1>1. CASE ActorNext
  <2>1. log' = log
    BY <1>1 DEF ActorNext, HandleAppend, HandleFlush, HandleClosed, HandleCompleted, Wake, ClaimOk,
                ClaimRetriable, ClaimTerminal, brokerVars
  <2> QED BY <2>1 DEF Grows
<1>2. CASE CallerNext \/ TaskNext \/ ClusterNext \/ DeadlinePasses \/ Stopped \/ UNCHANGED vars
  <2>1. CarryOn BY <1>0, <1>2, OthersCarryOn
  <2>2. ASSUME NEW p \in Partitions
        PROVE  \A i \in DOMAIN log[p] : i \in DOMAIN log'[p] /\ log'[p][i] = log[p][i]
    <3>1. log'[p] = log[p] \/ \E b : BatchOK(b, p) /\ log'[p] = AppendBatch(log[p], b) BY <2>1 DEF CarryOn
    <3>2. ASSUME NEW b, BatchOK(b, p), log'[p] = AppendBatch(log[p], b)
          PROVE  \A i \in DOMAIN log[p] : i \in DOMAIN log'[p] /\ log'[p][i] = log[p][i]
      <4>1. Listing(log[p]) /\ \A i \in DOMAIN log[p] : EntryOK(log[p][i], p) BY <1>0 DEF LogsOK
      <4>2. Extends(log[p], AppendBatch(log[p], b), b) BY <3>2, <4>1, EntryAppended
      <4> QED BY <3>2, <4>2 DEF Extends
    <3> QED BY <3>1, <3>2
  <2> QED BY <2>2 DEF Grows
<1> QED BY <1>1, <1>2 DEF Next

LEMMA StillHeld ==
  ASSUME Grows, NEW p \in Partitions, NEW recs, NEW off, Holds(log[p], recs, off)
  PROVE  Holds(log'[p], recs, off)
<1>1. PICK i \in DOMAIN log[p] : log[p][i].recs = recs /\ log[p][i].off = off BY DEF Holds
<1>2. i \in DOMAIN log'[p] /\ log'[p][i] = log[p][i] BY DEF Grows
<1> QED BY <1>1, <1>2 DEF Holds

LEMMA StillAt ==
  ASSUME Grows, NEW p \in Partitions, NEW r, NEW off, IsAt(log[p], r, off)
  PROVE  IsAt(log'[p], r, off)
<1>1. PICK i \in DOMAIN log[p] : /\ off - log[p][i].off \in 0..(Len(log[p][i].recs) - 1)
                                 /\ log[p][i].recs[off - log[p][i].off + 1] = r
  BY DEF IsAt
<1>2. i \in DOMAIN log'[p] /\ log'[p][i] = log[p][i] BY DEF Grows
<1> QED BY <1>1, <1>2 DEF IsAt

\* A response acknowledges what it appended, at the end of the log.
LEMMA RespondHolds ==
  ASSUME CustodyInv, Anonymous, NEW t \in tasks, NEW G, G \subseteq DOMAIN t.batch, NEW result,
         Faithful(t, G, result), NEW p \in G, result[p].kind = "ack"
  PROVE  Holds(log'[p], t.batch[p].recs, result[p].off)
<1>0. TaskOK(t) /\ LogsOK BY DEF CustodyInv, Shapes
<1> PICK b : b = t.batch[p] OBVIOUS
<1>1. p \in Partitions /\ BatchOK(b, p) /\ b.pid = NoPid BY <1>0 DEF TaskOK, Anonymous
<1>2. ~IsDuplicate(log[p], forgotten[p], b) BY <1>1 DEF IsDuplicate
<1>3. log'[p] = AppendBatch(log[p], b) /\ result[p].off = BaseOffset(log[p], forgotten[p], b)
  BY <1>2 DEF Faithful
<1>4. result[p].off = LogEnd(log[p]) BY <1>2, <1>3 DEF BaseOffset
<1>5. Listing(log[p]) /\ \A i \in DOMAIN log[p] : EntryOK(log[p][i], p) BY <1>0, <1>1 DEF LogsOK
<1>6. Extends(log[p], log'[p], b) BY <1>1, <1>3, <1>5, EntryAppended
<1>7. \E i \in DOMAIN log'[p] : log'[p][i].recs = b.recs /\ log'[p][i].off = LogEnd(log[p])
  BY <1>6 DEF Extends
<1> QED BY <1>4, <1>7 DEF Holds

\* What send_group makes of an acknowledged batch: record by record, the
\* offset at which the log has it.
LEMMA VerdictAt ==
  ASSUME CustodyInv, NEW t \in tasks, NEW p \in DOMAIN t.batch, NEW r \in ToSet(t.batch[p].recs),
         t.res[p].kind = "ack", Holds(log[p], t.batch[p].recs, t.res[p].off)
  PROVE  Verdict(t, r).kind = "ok" /\ IsAt(log[p], r, Verdict(t, r).off)
<1>0. TaskOK(t) /\ LogsOK BY DEF CustodyInv, Shapes
<1>1. PartitionOf[r] = p /\ p \in Partitions /\ t.batch[p].recs \in Seq(Records)
  BY <1>0, TaskRecords DEF TaskOK, BatchOK
<1> DEFINE s == t.batch[p].recs
           i == CHOOSE j \in DOMAIN s : s[j] = r
<1>2. i \in DOMAIN s /\ s[i] = r BY DEF ToSet
<1>3. Verdict(t, r) = Acked(t.res[p].off + i - 1) BY <1>1 DEF Verdict
<1> HIDE DEF i
<1>4. PICK k \in DOMAIN log[p] : log[p][k].recs = s /\ log[p][k].off = t.res[p].off BY DEF Holds
<1>5. EntryOK(log[p][k], p) BY <1>0, <1>1 DEF LogsOK
<1> PICK e, o : e = log[p][k] /\ o = t.res[p].off OBVIOUS
<1>6. o \in Nat /\ e.off = o /\ e.recs = s BY <1>4, <1>5 DEF EntryOK
<1>7. Verdict(t, r).kind = "ok" /\ Verdict(t, r).off = o + i - 1 BY <1>3 DEF Acked
<1>8. i \in Nat /\ Len(s) \in Nat /\ i >= 1 /\ i <= Len(s) BY <1>1, <1>2
<1>9. (o + i - 1) - o = i - 1 /\ i - 1 \in 0..(Len(s) - 1) /\ (o + i - 1) - o + 1 = i BY <1>6, <1>8
<1>10. /\ (o + i - 1) - e.off \in 0..(Len(e.recs) - 1)
       /\ e.recs[(o + i - 1) - e.off + 1] = r
  BY <1>2, <1>6, <1>9
<1>11. IsAt(log[p], r, o + i - 1) BY <1>10 DEF IsAt
<1> QED BY <1>7, <1>11

\* Acknowledgements and outcomes that are not new, or are backed by the log.
Backed ==
  /\ \A v \in tasks' : \A p \in DOMAIN v.batch : v.res[p].kind = "ack" =>
       \/ \E t \in tasks : p \in DOMAIN t.batch /\ t.batch[p] = v.batch[p] /\ t.res[p] = v.res[p]
       \/ Holds(log'[p], v.batch[p].recs, v.res[p].off)
  /\ \A r \in Records : outcome'[r].kind = "ok" =>
       outcome'[r] = outcome[r] \/ IsAt(log'[PartitionOf[r]], r, outcome'[r].off)

LEMMA BackedKeeps ==
  ASSUME AckInv, Grows, Backed
  PROVE  (Acknowledged /\ AckedAtOffset)'
<1>1. ASSUME NEW v \in tasks', NEW p \in DOMAIN v.batch, v.res[p].kind = "ack"
      PROVE  Holds(log'[p], v.batch[p].recs, v.res[p].off)
  <2>1. ASSUME NEW t \in tasks, p \in DOMAIN t.batch, t.batch[p] = v.batch[p], t.res[p] = v.res[p]
        PROVE  Holds(log'[p], v.batch[p].recs, v.res[p].off)
    <3>1. Holds(log[p], v.batch[p].recs, v.res[p].off) BY <1>1, <2>1 DEF AckInv, Acknowledged
    <3>2. p \in Partitions BY <2>1 DEF AckInv, CustodyInv, Shapes, TaskOK
    <3> QED BY <3>1, <3>2, StillHeld
  <2> QED BY <1>1, <2>1 DEF Backed
<1>2. ASSUME NEW r \in Records, outcome'[r].kind = "ok"
      PROVE  IsAt(log'[PartitionOf[r]], r, outcome'[r].off)
  <2>1. CASE outcome'[r] = outcome[r]
    <3>1. IsAt(log[PartitionOf[r]], r, outcome[r].off) BY <1>2, <2>1 DEF AckInv, AckedAtOffset
    <3>2. PartitionOf[r] \in Partitions BY RecordsAssumption
    <3>3. IsAt(log'[PartitionOf[r]], r, outcome[r].off) BY <3>1, <3>2, StillAt
    <3> QED BY <2>1, <3>3
  <2> QED BY <1>2, <2>1 DEF Backed
<1> QED BY <1>1, <1>2 DEF Acknowledged, AckedAtOffset

LEMMA TaskBacked ==
  ASSUME OneIndexEach, AckInv, NEW t \in tasks, TaskStep(t)
  PROVE  Backed
<1>0. Shapes /\ TaskOK(t) /\ CustodyInv /\ Anonymous /\ Acknowledged BY DEF AckInv, CustodyInv, Shapes
<1>1. CASE Encode(t)
  <2>1. PICK u, bad : Encoded(t, u, bad) BY <1>0, <1>1, EncodeIs
  <2>2. /\ \A v \in tasks' : v \in tasks \/ v = u
        /\ u.batch = t.batch /\ \A p \in DOMAIN u.batch : u.res[p].kind # "ack"
    BY <2>1 DEF Encoded, Succeeds
  <2>3. Told("unsent").kind # "ok" BY DEF Told
  <2>4. \A r \in Records : outcome'[r] = outcome[r] \/ outcome'[r] = Told("unsent") BY <2>1 DEF Encoded
  <2> QED BY <2>2, <2>3, <2>4 DEF Backed
<1>2. CASE Judge(t)
  <2>1. ASSUME NEW u, NEW retry, Retried(t, u, retry) PROVE Backed
    <3>1. /\ outcome' = outcome /\ u.batch = t.batch /\ \A v \in tasks' : v \in tasks \/ v = u
          /\ \A p \in DOMAIN t.batch : u.res[p] = Due \/ u.res[p] = t.res[p]
      BY <2>1 DEF Retried, Succeeds
    <3>2. Due.kind # "ack" BY DEF Due
    <3> QED BY <3>1, <3>2 DEF Backed
  <2>2. CASE Returned(t)
    <3> DEFINE D == {p \in DOMAIN t.batch : t.res[p].kind # "unencodable"}
               R == BatchRecords(t, D)
    <3>1. /\ tasks' = tasks \ {t}
          /\ outcome' = [r \in Records |-> IF r \in R THEN Verdict(t, r) ELSE outcome[r]]
      BY <2>2 DEF Returned
    <3>2. \A r : r \in R => \E p \in DOMAIN t.batch : t.res[p].kind # "unencodable" /\ r \in ToSet(t.batch[p].recs)
      BY DEF BatchRecords
    <3> HIDE DEF D, R
    <3>3. ASSUME NEW r \in Records, outcome'[r].kind = "ok", r \in R
          PROVE  IsAt(log'[PartitionOf[r]], r, outcome'[r].off)
      <4>1. PICK p \in DOMAIN t.batch : t.res[p].kind # "unencodable" /\ r \in ToSet(t.batch[p].recs)
        BY <3>2, <3>3
      <4>2. outcome'[r] = Verdict(t, r) /\ log' = log BY <1>2, <3>1, <3>3 DEF Judge, brokerVars
      <4>3. t.res[p].kind \in ResultKinds /\ PartitionOf[r] = p BY <1>0, <4>1, TaskRecords DEF TaskOK
      <4>4. t.res[p].kind = "ack"
        <5>1. Verdict(t, r).kind = IF t.res[p].kind = "ack" THEN "ok" ELSE t.res[p].kind
          BY <1>0, <4>1, VerdictKind
        <5> QED BY <3>3, <4>2, <4>3, <5>1 DEF ResultKinds
      <4>5. Holds(log[p], t.batch[p].recs, t.res[p].off) BY <1>0, <4>4 DEF Acknowledged
      <4>6. IsAt(log[p], r, Verdict(t, r).off) BY <1>0, <4>1, <4>4, <4>5, VerdictAt
      <4> QED BY <4>2, <4>3, <4>6
    <3>4. \A r \in Records : r \notin R => outcome'[r] = outcome[r] BY <3>1
    <3> QED BY <3>1, <3>3, <3>4 DEF Backed
  <2> QED BY <1>0, <1>2, <2>1, <2>2, JudgeIs
<1>3. ASSUME NEW G, NEW result, G \subseteq Unanswered(t), outcome' = outcome,
             tasks' = WithResults(t, G, result),
             \A p \in G : result[p].kind \in {"rejected", "ack", "ambiguous"},
             \A p \in G : result[p].kind = "ack" => Holds(log'[p], t.batch[p].recs, result[p].off)
      PROVE  Backed
  <2>1. \A p \in G : result[p].kind \in ResultKinds \ {"unencodable"} BY <1>3 DEF ResultKinds
  <2>2. PICK u : Answered(u, t, G, result) /\ tasks' = (tasks \ {t}) \cup {u}
    BY <1>0, <1>3, <2>1, ResultsRecorded
  <2>3. /\ u.batch = t.batch
        /\ \A p \in DOMAIN t.batch : u.res[p] = IF p \in G THEN result[p] ELSE t.res[p]
    BY <2>2 DEF Answered, Succeeds
  <2> QED BY <1>3, <2>2, <2>3 DEF Backed
<1>4. ASSUME NEW G, RouteFails(t, G) \/ LoseRequest(t, G) PROVE Backed
  <2>1. /\ G \subseteq Unanswered(t) /\ outcome' = outcome
        /\ \E k \in {"rejected", "ambiguous"} : \E err :
             tasks' = WithResults(t, G, [p \in G |-> [kind |-> k, err |-> err, off |-> -1]])
    BY <1>4 DEF RouteFails, LoseRequest
  <2>2. PICK k \in {"rejected", "ambiguous"} : \E err :
             tasks' = WithResults(t, G, [p \in G |-> [kind |-> k, err |-> err, off |-> -1]])
    BY <2>1
  <2>3. PICK err : tasks' = WithResults(t, G, [p \in G |-> [kind |-> k, err |-> err, off |-> -1]]) BY <2>2
  <2> DEFINE result == [p \in G |-> [kind |-> k, err |-> err, off |-> -1]]
  <2>4. (\A p \in G : result[p].kind = k) /\ tasks' = WithResults(t, G, result) BY <2>3
  <2> HIDE DEF result
  <2>5. \A p \in G : result[p].kind \in {"rejected", "ambiguous"} BY <2>4
  <2> QED BY <1>3, <2>1, <2>4, <2>5
<1>5. ASSUME NEW G, Respond(t, G) PROVE Backed
  <2>1. /\ G \subseteq Unanswered(t) /\ outcome' = outcome
        /\ G \subseteq DOMAIN t.batch /\ G \subseteq Partitions
    BY <1>0, <1>5 DEF Respond, Unanswered, TaskOK
  <2>2. PICK result : Faithful(t, G, result) BY <1>5, <2>1, RespondFaithful
  <2>3. \A p \in G : result[p].kind = "ack" => Holds(log'[p], t.batch[p].recs, result[p].off)
    BY <1>0, <2>1, <2>2, RespondHolds
  <2>4. tasks' = WithResults(t, G, result) /\ \A p \in G : result[p].kind \in {"rejected", "ack", "ambiguous"}
    BY <2>2 DEF Faithful
  <2> QED BY <1>3, <2>1, <2>3, <2>4
<1> QED BY <1>1, <1>2, <1>4, <1>5 DEF TaskStep

LEMMA AckStep ==
  ASSUME ~Idempotent, OneIndexEach
  PROVE  AckInv /\ [Next]_vars => AckInv'
<1> SUFFICES ASSUME AckInv, [Next]_vars PROVE AckInv' OBVIOUS
<1>1. CustodyInv' /\ Anonymous' /\ Grows BY CustodyStep, AnonymousStep, LogsGrow DEF AckInv
<1>0. HandedOver /\ Shapes /\ CustodyInv BY DEF AckInv, CustodyInv
<1>2. \A k : Told(k).kind = k BY DEF Told
<1>3. CASE CallerNext
  <2>1. /\ tasks' = tasks
        /\ outcome' = outcome \/ \E r, k : Tells(r, k)
    BY <1>0, <1>3, CallerIs DEF Quiet, Accepts, Flushing
  <2>2. ASSUME NEW x, NEW k, Tells(x, k) PROVE \A r \in Records : outcome'[r] = outcome[r] \/ outcome'[r].kind # "ok"
    <3>1. x \in Records /\ k # "ok" /\ outcome' = [outcome EXCEPT ![x] = Told(k)] BY <2>2 DEF Tells
    <3>2. \A r \in Records : outcome'[r] = outcome[r] \/ outcome'[r] = Told(k) BY <1>0, <3>1 DEF Shapes
    <3> QED BY <1>2, <3>1, <3>2
  <2>3. Backed BY <2>1, <2>2 DEF Backed
  <2> QED BY <1>1, <2>3, BackedKeeps DEF AckInv
<1>4. CASE ActorNext
  <2>1. PICK N, X, T, F : Steps(N, X, T, F) BY <1>0, <1>4, ActorSteps
  <2>2. PICK k \in {"expired", "unsent"} :
          outcome' = [r \in Records |-> IF r \in X THEN Told(k) ELSE outcome[r]]
    BY <2>1 DEF Steps, Moves
  <2>3. \A r \in Records : outcome'[r] = outcome[r] \/ outcome'[r].kind # "ok" BY <1>2, <2>2
  <2>4. \A v \in tasks' : v \in tasks \/ \A p \in DOMAIN v.batch : v.res[p].kind # "ack"
    BY <2>1 DEF Steps, Moves, Fresh, Due
  <2>5. Backed BY <2>3, <2>4 DEF Backed
  <2> QED BY <1>1, <2>5, BackedKeeps DEF AckInv
<1>5. CASE TaskNext
  <2>1. Backed BY <1>5, TaskBacked DEF TaskNext
  <2> QED BY <1>1, <2>1, BackedKeeps DEF AckInv
<1>6. CASE ClusterNext \/ DeadlinePasses \/ Stopped \/ UNCHANGED vars
  <2>1. UNCHANGED <<outcome, tasks>>
    BY <1>6 DEF ClusterNext, GhostArrives, Forget, DeadlinePasses, Stopped, vars
  <2>2. Backed BY <2>1 DEF Backed
  <2> QED BY <1>1, <2>2, BackedKeeps DEF AckInv
<1> QED BY <1>3, <1>4, <1>5, <1>6 DEF Next

(* What an acknowledgement means.  A record whose caller was given an      *)
(* offset is in its partition's log at that offset, and stays there: the   *)
(* base offset that the response is read for is the one of that batch,     *)
(* however many batches a request carries, and send_group counts from it   *)
(* right.  It holds of a producer that is not idempotent, when a request   *)
(* has no two partitions of the same index, by which responses are read.   *)
THEOREM AckIsCertain ==
  ASSUME ~Idempotent, OneIndexEach
  PROVE  Spec => []AckedAtOffset
<1>1. Init => AckInv
  <2> SUFFICES ASSUME Init PROVE AckInv OBVIOUS
  <2>1. CustodyInv BY CustodyInit
  <2>2. Anonymous /\ Acknowledged BY DEF Init, NewActor, Anonymous, Acknowledged
  <2>3. \A r \in Records : outcome[r].kind # "ok" BY DEF Init, Pending
  <2> QED BY <2>1, <2>2, <2>3 DEF AckInv, AckedAtOffset
<1>2. AckInv /\ [Next]_vars => AckInv' BY AckStep
<1>3. AckInv => AckedAtOffset BY DEF AckInv
<1> QED BY <1>1, <1>2, <1>3, PTL DEF Spec

-----------------------------------------------------------------------------
(* The order of acceptance, for a producer that is not idempotent.         *)

(* E[s] is the set of the records that come before s.                      *)
Sorted(s, E) == \A i, j \in DOMAIN s : i < j => s[i] \in E[s[j]]

(* The closed batches q of a partition come before its open batch o, each  *)
(* before the ones behind it.                                              *)
Ordered(o, q, E) ==
  /\ Sorted(o, E) /\ \A i \in DOMAIN q : Sorted(q[i], E)
  /\ \A i, j \in DOMAIN q : i < j => \A x \in ToSet(q[i]) : \A y \in ToSet(q[j]) : x \in E[y]
  /\ \A i \in DOMAIN q : \A x \in ToSet(q[i]) : \A y \in ToSet(o) : x \in E[y]

BuffersOrdered(A, E) == \A p \in Partitions : Ordered(A.open[p], A.pending[p], E)

(* The records that were accepted before each record.                      *)
Ahead == [s \in Records |-> {r \in Records : \E i, j \in DOMAIN accepted :
                               i < j /\ accepted[i] = r /\ accepted[j] = s}]

AcceptedOnce == \A i, j \in DOMAIN accepted : accepted[i] = accepted[j] => i = j

(* A record r that was accepted before another of its partition is never   *)
(* overtaken by it: in the channel,                                        *)
QueuedInTurn(r, s) ==
  /\ InChannel(r) => InChannel(s)
  /\ \A i, j \in DOMAIN commands :
       commands[i] = AppendCommand(r) /\ commands[j] = AppendCommand(s) => i < j

(* and from there on.                                                      *)
SentInTurn(r, s) ==
  /\ r \in Buffered(actor) => ~Tasked(s)
  /\ Carried(r) \/ Tasked(r) => outcome[s].kind # "ok"
  /\ outcome[r].kind = "ok" /\ outcome[s].kind = "ok" => outcome[r].off < outcome[s].off

InTurn(r, s) == QueuedInTurn(r, s) /\ SentInTurn(r, s)

Turns == \A s \in Records : \A r \in Ahead[s] : PartitionOf[r] = PartitionOf[s] => InTurn(r, s)

TasksSorted == \A t \in tasks : \A p \in DOMAIN t.batch : Sorted(t.batch[p].recs, Ahead)

(* Offsets grow with the log.                                              *)
Spanned(l) == \A i \in DOMAIN l : l[i].off + Len(l[i].recs) <= LogEnd(l)

(* A batch is acknowledged behind what was acknowledged before it.         *)
Behind ==
  \A r \in Records : outcome[r].kind = "ok" =>
    /\ outcome[r].off \in Nat
    /\ \A t \in tasks :
         PartitionOf[r] \in DOMAIN t.batch /\ t.res[PartitionOf[r]].kind = "ack" =>
           outcome[r].off < t.res[PartitionOf[r]].off

OrderInv ==
  /\ PendingInv /\ AckInv /\ AcceptedOnce
  /\ \A p \in Partitions : Spanned(log[p])
  /\ Behind
  /\ BuffersOrdered(actor, Ahead) /\ TasksSorted
  /\ Turns

LEMMA SortedAppend ==
  ASSUME NEW E, NEW s \in Seq(Records), NEW r \in Records, Sorted(s, E), \A x \in ToSet(s) : x \in E[r]
  PROVE  Sorted(Append(s, r), E)
<1> DEFINE a == Append(s, r)
           n == Len(s) + 1
<1>1. /\ DOMAIN s = 1..Len(s) /\ Len(s) \in Nat /\ DOMAIN a = 1..n
      /\ \A i \in 1..Len(s) : a[i] = s[i]
      /\ a[n] = r
  OBVIOUS
<1> HIDE DEF a
<1> SUFFICES ASSUME NEW i \in DOMAIN a, NEW j \in DOMAIN a, i < j PROVE a[i] \in E[a[j]] BY DEF Sorted, a
<1>2. i \in 1..Len(s) /\ (j \in 1..Len(s) \/ j = n) BY <1>1
<1>3. CASE j \in 1..Len(s) BY <1>1, <1>2, <1>3 DEF Sorted
<1>4. CASE j = n BY <1>1, <1>2, <1>4 DEF ToSet
<1> QED BY <1>2, <1>3, <1>4

LEMMA OrderedClose ==
  ASSUME NEW E, NEW o \in Seq(Records), NEW q \in Seq(Seq(Records)), Ordered(o, q, E)
  PROVE  Ordered(<<>>, Append(q, o), E)
<1> DEFINE c == Append(q, o)
           n == Len(q) + 1
<1>1. /\ DOMAIN q = 1..Len(q) /\ Len(q) \in Nat /\ DOMAIN c = 1..n
      /\ \A i \in 1..Len(q) : c[i] = q[i]
      /\ c[n] = o
  OBVIOUS
<1> HIDE DEF c
<1>2. /\ \A i \in DOMAIN c : i \in DOMAIN q \/ i = n
      /\ \A i, j \in DOMAIN c : i < j => i \in DOMAIN q
  BY <1>1
<1> HIDE DEF n
<1>3. \A i \in DOMAIN c : Sorted(c[i], E) BY <1>1, <1>2 DEF Ordered
<1>4. ASSUME NEW i \in DOMAIN c, NEW j \in DOMAIN c, i < j, NEW x \in ToSet(c[i]), NEW y \in ToSet(c[j])
      PROVE  x \in E[y]
  <2>1. i \in DOMAIN q /\ c[i] = q[i] BY <1>1, <1>2, <1>4
  <2>2. CASE j \in DOMAIN q BY <1>1, <1>4, <2>1, <2>2 DEF Ordered
  <2>3. CASE j = n BY <1>1, <1>4, <2>1, <2>3 DEF Ordered
  <2> QED BY <1>2, <2>2, <2>3
<1>5. Sorted(<<>>, E) /\ ToSet(<<>>) = {} BY DEF Sorted, ToSet
<1> QED BY <1>3, <1>4, <1>5 DEF Ordered, c

LEMMA OrderedAppend ==
  ASSUME NEW E, NEW o \in Seq(Records), NEW q \in Seq(Seq(Records)), Ordered(o, q, E),
         NEW r \in Records, \A x : In(o, q, x) => x \in E[r]
  PROVE  Ordered(Append(o, r), q, E)
<1> DEFINE a == Append(o, r)
<1>1. Sorted(a, E) BY SortedAppend DEF Ordered, In
<1>2. \A y : y \in ToSet(a) <=> y \in ToSet(o) \/ y = r BY ToSetAppend
<1> HIDE DEF a
<1>3. \A i \in DOMAIN q : \A x \in ToSet(q[i]) : \A y \in ToSet(a) : x \in E[y] BY <1>2 DEF Ordered, In
<1> QED BY <1>1, <1>3 DEF Ordered, a

LEMMA SortedRetain ==
  ASSUME NEW E, NEW s \in Seq(Records), NEW K \in SUBSET DOMAIN s, Sorted(s, E)
  PROVE  Sorted(Retain(s, K), E)
<1>1. Cardinality(K) \in Nat /\ \E f : Picks(s, K, f) BY RetainPicks, Zenon
<1>2. PICK f : Picks(s, K, f) BY <1>1
<1>3. DOMAIN Retain(s, K) = 1..Cardinality(K) BY DEF Retain
<1>4. /\ f \in [1..Cardinality(K) -> K]
      /\ \A k \in 1..Cardinality(K) : Retain(s, K)[k] = s[f[k]]
      /\ \A k, l \in 1..Cardinality(K) : k < l => f[k] < f[l]
  BY <1>2 DEF Picks
<1> SUFFICES ASSUME NEW k \in 1..Cardinality(K), NEW l \in 1..Cardinality(K), k < l
             PROVE  Retain(s, K)[k] \in E[Retain(s, K)[l]]
  BY <1>3 DEF Sorted
<1>5. f[k] \in DOMAIN s /\ f[l] \in DOMAIN s /\ f[k] < f[l] BY <1>4
<1> QED BY <1>4, <1>5 DEF Sorted

LEMMA OrderedExpire ==
  ASSUME NEW E, NEW o \in Seq(Records), NEW q \in Seq(Seq(Records)), Ordered(o, q, E), NEW k \in Nat
  PROVE  LET e == [i \in DOMAIN q |-> drop_expired(q[i], k)]
             left == {i \in DOMAIN e : e[i] # <<>>}
         IN  Ordered(drop_expired(o, k), Retain(e, left), E)
<1> DEFINE e == [i \in DOMAIN q |-> drop_expired(q[i], k)]
           d == drop_expired(o, k)
           left == {i \in DOMAIN e : e[i] # <<>>}
           c == Retain(e, left)
<1>1. ASSUME NEW b \in Seq(Records), Sorted(b, E)
      PROVE  /\ drop_expired(b, k) \in Seq(Records) /\ Sorted(drop_expired(b, k), E)
             /\ ToSet(drop_expired(b, k)) \subseteq ToSet(b)
  <2> DEFINE K == {i \in DOMAIN b : b[i] > k}
  <2>1. K \in SUBSET DOMAIN b OBVIOUS
  <2> HIDE DEF K
  <2>2. /\ Retain(b, K) \in Seq(Records)
        /\ \A x : x \in ToSet(Retain(b, K)) <=> \E i \in K : b[i] = x
    BY <2>1, RetainKeeps
  <2>3. drop_expired(b, k) = Retain(b, K) BY DEF drop_expired, K
  <2>4. Sorted(Retain(b, K), E) BY <1>1, <2>1, SortedRetain
  <2>5. \A x : (\E i \in K : b[i] = x) => x \in ToSet(b) BY <2>1 DEF ToSet
  <2> QED BY <2>2, <2>3, <2>4, <2>5
<1>2. /\ \A i \in DOMAIN q : q[i] \in Seq(Records) /\ Sorted(q[i], E)
      /\ DOMAIN q = 1..Len(q) /\ Len(q) \in Nat
  BY DEF Ordered
<1>3. Sorted(d, E) /\ ToSet(d) \subseteq ToSet(o) BY <1>1 DEF Ordered
<1>4. DOMAIN e = DOMAIN q /\ \A i \in DOMAIN q : /\ e[i] \in Seq(Records) /\ Sorted(e[i], E)
                                                 /\ ToSet(e[i]) \subseteq ToSet(q[i])
  BY <1>1, <1>2
<1>5. e \in Seq(Seq(Records))
  <2>1. e \in [1..Len(q) -> Seq(Records)] BY <1>2, <1>4
  <2> QED BY <1>2, <2>1
<1>6. left \in SUBSET DOMAIN e OBVIOUS
<1> HIDE DEF e, d, left
<1>7. Cardinality(left) \in Nat /\ \E f : Picks(e, left, f) BY <1>5, <1>6, RetainPicks, Zenon
<1>8. PICK f : Picks(e, left, f) BY <1>7
<1>9. DOMAIN c = 1..Cardinality(left) BY DEF Retain
<1>10. /\ f \in [1..Cardinality(left) -> left]
       /\ \A n \in 1..Cardinality(left) : c[n] = e[f[n]]
       /\ \A n, m \in 1..Cardinality(left) : n < m => f[n] < f[m]
  BY <1>8 DEF Picks
<1> HIDE DEF c
<1>11. \A n \in DOMAIN c : f[n] \in DOMAIN q /\ c[n] = e[f[n]] BY <1>4, <1>6, <1>9, <1>10
<1>12. \A n \in DOMAIN c : Sorted(c[n], E) BY <1>4, <1>11
<1>13. ASSUME NEW n \in DOMAIN c, NEW m \in DOMAIN c, n < m, NEW x \in ToSet(c[n]), NEW y \in ToSet(c[m])
       PROVE  x \in E[y]
  <2>1. f[n] < f[m] /\ x \in ToSet(q[f[n]]) /\ y \in ToSet(q[f[m]]) BY <1>4, <1>9, <1>10, <1>11, <1>13
  <2> QED BY <1>11, <2>1 DEF Ordered
<1>14. ASSUME NEW n \in DOMAIN c, NEW x \in ToSet(c[n]), NEW y \in ToSet(d)
       PROVE  x \in E[y]
  <2>1. x \in ToSet(q[f[n]]) /\ y \in ToSet(o) BY <1>3, <1>4, <1>11, <1>14
  <2> QED BY <1>11, <2>1 DEF Ordered
<1>15. Ordered(d, c, E) BY <1>3, <1>12, <1>13, <1>14 DEF Ordered
<1> QED BY <1>15 DEF e, d, left, c

LEMMA OrderedDispatch ==
  ASSUME NEW E, NEW o \in Seq(Records), NEW q \in Seq(Seq(Records)), Ordered(o, q, E), q # <<>>
  PROVE  /\ Ordered(o, Tail(q), E) /\ Sorted(Head(q), E)
         /\ \A x : In(o, Tail(q), x) => \A y \in ToSet(Head(q)) : y \in E[x]
<1> DEFINE c == Tail(q)
<1>1. /\ DOMAIN q = 1..Len(q) /\ Len(q) \in Nat /\ Len(q) # 0 /\ DOMAIN c = 1..(Len(q) - 1)
      /\ Head(q) = q[1]
      /\ \A i \in DOMAIN c : c[i] = q[i + 1]
  OBVIOUS
<1>2. /\ 1 \in DOMAIN q
      /\ \A i \in DOMAIN c : i + 1 \in DOMAIN q /\ 1 < i + 1
      /\ \A i, j \in DOMAIN c : i < j => i + 1 < j + 1
  BY <1>1
<1> HIDE DEF c
<1>3. Sorted(Head(q), E) /\ \A i \in DOMAIN c : Sorted(c[i], E) BY <1>1, <1>2 DEF Ordered
<1>4. ASSUME NEW i \in DOMAIN c, NEW j \in DOMAIN c, i < j
      PROVE  \A x \in ToSet(c[i]) : \A y \in ToSet(c[j]) : x \in E[y]
  <2>1. c[i] = q[i + 1] /\ c[j] = q[j + 1] /\ i + 1 \in DOMAIN q /\ j + 1 \in DOMAIN q /\ i + 1 < j + 1
    BY <1>1, <1>2, <1>4
  <2> QED BY <2>1 DEF Ordered
<1>5. \A i \in DOMAIN c : \A x \in ToSet(c[i]) : \A y \in ToSet(o) : x \in E[y] BY <1>1, <1>2 DEF Ordered
<1>6. \A i \in DOMAIN c : \A x \in ToSet(c[i]) : \A y \in ToSet(Head(q)) : y \in E[x]
  BY <1>1, <1>2 DEF Ordered
<1>7. \A x \in ToSet(o) : \A y \in ToSet(Head(q)) : y \in E[x] BY <1>1, <1>2 DEF Ordered
<1> QED BY <1>3, <1>4, <1>5, <1>6, <1>7 DEF Ordered, In, c

LEMMA OrderedEmpty ==
  ASSUME NEW E
  PROVE  Ordered(<<>>, <<>>, E)
BY DEF Ordered, Sorted, ToSet

LEMMA CloseOrdered ==
  ASSUME NEW A, ActorOK(A), NEW S, NEW E, BuffersOrdered(A, E)
  PROVE  BuffersOrdered(Close(A, S), E)
<1> DEFINE pending == [p \in Partitions |->
             IF p \in S /\ A.open[p] # <<>> THEN Append(A.pending[p], A.open[p]) ELSE A.pending[p]]
           open == [p \in Partitions |-> IF p \in S THEN <<>> ELSE A.open[p]]
           B == Close(A, S)
<1>1. B.open = open /\ B.pending = pending BY DEF Close, ActorOK, Fields
<1> HIDE DEF B
<1>2. ASSUME NEW p \in Partitions
      PROVE  Ordered(open[p], pending[p], E)
  <2>1. BufferOK(A.open[p], A.pending[p], p) /\ Ordered(A.open[p], A.pending[p], E)
    BY DEF ActorOK, BuffersOrdered
  <2>2. CASE p \notin S BY <2>1, <2>2
  <2>3. CASE p \in S /\ A.open[p] = <<>>
    <3>1. open[p] = A.open[p] /\ pending[p] = A.pending[p] BY <2>3
    <3> QED BY <2>1, <3>1
  <2>4. CASE p \in S /\ A.open[p] # <<>>
    <3>1. open[p] = <<>> /\ pending[p] = Append(A.pending[p], A.open[p]) BY <2>4
    <3> QED BY <2>1, <3>1, OrderedClose DEF BufferOK
  <2> QED BY <2>2, <2>3, <2>4
<1> HIDE DEF open, pending
<1> QED BY <1>1, <1>2 DEF BuffersOrdered, B

LEMMA AppendOrdered ==
  ASSUME NEW A, ActorOK(A), NEW r \in Records, r \notin Buffered(A), NEW E, BuffersOrdered(A, E),
         \A x \in Buffered(A) : PartitionOf[x] = PartitionOf[r] => x \in E[r]
  PROVE  BuffersOrdered(append(A, r), E)
<1> DEFINE p == PartitionOf[r]
           wouldBe == Bytes(A.open[p]) + Size[r]
           overflow == A.open[p] # <<>> /\ (wouldBe > BatchSize \/ wouldBe > MaxRequest)
           B == IF overflow THEN Close(A, {p}) ELSE A
           C == [B EXCEPT !.open[p] = Append(@, r)]
<1>0. p \in Partitions BY RecordsAssumption
<1>1. ActorOK(B) /\ BuffersOrdered(B, E) /\ \A x : x \in Buffered(B) <=> x \in Buffered(A)
  BY CloseActor, CloseOrdered
<1>2. append(A, r) = IF Bytes(C.open[p]) >= BatchSize THEN Close(C, {p}) ELSE C BY DEF append
<1> HIDE DEF B
<1>3. /\ DOMAIN C = Fields /\ C.pending = B.pending /\ DOMAIN C.open = Partitions
      /\ C.open[p] = Append(B.open[p], r)
      /\ \A s \in Partitions : s # p => C.open[s] = B.open[s]
  BY <1>0, <1>1 DEF ActorOK, Fields
<1> HIDE DEF C
<1>4. BufferOK(B.open[p], B.pending[p], p) /\ ~In(B.open[p], B.pending[p], r) /\ Ordered(B.open[p], B.pending[p], E)
  BY <1>0, <1>1, BufferedIn DEF ActorOK, BuffersOrdered
<1>5. \A x : In(B.open[p], B.pending[p], x) => x \in E[r]
  <2> SUFFICES ASSUME NEW x, In(B.open[p], B.pending[p], x) PROVE x \in E[r] OBVIOUS
  <2>1. PartitionOf[x] = p /\ x \in Buffered(B) BY <1>0, <1>1, BufferedHome, BufferedIn
  <2> QED BY <1>1, <2>1
<1> HIDE DEF p
<1>6. Ordered(C.open[p], C.pending[p], E) /\ BufferOK(C.open[p], C.pending[p], p)
  <2>1. BufferOK(C.open[p], C.pending[p], p) BY <1>3, <1>4, AppendBuffer DEF p
  <2>2. PICK o, q : o = B.open[p] /\ q = B.pending[p] OBVIOUS
  <2>3. o \in Seq(Records) /\ q \in Seq(Seq(Records)) /\ Ordered(o, q, E) /\ \A x : In(o, q, x) => x \in E[r]
    BY <1>4, <1>5, <2>2 DEF BufferOK
  <2>4. Ordered(Append(o, r), q, E) BY <2>3, OrderedAppend
  <2> QED BY <1>3, <2>1, <2>2, <2>4
<1>7. ActorOK(C) /\ BuffersOrdered(C, E) BY <1>1, <1>3, <1>6 DEF ActorOK, BuffersOrdered
<1> QED BY <1>2, <1>7, CloseOrdered

LEMMA ExpireOrdered ==
  ASSUME NEW A, ActorOK(A), NEW k \in Nat, NEW E, BuffersOrdered(A, E)
  PROVE  BuffersOrdered(expire_overdue(A, k), E)
<1> DEFINE B == ExpireKeepingEmpty(A, k)
           left(p) == {i \in DOMAIN B.pending[p] : B.pending[p][i] # <<>>}
           C == [B EXCEPT !.pending = [p \in Partitions |-> Retain(B.pending[p], left(p))]]
<1>1. expire_overdue(A, k) = IF Overdue(A, k) = {} THEN A ELSE C BY DEF expire_overdue
<1>2. BuffersOrdered(C, E)
  <2>1. /\ DOMAIN B = Fields
        /\ B.open = [p \in Partitions |-> drop_expired(A.open[p], k)]
        /\ B.pending = [p \in Partitions |-> [i \in DOMAIN A.pending[p] |-> drop_expired(A.pending[p][i], k)]]
    BY DEF ExpireKeepingEmpty, ActorOK, Fields
  <2> HIDE DEF B
  <2>2. /\ C.open = B.open
        /\ C.pending = [p \in Partitions |-> Retain(B.pending[p], left(p))]
    BY <2>1 DEF Fields
  <2> HIDE DEF C
  <2>3. ASSUME NEW p \in Partitions
        PROVE  Ordered(C.open[p], C.pending[p], E)
    <3> DEFINE o == A.open[p]
               q == A.pending[p]
               e == [i \in DOMAIN q |-> drop_expired(q[i], k)]
               l == {i \in DOMAIN e : e[i] # <<>>}
    <3>1. BufferOK(o, q, p) /\ Ordered(o, q, E) BY DEF ActorOK, BuffersOrdered
    <3>2. B.pending[p] = e BY <2>1
    <3>3. C.open[p] = drop_expired(o, k) /\ C.pending[p] = Retain(e, l) BY <2>1, <2>2, <3>2
    <3> HIDE DEF o, q
    <3>4. Ordered(drop_expired(o, k), Retain(e, l), E) BY <3>1, OrderedExpire DEF BufferOK
    <3> HIDE DEF e, l
    <3> QED BY <3>3, <3>4
  <2> QED BY <2>3 DEF BuffersOrdered
<1> QED BY <1>1, <1>2

LEMMA FailOrdered ==
  ASSUME NEW A, ActorOK(A), NEW E
  PROVE  BuffersOrdered(fail_buffered(A), E)
<1>1. /\ fail_buffered(A).open = [p \in Partitions |-> <<>>]
      /\ fail_buffered(A).pending = [p \in Partitions |-> <<>>]
  BY DEF fail_buffered, ActorOK, Fields
<1> QED BY <1>1, OrderedEmpty DEF BuffersOrdered

(* What an actor with its buffers in order leaves in order: the buffers,   *)
(* the new batches, and each of them before what stays behind.             *)
Orderly(E) ==
  /\ BuffersOrdered(actor', E)
  /\ \A t \in tasks' : t \in tasks \/
       \A p \in DOMAIN t.batch :
         /\ Sorted(t.batch[p].recs, E)
         /\ \A x : In(actor'.open[p], actor'.pending[p], x) => \A y \in ToSet(t.batch[p].recs) : y \in E[x]

LEMMA ProceedOrderly ==
  ASSUME NEW A, ActorOK(A), NEW F, NEW C, Proceed(A, F, C), NEW E, BuffersOrdered(A, E)
  PROVE  Orderly(E)
<1>1. PICK leader \in [Ready(A) -> Leaders] :
        actor' = dispatch_ready(A) /\ tasks' = tasks \cup Spawned(A, leader)
  BY DEF Proceed
<1>2. \A t \in Spawned(A, leader) : Fresh(t, A) BY SpawnedFresh
<1>3. Ready(A) \subseteq Partitions /\ \A p \in Ready(A) : A.pending[p] # <<>> BY DEF Ready
<1>4. /\ actor'.open = A.open
      /\ actor'.pending = [p \in Partitions |-> IF p \in Ready(A) THEN Tail(A.pending[p]) ELSE A.pending[p]]
  BY <1>1 DEF dispatch_ready, ActorOK, Fields
<1>5. ASSUME NEW p \in Ready(A)
      PROVE  /\ Ordered(actor'.open[p], actor'.pending[p], E) /\ Sorted(Head(A.pending[p]), E)
             /\ \A x : In(actor'.open[p], actor'.pending[p], x) => \A y \in ToSet(Head(A.pending[p])) : y \in E[x]
  <2> DEFINE o == A.open[p]
             q == A.pending[p]
  <2>1. BufferOK(o, q, p) /\ q # <<>> /\ Ordered(o, q, E) /\ actor'.open[p] = o /\ actor'.pending[p] = Tail(q)
    BY <1>3, <1>4 DEF ActorOK, BuffersOrdered
  <2> HIDE DEF o, q
  <2>2. /\ Ordered(o, Tail(q), E) /\ Sorted(Head(q), E)
        /\ \A x : In(o, Tail(q), x) => \A y \in ToSet(Head(q)) : y \in E[x]
    BY <2>1, OrderedDispatch DEF BufferOK
  <2> QED BY <2>1, <2>2 DEF q
<1>6. \A p \in Partitions : p \notin Ready(A) => Ordered(actor'.open[p], actor'.pending[p], E)
  BY <1>4 DEF BuffersOrdered
<1>7. BuffersOrdered(actor', E) BY <1>5, <1>6 DEF BuffersOrdered
<1>8. ASSUME NEW t \in Spawned(A, leader), NEW p \in DOMAIN t.batch
      PROVE  p \in Ready(A) /\ t.batch[p].recs = Head(A.pending[p])
  <2>1. p \in Ready(A) /\ t.batch[p] = Stamped(A, p) BY <1>2, <1>8 DEF Fresh
  <2>2. Stamped(A, p).recs = Head(A.pending[p]) BY DEF Stamped
  <2> QED BY <2>1, <2>2
<1> QED BY <1>1, <1>5, <1>7, <1>8 DEF Orderly

LEMMA TurnOrderly ==
  ASSUME NEW A, ActorOK(A), NEW F, NEW C, overdue \in Nat, Turn(A, F, C), NEW E, BuffersOrdered(A, E)
  PROVE  Orderly(E)
<1> DEFINE B == expire_overdue(A, overdue)
<1>1. ActorOK(B) /\ BuffersOrdered(B, E) BY ExpireActor, ExpireOrdered
<1>2. \/ actor' = B /\ tasks' = tasks
      \/ Proceed(B, F, C)
  BY DEF Turn
<1> HIDE DEF B
<1>3. CASE actor' = B /\ tasks' = tasks BY <1>1, <1>3 DEF Orderly
<1> QED BY <1>1, <1>2, <1>3, ProceedOrderly

LEMMA SameOrdered ==
  ASSUME NEW A, NEW B, B.open = A.open, B.pending = A.pending, NEW E, BuffersOrdered(A, E)
  PROVE  BuffersOrdered(B, E)
BY DEF BuffersOrdered

LEMMA ActorOrderly ==
  ASSUME CustodyInv, ActorNext, NEW E, BuffersOrdered(actor, E),
         \A h \in Records : commands # <<>> /\ Head(commands) = AppendCommand(h) =>
           \A x \in Buffered(actor) : PartitionOf[x] = PartitionOf[h] => x \in E[h]
  PROVE  Orderly(E)
<1>0. ActorOK(actor) /\ Shapes /\ Placed /\ overdue \in Nat BY DEF CustodyInv, Shapes, HandedOver
<1>1. CASE HandleAppend
  <2>1. /\ commands # <<>> /\ Head(commands).type = "append"
        /\ Turn(append(actor, Head(commands).id), flush, closing)
    BY <1>1 DEF HandleAppend
  <2>2. PICK h \in Records : Head(commands) = AppendCommand(h) /\ Head(commands).id = h
    BY <1>0, <2>1, HeadCommand
  <2>3. h \notin Buffered(actor)
    <3>1. InChannel(h) BY <1>0, <2>1, <2>2, HeadCommand DEF InChannel
    <3> QED BY <1>0, <3>1 DEF Placed
  <2> DEFINE A == append(actor, h)
  <2>4. \A x \in Buffered(actor) : PartitionOf[x] = PartitionOf[h] => x \in E[h] BY <2>1, <2>2
  <2>5. ActorOK(A) /\ BuffersOrdered(A, E) BY <1>0, <2>3, <2>4, AppendActor, AppendOrdered
  <2>6. Turn(A, flush, closing) BY <2>1, <2>2
  <2> HIDE DEF A
  <2> QED BY <1>0, <2>5, <2>6, TurnOrderly
<1>2. ASSUME NEW S, NEW F, NEW C, Turn(Close(actor, S), F, C) PROVE Orderly(E)
  <2> DEFINE A == Close(actor, S)
  <2>1. ActorOK(A) /\ BuffersOrdered(A, E) /\ Turn(A, F, C) BY <1>0, <1>2, CloseActor, CloseOrdered
  <2> HIDE DEF A
  <2> QED BY <1>0, <2>1, TurnOrderly
<1>3. HandleFlush => Orderly(E) BY <1>2 DEF HandleFlush, close_all
<1>4. HandleClosed => Orderly(E) BY <1>2 DEF HandleClosed, close_all
<1>5. \A lingered \in SUBSET Partitions : Wake(lingered) => Orderly(E) BY <1>2 DEF Wake, close_expired
<1>6. ASSUME NEW c \in completions, HandleCompleted(c) PROVE Orderly(E)
  <2> DEFINE A == settle(actor, c)
  <2>1. A.open = actor.open /\ A.pending = actor.pending BY <1>0 DEF settle, ActorOK, Fields
  <2>2. ActorOK(A) /\ Turn(A, flush, closing) BY <1>0, <1>6, SettleActor DEF HandleCompleted
  <2> HIDE DEF A
  <2>3. BuffersOrdered(A, E) BY <2>1, SameOrdered
  <2> QED BY <1>0, <2>2, <2>3, TurnOrderly
<1>7. CASE ClaimOk
  <2> DEFINE A == [actor EXCEPT !.identity = issued + 1]
  <2>1. DOMAIN A = Fields /\ A.open = actor.open /\ A.pending = actor.pending BY <1>0 DEF ActorOK, Fields
  <2>2. Proceed(A, flush, closing) BY <1>7 DEF ClaimOk
  <2> HIDE DEF A
  <2>3. ActorOK(A) /\ BuffersOrdered(A, E) BY <1>0, <2>1, SameBuffers, SameOrdered
  <2> QED BY <2>2, <2>3, ProceedOrderly
<1>8. CASE ClaimRetriable BY <1>0, <1>8, ProceedOrderly DEF ClaimRetriable
<1>9. CASE ClaimTerminal
  <2> DEFINE A == fail_buffered(actor)
  <2>1. Proceed(A, flush, closing) /\ ActorOK(A) /\ BuffersOrdered(A, E)
    BY <1>0, <1>9, FailActor, FailOrdered DEF ClaimTerminal
  <2> HIDE DEF A
  <2> QED BY <2>1, ProceedOrderly
<1> QED BY <1>1, <1>3, <1>4, <1>5, <1>6, <1>7, <1>8, <1>9 DEF ActorNext

(* The order of acceptance is an order.                                    *)
LEMMA AheadOrders ==
  ASSUME HandedOver, AcceptedOnce
  PROVE  /\ \A r, s \in Records : r \in Ahead[s] => s \notin Ahead[r] /\ r # s
         /\ \A r, s \in Records : r \in Ahead[s] => r \in ToSet(accepted) /\ s \in ToSet(accepted)
         /\ \A r, s \in ToSet(accepted) : r # s => r \in Ahead[s] \/ s \in Ahead[r]
         /\ ToSet(accepted) \subseteq Records
<1>1. /\ accepted \in Seq(Records) /\ DOMAIN accepted = 1..Len(accepted) /\ Len(accepted) \in Nat
      /\ DOMAIN accepted \subseteq Nat
  BY DEF HandedOver
<1>2. \A r, s \in Records : r \in Ahead[s] <=> \E i, j \in DOMAIN accepted : i < j /\ accepted[i] = r /\ accepted[j] = s
  BY DEF Ahead
<1>3. \A i, j \in DOMAIN accepted : accepted[i] = accepted[j] => i = j BY DEF AcceptedOnce
<1>4. ToSet(accepted) \subseteq Records BY <1>1, ToSetType
<1>5. ASSUME NEW r \in Records, NEW s \in Records, r \in Ahead[s]
      PROVE  s \notin Ahead[r] /\ r # s /\ r \in ToSet(accepted) /\ s \in ToSet(accepted)
  <2>1. PICK i \in DOMAIN accepted, j \in DOMAIN accepted : i < j /\ accepted[i] = r /\ accepted[j] = s
    BY <1>2, <1>5
  <2>2. r # s BY <1>1, <1>3, <2>1
  <2>3. r \in ToSet(accepted) /\ s \in ToSet(accepted) BY <2>1 DEF ToSet
  <2>4. ASSUME s \in Ahead[r] PROVE FALSE
    <3>1. PICK k \in DOMAIN accepted, l \in DOMAIN accepted : k < l /\ accepted[k] = s /\ accepted[l] = r
      BY <1>2, <2>4
    <3>2. k = j /\ l = i BY <1>3, <2>1, <3>1
    <3> QED BY <1>1, <2>1, <3>1, <3>2
  <2> QED BY <2>2, <2>3, <2>4
<1>6. ASSUME NEW r \in ToSet(accepted), NEW s \in ToSet(accepted), r # s
      PROVE  r \in Ahead[s] \/ s \in Ahead[r]
  <2>1. PICK i \in DOMAIN accepted, j \in DOMAIN accepted : accepted[i] = r /\ accepted[j] = s BY DEF ToSet
  <2>2. i < j \/ j < i BY <1>1, <1>6, <2>1
  <2>3. r \in Records /\ s \in Records BY <1>4
  <2> QED BY <1>2, <2>1, <2>2, <2>3
<1> QED BY <1>4, <1>5, <1>6

(* A record that is accepted comes last.                                   *)
LEMMA AheadGrows ==
  ASSUME HandedOver, AcceptedOnce, NEW r, Accepts(r)
  PROVE  /\ AcceptedOnce'
         /\ \A s \in Records : Ahead[s] \subseteq Ahead'[s]
         /\ \A x, s \in Records : x \in Ahead'[s] => x \in Ahead[s] \/ (s = r /\ x \in ToSet(accepted))
<1> DEFINE n == Len(accepted) + 1
<1>1. accepted \in Seq(Records) /\ r \in Records /\ r \notin ToSet(accepted) /\ accepted' = Append(accepted, r)
  BY DEF HandedOver, Accepts
<1>2. /\ DOMAIN accepted = 1..Len(accepted) /\ Len(accepted) \in Nat /\ DOMAIN accepted' = 1..n
      /\ \A i \in 1..Len(accepted) : accepted'[i] = accepted[i]
      /\ accepted'[n] = r
  BY <1>1
<1>3. /\ \A i \in DOMAIN accepted : i \in DOMAIN accepted' /\ accepted'[i] = accepted[i] /\ i # n /\ accepted[i] # r
      /\ \A i \in DOMAIN accepted' : i \in DOMAIN accepted \/ i = n
      /\ \A i, j \in DOMAIN accepted' : i < j => i \in DOMAIN accepted
  <2>1. \A i \in DOMAIN accepted : accepted[i] # r BY <1>1 DEF ToSet
  <2> QED BY <1>2, <2>1
<1>4. /\ \A x, s \in Records : x \in Ahead[s] <=> \E i, j \in DOMAIN accepted : i < j /\ accepted[i] = x /\ accepted[j] = s
      /\ \A x, s \in Records : x \in Ahead'[s] <=> \E i, j \in DOMAIN accepted' : i < j /\ accepted'[i] = x /\ accepted'[j] = s
      /\ \A s \in Records : Ahead[s] \subseteq Records /\ Ahead'[s] \subseteq Records
  BY DEF Ahead
<1>5. accepted'[n] = r BY <1>2
<1> HIDE DEF n
<1>6. AcceptedOnce' BY <1>3, <1>5 DEF AcceptedOnce
<1>7. ASSUME NEW s \in Records, NEW x \in Ahead[s] PROVE x \in Ahead'[s]
  <2>1. x \in Records BY <1>4
  <2>2. PICK i \in DOMAIN accepted, j \in DOMAIN accepted : i < j /\ accepted[i] = x /\ accepted[j] = s
    BY <1>4, <2>1
  <2>3. i \in DOMAIN accepted' /\ j \in DOMAIN accepted' /\ accepted'[i] = x /\ accepted'[j] = s BY <1>3, <2>2
  <2> QED BY <1>4, <2>1, <2>2, <2>3
<1>8. ASSUME NEW s \in Records, NEW x \in Records, x \in Ahead'[s]
      PROVE  x \in Ahead[s] \/ (s = r /\ x \in ToSet(accepted))
  <2>1. PICK i \in DOMAIN accepted', j \in DOMAIN accepted' : i < j /\ accepted'[i] = x /\ accepted'[j] = s
    BY <1>4, <1>8
  <2>2. i \in DOMAIN accepted /\ accepted[i] = x BY <1>3, <2>1
  <2>3. CASE j \in DOMAIN accepted BY <1>3, <1>4, <2>1, <2>2, <2>3
  <2>4. CASE j = n BY <1>5, <2>1, <2>2, <2>4 DEF ToSet
  <2> QED BY <1>3, <2>3, <2>4
<1> QED BY <1>6, <1>7, <1>8

LEMMA SortedGrows ==
  ASSUME NEW E, NEW G, \A s \in Records : E[s] \subseteq G[s], NEW b \in Seq(Records), Sorted(b, E)
  PROVE  Sorted(b, G)
<1>1. \A i \in DOMAIN b : b[i] \in Records OBVIOUS
<1> QED BY <1>1 DEF Sorted

LEMMA BuffersGrow ==
  ASSUME NEW E, NEW G, \A s \in Records : E[s] \subseteq G[s], NEW A, ActorOK(A), BuffersOrdered(A, E)
  PROVE  BuffersOrdered(A, G)
<1> SUFFICES ASSUME NEW p \in Partitions PROVE Ordered(A.open[p], A.pending[p], G) BY DEF BuffersOrdered
<1> PICK o, q : o = A.open[p] /\ q = A.pending[p] OBVIOUS
<1>1. o \in Seq(Records) /\ q \in Seq(Seq(Records)) /\ Ordered(o, q, E)
  BY DEF ActorOK, BufferOK, BuffersOrdered
<1>2. \A i \in DOMAIN q : q[i] \in Seq(Records) /\ ToSet(q[i]) \subseteq Records
  <2>1. \A i \in DOMAIN q : q[i] \in Seq(Records) BY <1>1
  <2> QED BY <2>1, ToSetType
<1>3. ToSet(o) \subseteq Records BY <1>1, ToSetType
<1>4. Sorted(o, G) /\ \A i \in DOMAIN q : Sorted(q[i], G) BY <1>1, <1>2, SortedGrows DEF Ordered
<1>5. /\ \A i, j \in DOMAIN q : i < j => \A x \in ToSet(q[i]) : \A y \in ToSet(q[j]) : x \in G[y]
      /\ \A i \in DOMAIN q : \A x \in ToSet(q[i]) : \A y \in ToSet(o) : x \in G[y]
  BY <1>1, <1>2, <1>3 DEF Ordered
<1>6. Ordered(o, q, G) BY <1>4, <1>5 DEF Ordered
<1> QED BY <1>6

-----------------------------------------------------------------------------
(* Offsets.                                                                *)

LEMMA EndAppended ==
  ASSUME NEW l, NEW p, Listing(l), \A i \in DOMAIN l : EntryOK(l[i], p), Spanned(l), NEW b, BatchOK(b, p)
  PROVE  Spanned(AppendBatch(l, b))
<1> DEFINE m == AppendBatch(l, b)
           n == Len(l) + 1
<1>1. Extends(l, m, b) /\ LogEnd(l) \in Nat /\ \A i \in DOMAIN m : EntryOK(m[i], p) BY EntryAppended
<1>2. b.recs \in Seq(Records) /\ Len(b.recs) \in Nat BY DEF BatchOK
<1>3. l \in Seq({l[i] : i \in DOMAIN l}) BY DEF Listing
<1>4. Len(m) = n /\ n \in Nat BY <1>3 DEF AppendBatch
<1>5. m # <<>>
  <2>1. n \in DOMAIN m BY <1>1 DEF Extends
  <2> HIDE DEF m
  <2> QED BY <2>1
<1> HIDE DEF m
<1>6. LogEnd(m) = LogEnd(l) + Len(b.recs)
  <2>1. Last(m) = m[n] BY <1>4 DEF Last
  <2>2. LogEnd(m) = Last(m).off + Len(Last(m).recs) BY <1>5 DEF LogEnd
  <2>3. m[n].off = LogEnd(l) /\ m[n].recs = b.recs BY <1>1 DEF Extends
  <2> HIDE DEF n
  <2> QED BY <2>1, <2>2, <2>3
<1>7. ASSUME NEW i \in DOMAIN m PROVE m[i].off + Len(m[i].recs) <= LogEnd(m)
  <2>1. CASE i \in DOMAIN l
    <3>1. m[i] = l[i] /\ l[i].off + Len(l[i].recs) <= LogEnd(l) BY <1>1, <2>1 DEF Extends, Spanned
    <3>2. m[i].off \in Nat /\ Len(m[i].recs) \in Nat BY <1>1 DEF EntryOK
    <3> QED BY <1>1, <1>2, <1>6, <3>1, <3>2
  <2>2. CASE i = n
    <3>1. m[i].off = LogEnd(l) /\ m[i].recs = b.recs BY <1>1, <2>2 DEF Extends
    <3> QED BY <1>1, <1>2, <1>6, <3>1
  <2> QED BY <1>1, <2>1, <2>2 DEF Extends
<1> QED BY <1>7 DEF Spanned, m

LEMMA SpannedStep ==
  ASSUME CustodyInv, [Next]_vars, \A p \in Partitions : Spanned(log[p])
  PROVE  \A p \in Partitions : Spanned(log'[p])
<1>0. Shapes /\ HandedOver /\ LogsOK BY DEF CustodyInv, Shapes
<1>1. CASE ActorNext
  <2>1. log' = log
    BY <1>1 DEF ActorNext, HandleAppend, HandleFlush, HandleClosed, HandleCompleted, Wake, ClaimOk,
                ClaimRetriable, ClaimTerminal, brokerVars
  <2> QED BY <2>1
<1>2. CASE CallerNext \/ TaskNext \/ ClusterNext \/ DeadlinePasses \/ Stopped \/ UNCHANGED vars
  <2>1. CarryOn BY <1>0, <1>2, OthersCarryOn
  <2>2. ASSUME NEW p \in Partitions PROVE Spanned(log'[p])
    <3>1. log'[p] = log[p] \/ \E b : BatchOK(b, p) /\ log'[p] = AppendBatch(log[p], b) BY <2>1 DEF CarryOn
    <3>2. Listing(log[p]) /\ \A i \in DOMAIN log[p] : EntryOK(log[p][i], p) BY <1>0 DEF LogsOK
    <3> QED BY <3>1, <3>2, EndAppended
  <2> QED BY <2>2
<1> QED BY <1>1, <1>2 DEF Next

LEMMA BelowEnd ==
  ASSUME LogsOK, NEW p \in Partitions, Spanned(log[p]), NEW r, NEW off \in Nat, IsAt(log[p], r, off)
  PROVE  off < LogEnd(log[p])
<1>1. PICK i \in DOMAIN log[p] : off - log[p][i].off \in 0..(Len(log[p][i].recs) - 1) BY DEF IsAt
<1>2. EntryOK(log[p][i], p) /\ Listing(log[p]) /\ \A j \in DOMAIN log[p] : EntryOK(log[p][j], p) BY DEF LogsOK
<1> PICK e : e = log[p][i] OBVIOUS
<1>3. e.off \in Nat /\ Len(e.recs) \in Nat /\ e.off + Len(e.recs) <= LogEnd(log[p])
  BY <1>2 DEF EntryOK, Spanned
<1>4. LogEnd(log[p]) \in Nat
  <2>1. log[p] \in Seq({log[p][j] : j \in DOMAIN log[p]}) BY <1>2 DEF Listing
  <2>2. log[p] # <<>> => Len(log[p]) \in DOMAIN log[p] BY <2>1
  <2>3. log[p] # <<>> => EntryOK(Last(log[p]), p) BY <1>2, <2>2 DEF Last
  <2>4. log[p] # <<>> => Last(log[p]).off \in Nat /\ Len(Last(log[p]).recs) \in Nat BY <2>3 DEF EntryOK
  <2> QED BY <2>4 DEF LogEnd
<1>5. off - e.off \in 0..(Len(e.recs) - 1) BY <1>1
<1>6. off < e.off + Len(e.recs) BY <1>3, <1>5
<1> QED BY <1>3, <1>4, <1>6

-----------------------------------------------------------------------------
(* Nobody is overtaken.                                                    *)

LEMMA StaysQueued ==
  ASSUME NEW r, NEW s, QueuedInTurn(r, s), commands' = commands
  PROVE  QueuedInTurn(r, s)'
BY DEF QueuedInTurn, InChannel

(* An outcome that is "ok" was so before.                                  *)
LEMMA StaysSent ==
  ASSUME NEW r, NEW s, SentInTurn(r, s),
         (r \in Buffered(actor))' => r \in Buffered(actor), Tasked(s)' => Tasked(s),
         (Carried(r) \/ Tasked(r))' => Carried(r) \/ Tasked(r),
         \A x \in {r, s} : outcome'[x].kind = "ok" => outcome'[x] = outcome[x]
  PROVE  SentInTurn(r, s)'
<1>1. (r \in Buffered(actor) => ~Tasked(s))' BY DEF SentInTurn
<1>2. (Carried(r) \/ Tasked(r) => outcome[s].kind # "ok")' BY DEF SentInTurn
<1>3. (outcome[r].kind = "ok" /\ outcome[s].kind = "ok" => outcome[r].off < outcome[s].off)' BY DEF SentInTurn
<1> QED BY <1>1, <1>2, <1>3 DEF SentInTurn

(* Steps of tasks and brokers that resolve nothing with success.  What is  *)
(* acknowledged is acknowledged at the end of the log.                     *)
Advances ==
  /\ \A v \in tasks' : \E t \in tasks :
       /\ v.batch = t.batch
       /\ \A p \in DOMAIN v.batch : v.res[p].kind = "ack" => v.res[p] = t.res[p] \/ v.res[p].off = LogEnd(log[p])
  /\ \A r \in Records : outcome'[r].kind = "ok" => outcome'[r] = outcome[r]

LEMMA AdvanceBehind ==
  ASSUME OrderInv, Advances
  PROVE  Behind'
<1> SUFFICES ASSUME NEW r \in Records, outcome'[r].kind = "ok"
             PROVE  /\ outcome'[r].off \in Nat
                    /\ \A v \in tasks' : PartitionOf[r] \in DOMAIN v.batch /\ v.res[PartitionOf[r]].kind = "ack" =>
                         outcome'[r].off < v.res[PartitionOf[r]].off
  BY DEF Behind
<1> PICK p : p = PartitionOf[r] OBVIOUS
<1>1. outcome'[r] = outcome[r] /\ outcome[r].kind = "ok" /\ p \in Partitions BY RecordsAssumption DEF Advances
<1>2. outcome[r].off \in Nat BY <1>1 DEF OrderInv, Behind
<1>3. ASSUME NEW v \in tasks', p \in DOMAIN v.batch, v.res[p].kind = "ack"
      PROVE  outcome[r].off < v.res[p].off
  <2>1. PICK t \in tasks : /\ v.batch = t.batch
                           /\ \A q \in DOMAIN v.batch : v.res[q].kind = "ack" => v.res[q] = t.res[q] \/ v.res[q].off = LogEnd(log[q])
    BY DEF Advances
  <2>2. CASE v.res[p] = t.res[p] BY <1>1, <1>3, <2>1, <2>2 DEF OrderInv, Behind
  <2>3. CASE v.res[p].off = LogEnd(log[p])
    <3>1. IsAt(log[p], r, outcome[r].off) BY <1>1 DEF OrderInv, AckInv, AckedAtOffset
    <3>2. LogsOK /\ Spanned(log[p]) BY <1>1 DEF OrderInv, AckInv, CustodyInv, Shapes
    <3>3. outcome[r].off < LogEnd(log[p]) BY <1>1, <1>2, <3>1, <3>2, BelowEnd
    <3> QED BY <2>3, <3>3
  <2> QED BY <1>3, <2>1, <2>2, <2>3
<1> QED BY <1>1, <1>2, <1>3

LEMMA AdvanceKeepsOrder ==
  ASSUME OrderInv, Advances, Resolves, UNCHANGED <<commands, actor, accepted>>
  PROVE  (AcceptedOnce /\ Behind /\ BuffersOrdered(actor, Ahead) /\ TasksSorted /\ Turns)'
<1>1. Ahead' = Ahead BY DEF Ahead
<1>2. AcceptedOnce' BY DEF OrderInv, AcceptedOnce
<1>3. (BuffersOrdered(actor, Ahead))' BY <1>1 DEF OrderInv
<1>4. TasksSorted' BY <1>1 DEF OrderInv, Advances, TasksSorted
<1>5. \A x : Tasked(x)' => Tasked(x) BY DEF Advances, Tasked
<1>6. \A x \in Records : Carried(x)' => Carried(x) BY DEF Resolves, Carried, InHand, InChannel
<1>7. ASSUME NEW s \in Records, NEW r \in Ahead[s], PartitionOf[r] = PartitionOf[s]
      PROVE  InTurn(r, s)'
  <2>1. r \in Records BY <1>7 DEF Ahead
  <2>2. QueuedInTurn(r, s) /\ SentInTurn(r, s) BY <1>7 DEF OrderInv, Turns, InTurn
  <2>3. QueuedInTurn(r, s)' BY <2>2, StaysQueued
  <2>4. \A x \in {r, s} : outcome'[x].kind = "ok" => outcome'[x] = outcome[x] BY <2>1 DEF Advances
  <2>5. (Carried(r) \/ Tasked(r))' => Carried(r) \/ Tasked(r) BY <1>5, <1>6, <2>1
  <2>6. (r \in Buffered(actor))' => r \in Buffered(actor) OBVIOUS
  <2>7. SentInTurn(r, s)' BY <1>5, <2>2, <2>4, <2>5, <2>6, StaysSent
  <2> QED BY <2>3, <2>7 DEF InTurn
<1>8. Turns' BY <1>1, <1>7 DEF Turns
<1> QED BY <1>2, <1>3, <1>4, <1>8, AdvanceBehind

LEMMA TaskAdvances ==
  ASSUME OneIndexEach, AckInv, NEW t \in tasks, TaskStep(t)
  PROVE  Advances \/ Returned(t)
<1>0. Shapes /\ TaskOK(t) /\ CustodyInv /\ Anonymous BY DEF AckInv, CustodyInv, Shapes
<1>1. CASE Encode(t)
  <2>1. PICK u, bad : Encoded(t, u, bad) BY <1>0, <1>1, EncodeIs
  <2>2. /\ \A v \in tasks' : v \in tasks \/ v = u
        /\ u.batch = t.batch /\ \A p \in DOMAIN u.batch : u.res[p].kind # "ack"
    BY <2>1 DEF Encoded, Succeeds
  <2>3. Told("unsent").kind # "ok" BY DEF Told
  <2>4. \A r \in Records : outcome'[r] = outcome[r] \/ outcome'[r] = Told("unsent") BY <2>1 DEF Encoded
  <2> QED BY <2>2, <2>3, <2>4 DEF Advances
<1>2. CASE Judge(t)
  <2>1. ASSUME NEW u, NEW retry, Retried(t, u, retry) PROVE Advances
    <3>1. /\ outcome' = outcome /\ u.batch = t.batch /\ \A v \in tasks' : v \in tasks \/ v = u
          /\ \A p \in DOMAIN t.batch : u.res[p] = Due \/ u.res[p] = t.res[p]
      BY <2>1 DEF Retried, Succeeds
    <3>2. Due.kind # "ack" BY DEF Due
    <3> QED BY <3>1, <3>2 DEF Advances
  <2> QED BY <1>0, <1>2, <2>1, JudgeIs
<1>3. ASSUME NEW G, NEW result, G \subseteq Unanswered(t), outcome' = outcome,
             tasks' = WithResults(t, G, result),
             \A p \in G : result[p].kind \in {"rejected", "ack", "ambiguous"},
             \A p \in G : result[p].kind = "ack" => result[p].off = LogEnd(log[p])
      PROVE  Advances
  <2>1. \A p \in G : result[p].kind \in ResultKinds \ {"unencodable"} BY <1>3 DEF ResultKinds
  <2>2. PICK u : Answered(u, t, G, result) /\ tasks' = (tasks \ {t}) \cup {u}
    BY <1>0, <1>3, <2>1, ResultsRecorded
  <2>3. /\ u.batch = t.batch
        /\ \A p \in DOMAIN t.batch : u.res[p] = IF p \in G THEN result[p] ELSE t.res[p]
    BY <2>2 DEF Answered, Succeeds
  <2> QED BY <1>3, <2>2, <2>3 DEF Advances
<1>4. ASSUME NEW G, RouteFails(t, G) \/ LoseRequest(t, G) PROVE Advances
  <2>1. /\ G \subseteq Unanswered(t) /\ outcome' = outcome
        /\ \E k \in {"rejected", "ambiguous"} : \E err :
             tasks' = WithResults(t, G, [p \in G |-> [kind |-> k, err |-> err, off |-> -1]])
    BY <1>4 DEF RouteFails, LoseRequest
  <2>2. PICK k \in {"rejected", "ambiguous"} : \E err :
             tasks' = WithResults(t, G, [p \in G |-> [kind |-> k, err |-> err, off |-> -1]])
    BY <2>1
  <2>3. PICK err : tasks' = WithResults(t, G, [p \in G |-> [kind |-> k, err |-> err, off |-> -1]]) BY <2>2
  <2> DEFINE result == [p \in G |-> [kind |-> k, err |-> err, off |-> -1]]
  <2>4. (\A p \in G : result[p].kind = k) /\ tasks' = WithResults(t, G, result) BY <2>3
  <2> HIDE DEF result
  <2>5. \A p \in G : result[p].kind \in {"rejected", "ambiguous"} BY <2>4
  <2> QED BY <1>3, <2>1, <2>4, <2>5
<1>5. ASSUME NEW G, Respond(t, G) PROVE Advances
  <2>1. /\ G \subseteq Unanswered(t) /\ outcome' = outcome
        /\ G \subseteq DOMAIN t.batch /\ G \subseteq Partitions
    BY <1>0, <1>5 DEF Respond, Unanswered, TaskOK
  <2>2. PICK result : Faithful(t, G, result) BY <1>5, <2>1, RespondFaithful
  <2>3. ASSUME NEW p \in G, result[p].kind = "ack" PROVE result[p].off = LogEnd(log[p])
    <3>1. t.batch[p].pid = NoPid BY <1>0, <2>1 DEF Anonymous
    <3>2. ~IsDuplicate(log[p], forgotten[p], t.batch[p]) BY <3>1 DEF IsDuplicate
    <3>3. result[p].off = BaseOffset(log[p], forgotten[p], t.batch[p]) BY <2>2, <2>3 DEF Faithful
    <3> QED BY <3>2, <3>3 DEF BaseOffset
  <2>4. tasks' = WithResults(t, G, result) /\ \A p \in G : result[p].kind \in {"rejected", "ack", "ambiguous"}
    BY <2>2 DEF Faithful
  <2> QED BY <1>3, <2>1, <2>3, <2>4
<1> QED BY <1>1, <1>2, <1>4, <1>5 DEF TaskStep

(* The offset that send_group gives a record of an acknowledged batch.     *)
LEMMA VerdictOffset ==
  ASSUME AckInv, NEW t \in tasks, NEW p \in DOMAIN t.batch, NEW r \in ToSet(t.batch[p].recs),
         t.res[p].kind = "ack"
  PROVE  /\ t.res[p].off \in Nat
         /\ \E i \in DOMAIN t.batch[p].recs :
              t.batch[p].recs[i] = r /\ i \in Nat /\ i >= 1 /\ Verdict(t, r).off = t.res[p].off + i - 1
<1>0. TaskOK(t) /\ LogsOK BY DEF AckInv, CustodyInv, Shapes
<1>1. PartitionOf[r] = p /\ p \in Partitions /\ t.batch[p].recs \in Seq(Records)
  BY <1>0, TaskRecords DEF TaskOK, BatchOK
<1> DEFINE s == t.batch[p].recs
           i == CHOOSE j \in DOMAIN s : s[j] = r
<1>2. i \in DOMAIN s /\ s[i] = r BY DEF ToSet
<1>3. Verdict(t, r) = Acked(t.res[p].off + i - 1) BY <1>1 DEF Verdict
<1> HIDE DEF i
<1>4. Holds(log[p], s, t.res[p].off) BY DEF AckInv, Acknowledged
<1>5. PICK k \in DOMAIN log[p] : log[p][k].recs = s /\ log[p][k].off = t.res[p].off BY <1>4 DEF Holds
<1>6. EntryOK(log[p][k], p) BY <1>0, <1>1 DEF LogsOK
<1>7. t.res[p].off \in Nat BY <1>5, <1>6 DEF EntryOK
<1>8. Verdict(t, r).off = t.res[p].off + i - 1 BY <1>3 DEF Acked
<1>9. i \in Nat /\ i >= 1 BY <1>1, <1>2
<1> QED BY <1>2, <1>7, <1>8, <1>9

(* A task that returns tells its records their offsets: behind what was    *)
(* acknowledged before, and in the order of the batch.                     *)
LEMMA ReturnKeepsOrder ==
  ASSUME OrderInv, Resolves, NEW t \in tasks, Returned(t), UNCHANGED <<commands, actor, accepted>>
  PROVE  (AcceptedOnce /\ Behind /\ BuffersOrdered(actor, Ahead) /\ TasksSorted /\ Turns)'
<1> DEFINE D == {p \in DOMAIN t.batch : t.res[p].kind # "unencodable"}
           R == BatchRecords(t, D)
<1>0. /\ CustodyInv /\ AckInv /\ InFlightInv /\ Shapes /\ Placed /\ HandedOver /\ TaskOK(t)
      /\ AcceptedOnce /\ Behind /\ Turns /\ TasksSorted
  BY DEF OrderInv, AckInv, CustodyInv, Shapes
<1>1. Ahead' = Ahead BY DEF Ahead
<1>2. AcceptedOnce' BY <1>0 DEF AcceptedOnce
<1>3. (BuffersOrdered(actor, Ahead))' BY <1>1 DEF OrderInv
<1>4. /\ tasks' = tasks \ {t}
      /\ outcome' = [r \in Records |-> IF r \in R THEN Verdict(t, r) ELSE outcome[r]]
  BY DEF Returned
<1>5. \A r : r \in R => \E p \in DOMAIN t.batch : t.res[p].kind # "unencodable" /\ r \in ToSet(t.batch[p].recs)
  BY DEF BatchRecords
<1> HIDE DEF D, R
<1>6. TasksSorted' BY <1>0, <1>1, <1>4 DEF TasksSorted
<1>7. ASSUME NEW r \in Records, r \in R, outcome'[r].kind = "ok"
      PROVE  LET p == PartitionOf[r] IN
             /\ p \in DOMAIN t.batch /\ r \in ToSet(t.batch[p].recs) /\ t.res[p].kind = "ack"
             /\ outcome'[r] = Verdict(t, r) /\ Tasked(r)
  <2>1. PICK p \in DOMAIN t.batch : t.res[p].kind # "unencodable" /\ r \in ToSet(t.batch[p].recs)
    BY <1>5, <1>7
  <2>2. outcome'[r] = Verdict(t, r) BY <1>4, <1>7
  <2>3. t.res[p].kind \in ResultKinds /\ PartitionOf[r] = p BY <1>0, <2>1, TaskRecords DEF TaskOK
  <2>4. t.res[p].kind = "ack"
    <3>1. Verdict(t, r).kind = IF t.res[p].kind = "ack" THEN "ok" ELSE t.res[p].kind
      BY <1>0, <2>1, VerdictKind
    <3> QED BY <1>7, <2>2, <2>3, <3>1 DEF ResultKinds
  <2>5. Tasked(r) BY <2>1 DEF Tasked
  <2> QED BY <2>1, <2>2, <2>3, <2>4, <2>5
<1>8. ASSUME NEW r \in Records, r \notin R PROVE outcome'[r] = outcome[r] BY <1>4, <1>8
<1>9. ASSUME NEW v \in tasks' PROVE v \in tasks /\ v # t /\ DOMAIN v.batch \cap DOMAIN t.batch = {} /\ TaskOK(v)
  <2>1. v \in tasks /\ v # t BY <1>4
  <2>2. DOMAIN v.batch \cap DOMAIN t.batch = {} BY <1>0, <2>1 DEF InFlightInv, OneBatchPerPartition
  <2> QED BY <1>0, <2>1, <2>2 DEF Shapes
<1>10. Behind'
  <2> SUFFICES ASSUME NEW r \in Records, outcome'[r].kind = "ok"
               PROVE  /\ outcome'[r].off \in Nat
                      /\ \A v \in tasks' : PartitionOf[r] \in DOMAIN v.batch /\ v.res[PartitionOf[r]].kind = "ack" =>
                           outcome'[r].off < v.res[PartitionOf[r]].off
    BY DEF Behind
  <2>1. CASE r \notin R BY <1>0, <1>8, <1>9, <2>1 DEF Behind
  <2>2. CASE r \in R
    <3> PICK p : p = PartitionOf[r] OBVIOUS
    <3>1. /\ p \in DOMAIN t.batch /\ r \in ToSet(t.batch[p].recs) /\ t.res[p].kind = "ack"
          /\ outcome'[r] = Verdict(t, r)
      BY <1>7, <2>2
    <3>2. PICK i \in DOMAIN t.batch[p].recs : /\ i \in Nat /\ i >= 1
                                              /\ Verdict(t, r).off = t.res[p].off + i - 1
      BY <1>0, <3>1, VerdictOffset
    <3>3. t.res[p].off \in Nat BY <1>0, <3>1, VerdictOffset
    <3>4. outcome'[r].off \in Nat BY <3>1, <3>2, <3>3
    <3>5. \A v \in tasks' : p \notin DOMAIN v.batch BY <1>9, <3>1
    <3> QED BY <3>4, <3>5
  <2> QED BY <2>1, <2>2
<1>11. \A x : Tasked(x)' => Tasked(x) BY <1>4 DEF Tasked
<1>12. \A x \in Records : Carried(x)' => Carried(x) BY DEF Resolves, Carried, InHand, InChannel
<1>13. ASSUME NEW s \in Records, NEW r \in Ahead[s], PartitionOf[r] = PartitionOf[s]
       PROVE  InTurn(r, s)'
  <2>0. r \in Records BY <1>13 DEF Ahead
  <2>1. QueuedInTurn(r, s) /\ SentInTurn(r, s) BY <1>0, <1>13 DEF Turns, InTurn
  <2>2. QueuedInTurn(r, s)' BY <2>1, StaysQueued
  <2>3. (r \in Buffered(actor) => ~Tasked(s))' BY <1>11, <2>1 DEF SentInTurn
  <2> PICK p : p = PartitionOf[s] OBVIOUS
  <2>4. ASSUME (Carried(r) \/ Tasked(r))', outcome'[s].kind = "ok" PROVE FALSE
    <3>1. CASE s \notin R
      <4>1. Carried(r) \/ Tasked(r) BY <1>11, <1>12, <2>0, <2>4
      <4>2. outcome[s].kind = "ok" BY <1>8, <2>4, <3>1
      <4> QED BY <2>1, <4>1, <4>2 DEF SentInTurn
    <3>2. CASE s \in R
      <4>1. p \in DOMAIN t.batch /\ Tasked(s) BY <1>7, <2>4, <3>2
      <4>2. ~InChannel(r) BY <1>0, <2>1, <4>1 DEF QueuedInTurn, Placed, Away
      <4>3. r \notin Buffered(actor) BY <2>1, <4>1 DEF SentInTurn
      <4>4. (r \in OnTask)' => Tasked(r)'
        <5>1. (r \in OnTask)' <=> \E w \in tasks' : \E q \in DOMAIN w.batch :
                                  w.res[q].kind # "unencodable" /\ r \in ToSet(w.batch[q].recs)
          BY DEF OnTask, BatchRecords
        <5> QED BY <5>1 DEF Tasked
      <4>5. Tasked(r)'
        <5>1. InChannel(r)' <=> InChannel(r) BY DEF InChannel
        <5>2. (r \in Buffered(actor))' <=> r \in Buffered(actor) OBVIOUS
        <5> QED BY <2>4, <4>2, <4>3, <4>4, <5>1, <5>2 DEF Carried, InHand
      <4>6. PICK v \in tasks' : \E q \in DOMAIN v.batch : r \in ToSet(v.batch[q].recs) BY <4>5 DEF Tasked
      <4>7. PICK q \in DOMAIN v.batch : r \in ToSet(v.batch[q].recs) BY <4>6
      <4>8. q = p BY <1>9, <1>13, <4>7, TaskRecords
      <4> QED BY <1>9, <4>1, <4>7, <4>8
    <3> QED BY <3>1, <3>2
  <2>5. ASSUME outcome'[r].kind = "ok", outcome'[s].kind = "ok" PROVE outcome'[r].off < outcome'[s].off
    <3>1. CASE r \notin R /\ s \notin R BY <1>8, <2>0, <2>1, <2>5, <3>1 DEF SentInTurn
    <3>2. CASE r \notin R /\ s \in R
      <4>1. /\ p \in DOMAIN t.batch /\ s \in ToSet(t.batch[p].recs) /\ t.res[p].kind = "ack"
            /\ outcome'[s] = Verdict(t, s)
        BY <1>7, <2>5, <3>2
      <4>2. PICK i \in DOMAIN t.batch[p].recs : i \in Nat /\ i >= 1 /\ Verdict(t, s).off = t.res[p].off + i - 1
        BY <1>0, <4>1, VerdictOffset
      <4>3. t.res[p].off \in Nat BY <1>0, <4>1, VerdictOffset
      <4>4. outcome'[r] = outcome[r] BY <1>8, <2>0, <3>2
      <4>5. outcome[r].off \in Nat /\ outcome[r].off < t.res[p].off
        BY <1>0, <1>13, <2>0, <2>5, <4>1, <4>4 DEF Behind
      <4> QED BY <4>1, <4>2, <4>3, <4>4, <4>5
    <3>3. CASE r \in R /\ s \notin R
      <4>1. Tasked(r) BY <1>7, <2>0, <2>5, <3>3
      <4>2. outcome[s].kind = "ok" BY <1>8, <2>5, <3>3
      <4> QED BY <2>1, <4>1, <4>2 DEF SentInTurn
    <3>4. CASE r \in R /\ s \in R
      <4>1. /\ p \in DOMAIN t.batch /\ t.res[p].kind = "ack"
            /\ s \in ToSet(t.batch[p].recs) /\ outcome'[s] = Verdict(t, s)
            /\ r \in ToSet(t.batch[p].recs) /\ outcome'[r] = Verdict(t, r)
        BY <1>7, <1>13, <2>0, <2>5, <3>4
      <4>2. PICK i \in DOMAIN t.batch[p].recs : /\ t.batch[p].recs[i] = r /\ i \in Nat
                                                /\ Verdict(t, r).off = t.res[p].off + i - 1
        BY <1>0, <4>1, VerdictOffset
      <4>3. PICK j \in DOMAIN t.batch[p].recs : /\ t.batch[p].recs[j] = s /\ j \in Nat
                                                /\ Verdict(t, s).off = t.res[p].off + j - 1
        BY <1>0, <4>1, VerdictOffset
      <4>4. t.res[p].off \in Nat BY <1>0, <4>1, VerdictOffset
      <4>5. s \notin Ahead[r] /\ r # s BY <1>0, <1>13, <2>0, AheadOrders
      <4>6. ~(j < i) BY <1>0, <4>1, <4>2, <4>3, <4>5 DEF TasksSorted, Sorted
      <4>7. i < j BY <4>2, <4>3, <4>5, <4>6
      <4> QED BY <4>1, <4>2, <4>3, <4>4, <4>7
    <3> QED BY <3>1, <3>2, <3>3, <3>4
  <2>6. SentInTurn(r, s)' BY <2>3, <2>4, <2>5 DEF SentInTurn
  <2> QED BY <2>2, <2>6 DEF InTurn
<1>14. Turns' BY <1>1, <1>13 DEF Turns
<1> QED BY <1>2, <1>3, <1>6, <1>10, <1>14

(* What a step of the actor leaves of the order in the channel.            *)
LEMMA ChannelKeepsTurn ==
  ASSUME Placed, NEW N, NEW F, Receives(N, F), NEW r \in Records, NEW s \in Records, QueuedInTurn(r, s)
  PROVE  QueuedInTurn(r, s)'
<1>0. /\ \A x : InChannel(x)' => InChannel(x) /\ x \notin N
      /\ \A x : InChannel(x) => InChannel(x)' \/ x \in N
  BY ChannelStep
<1>1. CASE commands' = commands BY <1>1, StaysQueued
<1>2. CASE commands # <<>> /\ commands' = Tail(commands)
  <2>1. /\ 1 \in DOMAIN commands /\ Head(commands) = commands[1] /\ DOMAIN commands \subseteq Nat
        /\ \A i \in DOMAIN commands' : i + 1 \in DOMAIN commands /\ commands'[i] = commands[i + 1]
    BY <1>2, HeadCommand
  <2>2. commands \in Seq(Commands) /\ \A i \in DOMAIN commands' : i \in Nat
    <3>1. commands \in Seq(Commands) BY DEF Placed
    <3>2. Tail(commands) \in Seq(Commands) BY <1>2, HeadCommand
    <3> QED BY <1>2, <3>1, <3>2
  <2>3. \A i \in DOMAIN commands : i >= 1 BY <2>2
  <2>4. ASSUME InChannel(r)' PROVE InChannel(s)'
    <3>1. InChannel(r) /\ r \notin N BY <1>0, <2>4
    <3>2. InChannel(s) BY <3>1 DEF QueuedInTurn
    <3>3. ASSUME s \in N PROVE FALSE
      <4>1. commands[1] = AppendCommand(s)
        <5>1. \/ N = {}
              \/ \E h \in Records : N = {h} /\ Head(commands) = AppendCommand(h)
          BY DEF Receives
        <5> QED BY <2>1, <3>3, <5>1
      <4>2. PICK i \in DOMAIN commands : commands[i] = AppendCommand(r) BY <3>1 DEF InChannel
      <4>3. i < 1 BY <2>1, <4>1, <4>2 DEF QueuedInTurn
      <4> QED BY <2>1, <2>3, <4>3
    <3> QED BY <1>0, <3>2, <3>3
  <2>5. ASSUME NEW i \in DOMAIN commands', NEW j \in DOMAIN commands',
               commands'[i] = AppendCommand(r), commands'[j] = AppendCommand(s)
        PROVE  i < j
    <3>1. i + 1 < j + 1 BY <2>1, <2>5 DEF QueuedInTurn
    <3> QED BY <2>2, <3>1
  <2> QED BY <2>4, <2>5 DEF QueuedInTurn
<1> QED BY <1>1, <1>2 DEF Receives

LEMMA ActorKeepsOrder ==
  ASSUME OrderInv, ActorNext, CustodyInv'
  PROVE  (AcceptedOnce /\ Behind /\ BuffersOrdered(actor, Ahead) /\ TasksSorted /\ Turns)'
<1>0. /\ CustodyInv /\ Shapes /\ Placed /\ HandedOver
      /\ AcceptedOnce /\ Behind /\ Turns /\ TasksSorted
  BY DEF OrderInv, AckInv, CustodyInv
<1>1. accepted' = accepted
  BY DEF ActorNext, HandleAppend, HandleFlush, HandleClosed, HandleCompleted, Wake, ClaimOk,
         ClaimRetriable, ClaimTerminal, callerVars
<1>2. Ahead' = Ahead BY <1>1 DEF Ahead
<1>3. AcceptedOnce' BY <1>0, <1>1 DEF AcceptedOnce
<1>4. /\ \A r, s \in Records : r \in Ahead[s] => s \notin Ahead[r] /\ r # s
      /\ \A r, s \in ToSet(accepted) : r # s => r \in Ahead[s] \/ s \in Ahead[r]
  BY <1>0, AheadOrders
<1>5. ASSUME NEW h \in Records, commands # <<>>, Head(commands) = AppendCommand(h),
             NEW x \in Buffered(actor), PartitionOf[x] = PartitionOf[h]
      PROVE  x \in Ahead[h]
  <2>1. InChannel(h) BY <1>0, <1>5, HeadCommand DEF InChannel
  <2>2. x \in Records BY <1>0, BufferedHome DEF Shapes
  <2>3. x # h /\ ~InChannel(x) /\ x \in ToSet(accepted) /\ h \in ToSet(accepted)
    BY <1>0, <2>1, <2>2 DEF Placed
  <2>4. ASSUME h \in Ahead[x] PROVE FALSE
    <3>1. InTurn(h, x) BY <1>0, <1>5, <2>2, <2>4 DEF Turns
    <3> QED BY <2>1, <2>3, <3>1 DEF InTurn, QueuedInTurn
  <2> QED BY <1>4, <2>3, <2>4
<1>6. PICK E : E = Ahead OBVIOUS
<1>7. Orderly(E)
  <2>1. BuffersOrdered(actor, E) BY <1>6 DEF OrderInv
  <2>2. \A h \in Records : commands # <<>> /\ Head(commands) = AppendCommand(h) =>
          \A x \in Buffered(actor) : PartitionOf[x] = PartitionOf[h] => x \in E[h]
    BY <1>5, <1>6
  <2> QED BY <1>0, <2>1, <2>2, ActorOrderly
<1>8. (BuffersOrdered(actor, Ahead))' BY <1>2, <1>6, <1>7 DEF Orderly
<1>9. TasksSorted' BY <1>0, <1>2, <1>6, <1>7 DEF Orderly, TasksSorted
<1>10. PICK N, X, T, F : Steps(N, X, T, F) BY <1>0, ActorSteps
<1>11. Moves(N, X, T) /\ Receives(N, F) BY <1>10 DEF Steps
<1>12. \A r \in Records : outcome'[r].kind = "ok" => outcome'[r] = outcome[r]
  <2>1. PICK k \in {"expired", "unsent"} :
          outcome' = [r \in Records |-> IF r \in X THEN Told(k) ELSE outcome[r]]
    BY <1>11 DEF Moves
  <2>2. Told(k).kind # "ok" BY DEF Told
  <2> QED BY <2>1, <2>2
<1>13. \A v \in tasks' : v \in tasks \/ \A p \in DOMAIN v.batch : v.res[p].kind # "ack"
  BY <1>11 DEF Moves, Fresh, Due
<1>14. Behind' BY <1>0, <1>12, <1>13 DEF Behind
<1>15. \A r : r \in N => InChannel(r) BY <1>0, <1>11, ChannelStep
<1>16. ASSUME NEW s \in Records, NEW r \in Ahead[s], PartitionOf[r] = PartitionOf[s]
       PROVE  InTurn(r, s)'
  <2>0. r \in Records BY <1>16 DEF Ahead
  <2>1. QueuedInTurn(r, s) /\ SentInTurn(r, s) BY <1>0, <1>16 DEF Turns, InTurn
  <2>2. QueuedInTurn(r, s)' BY <1>0, <1>11, <2>0, <2>1, ChannelKeepsTurn
  <2>3. ASSUME (r \in Buffered(actor))', Tasked(s)' PROVE FALSE
    <3>1. r \in Buffered(actor) \/ r \in N BY <1>11, <2>3 DEF Moves
    <3>2. ~Tasked(s)
      <4>1. CASE r \in Buffered(actor) BY <2>1, <4>1 DEF SentInTurn
      <4>2. CASE r \in N
        <5>1. InChannel(s) BY <1>15, <2>1, <4>2 DEF QueuedInTurn
        <5> QED BY <1>0, <5>1 DEF Placed, Away
      <4> QED BY <3>1, <4>1, <4>2
    <3>3. PICK v \in tasks' : \E p \in DOMAIN v.batch : s \in ToSet(v.batch[p].recs) BY <2>3 DEF Tasked
    <3>4. PICK p \in DOMAIN v.batch : s \in ToSet(v.batch[p].recs) BY <3>3
    <3>5. v \notin tasks BY <3>2, <3>4 DEF Tasked
    <3>6. TaskOK(v) /\ ActorOK(actor') BY DEF CustodyInv, Shapes
    <3>7. p \in Partitions /\ PartitionOf[r] = p BY <1>16, <3>4, <3>6, TaskRecords DEF TaskOK
    <3>8. In(actor'.open[p], actor'.pending[p], r)
      <4>1. PICK A : A = actor' OBVIOUS
      <4>2. ActorOK(A) /\ r \in Buffered(A) BY <2>3, <3>6, <4>1
      <4>3. PICK q \in Partitions : In(A.open[q], A.pending[q], r) BY <4>2, BufferedIn
      <4>4. PartitionOf[r] = q BY <4>2, <4>3, BufferedHome
      <4> QED BY <3>7, <4>1, <4>3, <4>4
    <3>9. s \in Ahead[r] BY <1>6, <1>7, <3>4, <3>5, <3>8 DEF Orderly
    <3> QED BY <1>4, <1>16, <2>0, <3>9
  <2>4. ASSUME (Carried(r) \/ Tasked(r))' PROVE Carried(r) \/ Tasked(r)
    <3>1. /\ (r \in Buffered(actor))' => r \in Buffered(actor) \/ r \in N
          /\ (r \in OnTask)' => r \in OnTask \/ r \in T
          /\ Tasked(r)' => Tasked(r) \/ r \in T
          /\ r \in T => r \in Buffered(actor) \/ r \in N
      BY <1>11 DEF Moves
    <3>2. InChannel(r)' => InChannel(r) BY <1>0, <1>11, ChannelStep
    <3> QED BY <1>15, <2>4, <3>1, <3>2 DEF Carried, InHand
  <2>5. (Carried(r) \/ Tasked(r) => outcome[s].kind # "ok")' BY <1>12, <2>1, <2>4 DEF SentInTurn
  <2>6. (outcome[r].kind = "ok" /\ outcome[s].kind = "ok" => outcome[r].off < outcome[s].off)'
    BY <1>12, <2>0, <2>1 DEF SentInTurn
  <2>7. SentInTurn(r, s)' BY <2>3, <2>5, <2>6 DEF SentInTurn
  <2> QED BY <2>2, <2>7 DEF InTurn
<1>17. Turns' BY <1>2, <1>16 DEF Turns
<1> QED BY <1>3, <1>8, <1>9, <1>14, <1>17

LEMMA CallerKeepsOrder ==
  ASSUME OrderInv, CallerNext
  PROVE  (AcceptedOnce /\ Behind /\ BuffersOrdered(actor, Ahead) /\ TasksSorted /\ Turns)'
<1>0. /\ CustodyInv /\ PendingInv /\ Shapes /\ Placed /\ HandedOver /\ ActorOK(actor)
      /\ AcceptedOnce /\ Behind /\ Turns /\ TasksSorted /\ BuffersOrdered(actor, Ahead)
  BY DEF OrderInv, AckInv, CustodyInv, Shapes
<1>1. /\ UNCHANGED <<actor, tasks, ghosts, log>>
      /\ \/ Quiet
         \/ \E r, k : Tells(r, k)
         \/ \E r : Accepts(r)
         \/ \E f : Flushing(f)
  BY <1>0, CallerIs
<1>2. \A r \in Records : outcome'[r].kind = "ok" => outcome'[r] = outcome[r]
  <2>1. ASSUME NEW x, NEW k, Tells(x, k) PROVE \A r \in Records : outcome'[r] = outcome[r] \/ outcome'[r].kind # "ok"
    <3>1. x \in Records /\ k # "ok" /\ outcome' = [outcome EXCEPT ![x] = Told(k)] BY <2>1 DEF Tells
    <3>2. \A r \in Records : outcome'[r] = outcome[r] \/ outcome'[r] = Told(k) BY <1>0, <3>1 DEF Shapes
    <3>3. Told(k).kind = k BY DEF Told
    <3> QED BY <3>1, <3>2, <3>3
  <2> QED BY <1>1, <2>1 DEF Quiet, Accepts, Flushing
<1>3. Behind' BY <1>0, <1>1, <1>2 DEF Behind
<1>4. /\ \A x : Tasked(x)' <=> Tasked(x)
      /\ \A x : (x \in Buffered(actor))' <=> x \in Buffered(actor)
      /\ \A x : InHand(x)' <=> InHand(x)
  BY <1>1 DEF Tasked, InHand, OnTask, BatchRecords
<1>5. ASSUME NEW r \in Records, NEW s \in Records, InTurn(r, s), QueuedInTurn(r, s)',
             InChannel(r)' => InChannel(r)
      PROVE  InTurn(r, s)'
  <2>1. \A x \in {r, s} : outcome'[x].kind = "ok" => outcome'[x] = outcome[x] BY <1>2
  <2>2. (Carried(r) \/ Tasked(r))' => Carried(r) \/ Tasked(r) BY <1>4, <1>5 DEF Carried
  <2>3. SentInTurn(r, s) BY <1>5 DEF InTurn
  <2>4. SentInTurn(r, s)' BY <1>4, <2>1, <2>2, <2>3, StaysSent
  <2> QED BY <1>5, <2>4 DEF InTurn
<1>6. \A s \in Records : \A r \in Ahead[s] : r \in Records BY DEF Ahead
<1>7. CASE accepted' = accepted
  <2>1. Ahead' = Ahead BY <1>7 DEF Ahead
  <2>2. AcceptedOnce' BY <1>0, <1>7 DEF AcceptedOnce
  <2>3. (BuffersOrdered(actor, Ahead))' /\ TasksSorted' BY <1>0, <1>1, <2>1 DEF TasksSorted
  <2>4. ASSUME NEW s \in Records, NEW r \in Ahead[s], PartitionOf[r] = PartitionOf[s]
        PROVE  InTurn(r, s)'
    <3>1. InTurn(r, s) /\ r \in Records /\ QueuedInTurn(r, s) BY <1>0, <1>6, <2>4 DEF Turns, InTurn
    <3>2. CASE commands' = commands
      <4>1. QueuedInTurn(r, s)' /\ (InChannel(r)' => InChannel(r)) BY <3>1, <3>2, StaysQueued DEF InChannel
      <4> QED BY <1>5, <3>1, <4>1
    <3>3. ASSUME NEW f, Flushing(f) PROVE InTurn(r, s)'
      <4>1. FlushCommand(f) \in Commands /\ commands' = Append(commands, FlushCommand(f))
        BY <3>3 DEF Flushing, Commands
      <4>2. \A x : InChannel(x)' <=> InChannel(x) BY <1>0, <4>1, ChannelAppend, CommandsDiffer
      <4>3. ASSUME NEW i \in DOMAIN commands', NEW x, commands'[i] = AppendCommand(x)
            PROVE  i \in DOMAIN commands /\ commands[i] = AppendCommand(x)
        BY <1>0, <4>1, <4>3, ChannelAppend, CommandsDiffer
      <4>4. QueuedInTurn(r, s)' BY <3>1, <4>2, <4>3 DEF QueuedInTurn
      <4> QED BY <1>5, <3>1, <4>2, <4>4
    <3>4. commands' = commands \/ \E f : Flushing(f)
      <4>1. ASSUME NEW x, Accepts(x) PROVE FALSE
        <5>1. accepted' = Append(accepted, x) /\ accepted \in Seq(Records) /\ x \in Records
          BY <1>0, <4>1 DEF Accepts, HandedOver
        <5>2. Len(accepted') = Len(accepted) + 1 /\ Len(accepted) \in Nat BY <5>1
        <5> QED BY <1>7, <5>2
      <4> QED BY <1>1, <4>1 DEF Quiet, Tells
    <3> QED BY <3>2, <3>3, <3>4
  <2>5. Turns' BY <2>1, <2>4 DEF Turns
  <2> QED BY <1>3, <2>2, <2>3, <2>5
<1>8. ASSUME NEW n, Accepts(n)
      PROVE  (AcceptedOnce /\ BuffersOrdered(actor, Ahead) /\ TasksSorted /\ Turns)'
  <2>0. /\ n \in Records /\ n \notin ToSet(accepted) /\ n \in holding /\ AppendCommand(n) \in Commands
        /\ commands' = Append(commands, AppendCommand(n)) /\ outcome' = outcome
    BY <1>8 DEF Accepts, Commands
  <2>1. /\ AcceptedOnce'
        /\ \A s \in Records : Ahead[s] \subseteq Ahead'[s]
        /\ \A x, s \in Records : x \in Ahead'[s] => x \in Ahead[s] \/ (s = n /\ x \in ToSet(accepted))
    BY <1>0, <1>8, AheadGrows
  <2>2. PICK E, G : E = Ahead /\ G = Ahead' OBVIOUS
  <2>3. (BuffersOrdered(actor, Ahead))'
    <3>1. BuffersOrdered(actor, G) BY <1>0, <2>1, <2>2, BuffersGrow
    <3> QED BY <1>1, <2>2, <3>1
  <2>4. TasksSorted'
    <3>1. ASSUME NEW t \in tasks, NEW p \in DOMAIN t.batch PROVE Sorted(t.batch[p].recs, G)
      <4>1. t.batch[p].recs \in Seq(Records) BY <1>0 DEF Shapes, TaskOK, BatchOK
      <4>2. Sorted(t.batch[p].recs, E) BY <1>0, <2>2 DEF TasksSorted
      <4> QED BY <2>1, <2>2, <4>1, <4>2, SortedGrows
    <3> QED BY <1>1, <2>2, <3>1 DEF TasksSorted
  <2> DEFINE m == Len(commands) + 1
  <2>5. /\ \A i \in DOMAIN commands' : i \in DOMAIN commands \/ i = m
        /\ \A i \in DOMAIN commands : commands'[i] = commands[i] /\ i < m
        /\ commands'[m] = AppendCommand(n)
        /\ \A x : InChannel(x)' <=> InChannel(x) \/ x = n
    BY <1>0, <2>0, ChannelAppend, CommandsDiffer
  <2> HIDE DEF m
  <2>6. ~InChannel(n) /\ ~Tasked(n) /\ n \notin Buffered(actor) BY <1>0, <2>0 DEF Placed, Away
  <2>7. \A i \in DOMAIN commands' : \A x : commands'[i] = AppendCommand(x) =>
          (x = n /\ i = m) \/ (x # n /\ i \in DOMAIN commands /\ commands[i] = AppendCommand(x))
    BY <2>5, <2>6, CommandsDiffer DEF InChannel
  <2>8. ASSUME NEW s \in Records, NEW r \in Ahead'[s], PartitionOf[r] = PartitionOf[s]
        PROVE  InTurn(r, s)'
    <3>0. r \in Records BY <2>8 DEF Ahead
    <3>1. CASE r \in Ahead[s]
      <4>1. InTurn(r, s) /\ QueuedInTurn(r, s) BY <1>0, <2>8, <3>1 DEF Turns, InTurn
      <4>2. r \in ToSet(accepted) /\ s \in ToSet(accepted) BY <1>0, <3>0, <3>1, AheadOrders
      <4>3. r # n /\ s # n BY <2>0, <4>2
      <4>4. QueuedInTurn(r, s)' /\ (InChannel(r)' => InChannel(r)) BY <2>5, <2>7, <4>1, <4>3 DEF QueuedInTurn
      <4> QED BY <1>5, <3>0, <4>1, <4>4
    <3>2. CASE s = n /\ r \in ToSet(accepted)
      <4>1. r # n BY <2>0, <3>2
      <4>2. QueuedInTurn(r, s)' BY <2>5, <2>7, <3>2, <4>1 DEF QueuedInTurn
      <4>3. outcome'[s].kind # "ok"
        <5>1. outcome[n] = Pending BY <1>0, <2>0 DEF PendingInv, Waiting
        <5> QED BY <2>0, <3>2, <5>1 DEF Pending
      <4>4. ~Tasked(s)' BY <1>4, <2>6, <3>2
      <4>5. SentInTurn(r, s)' BY <4>3, <4>4 DEF SentInTurn
      <4> QED BY <4>2, <4>5 DEF InTurn
    <3> QED BY <2>1, <2>8, <3>0, <3>1, <3>2
  <2>9. Turns' BY <2>8 DEF Turns
  <2> QED BY <2>1, <2>3, <2>4, <2>9
<1>9. (\E r : Accepts(r)) \/ accepted' = accepted BY <1>1 DEF Quiet, Tells, Flushing
<1> QED BY <1>3, <1>7, <1>8, <1>9

LEMMA OrderStep ==
  ASSUME ~Idempotent, OneIndexEach
  PROVE  OrderInv /\ [Next]_vars => OrderInv'
<1> SUFFICES ASSUME OrderInv, [Next]_vars PROVE OrderInv' OBVIOUS
<1>0. PendingInv /\ AckInv /\ CustodyInv /\ Shapes /\ \A p \in Partitions : Spanned(log[p])
  BY DEF OrderInv, AckInv, CustodyInv
<1>1. PendingInv' /\ AckInv' /\ CustodyInv' /\ \A p \in Partitions : Spanned(log'[p])
  BY <1>0, PendingStep, AckStep, SpannedStep DEF PendingInv
<1>2. SUFFICES (AcceptedOnce /\ Behind /\ BuffersOrdered(actor, Ahead) /\ TasksSorted /\ Turns)'
  BY <1>1 DEF OrderInv
<1>3. CASE CallerNext BY <1>3, CallerKeepsOrder
<1>4. CASE ActorNext BY <1>1, <1>4, ActorKeepsOrder
<1>5. CASE TaskNext \/ ClusterNext \/ DeadlinePasses \/ Stopped \/ UNCHANGED vars
  <2>1. Resolves /\ UNCHANGED <<commands, actor, accepted>> BY <1>0, <1>5, OtherResolves, OtherEffect
  <2>2. Advances \/ \E t \in tasks : Returned(t)
    <3>1. CASE TaskNext BY <1>0, <3>1, TaskAdvances DEF TaskNext
    <3>2. CASE ClusterNext \/ DeadlinePasses \/ Stopped \/ UNCHANGED vars
      <4>1. UNCHANGED <<outcome, tasks>>
        BY <3>2 DEF ClusterNext, GhostArrives, Forget, DeadlinePasses, Stopped, vars
      <4> QED BY <4>1 DEF Advances
    <3> QED BY <1>5, <3>1, <3>2
  <2> QED BY <2>1, <2>2, AdvanceKeepsOrder, ReturnKeepsOrder
<1> QED BY <1>3, <1>4, <1>5 DEF Next

(* Order.  Of two records of a partition that were both acknowledged, the  *)
(* one that was accepted first is at the lower offset: whatever batches    *)
(* close, expire, fail or are retried in between, one batch per partition  *)
(* in flight and the order of channel, buffers and batches keep a later    *)
(* record from reaching the log before an earlier one that reaches it.     *)
(* It holds of a producer that is not idempotent, when a request has no    *)
(* two partitions of the same index.                                       *)
THEOREM AcksKeepOrder ==
  ASSUME ~Idempotent, OneIndexEach
  PROVE  Spec => []AckedInOrder
<1>1. Init => OrderInv
  <2> SUFFICES ASSUME Init PROVE OrderInv OBVIOUS
  <2>1. CustodyInv /\ PendingInv BY CustodyInit, PendingInit
  <2>2. /\ accepted = <<>> /\ commands = <<>> /\ tasks = {} /\ actor = NewActor
        /\ log = [p \in Partitions |-> <<>>] /\ \A r \in Records : outcome[r] = Pending
    BY DEF Init
  <2>3. \A r \in Records : outcome[r].kind # "ok" BY <2>2 DEF Pending
  <2>4. AckInv
    <3>1. Anonymous /\ Acknowledged BY DEF Init, NewActor, Anonymous, Acknowledged
    <3> QED BY <2>1, <2>3, <3>1 DEF AckInv, AckedAtOffset
  <2>5. \A s \in Records : Ahead[s] = {} BY <2>2 DEF Ahead
  <2>6. BuffersOrdered(actor, Ahead) BY <2>2, OrderedEmpty DEF NewActor, BuffersOrdered
  <2>7. (\A p \in Partitions : Spanned(log[p])) /\ AcceptedOnce BY <2>2 DEF Spanned, AcceptedOnce
  <2> QED BY <2>1, <2>2, <2>3, <2>4, <2>5, <2>6, <2>7 DEF OrderInv, Behind, TasksSorted, Turns
<1>2. OrderInv /\ [Next]_vars => OrderInv' BY OrderStep
<1>3. OrderInv => AckedInOrder
  <2> SUFFICES ASSUME OrderInv, NEW i \in DOMAIN accepted, NEW j \in DOMAIN accepted, i < j,
                      PartitionOf[accepted[i]] = PartitionOf[accepted[j]],
                      outcome[accepted[i]].kind = "ok", outcome[accepted[j]].kind = "ok"
               PROVE  outcome[accepted[i]].off < outcome[accepted[j]].off
    BY DEF AckedInOrder
  <2>1. accepted[i] \in Records /\ accepted[j] \in Records BY DEF OrderInv, PendingInv, CustodyInv, HandedOver
  <2>2. accepted[i] \in Ahead[accepted[j]] BY <2>1 DEF Ahead
  <2> QED BY <2>1, <2>2 DEF OrderInv, Turns, InTurn, SentInTurn
<1> QED BY <1>1, <1>2, <1>3, PTL DEF Spec
=============================================================================

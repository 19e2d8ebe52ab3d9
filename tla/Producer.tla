------------------------------ MODULE Producer ------------------------------
(***************************************************************************)
(* The producer of crates/kafka-produce: callers that hand over records    *)
(* and flush (accumulator.rs, Accumulator), the actor that batches them    *)
(* (accumulator.rs, Actor), the send tasks it spawns (send_group, and      *)
(* dispatch.rs), and the partition logs they write to (PartitionLog).      *)
(* Transactions are not part of it: `transactions` is None.                *)
(***************************************************************************)
EXTENDS Accumulator, PartitionLog

CONSTANTS
  CommandQueue,  \* COMMAND_QUEUE, how many commands may queue
  MaxAttempts,   \* config.retry.max_attempts
  Leaders,       \* what a metadata snapshot may name as leader (or no leader)
  Flushes,       \* flush calls
  Unencodable,   \* records whose batch the encoder refuses
  Cancels,       \* records whose caller may drop its append
  Verdicts,      \* error classes the cluster may answer a batch with
  Failures,      \* how a request may fail without an answer
  MaxLosses,     \* bound on requests that fail without an answer
  MaxForgets,    \* bound on how often a broker forgets producer ids
  DeadlinesPass  \* whether delivery deadlines pass in a behaviour

(* Error classes, by the two axes that error.rs and error_code.rs give them *)
(* and that the retry rule reads:                                           *)
(*   "Moved"  retriable, refreshes metadata (NOT_LEADER_OR_FOLLOWER, ...)   *)
(*   "Busy"   retriable (CORRUPT_MESSAGE, NOT_ENOUGH_REPLICAS, ...)         *)
(*   "Fatal"  not retriable (MESSAGE_TOO_LARGE, an authorization, ...)      *)
(*   "AfterAppend"  NOT_ENOUGH_REPLICAS_AFTER_APPEND: retriable             *)
(*   "OutOfOrder", "UnknownPid"  not retriable, invalidate producer state   *)
(*   "Closed"  ConnectionClosed or Transport: retriable, refreshes          *)
(*   "Timeout" retriable; "Unreadable" Decode; "Unanswered" the partition   *)
(*             is missing from the response: the last two not retriable     *)
VerdictClasses == {"Moved", "Busy", "Fatal", "AfterAppend", "Unanswered"}
FailureClasses == {"Closed", "Timeout", "Unreadable"}

retriable_error(err) == err \in {"Moved", "Busy", "AfterAppend", "Closed", "Timeout"}
needs_metadata_refresh(err) == err \in {"Moved", "Closed"}
invalidates_producer_state(err) == err \in {"OutOfOrder", "UnknownPid"}

ASSUME FaultsAssumption ==
  /\ CommandQueue \in Nat \ {0} /\ MaxAttempts \in Nat \ {0}
  /\ MaxLosses \in Nat /\ MaxForgets \in Nat /\ DeadlinesPass \in BOOLEAN
  /\ Verdicts \subseteq VerdictClasses /\ Failures \subseteq FailureClasses
  /\ Unencodable \subseteq Records /\ Cancels \subseteq Records
  /\ Leaders # {}

VARIABLES
  submitted,    \* records 1..submitted have been handed to append
  waiters,      \* records waiting for permits, oldest first
  holding,      \* records with permits, waiting for room in the queue
  free,         \* permits the semaphore has left
  commands,     \* the command channel
  outcome,      \* what each record's caller was told
  flush,        \* "idle", "queued", "waiting" or "done", per flush call
  handles,      \* whether a Producer handle is left
  overdue,      \* the deadlines of records 1..overdue have passed
  actor,        \* the actor's batching state
  pc,           \* "select", "claim" (awaiting init_producer_id), "stopped"
  closing,      \* the actor saw the last handle go
  issued,       \* producer ids the cluster has issued
  tasks,        \* send tasks running
  completions,  \* the completions channel
  log,          \* each partition's log
  forgotten,    \* and how much of it producer-id memory no longer covers
  ghosts,       \* batches of unanswered requests, which may still arrive
  losses,
  forgets,
  accepted,     \* history: records in the order they entered the channel
  covers        \* history: the records accepted before each flush

callerVars == <<submitted, waiters, holding, handles, accepted, covers>>
actorVars  == <<actor, pc, closing, issued>>
brokerVars == <<log, forgotten, ghosts, losses, forgets>>
vars == <<callerVars, free, commands, outcome, flush, overdue, actorVars,
          tasks, completions, brokerVars>>

-----------------------------------------------------------------------------
(* Outcomes and messages *)

Pending      == [kind |-> "pending", off |-> -1]
Told(kind)   == [kind |-> kind, off |-> -1]
Acked(off)   == [kind |-> "ok", off |-> off]

OutcomeKinds == {"pending", "refused", "cancelled", "expired", "unsent",
                 "rejected", "ambiguous"}

AppendCommand(r) == [type |-> "append", id |-> r]
FlushCommand(f)  == [type |-> "flush", id |-> f]

\* The permits a set of records holds.
Permits(R) == MapThenSumSet(LAMBDA r : Size[r], R)

\* Queued::resolve: tell the callers and, with the record, drop its permit.
Resolve(results) ==
  /\ outcome' = [r \in Records |-> IF r \in DOMAIN results THEN results[r] ELSE outcome[r]]
  /\ free' = free + Permits(DOMAIN results)

Init ==
  /\ submitted = 0 /\ waiters = <<>> /\ holding = {} /\ free = BufferMemory
  /\ commands = <<>> /\ outcome = [r \in Records |-> Pending]
  /\ flush = [f \in Flushes |-> "idle"] /\ handles = TRUE /\ overdue = 0
  /\ actor = NewActor /\ pc = "select" /\ closing = FALSE /\ issued = 0
  /\ tasks = {} /\ completions = {}
  /\ log = [p \in Partitions |-> <<>>] /\ forgotten = [p \in Partitions |-> 0]
  /\ ghosts = {} /\ losses = 0 /\ forgets = 0
  /\ accepted = <<>> /\ covers = [f \in Flushes |-> {}]

-----------------------------------------------------------------------------
(* Callers *)

RecordLimit == Min({MaxRequest, BufferMemory})

\* Accumulator::append up to the permit: refuse an impossible record, and
\* wait for permits behind whoever waits already.
Submit ==
  /\ handles /\ submitted < NumRecords
  /\ submitted' = submitted + 1
  /\ IF Size[submitted'] > RecordLimit
     THEN /\ outcome' = [outcome EXCEPT ![submitted'] = Told("refused")]
          /\ UNCHANGED waiters
     ELSE /\ waiters' = Append(waiters, submitted')
          /\ UNCHANGED outcome
  /\ UNCHANGED <<holding, handles, accepted, covers, free, commands, flush,
                 overdue, actorVars, tasks, completions, brokerVars>>

AcquirePermit ==
  /\ waiters # <<>> /\ free >= Size[Head(waiters)]
  /\ waiters' = Tail(waiters)
  /\ holding' = holding \cup {Head(waiters)}
  /\ free' = free - Size[Head(waiters)]
  /\ UNCHANGED <<submitted, handles, accepted, covers, commands, outcome,
                 flush, overdue, actorVars, tasks, completions, brokerVars>>

\* The semaphore's queue without one of its waiters.
StopWaiting(r) == Retain(waiters, {i \in DOMAIN waiters : waiters[i] # r})

\* timeout_at over the wait for a permit.
PermitTimeout(r) ==
  /\ r \in ToSet(waiters) /\ r <= overdue
  /\ waiters' = StopWaiting(r)
  /\ outcome' = [outcome EXCEPT ![r] = Told("expired")]
  /\ UNCHANGED <<submitted, holding, handles, accepted, covers, free, commands,
                 flush, overdue, actorVars, tasks, completions, brokerVars>>

Enqueue(r) ==
  /\ r \in holding /\ Len(commands) < CommandQueue
  /\ holding' = holding \ {r}
  /\ commands' = Append(commands, AppendCommand(r))
  /\ accepted' = Append(accepted, r)
  /\ UNCHANGED <<submitted, waiters, handles, covers, free, outcome, flush,
                 overdue, actorVars, tasks, completions, brokerVars>>

CancelKeepsPermit(r) ==
  /\ r \in Cancels /\ r \in holding
  /\ holding' = holding \ {r}
  /\ outcome' = [outcome EXCEPT ![r] = Told("cancelled")]
  /\ UNCHANGED <<submitted, waiters, handles, accepted, covers, free, commands,
                 flush, overdue, actorVars, tasks, completions, brokerVars>>

\* The caller drops its future before the record was accepted.
CancelAppend(r) ==
  /\ r \in Cancels
  /\ \/ /\ r \in ToSet(waiters)
        /\ waiters' = StopWaiting(r)
        /\ UNCHANGED <<holding, free>>
     \/ /\ r \in holding
        /\ holding' = holding \ {r}
        /\ free' = free + Size[r]
        /\ UNCHANGED waiters
  /\ outcome' = [outcome EXCEPT ![r] = Told("cancelled")]
  /\ UNCHANGED <<submitted, handles, accepted, covers, commands, flush,
                 overdue, actorVars, tasks, completions, brokerVars>>

CallFlush(f) ==
  /\ handles /\ flush[f] = "idle" /\ Len(commands) < CommandQueue
  /\ flush' = [flush EXCEPT ![f] = "queued"]
  /\ commands' = Append(commands, FlushCommand(f))
  /\ covers' = [covers EXCEPT ![f] = ToSet(accepted)]
  /\ UNCHANGED <<submitted, waiters, holding, handles, accepted, free, outcome,
                 overdue, actorVars, tasks, completions, brokerVars>>

\* Every append and flush borrows a handle, so the last one goes after them.
DropHandles ==
  /\ handles /\ waiters = <<>> /\ holding = {}
  /\ \A f \in Flushes : flush[f] \in {"idle", "done"}
  /\ handles' = FALSE
  /\ UNCHANGED <<submitted, waiters, holding, accepted, covers, free, commands,
                 outcome, flush, overdue, actorVars, tasks, completions,
                 brokerVars>>

\* Time: the oldest deadline still ahead passes (the ones of records that
\* were resolved before theirs pass unnoticed).
DeadlinePasses ==
  LET ahead == {r \in (overdue + 1)..submitted : outcome[r] = Pending} IN
  /\ DeadlinesPass /\ ahead # {}
  /\ overdue' = Min(ahead)
  /\ UNCHANGED <<callerVars, free, commands, outcome, flush, actorVars, tasks,
                 completions, brokerVars>>

-----------------------------------------------------------------------------
(* The actor.  One turn of `run` is one event, then expire_overdue,         *)
(* ensure_identity, dispatch_ready and settle_flushes (forget_idle only     *)
(* drops map entries that read as the default).  Its only await is the      *)
(* claim of a producer id: a turn that needs one stops at pc = "claim".     *)

Due == [kind |-> "due", err |-> "none", off |-> -1]

\* The send tasks dispatch_ready spawns: one per leader the snapshot names.
Spawned(A, leader) ==
  {[batch   |-> [p \in G |-> Stamped(A, p)],
    live    |-> G,
    res     |-> [p \in G |-> Due],
    attempt |-> 0] :
   G \in {{q \in Ready(A) : leader[q] = leader[p]} : p \in Ready(A)}}

settle_flushes(A, F) ==
  IF is_idle(A)
  THEN [f \in Flushes |-> IF F[f] = "waiting" THEN "done" ELSE F[f]]
  ELSE F

\* The turn from dispatch_ready on.  A, F and C are the actor, the flush
\* calls and `closing` as the turn has left them so far.
Proceed(A, F, C) ==
  \E leader \in [Ready(A) -> Leaders] :
    LET B == dispatch_ready(A) IN
    /\ actor' = B
    /\ tasks' = tasks \cup Spawned(A, leader)
    /\ flush' = settle_flushes(B, F)
    /\ closing' = C
    /\ pc' = IF C /\ is_idle(B) THEN "stopped" ELSE "select"

\* The turn after its event.
Turn(A, F, C) ==
  LET B == expire_overdue(A, overdue) IN
  /\ Resolve([r \in Overdue(A, overdue) |-> Told("expired")])
  /\ IF blocked_on_identity(B)
     THEN /\ actor' = B /\ pc' = "claim" /\ flush' = F /\ closing' = C
          /\ UNCHANGED tasks
     ELSE Proceed(B, F, C)
  /\ UNCHANGED issued

HandleAppend ==
  /\ pc = "select" /\ ~closing /\ commands # <<>>
  /\ Head(commands).type = "append"
  /\ commands' = Tail(commands)
  /\ Turn(append(actor, Head(commands).id), flush, closing)
  /\ UNCHANGED <<callerVars, overdue, completions, brokerVars>>

HandleFlush ==
  /\ pc = "select" /\ ~closing /\ commands # <<>>
  /\ Head(commands).type = "flush"
  /\ commands' = Tail(commands)
  /\ Turn(close_all(actor), [flush EXCEPT ![Head(commands).id] = "waiting"],
          closing)
  /\ UNCHANGED <<callerVars, overdue, completions, brokerVars>>

\* recv returns None: the handles are gone and the channel is drained.
HandleClosed ==
  /\ pc = "select" /\ ~closing /\ commands = <<>> /\ ~handles
  /\ Turn(close_all(actor), flush, TRUE)
  /\ UNCHANGED <<callerVars, commands, overdue, completions, brokerVars>>

HandleCompleted(c) ==
  /\ pc = "select" /\ c \in completions
  /\ completions' = completions \ {c}
  /\ Turn(settle(actor, c), flush, closing)
  /\ UNCHANGED <<callerVars, commands, overdue, brokerVars>>

WakeIgnoringIdentity(lingered) ==
  /\ pc = "select"
  /\ lingered \subseteq {p \in Partitions : actor.open[p] # <<>>}
  /\ lingered # {} \/ Overdue(actor, overdue) # {}
  /\ Turn(close_expired(actor, lingered), flush, closing)
  /\ UNCHANGED <<callerVars, commands, overdue, completions, brokerVars>>

\* The sleep until next_deadline ends: the linger of some open batches, the
\* identity retry delay, or the delivery deadline of a buffered record.
Wake(lingered) ==
  /\ pc = "select"
  /\ lingered \subseteq {p \in Partitions : actor.open[p] # <<>>}
  /\ \/ lingered # {}
     \/ blocked_on_identity(actor)
     \/ Overdue(actor, overdue) # {}
  /\ Turn(close_expired(actor, lingered), flush, closing)
  /\ UNCHANGED <<callerVars, commands, overdue, completions, brokerVars>>

ClaimOk ==
  /\ pc = "claim"
  /\ issued' = issued + 1
  /\ Proceed([actor EXCEPT !.identity = issued + 1], flush, closing)
  /\ UNCHANGED <<callerVars, free, commands, outcome, overdue, completions,
                 brokerVars>>

ClaimRetriable ==
  /\ pc = "claim" /\ "Busy" \in Verdicts
  /\ Proceed(actor, flush, closing)
  /\ UNCHANGED <<callerVars, free, commands, outcome, overdue, issued,
                 completions, brokerVars>>

ClaimTerminal ==
  /\ pc = "claim" /\ "Fatal" \in Verdicts
  /\ Resolve([r \in Buffered(actor) |-> Told("unsent")])
  /\ Proceed(fail_buffered(actor), flush, closing)
  /\ UNCHANGED <<callerVars, commands, overdue, issued, completions,
                 brokerVars>>

-----------------------------------------------------------------------------
(* Send tasks: send_group and Dispatcher::dispatch.  `live` is the batches  *)
(* of the round, `res` what is known of every batch so far.                 *)

Failed(t, p) == t.res[p].kind \in {"unencodable", "rejected", "ambiguous"}

BatchRecords(t, S) == UNION {ToSet(t.batch[p].recs) : p \in S}

VerdictOffByOne(t, r) ==
  LET p   == PartitionOf[r]
      res == t.res[p]
      i   == CHOOSE i \in DOMAIN t.batch[p].recs : t.batch[p].recs[i] = r
  IN  IF res.kind = "ack" THEN Acked(res.off + i) ELSE Told(res.kind)

\* What send_group tells the caller of record r.
Verdict(t, r) ==
  LET p   == PartitionOf[r]
      res == t.res[p]
      i   == CHOOSE i \in DOMAIN t.batch[p].recs : t.batch[p].recs[i] = r
  IN  CASE res.kind = "ack"         -> Acked(res.off + i - 1)
        [] res.kind = "unencodable" -> Told("unsent")
        [] OTHER                    -> Told(res.kind)

CompletedKeeping(t) ==
  [parts    |-> DOMAIN t.batch,
   released |-> <<>>,
   reset    |-> \E p \in DOMAIN t.batch : invalidates_producer_state(t.res[p].err)]

Completed(t) ==
  [parts    |-> DOMAIN t.batch,
   released |-> [p \in {q \in DOMAIN t.batch :
                          Failed(t, q) /\ t.batch[q].pid # NoIdentity} |->
                   t.batch[p].base],
   reset    |-> \E p \in DOMAIN t.batch : invalidates_producer_state(t.res[p].err)]

\* Encode every batch; a batch that cannot be encoded fails its own records.
Encode(t) ==
  /\ t \in tasks /\ t.attempt = 0
  /\ LET bad == {p \in t.live : ToSet(t.batch[p].recs) \cap Unencodable # {}}
         u   == [t EXCEPT !.live = @ \ bad, !.attempt = 1,
                          !.res = [p \in DOMAIN @ |->
                             IF p \in bad
                             THEN [kind |-> "unencodable", err |-> "none", off |-> -1]
                             ELSE Due]]
     IN  /\ Resolve([r \in BatchRecords(t, bad) |-> Told("unsent")])
         /\ tasks' = (tasks \ {t}) \cup (IF u.live = {} THEN {} ELSE {u})
         /\ completions' = IF u.live = {} THEN completions \cup {Completed(u)}
                                          ELSE completions
  /\ UNCHANGED <<callerVars, commands, flush, overdue, actorVars, brokerVars>>

\* The batches of the round that have no result yet.
Unanswered(t) == {p \in t.live : t.attempt > 0 /\ t.res[p] = Due}

WithResults(t, G, result) ==
  (tasks \ {t}) \cup
  {[t EXCEPT !.res = [p \in DOMAIN @ |-> IF p \in G THEN result[p] ELSE @[p]]]}

\* Routing, negotiation, the request's construction or the connection failed
\* for the batches G: nothing was sent.
RouteFails(t, G) ==
  /\ t \in tasks /\ G \subseteq Unanswered(t) /\ G # {}
  /\ \E err \in Verdicts \cap {"Moved", "Busy", "Fatal"} :
       tasks' = WithResults(t, G,
                  [p \in G |-> [kind |-> "rejected", err |-> err, off |-> -1]])
  /\ UNCHANGED <<callerVars, free, commands, outcome, flush, overdue,
                 actorVars, completions, brokerVars>>

\* What the broker may answer one batch with, and whether it appends it.
Answers(p, b) ==
  LET fresh == MayAppend(log[p], forgotten[p], b)
      dup   == IsDuplicate(log[p], forgotten[p], b)
      no(err) == [kind |-> "rejected", err |-> err, off |-> -1]
  IN  {[res |-> no(err), append |-> FALSE] :
         err \in Verdicts \cap {"Moved", "Busy", "Fatal"}}
      \cup {[res |-> no(err), append |-> fresh] :
         err \in {e \in Verdicts \cap {"AfterAppend"} : fresh \/ dup}}
      \cup {[res |-> no(Refusal(log[p], forgotten[p], b)), append |-> FALSE] :
         x \in {y \in {1} : MayRefuse(log[p], forgotten[p], b)}}
      \cup {[res |-> [kind |-> "ack", err |-> "none",
                      off |-> BaseOffset(log[p], forgotten[p], b)],
             append |-> fresh] : x \in {y \in {1} : fresh \/ dup}}
      \cup {[res |-> [kind |-> "ambiguous", err |-> "Unanswered", off |-> -1],
             append |-> a] :
         a \in {x \in BOOLEAN : "Unanswered" \in Verdicts /\ (x => fresh)}}

\* read_response: answers are kept and looked up by partition index, `kept`
\* being the one the response lists last for each index.
read_response(G, ans, kept) ==
  [p \in G |->
     IF p[2] \in DOMAIN kept THEN ans[kept[p[2]]].res
     ELSE [kind |-> "ambiguous", err |-> "Unanswered", off |-> -1]]

\* One request carries the batches G to their leader, which answers.
Respond(t, G) ==
  /\ t \in tasks /\ G \subseteq Unanswered(t) /\ G # {}
  /\ \E ans \in [G -> UNION {Answers(p, t.batch[p]) : p \in G}] :
       LET answered == {p \in G : ans[p].res.err # "Unanswered"} IN
       /\ \A p \in G : ans[p] \in Answers(p, t.batch[p])
       /\ \E kept \in [{p[2] : p \in answered} -> answered] :
            /\ \A i \in DOMAIN kept : kept[i][2] = i
            /\ tasks' = WithResults(t, G, read_response(G, ans, kept))
       /\ log' = [p \in Partitions |->
                    IF p \in G /\ ans[p].append
                    THEN AppendBatch(log[p], t.batch[p]) ELSE log[p]]
  /\ UNCHANGED <<callerVars, free, commands, outcome, flush, overdue,
                 actorVars, completions, forgotten, ghosts, losses, forgets>>

LoseAsRejected(t, G) ==
  /\ t \in tasks /\ G \subseteq Unanswered(t) /\ G # {}
  /\ losses < MaxLosses
  /\ losses' = losses + 1
  /\ ghosts' = ghosts \cup {[part |-> p, batch |-> t.batch[p]] : p \in G}
  /\ \E err \in Failures :
       tasks' = WithResults(t, G,
                  [p \in G |-> [kind |-> "rejected", err |-> err, off |-> -1]])
  /\ UNCHANGED <<callerVars, free, commands, outcome, flush, overdue,
                 actorVars, completions, log, forgotten, forgets>>

\* The request is on the wire and no answer comes back; whether and when the
\* broker handles it is unknown.
LoseRequest(t, G) ==
  /\ t \in tasks /\ G \subseteq Unanswered(t) /\ G # {}
  /\ losses < MaxLosses
  /\ losses' = losses + 1
  /\ ghosts' = ghosts \cup {[part |-> p, batch |-> t.batch[p]] : p \in G}
  /\ \E err \in Failures :
       tasks' = WithResults(t, G,
                  [p \in G |-> [kind |-> "ambiguous", err |-> err, off |-> -1]])
  /\ UNCHANGED <<callerVars, free, commands, outcome, flush, overdue,
                 actorVars, completions, log, forgotten, forgets>>

\* Attempt::retriable.  `inTime` is whether coordinator_timeout has not run
\* out; the earliest deadline of a batch is its lowest record's.
retriable(t, p, inTime) ==
  LET res == t.res[p] IN
  /\ overdue < Min(ToSet(t.batch[p].recs))
  /\ retriable_error(res.err)
  /\ IF needs_metadata_refresh(res.err) THEN inTime ELSE t.attempt < MaxAttempts
  /\ res.kind = "ambiguous" => Idempotent

\* The round is over: retry what may be retried, or return every result.
Judge(t) ==
  /\ t \in tasks /\ t.attempt > 0 /\ Unanswered(t) = {}
  /\ \E inTime \in BOOLEAN :
       LET retry == {p \in t.live : Failed(t, p) /\ retriable(t, p, inTime)} IN
       \/ /\ retry # {}
          /\ tasks' = (tasks \ {t}) \cup
               {[t EXCEPT !.live = retry,
                          !.res = [p \in DOMAIN @ |->
                                     IF p \in retry THEN Due ELSE @[p]],
                          !.attempt = Min({@ + 1, MaxAttempts})]}
          /\ UNCHANGED <<free, outcome, completions>>
       \/ /\ retry = {}
          /\ Resolve([r \in BatchRecords(t, {p \in DOMAIN t.batch : t.res[p].kind # "unencodable"}) |->
                        Verdict(t, r)])
          /\ tasks' = tasks \ {t}
          /\ completions' = completions \cup {Completed(t)}
  /\ UNCHANGED <<callerVars, commands, flush, overdue, actorVars, brokerVars>>

-----------------------------------------------------------------------------
(* The cluster, on its own *)

\* A request nobody waits for any more reaches the broker.
GhostArrives(g) ==
  /\ g \in ghosts
  /\ ghosts' = ghosts \ {g}
  /\ log' = [log EXCEPT ![g.part] =
               IF MayAppend(@, forgotten[g.part], g.batch)
               THEN AppendBatch(@, g.batch) ELSE @]
  /\ UNCHANGED <<callerVars, free, commands, outcome, flush, overdue,
                 actorVars, tasks, completions, forgotten, losses, forgets>>

\* Producer-id memory expires on a partition.
Forget(p) ==
  /\ forgets < MaxForgets /\ forgotten[p] < Len(log[p])
  /\ forgets' = forgets + 1
  /\ forgotten' = [forgotten EXCEPT ![p] = Len(log[p])]
  /\ UNCHANGED <<callerVars, free, commands, outcome, flush, overdue,
                 actorVars, tasks, completions, log, ghosts, losses>>

\* The actor has stopped, and nobody can ask anything of it.
Stopped == pc = "stopped" /\ UNCHANGED vars

CallerNext ==
  \/ Submit \/ AcquirePermit \/ DropHandles
  \/ \E r \in Records : PermitTimeout(r) \/ Enqueue(r) \/ CancelAppend(r)
  \/ \E f \in Flushes : CallFlush(f)

ActorNext ==
  \/ HandleAppend \/ HandleFlush \/ HandleClosed
  \/ \E c \in completions : HandleCompleted(c)
  \/ \E lingered \in SUBSET Partitions : Wake(lingered)
  \/ ClaimOk \/ ClaimRetriable \/ ClaimTerminal

TaskStep(t) ==
  \/ Encode(t) \/ Judge(t)
  \/ \E G \in SUBSET t.live :
       RouteFails(t, G) \/ Respond(t, G) \/ LoseRequest(t, G)

TaskNext == \E t \in tasks : TaskStep(t)

ClusterNext ==
  \/ \E g \in ghosts : GhostArrives(g)
  \/ \E p \in Partitions : Forget(p)

Next == CallerNext \/ ActorNext \/ TaskNext \/ ClusterNext \/ DeadlinePasses \/ Stopped

Spec == Init /\ [][Next]_vars

(* Fairness.  A task that can run is polled again: callers with what they   *)
(* wait for, send tasks, and an awaited claim (whose calls have timeouts).  *)
(* `select!` picks at random between the branches that are                  *)
(* ready, so a branch that is ready again and again is taken: strong        *)
(* fairness, because a turn that awaits a claim disables all of them.       *)
ClaimSettles == ClaimOk \/ ClaimRetriable \/ ClaimTerminal

Fairness ==
  /\ WF_vars(AcquirePermit)
  /\ \A r \in Records : WF_vars(PermitTimeout(r)) /\ WF_vars(Enqueue(r))
  /\ SF_vars(HandleAppend \/ HandleFlush \/ HandleClosed)
  /\ SF_vars(\E c \in completions : HandleCompleted(c))
  /\ \A p \in Partitions :
       SF_vars(\E lingered \in SUBSET Partitions : p \in lingered /\ Wake(lingered))
  /\ SF_vars(Wake({}))
  /\ WF_vars(ClaimSettles)
  /\ \A p \in Partitions :
       WF_vars(\E t \in tasks : p \in DOMAIN t.batch /\ TaskStep(t))

\* And either the clock reaches the records' deadlines, or the cluster grants
\* a producer id if it is asked for one again and again.
FairSpec == Spec /\ Fairness /\ (WF_vars(DeadlinePasses) \/ SF_vars(ClaimOk))

-----------------------------------------------------------------------------
(* Properties *)

Batches(t) == {t.batch[p] : p \in DOMAIN t.batch}

BatchType == [recs : Seq(Records), pid : Nat, base : Nat]

ResultType ==
  [kind : {"due", "ack", "rejected", "ambiguous", "unencodable"},
   err  : VerdictClasses \cup FailureClasses \cup {"OutOfOrder", "UnknownPid", "none"},
   off  : Int]

\* The types of the variables.
TypeOK ==
  /\ submitted \in 0..NumRecords /\ waiters \in Seq(Records)
  /\ holding \subseteq Records /\ free \in 0..BufferMemory
  /\ \A i \in DOMAIN commands :
       commands[i] \in {AppendCommand(r) : r \in Records}
                      \cup {FlushCommand(f) : f \in Flushes}
  /\ \A r \in Records : \/ outcome[r] \in {Told(k) : k \in OutcomeKinds}
                         \/ (outcome[r].kind = "ok" /\ outcome[r].off \in Nat)
  /\ flush \in [Flushes -> {"idle", "queued", "waiting", "done"}]
  /\ handles \in BOOLEAN /\ closing \in BOOLEAN /\ overdue \in 0..NumRecords
  /\ actor.open \in [Partitions -> Seq(Records)]
  /\ actor.pending \in [Partitions -> Seq(Seq(Records))]
  /\ actor.inflight \subseteq Partitions
  /\ actor.next \in [Partitions -> Nat] /\ actor.identity \in Nat
  /\ pc \in {"select", "claim", "stopped"} /\ issued \in Nat
  /\ \A t \in tasks :
       /\ DOMAIN t.batch \subseteq Partitions /\ DOMAIN t.batch = DOMAIN t.res
       /\ t.live \subseteq DOMAIN t.batch /\ t.attempt \in 0..MaxAttempts
       /\ \A p \in DOMAIN t.batch : /\ t.batch[p] \in BatchType
                                    /\ t.res[p] \in ResultType
  /\ \A c \in completions :
       /\ c.parts \subseteq Partitions /\ DOMAIN c.released \subseteq c.parts
       /\ c.reset \in BOOLEAN

\* At most one batch per partition is on the wire: no two send tasks, no two
\* completions, and no task and completion, are responsible for the same
\* partition, and in_flight is set for exactly the partitions one of them is
\* responsible for (the accumulator's in-flight rule).
OneBatchPerPartition ==
  /\ \A t, u \in tasks : t # u => DOMAIN t.batch \cap DOMAIN u.batch = {}
  /\ \A c, d \in completions : c # d => c.parts \cap d.parts = {}
  /\ \A t \in tasks, c \in completions : DOMAIN t.batch \cap c.parts = {}
  /\ actor.inflight = (UNION {DOMAIN t.batch : t \in tasks})
                      \cup (UNION {c.parts : c \in completions})

\* Records between the permit and their result.
Held ==
  holding \cup {r \in ToSet(accepted) : outcome[r] = Pending}

\* The buffer bound is real: the permits that are out are exactly those of
\* the records whose result is outstanding, so none leaks on any path.
PermitsConserved == free + Permits(Held) = BufferMemory

Queued == {commands[i].id : i \in {j \in DOMAIN commands : commands[j].type = "append"}}

\* Where the accumulator keeps a record that was accepted and not resolved.
OnTask == UNION {BatchRecords(t, {p \in DOMAIN t.batch :
                           t.res[p].kind # "unencodable"}) : t \in tasks}

\* Every accepted record is either resolved or in exactly one of the command
\* channel, the actor's batches and the send tasks: none is dropped, and none
\* is resolved while a batch still carries it.
NothingLost ==
  LET outstanding == {r \in ToSet(accepted) : outcome[r] = Pending} IN
  /\ outstanding = Queued \cup Buffered(actor) \cup OnTask
  /\ Queued \cap (Buffered(actor) \cup OnTask) = {}
  /\ Buffered(actor) \cap OnTask = {}

\* An acknowledged record is in its partition's log, at the offset its caller
\* was given.
AckedAtOffset ==
  \A r \in Records : outcome[r].kind = "ok" =>
    IsAt(log[PartitionOf[r]], r, outcome[r].off)

\* The acknowledged records of a partition are in its log in the order in
\* which they were accepted.
AckedInOrder ==
  \A i, j \in DOMAIN accepted :
    LET r == accepted[i]  s == accepted[j] IN
    /\ i < j /\ PartitionOf[r] = PartitionOf[s]
    /\ outcome[r].kind = "ok" /\ outcome[s].kind = "ok"
    => outcome[r].off < outcome[s].off

\* No record is in the log twice, unless the broker forgot what it knew of the
\* producer and with it how to tell a second copy.
NoDuplicate ==
  forgets = 0 => \A r \in Records : Copies(log[PartitionOf[r]], r) <= 1

\* A record whose caller was told that it was rejected, that it expired or
\* that it could not be sent is not in the log, and no request that could
\* still put it there is under way.
FailedMeansNotWritten ==
  \A r \in Records :
    outcome[r].kind \in {"refused", "cancelled", "expired", "unsent", "rejected"} =>
      /\ r \notin RecordsIn(log[PartitionOf[r]])
      /\ \A g \in ghosts : r \notin ToSet(g.batch.recs)

\* When a flush returns, every record accepted before it has been resolved.
FlushCovers ==
  \A f \in Flushes : flush[f] = "done" =>
    \A r \in covers[f] : outcome[r] # Pending

\* The batches of one partition, oldest first, that the actor still has.
Buffers(p) == actor.pending[p] \o (IF actor.open[p] = <<>> THEN <<>> ELSE <<actor.open[p]>>)

\* No batch of several records is larger than batch_size or max_request_size,
\* also after records of it expired, and no batch is empty.
BatchesWithinBounds ==
  LET fine(b) == /\ b # <<>>
                 /\ Len(b) > 1 => Bytes(b) <= BatchSize /\ Bytes(b) <= MaxRequest
  IN  /\ \A p \in Partitions : \A i \in DOMAIN Buffers(p) : fine(Buffers(p)[i])
      /\ \A t \in tasks : \A b \in Batches(t) : fine(b.recs)

\* Records whose caller was told of a failure, while the record is in the log
\* or on its way there: a send whose outcome was unknown was given up.
InDoubt ==
  {r \in Records : /\ outcome[r].kind \notin {"pending", "ok"}
                   /\ \/ r \in RecordsIn(log[PartitionOf[r]])
                      \/ \E g \in ghosts : r \in ToSet(g.batch.recs)}

\* The broker never sees a hole, as long as it has not forgotten the producer
\* and no send of unknown outcome was given up: a batch on its way under a
\* producer id either carries the next sequence number of its partition or is
\* in the log already.
NoSequenceGap ==
  InDoubt = {} /\ forgets = 0 =>
    \A t \in tasks : \A p \in t.live :
      LET b == t.batch[p] IN
      b.pid # NoIdentity =>
        \/ IsDuplicate(log[p], 0, b)
        \/ IF Known(log[p], 0, b) THEN InSequence(log[p], 0, b) ELSE b.base = 0

\* Every record handed over is resolved, one way or another.
EveryRecordResolved ==
  \A r \in Records : r <= submitted ~> outcome[r] # Pending

\* Every flush returns.
FlushReturns == \A f \in Flushes : flush[f] = "queued" ~> flush[f] = "done"

\* Once the last handle is gone the actor drains and stops.
DrainsAndStops == ~handles ~> pc = "stopped"

\* The buffer is accounted for on every path: permits and records, and the
\* bounds of the batches they wait in (the types come with them).
BufferAccounted == TypeOK /\ PermitsConserved /\ NothingLost /\ BatchesWithinBounds

\* Whatever is lost or refused, everything comes to an end: sends, flushes and,
\* after the last handle is dropped, the actor.
SendsEnd == EveryRecordResolved /\ FlushReturns /\ DrainsAndStops
=============================================================================

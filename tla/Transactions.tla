---------------------------- MODULE Transactions ----------------------------
(***************************************************************************)
(* A transactional producer: crates/kafka-produce/src/transactions.rs, the *)
(* calls of producer.rs that drive it, and the part of the accumulator's   *)
(* actor that reads it (ensure_identity, ensure_enrolled, dispatch_ready). *)
(*                                                                         *)
(* The state of Transactions is behind a mutex that two tasks take: the    *)
(* application's and the actor's.  An action is what a task does from one  *)
(* acquisition of the mutex, or one await, to the next.                    *)
(*                                                                         *)
(* Batching is Accumulator's subject; here a batch is one record, as with  *)
(* a linger of zero.  An identity is its epoch: there is one producer id.  *)
(* A Produce may be lost, answered to nobody, sent again, given up and     *)
(* late.  The coordinators and the logs are external: a broker takes a     *)
(* transactional batch without asking the coordinator whether the          *)
(* partition is in the transaction, as brokers before KIP-890 do, so that  *)
(* enrolling is up to the client.                                          *)
(***************************************************************************)
EXTENDS Integers, Sequences, FiniteSets, SequencesExt

CONSTANTS
  Partitions,   \* partitions the application writes to
  Offsets,      \* the partition of __consumer_offsets that holds its group's
  NumRecords,   \* records the application hands over (a bound)
  PartitionOf,  \* the partition of each record
  Refusals,     \* records that a broker refuses (MESSAGE_TOO_LARGE, ...)
  MaxTxns,      \* bound on transactions begun
  MaxRivals,    \* bound on claims of the transactional id by other producers
  MaxLosses,    \* bound on requests that fail, are late or lose their answer
  Bumps         \* whether EndTxn bumps the epoch (KIP-890): a set of Booleans

Records == 1..NumRecords
Places  == Partitions \cup {Offsets}

ASSUME TransactionsAssumption ==
  /\ NumRecords \in Nat /\ MaxTxns \in Nat /\ MaxRivals \in Nat /\ MaxLosses \in Nat
  /\ Offsets \notin Partitions /\ PartitionOf \in [Records -> Partitions]
  /\ Refusals \subseteq Records /\ Bumps \subseteq BOOLEAN

VARIABLES
  txn,      \* Transactions.state
  app,      \* the application's call under way, see Calls
  failed,   \* whether the last call of this transaction failed
  begun,    \* transactions begun so far; the current one's number
  handed,   \* records 1..handed were handed to the accumulator
  within,   \* and the transaction each was handed over in
  commands, \* the accumulator's command channel: records, and Flush
  actor,    \* the actor's own state
  pc,       \* where the actor's turn is
  waiting,  \* a flush the actor has taken and not answered
  flight,   \* the batch in flight on each partition, or NoBatch
  outcome,  \* what each record's Delivery says
  ask,      \* the coordinator call the application and the actor await
  coord,    \* the transaction coordinator
  log,      \* the log of each partition
  fence,    \* the newest epoch that each partition has seen
  stray,    \* Produce requests on their way whose send task waits no longer
  unsure,   \* history: records that failed although they may be written
  losses,
  rivals,   \* how often another producer has claimed the transactional id
  told      \* history: what the application was told of each transaction

appVars    == <<app, failed, begun, told>>
handVars   == <<handed, within>>
actorVars  == <<actor, pc, waiting>>
brokerVars == <<coord, log, fence, stray, unsure>>
vars == <<txn, appVars, handVars, commands, actorVars, flight, outcome, ask,
          brokerVars, losses, rivals>>

NoIdentity == 0
NoBatch == [rec |-> 0, epoch |-> 0, seq |-> 0, inTxn |-> FALSE, lost |-> FALSE, code |-> "none"]
Flush == 0
NoAsk == [op |-> "none", epoch |-> 0, parts |-> {}, code |-> "none", got |-> 0]
Calls == {"none", "init", "offsets", "commit", "abort", "end_commit", "end_abort"}

\* What a transaction's records have become when it ended with EndTxn(op).
Fate(op) == IF op = "commit" THEN "committed" ELSE "aborted"

Init ==
  /\ txn = [identity |-> NoIdentity, open |-> FALSE, enrolled |-> {}, fenced |-> FALSE]
  /\ app = "none" /\ failed = FALSE /\ begun = 0 /\ told = [n \in 1..MaxTxns |-> "nothing"]
  /\ handed = 0 /\ within = [r \in Records |-> 0]
  /\ commands = <<>>
  /\ actor = [identity |-> NoIdentity, next |-> [p \in Partitions |-> 0],
              pending |-> [p \in Partitions |-> <<>>], missing |-> {}]
  /\ pc = "select" /\ waiting = FALSE
  /\ flight = [p \in Partitions |-> NoBatch] /\ outcome = [r \in Records |-> "pending"]
  /\ ask = [a \in {"app", "actor"} |-> NoAsk]
  /\ \E b \in Bumps : coord = [epoch |-> 0, parts |-> {}, status |-> "empty", bumps |-> b]
  /\ log = [p \in Places |-> <<>>] /\ fence = [p \in Places |-> 0]
  /\ stray = {} /\ unsure = {} /\ losses = 0 /\ rivals = 0

-----------------------------------------------------------------------------
(* Coordinator calls: call_coordinator.  Its re-ask loop sends the request  *)
(* again while the coordinator is not ready, and Cluster::dispatch while    *)
(* the transport fails; what comes out is an answer, or "failed": a         *)
(* coordinator that was not ready for the whole budget, or a transport      *)
(* error, after which nobody knows whether the request was carried out.     *)

Ask(a, op, epoch, parts) ==
  ask' = [ask EXCEPT ![a] = [NoAsk EXCEPT !.op = op, !.epoch = epoch, !.parts = parts]]

Answered(a, op) == ask[a].op = op /\ ask[a].code # "none"

\* Transactions::note, for the code of an answer.
Noted(t, code) ==
  IF code = "fenced" THEN [t EXCEPT !.fenced = TRUE, !.open = FALSE] ELSE t

-----------------------------------------------------------------------------
(* The application *)

\* init_transactions, to its await and from it: "called once before any
\* transaction", and again if that fails.
StartInit ==
  /\ app = "none" /\ txn.identity = NoIdentity /\ ~txn.fenced
  /\ app' = "init" /\ Ask("app", "init", 0, {})
  /\ UNCHANGED <<txn, failed, begun, told, handVars, commands, actorVars, flight,
                 outcome, brokerVars, losses, rivals>>

FinishInit ==
  /\ Answered("app", "init")
  /\ txn' = IF ask["app"].code = "ok"
            THEN [txn EXCEPT !.identity = ask["app"].got, !.open = FALSE, !.enrolled = {}]
            ELSE Noted(txn, ask["app"].code)
  /\ failed' = (failed /\ ask["app"].code # "ok")
  /\ app' = "none" /\ ask' = [ask EXCEPT !["app"] = NoAsk]
  /\ UNCHANGED <<begun, told, handVars, commands, actorVars, flight, outcome,
                 brokerVars, losses, rivals>>

begin ==
  /\ app = "none" /\ begun < MaxTxns
  /\ ~txn.fenced /\ txn.identity # NoIdentity /\ ~txn.open
  /\ txn' = [txn EXCEPT !.open = TRUE, !.enrolled = {}]
  /\ begun' = begun + 1 /\ failed' = FALSE
  /\ UNCHANGED <<app, told, handVars, commands, actorVars, flight, outcome, ask,
                 brokerVars, losses, rivals>>

\* A record is handed to the accumulator.  An application that follows the
\* guide does so inside a transaction in which no call has failed.
Enqueue ==
  /\ handed < NumRecords
  /\ app = "none" /\ txn.open /\ ~failed
  /\ handed' = handed + 1
  /\ within' = [within EXCEPT ![handed + 1] = begun]
  /\ commands' = Append(commands, handed + 1)
  /\ UNCHANGED <<txn, appVars, actorVars, flight, outcome, ask, brokerVars, losses, rivals>>

\* send_offsets_to_transaction: AddOffsetsToTxn, and then TxnOffsetCommit.
\* Once per transaction, to bound the behaviours.
SendOffsets ==
  /\ app = "none" /\ ~txn.fenced /\ txn.open /\ ~failed
  /\ \A i \in DOMAIN log[Offsets] : log[Offsets][i].of # begun
  /\ app' = "offsets" /\ Ask("app", "add", txn.identity, {Offsets})
  /\ UNCHANGED <<txn, failed, begun, told, handVars, commands, actorVars, flight,
                 outcome, brokerVars, losses, rivals>>

OffsetsAdded ==
  /\ app = "offsets" /\ Answered("app", "add")
  /\ \/ /\ ask["app"].code = "ok"
        /\ Ask("app", "offsets", ask["app"].epoch, {Offsets})
        /\ UNCHANGED <<txn, app, failed>>
     \/ /\ ask["app"].code # "ok"
        /\ txn' = Noted(txn, ask["app"].code)
        /\ app' = "none" /\ failed' = TRUE /\ ask' = [ask EXCEPT !["app"] = NoAsk]
  /\ UNCHANGED <<begun, told, handVars, commands, actorVars, flight, outcome,
                 brokerVars, losses, rivals>>

OffsetsSent ==
  /\ app = "offsets" /\ Answered("app", "offsets")
  /\ txn' = Noted(txn, ask["app"].code)
  /\ app' = "none" /\ failed' = (ask["app"].code # "ok")
  /\ ask' = [ask EXCEPT !["app"] = NoAsk]
  /\ UNCHANGED <<begun, told, handVars, commands, actorVars, flight, outcome,
                 brokerVars, losses, rivals>>

\* Ends the transaction with records still in the accumulator.
EndWithoutFlush(op) ==
  /\ app = "none" /\ txn.open /\ (failed => op = "abort")
  /\ app' = (IF op = "commit" THEN "end_commit" ELSE "end_abort")
  /\ UNCHANGED <<txn, failed, begun, told, handVars, commands, actorVars, flight,
                 outcome, ask, brokerVars, losses, rivals>>

\* commit_transaction and abort_transaction flush first.  After a call that
\* failed the application aborts.
StartEnd(op) ==
  /\ app = "none" /\ txn.open /\ (failed => op = "abort")
  /\ app' = op
  /\ commands' = Append(commands, Flush)
  /\ UNCHANGED <<txn, failed, begun, told, handVars, actorVars, flight, outcome,
                 ask, brokerVars, losses, rivals>>

\* end(commit), to its await: it fails unless a transaction is open.
SendEnd(op) ==
  /\ app = (IF op = "commit" THEN "end_commit" ELSE "end_abort")
  /\ ask["app"] = NoAsk
  /\ IF ~txn.fenced /\ txn.open
     THEN Ask("app", op, txn.identity, {}) /\ UNCHANGED <<app, failed>>
     ELSE app' = "none" /\ failed' = TRUE /\ UNCHANGED ask
  /\ UNCHANGED <<txn, begun, told, handVars, commands, actorVars, flight, outcome,
                 brokerVars, losses, rivals>>

\* end(commit), from its await.
FinishEnd(op) ==
  /\ Answered("app", op)
  /\ IF ask["app"].code = "ok"
     THEN /\ txn' = [txn EXCEPT
                       !.identity = IF ask["app"].got > 0 THEN ask["app"].got ELSE @,
                       !.open = FALSE, !.enrolled = {}]
          /\ told' = [told EXCEPT ![begun] = Fate(op)] /\ UNCHANGED failed
     ELSE /\ txn' = Noted(txn, ask["app"].code) /\ failed' = TRUE /\ UNCHANGED told
  /\ app' = "none" /\ ask' = [ask EXCEPT !["app"] = NoAsk]
  /\ UNCHANGED <<begun, handVars, commands, actorVars, flight, outcome,
                 brokerVars, losses, rivals>>

-----------------------------------------------------------------------------
(* The actor: Actor::run, one event and then ensure_identity,               *)
(* ensure_enrolled, dispatch_ready and settle_flushes.  There is always an  *)
(* identity once a transaction is open, so that next_deadline's retry of    *)
(* the claim has nothing to do.                                             *)

\* Numbers on across a change of the epoch.
KeepSequences(A) == [A EXCEPT !.identity = txn.identity]

\* ensure_identity for a transactional producer.
ensure_identity(A) ==
  IF A.identity = txn.identity THEN A
  ELSE [A EXCEPT !.identity = txn.identity, !.next = [p \in Partitions |-> 0]]

Event(A) == actor' = ensure_identity(A) /\ pc' = "missing"

HandleAppend ==
  /\ pc = "select" /\ commands # <<>> /\ Head(commands) # Flush
  /\ LET r == Head(commands)
     IN  Event([actor EXCEPT !.pending[PartitionOf[r]] = Append(@, r)])
  /\ commands' = Tail(commands)
  /\ UNCHANGED <<txn, appVars, handVars, waiting, flight, outcome, ask, brokerVars, losses, rivals>>

\* Leaves the flush to the next turn.
FlushEndsTurn ==
  /\ pc = "select" /\ commands # <<>> /\ Head(commands) = Flush
  /\ waiting' = TRUE
  /\ commands' = Tail(commands)
  /\ UNCHANGED <<txn, appVars, handVars, actor, pc, flight, outcome, ask, brokerVars, losses, rivals>>

HandleFlush ==
  /\ pc = "select" /\ commands # <<>> /\ Head(commands) = Flush
  /\ Event(actor) /\ waiting' = TRUE
  /\ commands' = Tail(commands)
  /\ UNCHANGED <<txn, appVars, handVars, flight, outcome, ask, brokerVars, losses, rivals>>

\* settle: a failed batch gives its number back, also one whose outcome is
\* unknown, and one that was refused for the producer's state resets identity
\* and sequences.
HandleCompleted(p) ==
  /\ pc = "select" /\ flight[p].code # "none"
  /\ LET b == flight[p]
         A == IF b.code = "ok" THEN actor ELSE [actor EXCEPT !.next[p] = b.seq]
     IN  Event(IF b.code \in {"fenced", "out_of_order"}
               THEN [A EXCEPT !.identity = NoIdentity, !.next = [q \in Partitions |-> 0]]
               ELSE A)
  /\ flight' = [flight EXCEPT ![p] = NoBatch]
  /\ UNCHANGED <<txn, appVars, handVars, commands, waiting, outcome, ask, brokerVars, losses, rivals>>

Free(p) == flight[p] = NoBatch /\ actor.pending[p] # <<>>

\* ensure_enrolled up to enrol: is_open and unenrolled.
FindMissing ==
  /\ pc = "missing"
  /\ LET missing == IF txn.open THEN {p \in Partitions : Free(p)} \ txn.enrolled ELSE {}
     IN  /\ actor' = [actor EXCEPT !.missing = missing]
         /\ pc' = IF missing = {} THEN "dispatch" ELSE "enrol"
  /\ UNCHANGED <<txn, appVars, handVars, commands, waiting, flight, outcome, ask,
                 brokerVars, losses, rivals>>

\* The batches of the partitions that could not be enrolled fail.
FailMissing ==
  /\ outcome' = [r \in Records |->
       IF \E p \in actor.missing : r \in ToSet(actor.pending[p]) THEN "failed" ELSE outcome[r]]
  /\ actor' = [actor EXCEPT
       !.pending = [p \in Partitions |-> IF p \in actor.missing THEN <<>> ELSE @[p]],
       !.missing = {}]
  /\ pc' = "dispatch"

\* Notes the partitions as enrolled before it has asked.
EnrolEagerly ==
  /\ pc = "enrol"
  /\ IF ~txn.fenced /\ txn.identity # NoIdentity
     THEN /\ Ask("actor", "add", txn.identity, actor.missing)
          /\ txn' = [txn EXCEPT !.enrolled = @ \cup actor.missing]
          /\ pc' = "enrolling" /\ UNCHANGED <<actor, outcome>>
     ELSE FailMissing /\ UNCHANGED <<ask, txn>>
  /\ UNCHANGED <<appVars, handVars, commands, waiting, flight, brokerVars, losses, rivals>>

\* enrol, to its await and from it.
StartEnrol ==
  /\ pc = "enrol"
  /\ IF ~txn.fenced /\ txn.identity # NoIdentity
     THEN /\ Ask("actor", "add", txn.identity, actor.missing)
          /\ pc' = "enrolling" /\ UNCHANGED <<actor, outcome>>
     ELSE FailMissing /\ UNCHANGED ask
  /\ UNCHANGED <<txn, appVars, handVars, commands, waiting, flight, brokerVars, losses, rivals>>

FinishEnrol ==
  /\ pc = "enrolling" /\ Answered("actor", "add")
  /\ ask' = [ask EXCEPT !["actor"] = NoAsk]
  /\ \/ /\ ask["actor"].code = "ok"
        /\ txn' = [txn EXCEPT !.enrolled = @ \cup actor.missing]
        /\ actor' = [actor EXCEPT !.missing = {}]
        /\ pc' = "dispatch" /\ UNCHANGED outcome
     \/ ask["actor"].code # "ok" /\ txn' = Noted(txn, ask["actor"].code) /\ FailMissing
  /\ UNCHANGED <<appVars, handVars, commands, waiting, flight, brokerVars, losses, rivals>>

\* The partitions dispatch_ready takes a batch from.  It locks the state once
\* for is_open and once more for every partition.  One step is enough: what is
\* free here was free in ensure_enrolled, which enrolled it or failed it.
Ready == {p \in Partitions : /\ Free(p) /\ actor.identity # NoIdentity
                             /\ txn.open => p \in txn.enrolled}

\* dispatch_ready, settle_flushes and forget_idle.
Dispatch ==
  /\ pc = "dispatch" /\ pc' = "select"
  /\ flight' = [p \in Partitions |->
       IF p \notin Ready THEN flight[p]
       ELSE [rec |-> Head(actor.pending[p]), epoch |-> actor.identity,
             seq |-> actor.next[p], inTxn |-> txn.open, lost |-> FALSE, code |-> "none"]]
  /\ actor' = [actor EXCEPT
       !.pending = [p \in Partitions |-> IF p \in Ready THEN Tail(@[p]) ELSE @[p]],
       !.next = [p \in Partitions |-> IF p \in Ready THEN @[p] + 1 ELSE @[p]]]
  /\ LET idle == \A p \in Partitions : flight'[p] = NoBatch /\ actor'.pending[p] = <<>>
     IN  /\ waiting' = (waiting /\ ~idle)
         /\ app' = IF waiting /\ idle
                   THEN (IF app = "commit" THEN "end_commit" ELSE "end_abort") ELSE app
  /\ UNCHANGED <<txn, failed, begun, told, handVars, commands, outcome, ask,
                 brokerVars, losses, rivals>>

-----------------------------------------------------------------------------
(* External: the transaction coordinator, the group coordinator, brokers.   *)

Entry(of, rec, b) ==
  [of |-> of, rec |-> rec, epoch |-> b.epoch, fate |-> IF b.inTxn THEN "open" ELSE "plain"]

\* The markers of a transaction that ended, under epoch e.
Marked(fate) ==
  [p \in Places |->
     IF p \notin coord.parts THEN log[p]
     ELSE [i \in DOMAIN log[p] |->
             IF log[p][i].fate = "open" THEN [log[p][i] EXCEPT !.fate = fate] ELSE log[p][i]]]

Markers(fate, e) ==
  /\ log' = Marked(fate)
  /\ fence' = [p \in Places |-> IF p \in coord.parts THEN e ELSE fence[p]]

\* An answer arrives, or it is lost: then the request is sent again, or the
\* attempts are spent.
Reply(a, code, got) ==
  LET answer(c) == ask' = [ask EXCEPT ![a].code = c, ![a].got = got] IN
  \/ answer(code) /\ UNCHANGED losses
  \/ losses < MaxLosses /\ losses' = losses + 1 /\ (UNCHANGED ask \/ answer("failed"))

Asked(a, op) == ask[a].op = op /\ ask[a].code = "none"

\* A claim of the id aborts what its previous holder left open.
Claimed ==
  /\ coord' = [coord EXCEPT !.epoch = @ + 1, !.parts = {}, !.status = "empty"]
  /\ IF coord.status = "ongoing" THEN Markers("aborted", coord.epoch + 1)
                                 ELSE UNCHANGED <<log, fence>>

others == <<txn, appVars, handVars, commands, actorVars, flight, outcome>>
strays == <<stray, unsure>>

ServeInit ==
  /\ Asked("app", "init")
  /\ Claimed /\ Reply("app", "ok", coord.epoch + 1)
  /\ UNCHANGED <<others, strays, rivals>>

RivalClaims ==
  /\ coord.epoch > 0 /\ rivals < MaxRivals
  /\ rivals' = rivals + 1
  /\ Claimed
  /\ UNCHANGED <<others, strays, ask, losses>>

ServeAdd(a) ==
  /\ Asked(a, "add")
  /\ \/ /\ ask[a].epoch = coord.epoch
        /\ coord' = [coord EXCEPT !.parts = IF coord.status = "ongoing" THEN @ \cup ask[a].parts
                                                                        ELSE ask[a].parts,
                                  !.status = "ongoing"]
        /\ Reply(a, "ok", 0)
     \/ ask[a].epoch # coord.epoch /\ UNCHANGED coord /\ Reply(a, "fenced", 0)
  /\ UNCHANGED <<others, strays, log, fence, rivals>>

ServeEnd(op) ==
  /\ Asked("app", op)
  /\ LET e == ask["app"].epoch
         new == IF coord.bumps THEN coord.epoch + 1 ELSE coord.epoch
     IN  \/ /\ e = coord.epoch /\ coord.status = "ongoing"
            /\ coord' = [coord EXCEPT !.epoch = new, !.parts = {}, !.status = Fate(op)]
            /\ Markers(Fate(op), new)
            /\ Reply("app", "ok", IF coord.bumps THEN new ELSE -1)
         \/ \* the retry of one whose answer was lost
            /\ coord.status = Fate(op) /\ e = (IF coord.bumps THEN coord.epoch - 1 ELSE coord.epoch)
            /\ Reply("app", "ok", IF coord.bumps THEN coord.epoch ELSE -1)
            /\ UNCHANGED brokerVars
         \/ /\ e = coord.epoch /\ coord.status # "ongoing" /\ (coord.bumps \/ coord.status # Fate(op))
            /\ Reply("app", "invalid_txn_state", 0) /\ UNCHANGED brokerVars
         \/ /\ e # coord.epoch /\ ~(coord.bumps /\ e = coord.epoch - 1 /\ coord.status = Fate(op))
            /\ Reply("app", "fenced", 0) /\ UNCHANGED brokerVars
  /\ UNCHANGED <<others, strays, rivals>>

\* The coordinator is not ready for the whole budget, or cannot be reached.
NotServed(a) ==
  /\ ask[a].op # "none" /\ ask[a].code = "none" /\ losses < MaxLosses
  /\ ask' = [ask EXCEPT ![a].code = "failed"]
  /\ losses' = losses + 1
  /\ UNCHANGED <<others, brokerVars, rivals>>

\* The group coordinator stores the offsets, pending the marker, or refuses
\* a stale membership.
ServeOffsets ==
  /\ Asked("app", "offsets")
  /\ \/ /\ ask["app"].epoch >= fence[Offsets]
        /\ log' = [log EXCEPT ![Offsets] =
                     Append(@, Entry(begun, 0, [epoch |-> ask["app"].epoch, inTxn |-> TRUE]))]
        /\ fence' = [fence EXCEPT ![Offsets] = ask["app"].epoch]
        /\ Reply("app", "ok", 0)
     \/ ask["app"].epoch < fence[Offsets] /\ Reply("app", "fenced", 0) /\ UNCHANGED <<log, fence>>
     \/ Reply("app", "illegal_generation", 0) /\ UNCHANGED <<log, fence>>
  /\ UNCHANGED <<others, strays, coord, rivals>>

\* What a broker makes of a batch: an old number is taken for a duplicate.
Expected(p, e) == Cardinality({i \in DOMAIN log[p] : log[p][i].epoch = e})

Verdict(p, b) ==
  IF b.rec \in Refusals THEN "refused"
  ELSE IF b.epoch < fence[p] THEN "fenced"
  ELSE IF b.seq > Expected(p, b.epoch) THEN "out_of_order" ELSE "ok"

Judge(p, b) ==
  IF Verdict(p, b) = "ok" /\ b.seq = Expected(p, b.epoch)
  THEN /\ log' = [log EXCEPT ![p] = Append(@, Entry(within[b.rec], b.rec, b))]
       /\ fence' = [fence EXCEPT ![p] = b.epoch]
  ELSE UNCHANGED <<log, fence>>

-----------------------------------------------------------------------------
(* The send task of a batch: send_group and Dispatcher::dispatch.  Once the *)
(* request is on the wire a failure is ambiguous: the broker may have       *)
(* written the batch, or may still.  An idempotent producer sends it again, *)
(* until the attempts are spent.                                            *)

Sending(p) == flight[p] # NoBatch /\ flight[p].code = "none"

\* The task resolves the record's Delivery and completes.
Judged(p, code) ==
  /\ flight' = [flight EXCEPT ![p].code = code]
  /\ outcome' = [outcome EXCEPT ![flight[p].rec] = IF code = "ok" THEN "ok" ELSE "failed"]
  /\ unsure' = IF code = "unknown" \/ (code # "ok" /\ flight[p].lost)
               THEN unsure \cup {flight[p].rec} ELSE unsure

\* Attempt::Ambiguous: another attempt, or none.
Ambiguous(p) ==
  /\ losses < MaxLosses /\ losses' = losses + 1
  /\ \/ flight' = [flight EXCEPT ![p].lost = TRUE] /\ UNCHANGED <<outcome, unsure>>
     \/ Judged(p, "unknown")

\* The request reaches the broker, and the answer the task, or it is lost.
ServeProduce(p) ==
  /\ Sending(p)
  /\ Judge(p, flight[p])
  /\ \/ Judged(p, Verdict(p, flight[p])) /\ UNCHANGED losses
     \/ Ambiguous(p)
  /\ UNCHANGED <<txn, appVars, handVars, commands, actorVars, ask, coord, stray, rivals>>

\* The request times out on its way, or every attempt fails before anything
\* is sent: Attempt::Rejected, as after a refusal.
LoseProduce(p) ==
  /\ Sending(p)
  /\ \/ /\ Ambiguous(p)
        /\ LET b == flight[p]
           IN  stray' = stray \cup {[at |-> p, rec |-> b.rec, epoch |-> b.epoch, seq |-> b.seq,
                                     inTxn |-> b.inTxn]}
     \/ /\ losses < MaxLosses /\ losses' = losses + 1
        /\ Judged(p, "refused") /\ UNCHANGED stray
  /\ UNCHANGED <<txn, appVars, handVars, commands, actorVars, ask, coord, log, fence, rivals>>

\* A request that nobody waits for reaches its broker.
ServeLate ==
  /\ \E s \in stray : stray' = stray \ {s} /\ Judge(s.at, s)
  /\ UNCHANGED <<txn, appVars, handVars, commands, actorVars, flight, outcome, ask, coord, unsure,
                 losses, rivals>>

-----------------------------------------------------------------------------
AppNext ==
  \/ StartInit \/ FinishInit \/ begin \/ Enqueue
  \/ SendOffsets \/ OffsetsAdded \/ OffsetsSent
  \/ \E op \in {"commit", "abort"} : StartEnd(op) \/ SendEnd(op) \/ FinishEnd(op)

ActorNext ==
  \/ HandleAppend \/ HandleFlush \/ FindMissing \/ StartEnrol \/ FinishEnrol
  \/ Dispatch
  \/ \E p \in Partitions : HandleCompleted(p)

BrokerNext ==
  \/ ServeInit \/ RivalClaims \/ ServeOffsets
  \/ \E a \in {"app", "actor"} : ServeAdd(a) \/ NotServed(a)
  \/ \E op \in {"commit", "abort"} : ServeEnd(op)
  \/ \E p \in Partitions : ServeProduce(p) \/ LoseProduce(p)
  \/ ServeLate

Next == AppNext \/ ActorNext \/ BrokerNext

Spec == Init /\ [][Next]_vars

(* Fairness: the tasks run, and a coordinator call comes to an end, because *)
(* its re-ask loop has a budget and every request a timeout.  Nothing is    *)
(* asked of the application but to wait for its own calls.                  *)
Returns == FinishInit \/ OffsetsAdded \/ OffsetsSent
           \/ \E op \in {"commit", "abort"} : SendEnd(op) \/ FinishEnd(op)

Served(a) == \/ ServeAdd(a) \/ NotServed(a)
             \/ a = "app" /\ (ServeInit \/ ServeOffsets \/ ServeEnd("commit") \/ ServeEnd("abort"))

Fairness ==
  /\ WF_vars(Returns)
  /\ \A a \in {"app", "actor"} : WF_vars(Served(a))
  /\ WF_vars(HandleAppend \/ HandleFlush)
  /\ WF_vars(FindMissing \/ StartEnrol \/ FinishEnrol \/ Dispatch)
  /\ \A p \in Partitions : SF_vars(HandleCompleted(p)) /\ WF_vars(ServeProduce(p))

FairSpec == Spec /\ Fairness

-----------------------------------------------------------------------------
(* Properties *)

EntryType == [of : 0..MaxTxns, rec : 0..NumRecords, epoch : Nat,
              fate : {"open", "plain", "committed", "aborted"}]

Codes == {"none", "ok", "failed", "fenced", "invalid_txn_state",
          "illegal_generation"}

\* The types of the variables.
TypeOK ==
  /\ txn \in [identity : Nat, open : BOOLEAN, enrolled : SUBSET Partitions, fenced : BOOLEAN]
  /\ app \in Calls /\ failed \in BOOLEAN /\ begun \in 0..MaxTxns
  /\ told \in [1..MaxTxns -> {"nothing", "committed", "aborted"}]
  /\ handed \in 0..NumRecords /\ within \in [Records -> 0..MaxTxns]
  /\ commands \in Seq(Records \cup {Flush})
  /\ actor \in [identity : Nat, next : [Partitions -> Nat],
                pending : [Partitions -> Seq(Records)], missing : SUBSET Partitions]
  /\ pc \in {"select", "missing", "enrol", "enrolling", "dispatch"} /\ waiting \in BOOLEAN
  /\ flight \in [Partitions -> [rec : 0..NumRecords, epoch : Nat, seq : Nat, inTxn : BOOLEAN,
        lost : BOOLEAN, code : {"none", "ok", "refused", "fenced", "out_of_order", "unknown"}]]
  /\ outcome \in [Records -> {"pending", "ok", "failed"}]
  /\ ask \in [{"app", "actor"} -> [op : {"none", "init", "add", "offsets", "commit", "abort"},
        epoch : Nat, parts : SUBSET Places, code : Codes, got : Int]]
  /\ coord \in [epoch : Nat, parts : SUBSET Places,
                status : {"empty", "ongoing", "committed", "aborted"}, bumps : BOOLEAN]
  /\ log \in [Places -> Seq(EntryType)] /\ fence \in [Places -> Nat]
  /\ stray \subseteq [at : Partitions, rec : Records, epoch : Nat, seq : Nat, inTxn : BOOLEAN]
  /\ unsure \subseteq Records
  /\ losses \in 0..MaxLosses /\ rivals \in 0..MaxRivals

Entries(p) == {log[p][i] : i \in DOMAIN log[p]}

\* A record whose send was given up may still be written when its transaction
\* is over.  An epoch that every EndTxn bumps keeps it out; without (before
\* KIP-890) nothing does.
Doubtful(e) == ~coord.bumps /\ e.rec \in unsure

\* AddPartitionsToTxn (or AddOffsetsToTxn) precedes the first write to each
\* partition, also one that is late: what is written in a transaction and not
\* decided is in a partition that the coordinator will write a marker to
\* (transactions.rs, rule 1).
EnrolledFirst ==
  \A p \in Places : \A e \in Entries(p) :
    e.fate = "open" /\ ~Doubtful(e) => coord.status = "ongoing" /\ p \in coord.parts

\* A transaction ends as one: whatever calls failed, were repeated or came
\* late, no two writes of it, offsets included, have different fates, and the
\* application was told of the fate they have (end).
AllOrNothing ==
  LET written == {e \in UNION {Entries(p) : p \in Places} :
                    e.fate \in {"committed", "aborted"} /\ ~Doubtful(e)} IN
  /\ \A e, f \in written : e.of = f.of => e.fate = f.fate
  /\ \A p \in Places : \A e \in Entries(p) :
       e.fate # "plain" /\ ~Doubtful(e) /\ told[e.of] # "nothing" => e.fate = told[e.of]

\* A partition whose numbers are certain: no send to it was given up while its
\* outcome was unknown.  The actor gives the number of such a batch to the next
\* one (accumulator.rs:859), which the broker then takes for its duplicate.
Certain(p) == rivals = 0 /\ \A r \in unsure : PartitionOf[r] # p

\* As long as no other producer claims the id, a record that was acknowledged
\* is in the log: the numbers of one epoch are never taken for those of
\* another (ensure_identity), nor given out twice.
AckedIsWritten ==
  \A r \in Records : outcome[r] = "ok" /\ Certain(PartitionOf[r]) =>
    \E e \in Entries(PartitionOf[r]) : e.rec = r

\* Nor does a broker find a gap or a duplicate: a batch on its way carries the
\* number its partition expects under its epoch, unless it is sent again and
\* was written before (ensure_identity, settle, Attempt::retriable).
InSequence ==
  \A p \in Partitions :
    LET b == flight[p]
        written == b.lost /\ \E e \in Entries(p) : e.rec = b.rec
    IN  Certain(p) /\ Sending(p) =>
          b.seq = Expected(p, b.epoch) \/ (written /\ b.seq + 1 = Expected(p, b.epoch))

\* Every call of the application returns (call_coordinator, flush).
CallsReturn == app # "none" ~> app = "none"

\* Under one epoch the batches of a partition are in sequence, and what was
\* acknowledged is in the log (the types come with them).
WrittenInSequence == TypeOK /\ InSequence /\ AckedIsWritten
=============================================================================

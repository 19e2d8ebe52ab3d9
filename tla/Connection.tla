----------------------------- MODULE Connection -----------------------------
(***************************************************************************)
(* The connection of crates/kafka-conn/src/conn.rs: requests of many tasks *)
(* share one socket through a writer task, a reader task and a map of      *)
(* waiters by correlation id, while a fourth task re-authenticates in the  *)
(* background (KIP-368).                                                   *)
(*                                                                         *)
(* A request is one run of send_until: a user's call, or one step of the   *)
(* SASL exchange of a re-authentication.  What a frame says is left out; a *)
(* frame is the correlation id it carries and the request it belongs to.   *)
(* The model issues fewer than 2^31 correlation ids, so that `& i32::MAX`  *)
(* never brings one back.                                                  *)
(***************************************************************************)
EXTENDS Integers, Sequences, FiniteSets

CONSTANTS
  Calls,        \* calls of send, by every user of the connection
  MaxInFlight,  \* config.max_in_flight
  Refused,      \* calls that `permits` or version negotiation may refuse
  Unencodable,  \* calls whose request the codec may fail to encode
  Cancels,      \* calls whose future may be dropped
  Sasl,         \* whether the session expires, so that spawn_reauth runs
  Exchange,     \* how many requests one authentication takes
  MaxRounds,    \* bound on the number of re-authentications
  Breaks        \* whether the peer may close the socket or send garbage

Steps == (1..MaxRounds) \X (1..Exchange)
Requests == Calls \cup Steps

ASSUME ConnectionAssumption ==
  /\ MaxInFlight \in Nat \ {0} /\ Exchange \in Nat \ {0} /\ MaxRounds \in Nat
  /\ Refused \subseteq Calls /\ Unencodable \subseteq Calls /\ Cancels \subseteq Calls
  /\ Sasl \in BOOLEAN /\ Breaks \in BOOLEAN
  /\ \A c \in Calls : c \notin Steps

VARIABLES
  stage,     \* where each request is, see Stages
  result,    \* what each request came to, see Results
  corr,      \* the correlation id of each request, 0 before it has one
  next,      \* Inner.correlation
  permits,   \* what the in-flight semaphore has left
  waiters,   \* Pending.waiters: pairs of an id and the request that waits
  closed,    \* Pending.waiters is None
  told,      \* the answers in a request's oneshot, by the request they answer
  ended,     \* requests whose oneshot carries ConnectionClosed
  commands,  \* the channel to the writer
  writer,    \* "select", "writing", "broken", "drained", "exited"
  sink,      \* the frame in sink.send
  reader,    \* "select", "delivering", "broken", "exited"
  holding,   \* the waiter the reader took, and the frame it will hand it
  wire,      \* frames the broker has, not yet answered
  inbound,   \* answers the reader has not read
  socket,    \* "open" or "shut"
  shutdown,  \* the watch channel
  handles,   \* whether a user still holds a clone of the Connection
  reauth,    \* "off", "sleeping", "waiting", "held" (the gate), "gone"
  round,     \* how many re-authentications have begun
  step       \* how many requests of this one have been sent

request == <<stage, result, corr, next, permits>>
pending == <<waiters, closed, told, ended>>
outward == <<commands, writer, sink>>
inward  == <<reader, holding>>
broker  == <<wire, inbound, socket>>
clones  == <<shutdown, handles>>
session == <<reauth, round, step>>
vars == <<request, pending, outward, inward, broker, clones, session>>

Stages == {"idle", "gate", "permit", "send", "await", "expired", "done"}
Results == {"none", "answered", "closed", "timeout", "refused", "cancelled"}
Frames == [id : Nat, of : Requests]

(* The map of waiters: Pending::register, take and close. *)
take(i) == {w \in waiters : w[1] # i}

insert(i, r) == take(i) \cup {<<i, r>>}

(* A oneshot has a receiver for as long as its request may look at it. *)
Listening(r) == stage[r] \in {"send", "await"}

CloseForgetful == closed' = TRUE /\ waiters' = {} /\ UNCHANGED <<told, ended>>

close_pending ==
  /\ closed' = TRUE
  /\ waiters' = {}
  /\ ended' = ended \cup {r \in Requests : Listening(r) /\ \E i \in {w[1] : w \in waiters} : <<i, r>> \in waiters}
  /\ UNCHANGED told

(* The read half of reauth_gate is held from the start of send_inner to its *)
(* end; the lock is fair, so that a waiting writer keeps new readers out.   *)
Inside == {c \in Calls : stage[c] \in {"permit", "send", "await", "expired"}}

GateAlwaysOpen == TRUE

GateLeaks == reauth \in {"off", "sleeping"}

GateOpen == reauth \notin {"waiting", "held"}

(* The last clone sends shutdown as it drops Inner. *)
LastClone(users, task) == ~users /\ task \in {"off", "gone"}

Holders == {r \in Requests : stage[r] \in {"send", "await"}}

Frame(r) == [id |-> corr[r], of |-> r]

Init ==
  /\ stage = [r \in Requests |-> "idle"] /\ result = [r \in Requests |-> "none"]
  /\ corr = [r \in Requests |-> 0] /\ next = 1 /\ permits = MaxInFlight
  /\ waiters = {} /\ closed = FALSE
  /\ told = [r \in Requests |-> {}] /\ ended = {}
  /\ commands = <<>> /\ writer = "select" /\ sink = {}
  /\ reader = "select" /\ holding = {}
  /\ wire = {} /\ inbound = {} /\ socket = "open"
  /\ shutdown = FALSE /\ handles = TRUE
  /\ reauth = (IF Sasl THEN "sleeping" ELSE "off") /\ round = 0 /\ step = 0

-----------------------------------------------------------------------------
(* A request: send_until, send_inner and round_trip. *)

Move(r, from, to) == stage[r] = from /\ stage' = [stage EXCEPT ![r] = to]

Finish(r, from, what) ==
  /\ Move(r, from, "done")
  /\ result' = [result EXCEPT ![r] = what]

(* correlation.fetch_add(1) *)
NextIdStuck(r) == corr' = [corr EXCEPT ![r] = next] /\ UNCHANGED next

NextId(r) == corr' = [corr EXCEPT ![r] = next] /\ next' = next + 1

Begin(c) ==
  /\ handles
  /\ Move(c, "idle", "gate")
  /\ UNCHANGED <<result, corr, next, permits, pending, outward, inward, broker, clones, session>>

(* reauth_gate.read() is granted: the request is refused before it touches *)
(* anything, or takes an id and is encoded, or fails to encode.            *)
PassGate(c) ==
  /\ GateOpen
  /\ \/ c \in Refused /\ Finish(c, "gate", "refused") /\ UNCHANGED <<corr, next>>
     \/ c \in Unencodable /\ Finish(c, "gate", "refused") /\ NextId(c)
     \/ /\ c \notin Refused \cup Unencodable
        /\ Move(c, "gate", "permit") /\ NextId(c) /\ UNCHANGED result
  /\ UNCHANGED <<permits, pending, outward, inward, broker, clones, session>>

(* The in-flight permit is granted and the waiter registered, unless the   *)
(* connection is dead: then the permit goes back with the error.           *)
AcquirePermit(r) ==
  /\ permits > 0
  /\ \/ /\ ~closed
        /\ Move(r, "permit", "send")
        /\ permits' = permits - 1
        /\ waiters' = insert(corr[r], r)
        /\ UNCHANGED result
     \/ closed /\ Finish(r, "permit", "closed") /\ UNCHANGED <<permits, waiters>>
  /\ UNCHANGED <<corr, next, closed, told, ended, outward, inward, broker, clones, session>>

PermitTimeout(r) ==
  /\ Finish(r, "permit", "timeout")
  /\ UNCHANGED <<corr, next, permits, pending, outward, inward, broker, clones, session>>

(* commands.send: waits for room in the channel, with no deadline. *)
Enqueue(r) ==
  /\ writer # "exited"
  /\ Len(commands) < MaxInFlight
  /\ Move(r, "send", "await")
  /\ commands' = Append(commands, Frame(r))
  /\ UNCHANGED <<result, corr, next, permits, pending, writer, sink, inward, broker, clones, session>>

(* The writer is gone. *)
SendFails(r) ==
  /\ writer = "exited"
  /\ Finish(r, "send", "closed")
  /\ permits' = permits + 1
  /\ waiters' = take(corr[r])
  /\ UNCHANGED <<corr, next, closed, told, ended, outward, inward, broker, clones, session>>

(* rx resolves. *)
Receive(r) ==
  /\ \/ told[r] # {} /\ Finish(r, "await", "answered")
     \/ told[r] = {} /\ r \in ended /\ Finish(r, "await", "closed")
  /\ permits' = permits + 1
  /\ UNCHANGED <<corr, next, pending, outward, inward, broker, clones, session>>

(* The deadline passes first: the permit is dropped, *)
ExpireKeepsPermit(r) ==
  /\ told[r] = {} /\ r \notin ended
  /\ Move(r, "await", "expired")
  /\ UNCHANGED <<result, corr, next, permits, pending, outward, inward, broker, clones, session>>

Expire(r) ==
  /\ told[r] = {} /\ r \notin ended
  /\ Move(r, "await", "expired")
  /\ permits' = permits + 1
  /\ UNCHANGED <<result, corr, next, pending, outward, inward, broker, clones, session>>

(* and then the waiter. *)
TakeBack(r) ==
  /\ Finish(r, "expired", "timeout")
  /\ waiters' = take(corr[r])
  /\ UNCHANGED <<corr, next, permits, closed, told, ended, outward, inward, broker, clones, session>>

(* The caller drops its future: the guards go, the waiter stays. *)
Cancel(c) ==
  /\ c \in Cancels
  /\ \E from \in {"gate", "permit", "send", "await"} : Finish(c, from, "cancelled")
  /\ permits' = IF Listening(c) THEN permits + 1 ELSE permits
  /\ UNCHANGED <<corr, next, pending, outward, inward, broker, clones, session>>

-----------------------------------------------------------------------------
(* The two tasks of spawn. *)

TakeFrame ==
  /\ writer = "select" /\ commands # <<>>
  /\ writer' = "writing" /\ sink' = {Head(commands)} /\ commands' = Tail(commands)
  /\ UNCHANGED <<request, pending, inward, broker, clones, session>>

Written ==
  /\ writer = "writing" /\ socket = "open"
  /\ wire' = wire \cup sink
  /\ writer' = "select" /\ sink' = {}
  /\ UNCHANGED <<request, pending, commands, inward, inbound, socket, clones, session>>

(* sink.send fails, or shutdown is seen in the select. *)
WriterBreaks ==
  /\ \/ writer = "writing" /\ socket = "shut"
     \/ writer = "select" /\ shutdown
  /\ writer' = "broken" /\ sink' = {}
  /\ UNCHANGED <<request, pending, commands, inward, broker, clones, session>>

(* pending.close, and then the receiving half of the channel is dropped. *)
WriterExits ==
  \/ /\ writer = "broken" /\ writer' = "drained"
     /\ close_pending
     /\ UNCHANGED <<request, commands, sink, inward, broker, clones, session>>
  \/ /\ writer = "drained" /\ writer' = "exited"
     /\ commands' = <<>>
     /\ UNCHANGED <<request, pending, sink, inward, broker, clones, session>>

(* A response is routed by the correlation id it carries: the reader takes *)
(* the waiter, and then hands it the frame.                                *)
Route(f) ==
  /\ waiters' = take(f.id)
  /\ \/ \E w \in waiters : w[1] = f.id /\ reader' = "delivering" /\ holding' = {<<w[2], f.of>>}
     \/ (\A w \in waiters : w[1] # f.id) /\ UNCHANGED <<reader, holding>>

ReadFrame ==
  /\ reader = "select"
  /\ \E f \in inbound : Route(f) /\ inbound' = inbound \ {f}
  /\ UNCHANGED <<request, closed, told, ended, outward, wire, socket, clones, session>>

Deliver ==
  /\ reader = "delivering" /\ reader' = "select" /\ holding' = {}
  /\ told' = [r \in Requests |->
                IF Listening(r) THEN told[r] \cup {q \in Requests : <<r, q>> \in holding}
                                ELSE told[r]]
  /\ UNCHANGED <<request, waiters, closed, ended, outward, broker, clones, session>>

(* The stream ends or fails, a frame cannot be read, or shutdown is seen. *)
ReaderBreaks ==
  /\ reader = "select"
  /\ socket = "shut" \/ shutdown \/ (Breaks /\ inbound # {})
  /\ reader' = "broken"
  /\ UNCHANGED <<request, pending, outward, holding, broker, clones, session>>

ReaderExits ==
  /\ reader = "broken" /\ reader' = "exited"
  /\ close_pending
  /\ UNCHANGED <<request, outward, holding, broker, clones, session>>

-----------------------------------------------------------------------------
(* Re-authentication: spawn_reauth. *)

(* The requests of the round under way. *)
Step(i) == <<round, i>>

SleepEnds ==
  /\ reauth = "sleeping" /\ round < MaxRounds
  /\ reauth' = "waiting"
  /\ UNCHANGED <<request, pending, outward, inward, broker, clones, round, step>>

GateWrite ==
  /\ reauth = "waiting" /\ Inside = {}
  /\ reauth' = "held" /\ round' = round + 1 /\ step' = 0
  /\ UNCHANGED <<request, pending, outward, inward, broker, clones>>

(* Every step so far was answered and accepted, so the next goes out.  It  *)
(* calls send_inner: the gate is already held.                             *)
SendStep ==
  /\ reauth = "held" /\ step < Exchange
  /\ step > 0 => result[Step(step)] = "answered"
  /\ Move(Step(step + 1), "idle", "permit") /\ NextId(Step(step + 1))
  /\ step' = step + 1
  /\ UNCHANGED <<result, permits, pending, outward, inward, broker, clones, reauth, round>>

(* The broker grants another session, with or without an end. *)
Accepted ==
  /\ reauth = "held" /\ step = Exchange /\ result[Step(step)] = "answered"
  /\ reauth' \in {"sleeping", "gone"}
  /\ shutdown' = (shutdown \/ LastClone(handles, reauth'))
  /\ UNCHANGED <<request, pending, outward, inward, broker, handles, round, step>>

(* A step failed or was refused: the task closes the connection. *)
Rejected ==
  /\ reauth = "held" /\ step > 0 /\ stage[Step(step)] = "done"
  /\ reauth' = "gone" /\ shutdown' = TRUE
  /\ close_pending
  /\ UNCHANGED <<request, outward, inward, broker, handles, round, step>>

ReauthStops ==
  /\ reauth = "sleeping" /\ shutdown
  /\ reauth' = "gone"
  /\ UNCHANGED <<request, pending, outward, inward, broker, clones, round, step>>

-----------------------------------------------------------------------------
(* The users and the broker. *)

close ==
  /\ handles /\ ~shutdown
  /\ shutdown' = TRUE
  /\ close_pending
  /\ UNCHANGED <<request, outward, inward, broker, handles, session>>

DropHandles ==
  /\ handles /\ \A c \in Calls : stage[c] \in {"idle", "done"}
  /\ handles' = FALSE
  /\ shutdown' = (shutdown \/ LastClone(FALSE, reauth))
  /\ UNCHANGED <<request, pending, outward, inward, broker, session>>

Answer ==
  /\ socket = "open"
  /\ \E f \in wire : wire' = wire \ {f} /\ inbound' = inbound \cup {f}
  /\ UNCHANGED <<request, pending, outward, inward, socket, clones, session>>

PeerCloses ==
  /\ Breaks /\ socket = "open"
  /\ socket' = "shut"
  /\ UNCHANGED <<request, pending, outward, inward, wire, inbound, clones, session>>

(* Both tasks have come to an end, or the re-authentications the bound     *)
(* allows are spent.                                                       *)
Resting ==
  /\ writer = "exited" /\ reader = "exited"
  /\ UNCHANGED vars

Spent ==
  /\ ~handles /\ reauth = "sleeping" /\ round = MaxRounds
  /\ UNCHANGED vars

Request(r) ==
  \/ AcquirePermit(r) \/ PermitTimeout(r) \/ Enqueue(r) \/ SendFails(r)
  \/ Receive(r) \/ Expire(r) \/ TakeBack(r)

Next ==
  \/ \E c \in Calls : Begin(c) \/ PassGate(c) \/ Cancel(c)
  \/ \E r \in Requests : Request(r)
  \/ TakeFrame \/ Written \/ WriterBreaks \/ WriterExits
  \/ ReadFrame \/ Deliver \/ ReaderBreaks \/ ReaderExits
  \/ SleepEnds \/ GateWrite \/ SendStep \/ Accepted \/ Rejected \/ ReauthStops
  \/ close \/ DropHandles \/ Answer \/ PeerCloses
  \/ Resting \/ Spent

Spec == Init /\ [][Next]_vars

(* What the tasks of the client do, they do eventually: the executor runs   *)
(* every task that is ready, and a deadline passes.  Nothing is asked of    *)
(* the users, of the broker, or of how long a session lasts.                *)
ClientFairness ==
  /\ \A r \in Requests :
       /\ WF_vars(AcquirePermit(r)) /\ WF_vars(PermitTimeout(r))
       /\ WF_vars(Enqueue(r)) /\ WF_vars(SendFails(r))
       /\ WF_vars(Receive(r)) /\ WF_vars(Expire(r)) /\ WF_vars(TakeBack(r))
  /\ \A c \in Calls : WF_vars(PassGate(c))
  /\ WF_vars(TakeFrame) /\ WF_vars(WriterBreaks) /\ WF_vars(WriterExits)
  /\ WF_vars(ReadFrame) /\ WF_vars(Deliver) /\ WF_vars(ReaderExits)
  /\ WF_vars((shutdown \/ socket = "shut") /\ ReaderBreaks)
  /\ WF_vars(GateWrite) /\ WF_vars(SendStep) /\ WF_vars(ReauthStops)
  /\ WF_vars(Accepted \/ Rejected)

(* The peer keeps taking bytes, or the socket fails: sink.send returns. *)
FairSpec == Spec /\ ClientFairness /\ WF_vars(Written)

-----------------------------------------------------------------------------
(* Properties. *)

TypeOK ==
  /\ stage \in [Requests -> Stages] /\ result \in [Requests -> Results]
  /\ corr \in [Requests -> Nat] /\ next \in Nat \ {0}
  /\ permits \in 0..MaxInFlight
  /\ waiters \subseteq Nat \X Requests /\ closed \in BOOLEAN
  /\ told \in [Requests -> SUBSET Requests] /\ ended \subseteq Requests
  /\ commands \in Seq(Frames) /\ sink \subseteq Frames
  /\ writer \in {"select", "writing", "broken", "drained", "exited"}
  /\ reader \in {"select", "delivering", "broken", "exited"}
  /\ holding \subseteq Requests \X Requests
  /\ wire \subseteq Frames /\ inbound \subseteq Frames /\ socket \in {"open", "shut"}
  /\ shutdown \in BOOLEAN /\ handles \in BOOLEAN
  /\ reauth \in {"off", "sleeping", "waiting", "held", "gone"}
  /\ round \in 0..MaxRounds /\ step \in 0..Exchange

(* However requests, answers, deadlines and cancellations interleave, the  *)
(* reader never hands a request the answer to another one (spawn's reader, *)
(* Pending::take).                                                         *)
RightAnswer == \A r \in Requests : told[r] \subseteq {r}

(* No request waits for nothing: while it holds its oneshot, its waiter is *)
(* in the map, or in the reader's hands, or the oneshot has its message;   *)
(* and once a task of the connection has exited the map is gone, so the    *)
(* waiter is not in it (Pending::register against Pending::close).         *)
NobodyLeftWaiting ==
  /\ \A r \in Holders :
       \/ ~closed /\ writer # "exited" /\ reader # "exited" /\ <<corr[r], r>> \in waiters
       \/ \E q \in Requests : <<r, q>> \in holding
       \/ told[r] # {} \/ r \in ended
  /\ closed => waiters = {}

(* Permits are neither lost nor made: whatever way a request ends, the     *)
(* semaphore and the requests that hold a permit account for max_in_flight.*)
PermitsConserved == permits + Cardinality(Holders) = MaxInFlight

(* Every frame of a call that is still to be written goes out before the   *)
(* frame of step s.                                                        *)
CallsAheadOf(s) ==
  /\ \A k \in 1..Len(commands) : commands[k].of \in Calls =>
       \E l \in k+1..Len(commands) : commands[l].of = s
  /\ (\E f \in sink : f.of \in Calls) => \E l \in 1..Len(commands) : commands[l].of = s

(* Normal traffic never comes between the frames of a re-authentication:   *)
(* while one is under way, a call's frame still to be written is ahead of  *)
(* every step of it that was sent (reauth_gate).                           *)
ReauthUninterrupted ==
  reauth = "held" =>
    \A i \in 1..step :
      (stage[Step(i)] = "await" \/ result[Step(i)] = "answered") => CallsAheadOf(Step(i))

(* Every call returns, whatever becomes of the socket: with an answer, an  *)
(* error or at its deadline (send_until).                                  *)
EveryCallResolves == \A c \in Calls : (stage[c] = "gate") ~> (stage[c] = "done")

(* Closing the connection ends its tasks, and a re-authentication with     *)
(* them (close, Drop for Inner).                                           *)
ShutdownStops ==
  shutdown ~> (writer = "exited" /\ reader = "exited" /\ reauth \in {"off", "gone"})

\* Every call returns, and a shutdown ends the tasks.
CallsEnd == EveryCallResolves /\ ShutdownStops
=============================================================================
